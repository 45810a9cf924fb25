SPECIFICATION MixSpec
CONSTANTS
    Loci = {"p", "q", "a", "b", "c", "h"}
    None = None
    CellMm = 3
    ProcessCap = 6
    Canons = {"first", "second"}
    Opaque <- OpaqueMC
    Names <- NamesMC
    Resumable <- ResumableMC
    Catalog <- CatalogMC
    Seeds <- SeedsMC
    Hulls <- HullsMC
    Spots = {0, 5}
    Sweeps <- SweepsMC
    MaxOps = 5
INVARIANTS CandidatesExact PagingKeeps
PROPERTY ImplementsRows
CHECK_DEADLOCK FALSE
