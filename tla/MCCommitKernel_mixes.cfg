\* Five kinds of traffic, one per initial state: spatial producers against a
\* boarding player, retries and ambiguous classes, rewound shots, Canon
\* epochs, Places loaded and evicted.
SPECIFICATION MixSpec
CHECK_DEADLOCK FALSE
CONSTANTS
    Loci <- Sigils4
    Places <- TwoPlaces
    Bodies <- Vehicles
    Driven = {}
    Hittable = {}
    Slots <- PlayerSlots
    IslandIds <- OneIsland
    Poses <- TwoPoses
    Catalog <- PlaceSnaps
    Start <- Seeded
    Grains <- AllGrains
    SyncBatches <- AllSyncs
    Regs = {0, 1}
    Ticks = {1, 2}
    Caps = {0, 2}
    EvalSlo = 2
    Period = 2
    Canons <- TwoCanons
    Canon0 = "a"
    Omits <- TooLarge
    MaxTick = 4
    MaxHeap = 3
    MaxEpoch = 2
INVARIANTS
    OnePoseWriter RidersStayAtHost ClassesDecidedOnce RewoundToNewest
    NothingOutlivesEpoch 
    ResidencyOnItsPrefix
