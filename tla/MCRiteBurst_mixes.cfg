CONSTANTS
    Actors <- TwoActors
    Props <- HostAndPart
    SigilOrder <- Order
    Canons <- Fixtures
    Packs <- Edits
    Partitions <- Worlds
    Hittable <- Host
    Destructible <- Host
    PartOf <- Seeded
    RiteOrder <- Listed
    Health <- Whole
    RiteSteps = {6, 40}
    Ticks = {1, 2}
    Orders <- Strikes
    Claimable <- Sweeps
    MaxAge = 3
    MaxEpoch = 1
SPECIFICATION MixSpec
INVARIANTS NoHalfBurst OneHitPerAction HitsAreWitnessed CollapsedOnce
PROPERTIES WaitTakesAStep ActionsEnd
CHECK_DEADLOCK FALSE
