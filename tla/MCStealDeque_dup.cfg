CONSTANTS
    NWorkers = 2
    NIslands = 3
    NFew = 1
    Count <- RoundRobin
    StoreBuffering = TRUE
SPECIFICATION Spec
INVARIANT ClaimedOnce
CHECK_DEADLOCK FALSE
