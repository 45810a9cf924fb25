CONSTANTS
    NWorkers = 3
    NIslands = 4
    NFew = 2
    Count <- RoundRobin
    StoreBuffering = TRUE
SPECIFICATION MixSpec
PROPERTY WorkersFinish EachImplementsPool
CHECK_DEADLOCK FALSE
