SPECIFICATION MixSpec
CONSTANTS
    Objects = {"x", "y"}
    LeaseTtl = 4
    Roots = {"x", "module"}
    MaxOps = 2
    MaxSeq = 11
    MaxTxs = 2
    MaxFaults = 2
    Faults = {"crash", "io"}
INVARIANTS QueueFrozen OneHolder Durable
CHECK_DEADLOCK FALSE
