CONSTANTS
    m1 = m1
    m2 = m2
    Movers = {m1, m2}
    MaxPose = 1
    MaxDpose = 0
    Refresh = 2
    GenMod = 10
    Skips = {1, 2}
    MaxSets = 3
    WireCap = 2
    Transports = {{}, {"loss", "overtake"}, {"shuffle"}}
SPECIFICATION MixSpec
INVARIANTS RowsDecode
PROPERTIES NoRollback Converges
