CONSTANTS
    Skips = {1, 2}
    MaxTick = 4
    MaxIntents = 2
    MaxEpoch = 2
    MaxSets = 2
SPECIFICATION MixSpec
INVARIANTS InStep EpochIntents ConsumedInOrder
PROPERTIES Rejoins
CHECK_DEADLOCK FALSE
