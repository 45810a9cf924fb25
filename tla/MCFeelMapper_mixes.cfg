SPECIFICATION FeelSpec
CONSTANTS
    Contracts <- MCContracts
    Buttons = {"Use", "Drop", "Fire"}
    LastTick = 5
    MaxPolls = 2
INVARIANTS
    FiredLegally
PROPERTIES
    OverdueIsFinal
CHECK_DEADLOCK FALSE
