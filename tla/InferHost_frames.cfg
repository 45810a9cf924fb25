CONSTANTS
    Slo = 2
    IpcQueue = 2
    PipeCap = 1
    MaxJobs = 5
    MaxTick = 8
SPECIFICATION FairSpec
INVARIANTS ReportedOnce
PROPERTIES JobsResolve DeathDisables ImplementsDesk
