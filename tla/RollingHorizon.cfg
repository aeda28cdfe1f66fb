SPECIFICATION FairSpec
CONSTANTS
    EndTime = 5
    Dt = 1
    AssignLen = 2
    PredLen = 3
    TTUpdate = 2
    NSims = 2
    ModelMax = 3
    MaxParallel = 2
    NeedsParallel = TRUE
    ExtraIteration = FALSE
    FailingCalls = {"needed", "start", "assign", "step", "snapshot", "costs", "done", "decide", "write", "commit"}
    MaxRollbacks = 2
INVARIANTS
    TypeOK
    SnapshotDiscipline
    OneTimeline
    ClocksAgree
    CommittedUpToClock
    WholeHorizonSimulated
PROPERTIES
    RunEnds
    ImplementsTimeline
