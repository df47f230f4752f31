CONSTANTS
    NumExecs = 2
    Workers = {w1, w2}
    Plans <- MCPlans
    BatchLimit = 1
    BeatRuns = TRUE
    KicksMayFail = TRUE
    MaxTasks = 1
    MaxCrashes = 1
SPECIFICATION FairSpec
INVARIANTS NothingSkipped OneSendPerStep WaitIsKept
PROPERTIES AlwaysEnds
CHECK_DEADLOCK FALSE
