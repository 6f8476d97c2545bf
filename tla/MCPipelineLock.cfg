SPECIFICATION FairSpec
CONSTANTS
    w1 = w1
    w2 = w2
    b1 = b1
    Holder = {w1, w2, b1}
    Worker = {w1, w2}
    NoHolder = NoHolder
    LockTtl = 7
    HeartbeatInterval = 2
    MaxDelay = 1
    MaxRuns = 2
    MaxFaults = 1
INVARIANT RowsAgree
INVARIANT PromptCycleKeepsLock
INVARIANT LostIsFinal
PROPERTY ReleasesOwnRun
PROPERTY OrphanedRunEnds
