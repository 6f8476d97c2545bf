SPECIFICATION Spec
CONSTANTS
    a1 = a1
    a2 = a2
    a3 = a3
    c1 = c1
    c2 = c2
    Article = {a1, a2, a3}
    Cycle = {c1, c2}
    Idle = Idle
    None = None
    TemporalProximityDays = 14
    MinSharedEntities = 1
    Settings <- Worlds
CHECK_DEADLOCK FALSE
INVARIANT MatchingInv
INVARIANT OneEventPerFolder
PROPERTY CreatesOnlyWhenNew
