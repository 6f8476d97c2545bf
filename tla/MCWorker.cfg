\* Scheduled cycles or a single one, and signals at any moment.
SPECIFICATION Spec
CONSTANTS
    InitialDelay = 4
    Interval = 20
INVARIANT WorkerInv
PROPERTY Spaced
PROPERTY StopsForGood
PROPERTY ShutdownEnds
PROPERTY CyclesGoOn
\* The worker stops.
CHECK_DEADLOCK FALSE
