SPECIFICATION Spec
CONSTANTS
    t1 = t1
    t2 = t2
    h1 = h1
    h2 = h2
    Task = {t1, t2}
    Holder = {h1, h2}
    NoHolder = NoHolder
    HolderOf <- OwnProcess
    Commands <- CycleCatchUp
    Settings <- Overlapping
    FaultKinds = {}
    MaxMsgs = 3
INVARIANT NeverDoublePublish
