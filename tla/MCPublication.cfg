SPECIFICATION FairSpec
CONSTANTS
    t1 = t1
    t2 = t2
    h1 = h1
    h2 = h2
    Task = {t1, t2}
    Holder = {h1, h2}
    NoHolder = NoHolder
    HolderOf <- OwnProcess
    Commands <- CycleCatchUp
    Settings <- BothWorlds
    FaultKinds = {"crash", "discord_error", "lost_answer", "db_error", "slow_call"}
    MaxMsgs = 5
INVARIANT RowInv
PROPERTY MainIsKept
PROPERTY RecordSpec
INVARIANT OneExecutor
INVARIANT DuplicatesPerFault
PROPERTY PartialGetsThread
