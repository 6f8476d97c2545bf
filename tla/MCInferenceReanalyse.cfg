SPECIFICATION Spec
CONSTANTS
    worker = worker
    bot = bot
    w1 = w1
    b1 = b1
    b2 = b2
    b3 = b3
    Task = {w1, b1, b2, b3}
    Process = {worker, bot}
    ProcessOf <- Processes
    KindOf <- Kinds
    Free = Free
    LockTtls = {3}
    MaxInference = 2
    QueueTimeout = 1
PROPERTY ReanalysisInfers
