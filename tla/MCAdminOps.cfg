\* Two commands at a time, a batch of two folders beside another operation, one fault.
SPECIFICATION AdminSpec
CONSTANTS
    s1 = s1
    s2 = s2
    f1 = f1
    f2 = f2
    Slot = {s1, s2}
    Folder = {f1, f2}
    NoFolder = NoFolder
    MaxOps = 3
    MaxBatches = 1
    MaxFaults = 1
SYMMETRY Alike
INVARIANT LogInv
INVARIANT OneRowEach
\* The operations are numbered up to MaxOps.
CHECK_DEADLOCK FALSE
