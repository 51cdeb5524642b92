CONSTANTS
    ta = ta
    tb = tb
    tc = tc
    Threads = {ta, tb, tc}
    ProcessOf <- Relaunched
    EpochOf <- TwoLaunches
    Names = {x}
    Flags = {"open", "create", "excl"}
    ReceiptSlots = 1
    MaxGeneration = 3
    MaxFaults = 1
    MaxKills = 1
    MaxRestarts = 1
    NoThread = NoThread
SYMMETRY ThreadSymmetry
CHECK_DEADLOCK FALSE
SPECIFICATION Spec
INVARIANTS
    HandlesSound
    NamespaceSound
