CONSTANTS
    ta = ta
    tb = tb
    tc = tc
    Threads = {ta, tc}
    ProcessOf <- Relaunched
    EpochOf <- TwoLaunches
    Names = {x}
    Flags = {"open", "create", "excl"}
    ReceiptSlots = 1
    MaxGeneration = 3
    MaxFaults = 0
    MaxKills = 1
    MaxRestarts = 0
    NoThread = NoThread
CHECK_DEADLOCK FALSE
SPECIFICATION Spec
INVARIANT ReplaceCompletes
