CONSTANTS
    Procs = {p1, p2}
    Keys = {k1}
    OpLists <- TakeOnly
    Commands = {"IPC_RMID"}
    SetVals = {1}
    MaxVnode = 1
    MaxValue = 2
    MaxFaults = 0
    MayCrash = FALSE
    NoProc = NoProc
    NoKey = NoKey
CHECK_DEADLOCK FALSE
SPECIFICATION FairSpec
PROPERTIES RemovedWaiterReturns
