CONSTANTS
    Procs = {p1, p2}
    Keys = {k1, k2}
    OpLists <- MCOpLists
    Commands = {"QUERY", "SETVAL", "IPC_SET", "IPC_RMID"}
    SetVals <- MCSetVals
    MaxVnode = 2
    MaxValue = 2
    MaxFaults = 1
    MayCrash = TRUE
    NoProc = NoProc
    NoKey = NoKey
SYMMETRY ProcSymmetry
CHECK_DEADLOCK FALSE
SPECIFICATION Spec
INVARIANTS TypeOK NoLostWakeup TokensConserved WaitersCounted
