CONSTANTS
    Clients = {a, b}
    ProcessOf <- Apart
    Calls = {"wait", "try", "timed", "post"}
    Producers = {a, b}
    InitialValue = 1
    MaxValue = 2
    WaiterSockets = 1
    DeadlineCapacity = 1
    RequestIDs = {1, 2, 3}
    MaxMinted = 2
    MaxFaults = 2
    MayStall = TRUE
    MayCrash = TRUE
    NoProcess = NoProcess
    NoRequest = NoRequest
SYMMETRY ClientSymmetry
CHECK_DEADLOCK FALSE
SPECIFICATION Spec
INVARIANTS
    TypeOK
    NoStrandedWaiter
    TokensConserved
    ReplyMatchesToken
