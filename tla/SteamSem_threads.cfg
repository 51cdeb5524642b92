CONSTANTS
    Clients = {a, b}
    ProcessOf <- Together
    Calls = {"wait", "try", "timed", "post"}
    Producers = {}
    InitialValue = 1
    MaxValue = 2
    WaiterSockets = 2
    DeadlineCapacity = 1
    RequestIDs = {1, 2, 3}
    MaxMinted = 0
    MaxFaults = 0
    MayStall = FALSE
    MayCrash = FALSE
    NoProcess = NoProcess
    NoRequest = NoRequest
CHECK_DEADLOCK FALSE
SPECIFICATION Spec
INVARIANTS NoFabricatedToken
