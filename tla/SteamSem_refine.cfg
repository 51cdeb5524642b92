CONSTANTS
    Clients = {a, b, c}
    ProcessOf <- Apart
    Calls = {"wait", "try", "timed", "post"}
    Producers = {}
    InitialValue = 1
    MaxValue = 2
    WaiterSockets = 2
    DeadlineCapacity = 1
    RequestIDs = {1, 2, 3, 4}
    MaxMinted = 0
    MaxFaults = 0
    MayStall = TRUE
    MayCrash = TRUE
    NoProcess = NoProcess
    NoRequest = NoRequest
SYMMETRY ClientSymmetry
CHECK_DEADLOCK FALSE
SPECIFICATION Spec
PROPERTIES ImplementsSemaphore
