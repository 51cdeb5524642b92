CONSTANTS
    Clients = {a, b}
    ProcessOf <- Apart
    Calls = {"wait", "try", "timed", "post"}
    Producers = {a}
    InitialValue = 0
    MaxValue = 2
    WaiterSockets = 3
    DeadlineCapacity = 1
    RequestIDs = {1, 2, 3, 4}
    MaxMinted = 1
    MaxFaults = 0
    MayStall = FALSE
    MayCrash = FALSE
    NoProcess = NoProcess
    NoRequest = NoRequest
SPECIFICATION FairSpec
PROPERTIES
    WaitersServed
    TimedWaitReturns
CHECK_DEADLOCK FALSE
