CONSTANTS
    Shaders = {s1, s2}
    MaxWaves = 3
    MaxPrompts = 2
    MaxFailures = 1
    Images = {main, plug}
    Main = main
    MaxUpdates = 1
    MaxReboots = 1
    JobNames = {j1, j2}
    MaxReplaced = 1
    MaxKilled = 1
    Installers = {i1, i2}
    Sources = {word, excel}
    MaxInstalls = 4
    MaxStops = 2
    Relays = {r1, r2}
    MaxAgents = 2
    Copies = {c1, c2}
    MaxWorld = 3
    Preparers = {p1, p2}
    Numbers = {n1, n2, n3}
    MaxPreparersKilled = 2
    Wanted <- TwoKeys
    OtherKey = "o"
    RemovedKey = "r"
    MaxLines = 4
    MaxSamples = 2
    MaxDepth = 2
    MaxImages = 3
    Publishers = {u1, u2}
    MaxBuilds = 2
    MaxFaults = 1
    MaxWindows = 2
    MaxContacts = 2
    MaxPolls = 1
    MaxEarly = 1

SPECIFICATION MCSpec

INVARIANTS
    
    TrustSound
    MessagesSound
    OnlyLatecomers
    ClosureExact
    
PROPERTIES
    JobsArchived
    PublishedSound
CHECK_DEADLOCK FALSE
