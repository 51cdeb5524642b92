CONSTANTS
    MaxCalls = 3
    MaxLate = 1
    MaxProduced = 6
    Window = 3
    Quota = 2
    LaunchTimeout = 3
    StallAfter = 2
    MaxWarnings = 2
    Polls = 6
    Stable = 3
    MaxOffset = 4
    MaxMisses = 1
    MaxLines = 3

SPECIFICATION MCSpec

INVARIANTS
    VerdictsGrounded
    
PROPERTIES
    
    
    
    AgentLetsGo
    LaunchDecided
CHECK_DEADLOCK FALSE
