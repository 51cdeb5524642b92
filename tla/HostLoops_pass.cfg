CONSTANTS
    CacheFiles = {list, data}
    Attempts = {a1, a2}
    MaxGeneration = 2
    MaxStamp = 4
    MaxStarts = 1
    MaxDeaths = 1
    Watched <- TwoTabs
    Interval = 1
    LimitWait = 2
    IdleSeconds = 2
    Cooldown = 5
    Dedup = 2
    MaxReadFailures = 1
    MaxPrinted = 4
    MaxRequests = 2
    MaxReplies = 2

SPECIFICATION MCSpec


    
PROPERTIES
    MigrationSound
    EventuallyCurrent
    FirstIsContinued
    
CHECK_DEADLOCK FALSE
