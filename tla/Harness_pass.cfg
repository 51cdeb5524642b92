CONSTANTS
    OptionSets <- SmallOptions
    Desktops <- SmallDesktops
    MaxSlips = 1
    MaxSpawns = 1
    Layers = {l1}
    MaxUrls = 1
    Attempts = 12
    MaxLostTaps = 2
    GridWidth = 4
    GridHeight = 3
    MinCount = 1
    MinBox = 1
    MaxBox = 2
    RingRadius = 1
    MaxExports = 1
    Values = {1, 2, 3}
    MaxSeries = 4
    Pids = {1, 2, 3, 4}
    Counts = {0, 1, 2}
    MaxEvents = 5
    MaxSnapshots = 3

SPECIFICATION MCSpec

INVARIANTS
    
    ResultHonest
    
    
    ProfileHonest
    FiguresExact
PROPERTIES
    HandoffKeepsGame
CHECK_DEADLOCK FALSE
