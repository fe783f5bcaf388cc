SPECIFICATION FairSpec
CONSTANTS
    c1 = c1
    c2 = c2
    c3 = c3
    Connects = {c1, c2}
    Host <- OneHost
    Renamed = {}
    NoOne = NoOne
    MaxFaults = 0
    MaxCancels = 0
PROPERTY ClosesOwnWindow
CHECK_DEADLOCK FALSE
