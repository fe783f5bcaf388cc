SPECIFICATION FairSpec
CONSTANTS
    c1 = c1
    c2 = c2
    c3 = c3
    Connects = {c1, c2, c3}
    Host <- TwoHosts
    Renamed = {}
    NoOne = NoOne
    MaxFaults = 1
    MaxCancels = 1
INVARIANTS TypeOK WindowInOwnSession NoDuplicateSession KnownWindowsAccounted
PROPERTIES ConnectsEnd
CHECK_DEADLOCK FALSE
