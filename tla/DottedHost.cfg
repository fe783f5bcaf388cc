SPECIFICATION Spec
CONSTANTS
    c1 = c1
    c2 = c2
    c3 = c3
    Connects = {c1, c2}
    Host <- DottedHost
    Renamed <- Dotted
    NoOne = NoOne
    MaxFaults = 0
    MaxCancels = 0
INVARIANT ExistingSessionIsFound
CHECK_DEADLOCK FALSE
