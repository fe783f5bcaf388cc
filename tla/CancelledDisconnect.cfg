SPECIFICATION Spec
CONSTANTS
    Calls = {c1, c2}
    NoCall = NoCall
    Kinds <- Disconnects
    MaxCancels = 1
INVARIANT ClosingMeansInProgress
CHECK_DEADLOCK FALSE
