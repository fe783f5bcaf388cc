SPECIFICATION Spec
CONSTANTS
    Calls = {c1, c2}
    NoCall = NoCall
    Kinds <- WritesOnly
    MaxCancels = 0
INVARIANT RecoveredMeansUsable
CHECK_DEADLOCK FALSE
