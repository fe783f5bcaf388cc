SPECIFICATION Spec
CONSTANTS
    Calls = {c1, c2}
    NoCall = NoCall
    Kinds <- RunsOnly
    MaxCancels = 1
INVARIANT ReadyMeansRecovered
CHECK_DEADLOCK FALSE
