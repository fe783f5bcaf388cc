SPECIFICATION FairSpec
CONSTANTS
    Calls = {c1, c2, c3}
    NoCall = NoCall
    Kinds <- NoWrites
    MaxCancels = 0
INVARIANTS NoUseAfterClose
PROPERTIES ImplementsLease Answered
CHECK_DEADLOCK FALSE
