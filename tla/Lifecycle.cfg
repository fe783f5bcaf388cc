SPECIFICATION FairSpec
CONSTANTS
    Calls = {c1, c2}
    NoCall = NoCall
    Kinds <- AllKinds
    MaxCancels = 2
INVARIANTS TypeOK StatusMatchesLock RecoveryHoldsLock ReadyMeansIdleShell ClosedMeansKilled
PROPERTIES NeverResurrected LiveCommandUndisturbed LeaseKept Answered
CHECK_DEADLOCK FALSE
