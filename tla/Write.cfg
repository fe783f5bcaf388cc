SPECIFICATION FairSpec
CONSTANTS
    Chunks = 1
    Targets = {"a", "b"}
    None = None
    MaxFaults = 2
    MaxTyped = 1
    MaxForeign = 1
    MaxCancels = 1
INVARIANTS TypeOK NeverTorn SuccessMeansWritten UnchangedMeansUnchanged CleanPaneAtEnd
PROPERTIES CreationKept ImplementsAtomicWrite WriteEnds
CHECK_DEADLOCK FALSE
