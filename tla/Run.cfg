SPECIFICATION FairSpec
CONSTANTS
    PollLines = 3
    TimeoutLines = 4
    HistoryLimit = 6
    MaxOutput = 4
    MaxOther = 3
    MaxClears = 1
    MaxFaults = 1
INVARIANTS TypeOK CompleteOrError PartialIsPrefix NoSpuriousError
PROPERTIES RunEnds
CHECK_DEADLOCK FALSE
