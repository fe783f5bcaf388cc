SPECIFICATION Spec
CONSTANTS
    PayloadLen = 3
    ChunkLen = 2
    ReadLen = 3
    Slack = 2
    MaxTyped = 2
    MaxFaults = 1
    MaxCancels = 1
    MaxRead = 2
    Contents <- MCContents
    NoFile = NoFile
    Old <- MCOld
    New <- MCNew
    Requests <- MCRequests
    MaxForeign = 2
    MaxErrors = 1
    MaxResults = 2
    MaxPrinted = 4
    MaxSplits = 1
    Checks = {"add", "login", "agent"}
    MaxChars = 6
    Widths = {1, 2, 3}
    MarkerLen = 2
    OutputLimits = {2, 3, 8}
INVARIANTS TypeOK DelimiterEndsPayload CleanTransferAccepted ReadReflectsFile EditIsExact SearchIsExact AgentWarned OutputHonest NothingLeftBehind
PROPERTY CallsEnd
CHECK_DEADLOCK FALSE
