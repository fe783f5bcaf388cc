SPECIFICATION Spec
CONSTANTS
    Chunks = 1
    Targets = {"a", "b"}
    None = None
    MaxFaults = 0
    MaxTyped = 1
    MaxForeign = 0
    MaxCancels = 0
INVARIANT KnownUnchanged
CHECK_DEADLOCK FALSE
