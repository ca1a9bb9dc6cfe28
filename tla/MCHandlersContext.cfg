SPECIFICATION Spec
CONSTANTS
    Calls = {c1}
    Args <- Full
    MaxContextLen = 3
    DefaultMaxTokens = 2
    QueueSize = 1
    HasDialog = FALSE
    MaxLen = 5
    MaxClock = 1
    Absent = Absent
INVARIANT ContextRespected
CHECK_DEADLOCK FALSE
