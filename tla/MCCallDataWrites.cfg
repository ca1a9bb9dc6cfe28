SPECIFICATION Spec
CONSTANTS
    QueueSize = 3
    MaxWrites = 3
    RpcMayFail = FALSE
INVARIANT OneWriteAtATime
CHECK_DEADLOCK FALSE
