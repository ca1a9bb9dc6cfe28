SPECIFICATION FairSpec
CONSTANTS
    QueueSize = 3
    MaxWrites = 8
    RpcMayFail = TRUE
INVARIANTS
    TypeOK
    EventsMatchWork
    DeletedLast
    ResponsesInOrder
PROPERTY CallReleased
CHECK_DEADLOCK FALSE
