SPECIFICATION FairSpec
CONSTANTS
    Calls = {c1, c2}
    Args <- SomeCalls
    MaxContextLen = 4
    DefaultMaxTokens = 3
    QueueSize = 1
    HasDialog = TRUE
    MaxLen = 6
    MaxClock = 1
    Absent = Absent
INVARIANTS LimitHonoured ArrivalOrder PromptAttributed WellFormedAnswer TextDelivered
PROPERTIES AnswerIsFinal EveryCallAnswered
CHECK_DEADLOCK FALSE
