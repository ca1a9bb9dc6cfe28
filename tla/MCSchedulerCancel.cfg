SPECIFICATION FairSpec
CONSTANTS
    A = A
    B = B
    C = C
    Requests = {A, B}
    NumSeqs <- TwoSequencesOfA
    PromptLen <- FullBlock
    MaxTokens <- TwoTokens
    Streaming <- OnlyAStreams
    Echo <- EchoA
    Priority <- SamePriority
    CreatedTime <- InOrder
    BlockIds = {b1, b2, b3}
    BlockSize = 2
    QueueSize = 1
    StreamBuffer = 2
    ClientsMayFail = TRUE
    NoRequest = NoRequest
INVARIANTS
    NoBlockLeak
    BatchReady
    NoDanglingPointer
PROPERTIES
    ToldBeforeFinish
    ImplementsService
    EveryRequestAnswered
