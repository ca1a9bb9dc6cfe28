SPECIFICATION Spec
CONSTANTS
    A = A
    B = B
    C = C
    Requests = {A, B, C}
    NumSeqs <- OneSequence
    PromptLen <- Prompts
    MaxTokens <- LongUnlessC
    Streaming <- OnlyAStreams
    Echo <- NoEcho
    Priority <- CHigh
    CreatedTime <- SameSecond
    BlockIds = {b1, b2, b3}
    BlockSize = 2
    QueueSize = 2
    StreamBuffer = 1
    ClientsMayFail = FALSE
    NoRequest = NoRequest
INVARIANTS
    TypeOK
    BlocksPartition
    BatchReady
    PreemptableSound
    BatchInPriorityOrder
PROPERTIES
    PreemptsOnlyLower
SYMMETRY BlockSymmetry
