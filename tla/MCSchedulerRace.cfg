SPECIFICATION Spec
CONSTANTS
    A = A
    B = B
    C = C
    Requests = {A, B}
    NumSeqs <- OneSequence
    PromptLen <- Prompts
    MaxTokens <- ThreeTokens
    Streaming <- AllStream
    Echo <- NoEcho
    Priority <- SamePriority
    CreatedTime <- InOrder
    BlockIds = {b1, b2, b3}
    BlockSize = 2
    QueueSize = 3
    StreamBuffer = 1
    ClientsMayFail = TRUE
    NoRequest = NoRequest
INVARIANT NoCrash
SYMMETRY BlockSymmetry
