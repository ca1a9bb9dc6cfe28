SPECIFICATION Spec
CONSTANTS
    A = A
    Requests = {A}
    NumSeqs <- TwoSequencesOfA
    NumBlocks = 4
    BlockSize = 2
    MaxLen = 5
    NoRequest = NoRequest
INVARIANTS TypeOK FreeListDistinct AllocatorChecksHold NoSurplusBlocks
PROPERTIES RequestFullyServed ImplementsPool
