SPECIFICATION Spec
CONSTANTS
    Batches <- SmallBatches
    NumBlocks = 4
    BlockSize = 2
    MaxTokens = 4
    MaxBatch = 3
    VocabSize = 3
    TopPUnit = 10
INVARIANTS OwnContext OwnSampling CacheExtended SampledAsAlone
CHECK_DEADLOCK FALSE
