SPECIFICATION Spec
CONSTANTS
  Configs <- SmallConfigs
  Passes = 2
  MaxFiles = 2
  WordBits = 8
  MatmulAlign = 2
INVARIANTS LogitsCorrect MissingWeightDetected CompleteCheckpointServed
PROPERTY ImplementsWorkerGroup
