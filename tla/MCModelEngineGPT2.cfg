SPECIFICATION Spec
CONSTANTS
  Configs <- GPT2Config
  Passes = 2
  MaxFiles = 2
  WordBits = 8
  MatmulAlign = 2
INVARIANT LogitsCorrect
