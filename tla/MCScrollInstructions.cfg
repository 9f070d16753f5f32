CONSTANTS
  UsizeMax = 6
  WordBits = 3
  WordBytes = 2
  MemoryQuotient = 3
  StackLimit = 3
  Frames <- MCFrames
  MaxSteps = 2
SPECIFICATION Spec
INVARIANTS
  TypeOK
  OnlyActiveOpcodesRun
  GasIsExact
  TransientIsGuarded
PROPERTY CopyIsExact
