\* One reset, at any clock of a run, on 15 x 15 matrices on a 5 x 5 array: large
\* enough for the hang that AlwaysIdleAgain excepts.
CONSTANTS
  N = 5
  A_SIZE_X = 15
  A_SIZE_Y = 15
  B_SIZE_X = 15
  B_SIZE_Y = 15
  MaxRuns = 1
  MaxResets = 1
  Zero <- MCZero
  Junk <- MCJunk
  Add <- MCAdd
  Mul <- MCMul
  AData <- MCAData
  BData <- MCBData
SPECIFICATION Spec
INVARIANT FinishHoldsMirroredProduct
PROPERTY AlwaysIdleAgain
