\* 6 x 6 matrices on a 3 x 3 array: two row tiles and two column tiles.
CONSTANTS
  N = 3
  A_SIZE_X = 6
  A_SIZE_Y = 6
  B_SIZE_X = 6
  B_SIZE_Y = 6
  MaxRuns = 1
  MaxResets = 0
  Zero <- MCZero
  Junk <- MCJunk
  Add <- MCAdd
  Mul <- MCMul
  AData <- MCAData
  BData <- MCBData
SPECIFICATION Spec
INVARIANT FinishHoldsProduct
