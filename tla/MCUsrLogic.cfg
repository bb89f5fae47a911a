\* One 2 x 2 tile, two runs, one reset at any clock.
CONSTANTS
  N = 2
  A_SIZE_X = 2
  A_SIZE_Y = 2
  B_SIZE_X = 2
  B_SIZE_Y = 2
  MaxRuns = 2
  MaxResets = 1
  Zero <- MCZero
  Junk <- MCJunk
  Add <- MCAdd
  Mul <- MCMul
  AData <- MCAData
  BData <- MCBData
SPECIFICATION UsrSpec
INVARIANTS
  StatusMeansProduct
  RestOutsideProcess
PROPERTIES
  ProcessFinishes
  ReadsAnswered
