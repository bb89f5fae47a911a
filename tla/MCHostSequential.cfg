\* Three programs one after the other; the DMA devices may fail.
CONSTANTS
  c1 = c1
  c2 = c2
  c3 = c3
  Clients = {c1, c2, c3}
  Overlap = FALSE
  Crash = FALSE
  MmapFails = FALSE
  IoFails = TRUE
  Garbage = Garbage
SPECIFICATION Spec
INVARIANTS
  TypeOK
  ResultCorrect
PROPERTIES
  EveryProgramEnds
  KeepsContract
