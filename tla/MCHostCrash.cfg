\* Two programs one after the other; the first may be killed.
CONSTANTS
  c1 = c1
  c2 = c2
  Clients = {c1, c2}
  Overlap = FALSE
  Crash = TRUE
  MmapFails = FALSE
  IoFails = FALSE
  Garbage = Garbage
SPECIFICATION Spec
INVARIANT ResultCorrect
