\* Three programs at once; any of them may be killed or fail anywhere.
CONSTANTS
  c1 = c1
  c2 = c2
  c3 = c3
  Clients = {c1, c2, c3}
  Overlap = TRUE
  Crash = TRUE
  MmapFails = TRUE
  IoFails = TRUE
  Garbage = Garbage
SYMMETRY ClientSymmetry
SPECIFICATION Spec
INVARIANTS
  BusyInProcess
  ProcessProgresses
