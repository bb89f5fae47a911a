\* Three waiting submits on a ring of two descriptors, with timeouts and errors.
CONSTANTS
  r1 = r1
  r2 = r2
  r3 = r3
  Small = {r2, r3}
  Large = {r1}
  Requests <- MCRequests
  AsyncReqs = {}
  Size <- MCSize
  DESC_MAX = 2
  FirstIdx = {0, 1}
  UINT = 64
  Timeouts = TRUE
  HwErrors = TRUE
  Refusals = TRUE
  PollModes = {FALSE}
  Strays = {0}
  None = None
SPECIFICATION Spec
INVARIANTS
  DoneMeansMoved
  NoDanglingTransfer
PROPERTY EveryRequestEnds
