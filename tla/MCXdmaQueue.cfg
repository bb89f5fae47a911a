\* A three-descriptor submit beside two queued requests that fit the ring, in both modes.
CONSTANTS
  r1 = r1
  r3 = r3
  r4 = r4
  Small = {r3, r4}
  Large = {r1}
  Requests <- MCRequests
  AsyncReqs = {r3, r4}
  Size <- MCSize
  DESC_MAX = 7
  FirstIdx = {4}
  UINT = 64
  Timeouts = FALSE
  HwErrors = FALSE
  Refusals = FALSE
  PollModes = {TRUE, FALSE}
  Strays = {0}
  None = None
SPECIFICATION Spec
INVARIANTS
  FailedMeansError
  DoneMeansMoved
  QueueServed
  RingExclusive
PROPERTY EveryRequestEnds
