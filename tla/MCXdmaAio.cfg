\* A call of two segments beside a blocking call, with interrupts and with the
\* completion thread, device errors and calls that fail before anything is queued.
CONSTANTS
  Long = Long
  Blocking1 = Blocking1
  s1 = s1
  s2 = s2
  Requests = {s1, s2, Blocking1}
  AsyncReqs = {s1, s2}
  Iocbs = {Long}
  Segments <- MCSegments
  Size <- MCSize
  AioFaults = {"direction", "align", "pages"}
  DESC_MAX = 5
  FirstIdx = {3}
  UINT = 64
  Timeouts = FALSE
  HwErrors = TRUE
  Refusals = FALSE
  PollModes = {TRUE, FALSE}
  Strays = {0}
  None = None
SPECIFICATION AioSpec
INVARIANTS
  BuffersLive
  EndsOnce
  ResultHonest
PROPERTY EveryIocbEnds
