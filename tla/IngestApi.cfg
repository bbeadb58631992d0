\* The process beside the deletions and closings of the API, and its liveness. No symmetry:
\* TLC would not check liveness soundly.
SPECIFICATION FairSpec
CONSTANTS
  d1 = d1
  d2 = d2
  s1 = s1
  s2 = s2
  c1 = c1
  c2 = c2
  None = None
  Device = {d1, d2}
  Sid = {s1, s2}
  SeqNo = {1, 2, 3}
  CarId = {c1, c2}
  FirstCars = {c1}
  SessionId = {x1, x2}
  LoadId = {l1, l2}
  StopId = {p1}
  CloseId = {q1}
  Mono <- MCMono
  CarDevice <- MCCarDevice
  Messages <- MCMessages
  MaxBuffered = 2
  MaxNow = 0
  MaxMsgs = 2
  MaxFaults = 1
  MaxAdmin = 1
PROPERTIES ImplementsRunStore BufferDrains LookupsSettle StopsFinish
CHECK_DEADLOCK FALSE
