\* A stop handler racing a frame of its run.
SPECIFICATION Spec
CONSTANTS
  d1 = d1
  d2 = d2
  s1 = s1
  s2 = s2
  c1 = c1
  c2 = c2
  None = None
  Device = {d1, d2}
  Sid = {s1, s2}
  SeqNo = {1, 2, 3}
  CarId = {c1, c2}
  FirstCars = {c1}
  SessionId = {x1, x2}
  LoadId = {l1, l2}
  StopId = {p1}
  CloseId = {q1}
  Mono <- MCMono
  CarDevice <- MCCarDevice
  Messages <- MCMessages
  MaxBuffered = 2
  MaxNow = 1
  MaxMsgs = 3
  MaxFaults = 0
  MaxAdmin = 0
PROPERTIES AnnouncedAfterLastSample
CHECK_DEADLOCK FALSE
