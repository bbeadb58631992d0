\* The parts that share no state, one after another.
SPECIFICATION MCSpec
CONSTANTS
  n1 = n1
  n2 = n2
  q1 = q1
  q2 = q2
  v1 = v1
  v2 = v2
  c1 = c1
  c2 = c2
  s1 = s1
  s2 = s2
  s3 = s3
  l1 = l1
  l2 = l2
  l3 = l3
  t1 = t1
  g1 = g1
  g2 = g2
  None = None
  MAX_FIX_GAP = 6
  Fix <- MCFix
  Hop = {2, 4}
  SfGate <- MCGate
  MIN_LAP = 4
  MaxSamples = 6
  Node = {n1, n2}
  Req = {q1, q2}
  Track = {t1}
  Gate = {g1, g2}
  GateSet = {"centreline", "reference"}
  Ceiling = 2
  FirstGate <- MCFirstGate
  Laps <- MCLaps
  Surveyed <- MCSurveyed
  Candidate <- MCCandidate
  Clean <- MCClean
  MaxStored = 3
  MaxAsks = 3
  MaxEdits = 1
  MaxFaults = 1
  Viewer = {v1, v2}
  MaxPendingRetries = 1
  MaxOpens = 2
  MaxAges = 1
  Tab = {q1, q2}
  Expiration = 2
  RefreshAfter = 1
  MaxNow = 4
  MaxTokens = 3
  Car = {c1, c2}
  Run = {s1, s2, s3}
  CarOf <- MCCarOf
  Message <- MCMessage
  MaxLivePoints = 2
  MaxSockets = 2
  MaxPublished = 3
  Session = {q1, q2}
  Outcome <- MCOutcome
  MaxMoves = 2
  MaxDerivations = 1
  Pointer = {q1, q2, t1}
  Place = {0, 64, 128}
  Frame <- MCFrame
  Width = {0, 256, 512}
  MaxZoom = 4
  MaxGestures = 5
  SECTOR_COUNT = 3
  ENTER = 30
  EXIT = 15
  MIN_BRAKING = 2
  MERGE = 1
  Cases <- MCCases
INVARIANTS
  DerivedOnce MemoHonest PollsEnd DenylistIsExact TraceIsOwnNewest PageIsOfOneDerivation
  PictureStays LapsAreCrossings LapsAbut TraceRebuildsLap SectorsAreSound OptimalIsSound
  ComparisonIsSound BrakesAreWhole CircuitOrNothing ChartIsSound
PROPERTIES AnswersHaveLaps ReadyStays
SYMMETRY Alike
CHECK_DEADLOCK FALSE
