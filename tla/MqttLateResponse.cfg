\* A late response settles another command.
SPECIFICATION Spec
CONSTANTS
  c1 = c1
  c2 = c2
  d1 = d1
  d2 = d2
  r1 = r1
  r2 = r2
  None = None
  Car = {c1, c2}
  Device = {d1, d2}
  Topic = {t1}
  Req = {r1, r2}
  Token = {1, 2, 3, 4, 5}
  MaxAsks = 2
  MaxFaults = 0
  MaxLate = 1
INVARIANTS OwnAnswer
CHECK_DEADLOCK FALSE
