\* Cars provisioned, renamed and deleted through the command queue.
SPECIFICATION FairSpec
CONSTANTS
  c1 = c1
  c2 = c2
  d1 = d1
  d2 = d2
  r1 = r1
  r2 = r2
  None = None
  Car = {c1, c2}
  Device = {d1, d2}
  Topic = {t1}
  Req = {r1, r2}
  Token = {1, 2, 3, 4, 5}
  MaxAsks = 3
  MaxFaults = 1
  MaxLate = 1
INVARIANTS NoOrphanAccount ProvisionedWorks
PROPERTIES RequestsEnd
CHECK_DEADLOCK FALSE
