\* Two owners stepping down at once.
SPECIFICATION Spec
CONSTANTS
  u1 = u1
  u2 = u2
  u3 = u3
  r1 = r1
  r2 = r2
  w1 = w1
  w2 = w2
  w3 = w3
  w4 = w4
  None = None
  User = {u1, u2}
  Admin = {u2}
  Req = {r1, r2}
  Row = {w1, w2, w3, w4}
  MaxAsks = 4
  MaxFaults = 0
INVARIANTS AlwaysOwned
SYMMETRY Alike
CHECK_DEADLOCK FALSE
