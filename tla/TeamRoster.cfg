\* Requests on a roster, two at a time.
SPECIFICATION Spec
CONSTANTS
  u1 = u1
  u2 = u2
  u3 = u3
  r1 = r1
  r2 = r2
  w1 = w1
  w2 = w2
  w3 = w3
  w4 = w4
  None = None
  User = {u1, u2, u3}
  Admin = {}
  Req = {r1, r2}
  Row = {w1, w2, w3, w4}
  MaxAsks = 4
  MaxFaults = 1
INVARIANTS RolesAreGranted OwnerKept InviteIsUnaccepted
SYMMETRY Alike
CHECK_DEADLOCK FALSE
