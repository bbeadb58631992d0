\* A client leaves while its subscribe is being authorized.
SPECIFICATION Spec
CONSTANTS
  v1 = v1
  v2 = v2
  v3 = v3
  c1 = c1
  c2 = c2
  None = None
  Conn = {v1, v2, v3}
  Car = {c1, c2}
  Job = {j1, j2}
  Entry = {e1, e2, e3}
  Readable <- MCReadable
  MaxAsks = 4
  MaxFaults = 1
INVARIANTS WatchedIsSubscribed
CHECK_DEADLOCK FALSE
