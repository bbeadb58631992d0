\* The live feed's rooms, refcounts and Redis subscriptions.
SPECIFICATION FairSpec
CONSTANTS
  v1 = v1
  v2 = v2
  v3 = v3
  c1 = c1
  c2 = c2
  None = None
  Conn = {v1, v2, v3}
  Car = {c1}
  Job = {j1, j2}
  Entry = {e1, e2, e3}
  Readable <- MCReadable
  MaxAsks = 5
  MaxFaults = 2
INVARIANTS EntryIsSubscribed RoomIsReadable RefcountExact ViewerIsFed
PROPERTIES SubscribeAnswered
CHECK_DEADLOCK FALSE
