------------------------------ MODULE Braking -------------------------------
(***************************************************************************)
(* Where the driver got on the brakes (braking-points.ts, pure).           *)
(*                                                                         *)
(* A point is [time, decel], decel the deceleration over the interval that *)
(* ends there, measured or from the speeds, or None where both are         *)
(* missing. Thresholds and decelerations are in hundredths of g.           *)
(***************************************************************************)
EXTENDS Places, Sequences

CONSTANTS
  None,
  ENTER, EXIT,     \* BRAKING_ENTER_G, BRAKING_EXIT_G
  MIN_BRAKING,     \* MIN_BRAKING_MS
  MERGE            \* BRAKING_MERGE_MS

Zone == [start : Int, end : Int, peak : Int]

BrakingAssumption ==
  /\ ENTER \in Int /\ EXIT \in Int /\ EXIT <= ENTER /\ MIN_BRAKING \in Int /\ MERGE \in Nat
  /\ None \notin Int \cup Zone

Higher(m, n) == IF m >= n THEN m ELSE n

(* A zone that ended just before `at` is opened again. *)
Reopens(state, at) ==
  /\ state.open = None /\ state.zones # <<>>
  /\ at - state.zones[Len(state.zones)].end <= MERGE

(* Mutated form: a dip in the middle of a zone makes two of it. *)
OpenedAnew(state, at) ==
  IF state.open # None THEN state.open ELSE [start |-> at, end |-> at, peak |-> 0]

(* The open zone; a new one starts at the earlier point, `at`. *)
Opened(state, at) ==
  IF state.open # None THEN state.open
  ELSE IF Reopens(state, at) THEN state.zones[Len(state.zones)]
  ELSE [start |-> at, end |-> at, peak |-> 0]

(* The zones that stay closed while it is open. *)
Closed(state, at) ==
  IF Reopens(state, at) THEN SubSeq(state.zones, 1, Len(state.zones) - 1) ELSE state.zones

(* One interval: it extends the open zone, and closes it when the car comes off the brakes. *)
Step(state, points, i) ==
  LET decel == points[i].decel
      at    == points[i - 1].time
      open  == Opened(state, at)
      zone  == [start |-> open.start, end |-> points[i].time, peak |-> Higher(open.peak, decel)]
  IN  IF decel = None \/ (state.open = None /\ decel < ENTER) THEN state
      ELSE IF decel < EXIT THEN [zones |-> Append(Closed(state, at), zone), open |-> None]
      ELSE [zones |-> Closed(state, at), open |-> zone]

(* Every zone so far, one that is open included. *)
All(state) == IF state.open = None THEN state.zones ELSE Append(state.zones, state.open)

(* Every zone of a lap, one that is open at the line included. *)
Zones(points) ==
  LET state[i \in 0 .. Len(points)] ==
        IF i <= 1 THEN [zones |-> <<>>, open |-> None] ELSE Step(state[i - 1], points, i)
  IN  All(state[Len(points)])

(* detectBrakingPoints *)
DetectBrakingPoints(points) ==
  LET zones == Zones(points)
  IN  Picked(zones, {k \in DOMAIN zones : zones[k].end - zones[k].start >= MIN_BRAKING})

-----------------------------------------------------------------------------
(* Properties. *)

(* The car brakes hard all the way from one point to another. *)
HardFrom(points, i, j) == i < j /\ \A k \in i + 1 .. j : points[k].decel # None /\ points[k].decel >= ENTER

(* One stop is one marker, at the point it began: whatever dips, gaps and merges, markers are
   in order and further apart than a dip, each begins with hard braking, and every stretch of
   hard braking that lasts is in one of them, also at the line (detectBrakingPoints). *)
BrakesAreWhole(points) ==
  LET zones == DetectBrakingPoints(points) IN
  /\ \A k \in 2 .. Len(zones) : zones[k].start - zones[k - 1].end > MERGE
  /\ \A k \in DOMAIN zones :
       \E i \in 2 .. Len(points) :
         points[i - 1].time = zones[k].start /\ points[i].decel # None /\ points[i].decel >= ENTER
  /\ \A i, j \in DOMAIN points :
       HardFrom(points, i, j) /\ points[j].time - points[i].time >= MIN_BRAKING =>
         \E k \in DOMAIN zones : zones[k].start <= points[i].time /\ zones[k].end >= points[j].time
=============================================================================
