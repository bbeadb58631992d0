---------------------------- MODULE GateCrossing ----------------------------
(***************************************************************************)
(* Does a pair of consecutive fixes cross a gate, and where (pure).        *)
(*                                                                         *)
(* The plane is a grid of integers, already projected to local metres; a   *)
(* gate is [a, b], two of its points. A fix is a record with a `time`, a   *)
(* position `at`, or None, and `slow`, a speed too low to be a crossing.   *)
(* Fractions of a hop are exact where the times and positions that are     *)
(* used make them so; the grids of the checked instances do.               *)
(***************************************************************************)
EXTENDS Integers

CONSTANTS
  None,
  MAX_FIX_GAP   \* MAX_FIX_GAP_MS

Plane == Int \X Int

IsPositioned(fix) == fix.at # None

Minus(p, q) == <<p[1] - q[1], p[2] - q[2]>>
Cross(v, w) == v[1] * w[2] - v[2] * w[1]

(* The value a fraction num / den of the way from x to y. *)
Between(x, y, num, den) == x + (num * (y - x)) \div den
Point(p, q, num, den) == <<Between(p[1], q[1], num, den), Between(p[2], q[2], num, den)>>

(* num / den is a fraction of a segment: both of its ends count. *)
Within(num, den) == 0 <= num /\ num <= den

(* Where the hop r from `prev` to `cur` meets the gate, which spans s and begins at q from
   `prev`, if it does so in the required direction; 0 is no requirement. *)
Meeting(prev, cur, r, s, q, requiredDirSign) ==
  LET dir == IF Cross(r, s) > 0 THEN 1 ELSE -1
      denom == dir * Cross(r, s)
      t == dir * Cross(q, s)
      u == dir * Cross(q, r)
  IN  IF denom = 0 THEN None
      ELSE IF ~Within(t, denom) \/ ~Within(u, denom) THEN None
      ELSE IF requiredDirSign \notin {0, dir} THEN None
      ELSE [ time |-> Between(prev.time, cur.time, t, denom),
             at   |-> Point(prev.at, cur.at, t, denom),
             dir  |-> dir, num |-> t, den |-> denom ]

(* findGateCrossing: the crossing of `gate` between two fixes, or None. *)
FindGateCrossing(prev, cur, gate, requiredDirSign) ==
  IF ~IsPositioned(prev) \/ ~IsPositioned(cur) \/ cur.slow THEN None
  ELSE IF cur.time <= prev.time \/ cur.time - prev.time > MAX_FIX_GAP THEN None
  ELSE Meeting(prev, cur, Minus(cur.at, prev.at), Minus(gate.b, gate.a), Minus(gate.a, prev.at),
               requiredDirSign)
=============================================================================
