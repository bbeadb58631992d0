------------------------------ MODULE LapTrace ------------------------------
(***************************************************************************)
(* The trace of a lap, rebuilt from stored samples, and the comparison of  *)
(* two laps on a shared distance axis (pure).                              *)
(***************************************************************************)
EXTENDS GateCrossing, Places, Sequences, SequencesExt

(* The last and the first of a set of places, as a set. *)
LastOf(set) == {i \in set : \A j \in set : j <= i}
FirstOf(set) == {i \in set : \A j \in set : i <= j}

(* findLapWindow: the samples of the lap, and one either side of it whatever it holds. *)
WindowAt(samples, from, to) ==
  LET at == DOMAIN samples IN
  {i \in at : from <= samples[i].time /\ samples[i].time <= to}
    \cup LastOf({i \in at : samples[i].time < from})
    \cup FirstOf({i \in at : samples[i].time > to})

LapWindow(samples, from, to) == Picked(samples, WindowAt(samples, from, to))

(* Mutated form: an instant a fix sits on is interpolated as well. *)
InterpolateAtTwice(located, time) ==
  LET k == {i \in 1 .. Len(located) - 1 : located[i].time <= time /\ located[i + 1].time >= time}
  IN  IF k = {} THEN <<>>
      ELSE LET i == CHOOSE i \in k : \A j \in k : i <= j
               n == time - located[i].time
               d == located[i + 1].time - located[i].time
           IN  <<[time |-> time, at |-> Point(located[i].at, located[i + 1].at, n, d)]>>

(* interpolateAt: the fix made up at an instant no fix sits on, if two fixes bracket it. *)
InterpolateAt(located, time) ==
  LET k == {i \in 1 .. Len(located) - 1 : located[i].time < time /\ located[i + 1].time > time}
  IN  IF k = {} THEN <<>>
      ELSE LET i == CHOOSE i \in k : TRUE
               n == time - located[i].time
               d == located[i + 1].time - located[i].time
           IN  <<[time |-> time, at |-> Point(located[i].at, located[i + 1].at, n, d)]>>

(* The located fixes of a window, and the places of those within the lap. *)
LocatedOf(window) == Picked(window, {i \in DOMAIN window : IsPositioned(window[i])})
WithinLap(fixes, from, to) == {i \in DOMAIN fixes : from <= fixes[i].time /\ fixes[i].time <= to}

(* anchorToLap, as buildLapTrace calls it: the located fixes of the lap between one made up
   at each of its ends. *)
AnchorToLap(window, from, to) ==
  LET located == LocatedOf(window)
      inside  == Picked(located, WithinLap(located, from, to))
  IN  InterpolateAt(located, from)
        \o [i \in DOMAIN inside |-> [time |-> inside[i].time, at |-> inside[i].at]]
        \o InterpolateAt(located, to)

-----------------------------------------------------------------------------
(* A trace is a sequence of [dist, elapsed], from 0 on both axes; its other channels go the
   way of `elapsed`. *)

MinOf(m, n) == IF m <= n THEN m ELSE n

(* decimateByDistance: the points that first clear a further threshold, and both ends. *)
DecimateByDistance(points, maxPoints) ==
  LET n == Len(points)
      total == points[n].dist
      Cleared(i) == (points[i].dist * (maxPoints - 1)) \div total   \* thresholds up to point i
      kept == {i \in 1 .. n : i \in {1, n} \/ Cleared(i) > Cleared(i - 1)}
  IN  IF n <= maxPoints \/ maxPoints < 2 THEN points ELSE Picked(points, kept)

(* bracketBy: the points around a target on one axis, and how far between them it is. *)
BracketBy(points, axis, target) ==
  LET n == Len(points)
      At(i) == [a |-> points[i], b |-> points[i], num |-> 0, den |-> 1]
  IN  IF n < 2 \/ target <= points[1][axis] THEN At(1)
      ELSE IF target >= points[n][axis] THEN At(n)
      ELSE LET i == CHOOSE i \in 2 .. n :
                      /\ points[i][axis] >= target
                      /\ \A j \in 2 .. i - 1 : points[j][axis] < target
           IN  [ a |-> points[i - 1], b |-> points[i],
                 num |-> target - points[i - 1][axis], den |-> points[i][axis] - points[i - 1][axis] ]

ByDistance == "dist"
ByElapsed == "elapsed"

Along(bracket, axis) ==
  Between(bracket.a[axis], bracket.b[axis], bracket.num, bracket.den)

InterpolatedAt(bracket, dist) ==
  IF bracket.a = bracket.b THEN bracket.a
  ELSE [dist |-> dist, elapsed |-> Along(bracket, ByElapsed)]

InterpolateTracePointAt(points, dist) == InterpolatedAt(BracketBy(points, ByDistance, dist), dist)

DistanceAtElapsed(points, elapsed) == Along(BracketBy(points, ByElapsed, elapsed), ByDistance)

(* Mutated form: the cursor may pass the point that brackets the distance. *)
AdvanceBeyond(points, cursor, dist) ==
  CHOOSE i \in cursor .. Len(points) :
    /\ i = Len(points) \/ points[i].dist >= dist
    /\ \A j \in cursor .. i - 1 : points[j].dist < dist

(* The cursor of sampleAtDistance, resumed from where the last lookup left it. *)
Advance(points, cursor, dist) ==
  CHOOSE i \in cursor .. Len(points) :
    /\ i = Len(points) \/ points[i + 1].dist >= dist
    /\ \A j \in cursor .. i - 1 : points[j + 1].dist < dist

(* sampleAtDistance, clamped to the hop the cursor is at. *)
SampleAt(points, cursor, dist) ==
  LET a == points[cursor]
      b == points[MinOf(cursor + 1, Len(points))]
  IN  IF b.dist <= a.dist \/ dist <= a.dist THEN a.elapsed
      ELSE IF dist >= b.dist THEN b.elapsed
      ELSE Between(a.elapsed, b.elapsed, dist - a.dist, b.dist - a.dist)

(* compareLaps: both laps on one axis, which ends with the shorter of them. *)
CompareLaps(a, b, steps) ==
  IF Len(a) < 2 \/ Len(b) < 2 THEN <<>>
  ELSE LET end == MinOf(a[Len(a)].dist, b[Len(b)].dist)
           dist == [i \in 1 .. steps |-> (end * (i - 1)) \div (steps - 1)]
           cursor[i \in 0 .. steps] ==
             IF i = 0 THEN [a |-> 1, b |-> 1]
             ELSE [ a |-> Advance(a, cursor[i - 1].a, dist[i]), b |-> Advance(b, cursor[i - 1].b, dist[i]) ]
       IN  [i \in 1 .. steps |->
              [ dist |-> dist[i],
                a |-> SampleAt(a, cursor[i].a, dist[i]), b |-> SampleAt(b, cursor[i].b, dist[i]) ]]

-----------------------------------------------------------------------------
(* Properties. *)

(* Both columns of a comparison say when each lap was where, for every point of the axis:
   resuming the lookups from cursors loses nothing, and at the end of the shorter lap its
   whole time is in (compareLaps, sampleAtDistance). *)
DeltasAreInterpolated(a, b, steps) ==
  LET compared == CompareLaps(a, b, steps)
      At(trace, dist) == InterpolateTracePointAt(trace, dist).elapsed
  IN  /\ \A i \in DOMAIN compared :
           /\ compared[i].a = At(a, compared[i].dist)
           /\ compared[i].b = At(b, compared[i].dist)
      /\ compared # <<>> =>
           LET last == compared[Len(compared)] IN
           (last.a = a[Len(a)].elapsed /\ last.dist = a[Len(a)].dist)
             \/ (last.b = b[Len(b)].elapsed /\ last.dist = b[Len(b)].dist)
=============================================================================
