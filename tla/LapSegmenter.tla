---------------------------- MODULE LapSegmenter ----------------------------
(***************************************************************************)
(* LapSegmenter: turns a session's samples into laps, and what the trace   *)
(* endpoint later makes of the same samples.                               *)
(*                                                                         *)
(* The first crossing of the start/finish gate arms the timer and latches  *)
(* the racing direction; a lap runs from one accepted crossing to the      *)
(* next, and both laps hold the point of the crossing between them.        *)
(* Distances, sectors and braking points of a lap are functions of its     *)
(* points; the modules LapTrace, Sectors and OptimalLap are about those.   *)
(***************************************************************************)
EXTENDS LapTrace, FiniteSets

CONSTANTS
  Fix,          \* what a sample can hold: [at, slow]
  Hop,          \* times from one sample to the next
  SfGate,       \* the start/finish gate
  MIN_LAP,      \* MIN_LAP_MS
  MaxSamples

Sample == [time : Int, at : Plane \cup {None}, slow : BOOLEAN]

Met == [time : Int, at : Plane, dir : {-1, 1}, num : Int, den : Int]   \* a crossing

ASSUME SegmenterAssumption ==
  /\ None \notin Sample \cup Met
  /\ MIN_LAP \in Nat /\ MAX_FIX_GAP \in Nat
  /\ Hop \subseteq Nat \ {0}
  /\ Fix \subseteq [at : Plane \cup {None}, slow : BOOLEAN]
  /\ SfGate \in [a : Plane, b : Plane]

(* What a fix holds, at a time. *)
Stamped(fix, time) == [time |-> time, at |-> fix.at, slow |-> fix.slow]

(* The fraction num / den of the way from x to y is a whole number. *)
IsWhole(x, y, num, den) == den * (Between(x, y, num, den) - x) = num * (y - x)

(* The samples lie on a grid of times and places that is fine enough for the crossings to lie
   on it too. Fractions of a hop are exact on it, where the code's are floating-point numbers. *)
ASSUME GridAssumption ==
  \E tick \in 1 .. MAX_FIX_GAP :
    /\ \A hop \in Hop : \E n \in 1 .. hop : hop = n * tick
    /\ \A n \in 1 .. MAX_FIX_GAP, p, q \in Fix :
         LET c == FindGateCrossing(Stamped(p, 0), Stamped(q, n * tick), SfGate, 0)
         IN  c # None => /\ IsWhole(0, n * tick, c.num, c.den)
                         /\ \A d \in {1, 2} : IsWhole(p.at[d], q.at[d], c.num, c.den)

VARIABLES
  samples,      \* history: the samples pushed so far, in ascending time
  prev,         \* the last fix with a usable position, or None
  dirSign,      \* the racing direction, 0 until it is latched
  lapNumber,
  points,       \* points of the running lap, empty while none runs
  laps          \* completed laps

vars == <<samples, prev, dirSign, lapNumber, points, laps>>

PointOf(fix) == [time |-> fix.time, at |-> fix.at]   \* also of a crossing: the anchor of two laps

(* Mutated form: any later crossing counts. *)
AcceptCrossingLoose(time) == points # <<>> => time > points[1].time

(* acceptCrossing: the arming crossing has nothing to be too close to. *)
AcceptCrossing(time) == points # <<>> => time - points[1].time >= MIN_LAP

(* Mutated form: the lap that closes ends at its last fix. *)
ClosedShort(anchor) ==
  IF points = <<>> THEN laps
  ELSE Append(laps, [number |-> lapNumber, start |-> points[1].time,
                     end |-> points[Len(points)].time, points |-> points])

(* closeLap: the running lap, if there is one, ends on the line. *)
Closed(anchor) ==
  IF points = <<>> THEN laps
  ELSE Append(laps, [number |-> lapNumber, start |-> points[1].time, end |-> anchor.time,
                     points |-> Append(points, anchor)])

(* A sample without a position is dropped, and `prev` stays the last one that had one. *)
PushUnlocated(s) ==
  /\ ~IsPositioned(s)
  /\ samples' = Append(samples, s)
  /\ UNCHANGED <<prev, dirSign, lapNumber, points, laps>>

Crossing(s) == IF prev = None THEN None ELSE FindGateCrossing(prev, s, SfGate, dirSign)

(* push, for a located sample that crosses nothing, or crosses too soon. *)
PushWithin(s) ==
  /\ IsPositioned(s)
  /\ LET c == Crossing(s) IN c # None => ~AcceptCrossing(c.time)
  /\ samples' = Append(samples, s)
  /\ points' = IF points = <<>> THEN points ELSE Append(points, PointOf(s))
  /\ prev' = s
  /\ UNCHANGED <<dirSign, lapNumber, laps>>

(* push, for one whose crossing counts. *)
PushAcross(s) ==
  /\ IsPositioned(s)
  /\ LET c == Crossing(s)
         anchor == PointOf(c) IN
     /\ c # None /\ AcceptCrossing(c.time)
     /\ dirSign' = IF dirSign = 0 THEN c.dir ELSE dirSign
     /\ laps' = Closed(anchor)
     /\ lapNumber' = lapNumber + 1
     /\ points' = <<anchor, PointOf(s)>>
  /\ samples' = Append(samples, s)
  /\ prev' = s

Init ==
  /\ samples = <<>> /\ prev = None
  /\ dirSign = 0 /\ lapNumber = 0 /\ points = <<>> /\ laps = <<>>

(* The next sample, later than those before it. *)
Push(fix, hop) ==
  /\ Len(samples) < MaxSamples
  /\ LET s == Stamped(fix, IF samples = <<>> THEN 0 ELSE samples[Len(samples)].time + hop)
     IN  PushUnlocated(s) \/ PushWithin(s) \/ PushAcross(s)

Next == \E fix \in Fix, hop \in Hop : Push(fix, hop)

Spec == Init /\ [][Next]_vars

-----------------------------------------------------------------------------
(* Properties. *)

LapPoint == [time : Int, at : Plane]
LapResult == [number : Nat, start : Int, end : Int, points : Seq(LapPoint)]

TypeOK ==
  /\ samples \in Seq(Sample)
  /\ prev = None \/ prev \in Sample
  /\ dirSign \in {-1, 0, 1} /\ lapNumber \in Nat
  /\ points \in Seq(LapPoint)
  /\ laps \in Seq(LapResult)

(* The lap under way comes next, and began where the last one ended. *)
RunningIsNext ==
  /\ points = <<>> => lapNumber = 0 /\ laps = <<>>
  /\ points # <<>> => lapNumber = Len(laps) + 1
  /\ points # <<>> /\ laps # <<>> => points[1].time = laps[Len(laps)].end

(* The located samples, and the crossing of the line, of any direction, on the hop that ends
   at one of them. *)
LocatedAt(s) == {i \in DOMAIN s : IsPositioned(s[i])}
Before(s, j) == LastOf({i \in LocatedAt(s) : i < j})
RawAt(s, j) ==
  IF Before(s, j) = {} THEN None
  ELSE FindGateCrossing(s[CHOOSE i \in Before(s, j) : TRUE], s[j], SfGate, 0)
Raw(s) == {j \in LocatedAt(s) : RawAt(s, j) # None}

(* A crossing counts if it goes the way of those that counted before it, and is MIN_LAP away
   from each of them. *)
Counting(s, set) ==
  \A j \in Raw(s) :
    j \in set <=>
      \A i \in set : i < j => /\ RawAt(s, i).dir = RawAt(s, j).dir
                            /\ RawAt(s, j).time - RawAt(s, i).time >= MIN_LAP

(* The first n that count, in order: all there are. *)
Counted(s, at, n) ==
  /\ at \in [1 .. n -> Raw(s)]
  /\ \A k, l \in 1 .. n : k < l => at[k] < at[l]
  /\ Counting(s, {at[k] : k \in 1 .. n})

(* A lap runs from one of them to the next. *)
Runs(s, at, n) ==
  /\ DOMAIN laps = 1 .. n - 1
  /\ \A k \in DOMAIN laps :
       /\ laps[k].number = k
       /\ laps[k].start = RawAt(s, at[k]).time /\ laps[k].end = RawAt(s, at[k + 1]).time

(* Whatever order of jitter, reversals, gaps and lost positions the samples come in, the laps
   are the intervals between the crossings of the line that count, each numbered by its place
   (push, acceptCrossing, closeLap against a definition over the whole session). *)
LapsAreCrossings ==
  \E at \in [1 .. lapNumber -> Raw(samples)] :
    Counted(samples, at, lapNumber) /\ Runs(samples, at, lapNumber)

(* Consecutive laps share the line, are numbered one by one from 1, and none is shorter than
   the debounce (closeLap, the anchor both laps get). *)
LapsAbut ==
  \A i \in DOMAIN laps :
    /\ laps[i].number = i
    /\ laps[i].end - laps[i].start >= MIN_LAP
    /\ i > 1 => laps[i].start = laps[i - 1].end

(* The inductive strengthening of LapsAbut. *)
SegmenterInv == TypeOK /\ RunningIsNext /\ LapsAbut

(* The points of the fixes from the i-th sample up to the j-th. *)
Stretch(s, i, j) == {PointOf(s[m]) : m \in {m \in LocatedAt(s) : i <= m /\ m < j}}

(* A lap's points are those between its crossings, and the crossings themselves. *)
Holds(s, at) ==
  \A k \in DOMAIN laps :
    ToSet(laps[k].points) =
      {PointOf(RawAt(s, at[k])), PointOf(RawAt(s, at[k + 1]))} \cup Stretch(s, at[k], at[k + 1])

(* The lap under way began at the n-th crossing that counts, which went the racing way. *)
Underway(s, at, n) ==
  IF n = 0 THEN dirSign = 0
  ELSE /\ dirSign = RawAt(s, at[n]).dir
       /\ points[1] = PointOf(RawAt(s, at[n]))
       /\ ToSet(points) = {PointOf(RawAt(s, at[n]))} \cup Stretch(s, at[n], Len(s) + 1)

Ascending(s) == \A i, j \in DOMAIN s : i < j => s[i].time < s[j].time

PrevIsLast ==
  \/ prev = None /\ LocatedAt(samples) = {}
  \/ \E i \in LastOf(LocatedAt(samples)) : prev = samples[i]

(* The inductive strengthening of LapsAreCrossings. *)
CrossingsInv ==
  /\ SegmenterInv /\ Ascending(samples) /\ PrevIsLast
  /\ \E at \in [1 .. lapNumber -> Raw(samples)] :
       /\ Counted(samples, at, lapNumber) /\ Runs(samples, at, lapNumber)
       /\ Holds(samples, at) /\ Underway(samples, at, lapNumber)

(* A located fix sits on the instant, or two neighbouring ones bracket it. *)
Bracketed(time) ==
  \E i \in DOMAIN samples :
    /\ IsPositioned(samples[i]) /\ samples[i].time <= time
    /\ samples[i].time < time =>
         /\ i < Len(samples)
         /\ IsPositioned(samples[i + 1]) /\ samples[i + 1].time > time

Trace(lap) == AnchorToLap(LapWindow(samples, lap.start, lap.end), lap.start, lap.end)

(* The trace of a lap, made anew from the stored samples, holds the very points that the lap
   was timed on, in ascending time and without a repeated one, but for an end on the line
   next to a sample without position (findLapWindow, anchorToLap, interpolateAt). *)
TraceRebuildsLap ==
  \A k \in DOMAIN laps :
    LET lap == laps[k]
        trace == Trace(lap)
        lost == {p \in ToSet(lap.points) : p.time \in {lap.start, lap.end} /\ ~Bracketed(p.time)}
    IN  /\ ToSet(trace) \subseteq ToSet(lap.points)
        /\ ToSet(lap.points) \ lost \subseteq ToSet(trace)
        /\ \A i \in 2 .. Len(trace) : trace[i - 1].time < trace[i].time

(* The trace of a lap opens and closes on the line, which is what two laps are compared by. *)
TraceOpensOnLine ==
  \A k \in DOMAIN laps :
    LET trace == Trace(laps[k])
    IN  trace[1].time = laps[k].start /\ trace[Len(trace)].time = laps[k].end
=============================================================================
