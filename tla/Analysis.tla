------------------------------ MODULE Analysis -------------------------------
(***************************************************************************)
(* What the API computes anew for each request about the laps of a         *)
(* session: the optimal lap, the comparison of two laps, and the braking   *)
(* points of one. Nothing is kept between requests: `case` is the one that *)
(* is answered, any of a set.                                              *)
(***************************************************************************)
EXTENDS OptimalLap

CONSTANTS
  ENTER, EXIT, MIN_BRAKING, MERGE,   \* Braking
  Cases                              \* the requests there may be

VARIABLE case

Brakes == INSTANCE Braking

-----------------------------------------------------------------------------
(* What the algorithms are given. *)

(* A trace is in order on both axes. *)
Reading == [dist : Nat, elapsed : Nat]

IsTrace(s) ==
  /\ s \in Seq(Reading)
  /\ \A i, j \in 1 .. Len(s) : i < j => s[i].dist <= s[j].dist /\ s[i].elapsed <= s[j].elapsed

(* Its last hop has length. *)
EndsMoving(s) == Len(s) >= 2 /\ s[Len(s) - 1].dist < s[Len(s)].dist

(* The last sector of the lap begins before its trace ends. *)
EndsLate(lap, trace) ==
  EndsMoving(trace) /\ UpTo(lap.sectors, SECTOR_COUNT - 1) < trace[Len(trace)].elapsed

Driven == [number : Nat, dist : Nat, sectors : Seq(Nat), brakes : Seq(Nat)]

(* The traces of the laps: each in order; where it has length, it ends on the move, and the
   last sector of a complete lap begins before it ends. *)
WellTraced(all, traceOf) ==
  \A k \in 1 .. Len(all) :
    LET trace == traceOf[all[k].number] IN
    /\ IsTrace(trace) /\ trace # NotFound
    /\ Len(trace) >= 2 => /\ EndsMoving(trace)
                          /\ IsComplete(all[k]) => EndsLate(all[k], trace)

IsSession(laps, traceOf) ==
  /\ laps \in Seq(Driven) /\ \A k \in 1 .. Len(laps) : laps[k].number = k /\ Increasing(laps[k].brakes)
  /\ WellTraced(laps, traceOf)

(* The points of a lap are in the order they were sampled. *)
Interval == [time : Int, decel : Int \cup {None}]
InOrder(intervals) == \A i \in 2 .. Len(intervals) : intervals[i - 1].time <= intervals[i].time

ASSUME CaseAssumption ==
  /\ SectorAssumption /\ Brakes!BrakingAssumption
  /\ \A c \in Cases :
       /\ c.kind = "optimal" => IsSession(c.laps, c.traces)
       /\ c.kind = "braking" => c.points \in Seq(Interval) /\ InOrder(c.points)

-----------------------------------------------------------------------------
AnalysisInit == case = None

AnalysisStep == case = None /\ case' \in Cases

AnalysisSpec == AnalysisInit /\ [][AnalysisStep]_case

-----------------------------------------------------------------------------
(* Properties. *)

Asked(kind) == case # None /\ case.kind = kind

(* The optimal lap is the best there is, and stitched whole however it is thinned
   (pickBestSectors, stitchOptimalTrace). *)
OptimalIsSound ==
  Asked("optimal") => /\ OptimalIsBest(case.laps)
                   /\ \A m \in {4, 12} : StitchedLapIsWhole(case.laps, case.traces, m)

(* Any two laps, and a lap and the optimal one, are compared at equal distances (compareLaps,
   compare). *)
ComparisonIsSound ==
  Asked("optimal") => \A n \in DOMAIN case.laps :
                     /\ \A m \in DOMAIN case.laps :
                          DeltasAreInterpolated(case.traces[m], case.traces[n], 4)
                     /\ OptimalIsCompared(case.laps, case.traces, n, 4)

(* Every braking zone is one whole zone (detectBrakingPoints). *)
BrakesAreWhole == Asked("braking") => Brakes!BrakesAreWhole(case.points)
=============================================================================
