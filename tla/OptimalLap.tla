----------------------------- MODULE OptimalLap -----------------------------
(***************************************************************************)
(* The optimal lap of a session: the best time of each sector, braking     *)
(* points moved onto its axis, and its line stitched from the traces of    *)
(* the laps that set them (optimal-lap-core.ts, optimal-lap.ts, pure).     *)
(*                                                                         *)
(* A lap is [number, dist, sectors, brakes], brakes a sequence of          *)
(* distances; lengths are multiples of the sector count.                   *)
(***************************************************************************)
EXTENDS LapTrace, FiniteSets

CONSTANT SECTOR_COUNT   \* DEFAULT_SECTOR_COUNT

SectorAssumption == SECTOR_COUNT \in Nat \ {0}

Sector == 1 .. SECTOR_COUNT

(* The sum of the first n elements of a sequence, and of them all. *)
UpTo(s, n) ==
  LET sum[i \in 0 .. n] == IF i = 0 THEN 0 ELSE sum[i - 1] + s[i]
  IN  sum[n]

Sum(s) == UpTo(s, Len(s))

(* A complete set of splits, each greater than zero. *)
IsComplete(lap) == Len(lap.sectors) = SECTOR_COUNT /\ \A i \in Sector : lap.sectors[i] > 0

Eligible(laps) == Picked(laps, {k \in DOMAIN laps : IsComplete(laps[k])})

(* The winner of a sector: the least time, the lower number between equals. *)
Beats(x, y, i) ==
  \/ x.sectors[i] < y.sectors[i]
  \/ x.sectors[i] = y.sectors[i] /\ x.number < y.number

(* What the fastest laps of the sectors make up, as [time, dist, sectors, matches]. *)
PlanOf(best) ==
  [ time    |-> Sum([i \in Sector |-> best[i].sectors[i]]),
    dist    |-> Sum([i \in Sector |-> best[i].dist \div SECTOR_COUNT]),
    sectors |-> best,
    matches |-> IF \A i \in Sector : best[i] = best[1] THEN best[1].number ELSE None ]

BestOf(eligible) ==
  IF Len(eligible) < 2 THEN None
  ELSE PlanOf([i \in Sector |->
         CHOOSE x \in ToSet(eligible) : \A y \in ToSet(eligible) : ~Beats(y, x, i)])

(* pickBestSectors: sectors is the lap that set each. *)
PickBestSectors(laps) == BestOf(Eligible(laps))

(* Mutated form: a point on the boundary belongs to both sectors. *)
BrakesOfTwice(lap, i) ==
  LET step == lap.dist \div SECTOR_COUNT
      In(d) == d >= step * (i - 1) /\ d <= step * i
  IN  Picked(lap.brakes, {k \in DOMAIN lap.brakes : In(lap.brakes[k])})

(* The braking points of one sector of a lap; only the last sector holds its own end. *)
BrakesOf(lap, i) ==
  LET step == lap.dist \div SECTOR_COUNT
      In(d) == d >= step * (i - 1) /\ (d < step * i \/ (i = SECTOR_COUNT /\ d = step * i))
  IN  Picked(lap.brakes, {k \in DOMAIN lap.brakes : In(lap.brakes[k])})

(* buildOptimalLap: the braking points, moved onto the stitched axis. *)
BrakingPoints(plan) ==
  LET step == [i \in Sector |-> plan.sectors[i].dist \div SECTOR_COUNT]
      Moved(i) == LET own == BrakesOf(plan.sectors[i], i)
                  IN  [k \in DOMAIN own |-> UpTo(step, i - 1) + own[k] - step[i] * (i - 1)]
  IN  FlattenSeq([i \in Sector |-> Moved(i)])

-----------------------------------------------------------------------------
(* stitchOptimalTrace *)

(* sectorBoundsM: where sector i starts and ends along the trace of a lap. *)
BoundaryM(trace, sectors, k) ==
  CASE k = 0            -> trace[1].dist
    [] k = SECTOR_COUNT -> trace[Len(trace)].dist
    [] OTHER            -> DistanceAtElapsed(trace, UpTo(sectors, k))

SectorBoundsM(trace, sectors, i) ==
  LET length == trace[Len(trace)].dist
  IN  IF Len(sectors) # SECTOR_COUNT
      THEN <<(length * (i - 1)) \div SECTOR_COUNT, (length * i) \div SECTOR_COUNT>>
      ELSE <<BoundaryM(trace, sectors, i - 1), BoundaryM(trace, sectors, i)>>

(* Mutated form: the time of a slice is the time its trace took. *)
UnscaledFrom(slice, from, dist, elapsed, time) ==
  [k \in DOMAIN slice |->
     [ dist |-> dist + slice[k].dist - from,
       elapsed |-> elapsed + slice[k].elapsed - slice[1].elapsed ]]

(* A slice that begins `from` along its lap, put at `dist` and `elapsed` of the stitched axis,
   and its time stretched to the sector's. *)
ScaledFrom(slice, from, dist, elapsed, time) ==
  LET took == slice[Len(slice)].elapsed - slice[1].elapsed
      span == IF took = 0 THEN 1 ELSE took
  IN  [k \in DOMAIN slice |->
         [ dist |-> dist + slice[k].dist - from,
           elapsed |-> elapsed + ((slice[k].elapsed - slice[1].elapsed) * time) \div span ]]

(* One sector, cut at its own boundaries. *)
Slice(trace, from, to, dist, elapsed, time) ==
  ScaledFrom(<<InterpolateTracePointAt(trace, from)>>
               \o Picked(trace, {k \in DOMAIN trace : trace[k].dist > from /\ trace[k].dist < to})
               \o <<InterpolateTracePointAt(trace, to)>>,
             from, dist, elapsed, time)

(* Each sector cut from its trace, at its bounds; the ends of the whole are the totals. *)
Joined(traces, bounds, times) ==
  LET dists == [i \in Sector |-> bounds[i][2] - bounds[i][1]]
      line  == FlattenSeq([i \in Sector |->
                 Slice(traces[i], bounds[i][1], bounds[i][2], UpTo(dists, i - 1), UpTo(times, i - 1), times[i])])
  IN  [ line  |-> [line EXCEPT ![Len(line)] = [dist |-> Sum(dists), elapsed |-> Sum(times)]],
        seams |-> [i \in 1 .. SECTOR_COUNT - 1 |-> UpTo(dists, i)] ]

JoinedLaps(traces, laps) ==
  Joined(traces, [i \in Sector |-> SectorBoundsM(traces[i], laps[i].sectors, i)],
         [i \in Sector |-> laps[i].sectors[i]])

(* The stitched line before it is thinned, and the joins: all of the sectors or nothing. *)
Stitched(plan, traceOf) ==
  IF \E i \in Sector : Len(traceOf[plan.sectors[i].number]) < 2 THEN [line |-> <<>>, seams |-> <<>>]
  ELSE JoinedLaps([i \in Sector |-> traceOf[plan.sectors[i].number]], plan.sectors)

Thinned(line, maxPoints) == IF line = <<>> THEN <<>> ELSE DecimateByDistance(line, maxPoints)

StitchOptimalTrace(plan, traceOf, maxPoints) == Thinned(Stitched(plan, traceOf).line, maxPoints)

-----------------------------------------------------------------------------
(* What the API answers about the laps of a session. A lap is referred to by its number, the
   optimal lap by OPTIMAL; traceOf gives the full-rate trace of each lap. *)

OPTIMAL == 0
NoLimit == 1000   \* Number.MAX_SAFE_INTEGER points
NotFound == <<"404">>

(* traceFor and requireLap. *)
LapTraceFor(laps, traceOf, n) ==
  IF \E i \in DOMAIN laps : laps[i].number = n THEN traceOf[n] ELSE NotFound

(* optimalTraceFor: not found, rather than empty. *)
Found(line) == IF line = <<>> THEN NotFound ELSE line

PlannedTraceFor(plan, traceOf, maxPoints) ==
  IF plan = None THEN NotFound ELSE Found(StitchOptimalTrace(plan, traceOf, maxPoints))

OptimalTraceFor(laps, traceOf, maxPoints) == PlannedTraceFor(PickBestSectors(laps), traceOf, maxPoints)

(* traceForRef: nothing is thinned before it is compared. *)
TraceForRef(laps, traceOf, ref) ==
  IF ref = OPTIMAL THEN OptimalTraceFor(laps, traceOf, NoLimit) ELSE LapTraceFor(laps, traceOf, ref)

(* compare *)
Compared(traceA, traceB, steps) ==
  IF NotFound \in {traceA, traceB} THEN NotFound ELSE CompareLaps(traceA, traceB, steps)

Compare(laps, traceOf, a, b, steps) ==
  Compared(TraceForRef(laps, traceOf, a), TraceForRef(laps, traceOf, b), steps)

-----------------------------------------------------------------------------
(* Properties. *)

IsFastest(plan, eligible) ==
  \A choice \in [Sector -> eligible] : plan.time <= Sum([i \in Sector |-> choice[i].sectors[i]])

Increasing(s) == \A i \in 2 .. Len(s) : s[i - 1] < s[i]

(* No choice of a complete lap for each sector is faster than the optimal lap, and its
   braking points are in the order they are driven in, none of them twice (pickBestSectors,
   buildOptimalLap). *)
OptimalIsBest(laps) ==
  \A plan \in {PickBestSectors(laps)} \ {None} :
    /\ IsFastest(plan, ToSet(Eligible(laps)))
    /\ Increasing(BrakingPoints(plan))

(* It starts at 0, never goes back, and ends at the optimal time. *)
IsWholeLap(line, time) ==
  /\ line[1] = [dist |-> 0, elapsed |-> 0] /\ line[Len(line)].elapsed = time
  /\ \A i \in 2 .. Len(line) :
       line[i - 1].dist <= line[i].dist /\ line[i - 1].elapsed <= line[i].elapsed

(* Each seam is passed at the sum of the sectors before it. *)
PassesSeams(whole, plan) ==
  \A i \in DOMAIN whole.seams : \E k \in DOMAIN whole.line :
    whole.line[k] = [ dist    |-> whole.seams[i],
                      elapsed |-> UpTo([s \in Sector |-> plan.sectors[s].sectors[s]], i) ]

(* A stitched line is a whole lap: it starts at 0, never goes back in distance or in time,
   passes each seam at the sum of the sectors before it, and ends at the optimal time; or
   there is none, where a contributing trace has no length (stitchOptimalTrace). *)
StitchedLapIsWhole(laps, traceOf, maxPoints) ==
  \A plan \in {PickBestSectors(laps)} \ {None} :
    IF \E i \in Sector : Len(traceOf[plan.sectors[i].number]) < 2
    THEN StitchOptimalTrace(plan, traceOf, maxPoints) = <<>>
    ELSE /\ IsWholeLap(StitchOptimalTrace(plan, traceOf, maxPoints), plan.time)
         /\ PassesSeams(Stitched(plan, traceOf), plan)

AsShown(compared, shown, line, trace, steps) ==
  /\ (compared = NotFound) <=> (NotFound \in {shown, trace})
  /\ compared # NotFound => DeltasAreInterpolated(line, trace, steps)

(* A lap compared with the optimal one is compared with the line that is shown of it: both
   are there or neither is, the columns hold when each was where, and the last is the whole
   time of the shorter (compare, traceForRef, optimalTraceFor). *)
OptimalIsCompared(laps, traceOf, n, steps) ==
  AsShown(Compare(laps, traceOf, OPTIMAL, n, steps), OptimalTraceFor(laps, traceOf, 4),
          TraceForRef(laps, traceOf, OPTIMAL), LapTraceFor(laps, traceOf, n), steps)
=============================================================================
