------------------------------- MODULE Sectors -------------------------------
(***************************************************************************)
(* Sector splits of a lap, and where a track's sector gates come from      *)
(* (sectors.ts and sector-gates.ts, pure).                                 *)
(*                                                                         *)
(* A lap point is a fix with its distance `dist` along the lap. Tracks are *)
(* rectilinear on the grid of GateCrossing, so that lengths, headings and  *)
(* perpendiculars are whole, and gates are put on it. Times are            *)
(* milliseconds, whole at a fix; what lies between two fixes, where the    *)
(* code has floating-point numbers, is an exact fraction <<n, d>>, d > 0,  *)
(* until the code rounds it.                                               *)
(***************************************************************************)
EXTENDS GateCrossing, Sequences, SequencesExt

CONSTANTS
  SECTOR_COUNT,        \* DEFAULT_SECTOR_COUNT
  DIRECTION_PROBE,     \* DIRECTION_PROBE_M
  BandNum, BandDen     \* SANE_BAND_FACTOR, as a fraction

Abs(n) == IF n < 0 THEN -n ELSE n
Sign(n) == IF n > 0 THEN 1 ELSE IF n < 0 THEN -1 ELSE 0

(* distanceM, along the grid. *)
Distance(p, q) == Abs(p[1] - q[1]) + Abs(p[2] - q[2])

(* Its square across the grid, which is all that `nearest` compares. *)
Apart(p, q) == (p[1] - q[1]) * (p[1] - q[1]) + (p[2] - q[2]) * (p[2] - q[2])

Exact(n) == <<n, 1>>
Precedes(q, r) == q[1] * r[2] < r[1] * q[2]

(* The fraction num / den of the way from x to y. *)
PartWay(x, y, num, den) == <<x * den + num * (y - x), den>>

(* Mutated form: the fraction of a millisecond is cut off. *)
CutOff(n, d) == n \div d

(* Math.round: to the nearest, and up from half way. *)
Rounded(n, d) == (2 * n + d) \div (2 * d)

(* Durations between consecutive instants, each rounded on its own. *)
Durations(bounds) ==
  [i \in 1 .. Len(bounds) - 1 |->
     LET from == bounds[i]
         to   == bounds[i + 1]
     IN  Rounded(to[1] * from[2] - from[1] * to[2], to[2] * from[2])]

-----------------------------------------------------------------------------
(* sectors.ts *)

(* Mutated form: a target on the hop after a fix has the time of the fix. *)
TimeAtFix(points, target) ==
  LET i == SelectInSeq(Tail(points), LAMBDA p : ~Precedes(Exact(p.dist), target))
  IN  Exact(points[IF i = 0 THEN Len(points) ELSE i].time)

TimeAtDistance(points, target) ==
  LET i == SelectInSeq(Tail(points), LAMBDA p : ~Precedes(Exact(p.dist), target))
  IN  IF i = 0 THEN Exact(points[Len(points)].time)
      ELSE IF points[i + 1].dist = points[i].dist THEN Exact(points[i].time)
      ELSE PartWay(points[i].time, points[i + 1].time,
                   target[1] - points[i].dist * target[2],
                   (points[i + 1].dist - points[i].dist) * target[2])

(* sectorTimes: equal fractions of the lap's own distance. *)
SectorTimes(points, n) ==
  IF n < 1 \/ Len(points) < 2 THEN <<>>
  ELSE LET first == points[1]
           last  == points[Len(points)]
           total == last.dist - first.dist
       IN  IF total <= 0 \/ last.time <= first.time THEN <<>>
           ELSE Durations([k \in 1 .. n + 1 |->
                  CASE k = 1     -> Exact(first.time)
                    [] k = n + 1 -> Exact(last.time)
                    [] OTHER     -> TimeAtDistance(points, PartWay(first.dist, last.dist, k - 1, n))])

Passed(from, to, crossing) ==
  IF crossing = None THEN None
  ELSE [ time |-> PartWay(from.time, to.time, crossing.num, crossing.den),
         dist |-> PartWay(from.dist, to.dist, crossing.num, crossing.den) ]

(* Every crossing of one gate by a lap, as [time, dist]. *)
Passes(points, gate) ==
  SelectSeq([i \in 1 .. Len(points) - 1 |->
               Passed(points[i], points[i + 1], FindGateCrossing(points[i], points[i + 1], gate, 0))],
            LAMBDA p : p # None)

(* The instants that bound the sectors of a lap whose gates were crossed as found. *)
BoundsOf(points, found) ==
  <<Exact(points[1].time)>> \o [g \in DOMAIN found |-> found[g].time]
    \o <<Exact(points[Len(points)].time)>>

Ascending(times) == \A i \in 1 .. Len(times) - 1 : Precedes(times[i], times[i + 1])

(* One crossing of each gate, in order and strictly inside the lap, or None. *)
OnceEach(points, passes) ==
  LET found == [g \in DOMAIN passes |-> passes[g][1]]
  IN  IF \E g \in DOMAIN passes : Len(passes[g]) # 1 THEN None
      ELSE IF Ascending(BoundsOf(points, found)) THEN found ELSE None

CrossGates(points, gates) ==
  IF gates = <<>> \/ Len(points) < 2 THEN None
  ELSE OnceEach(points, [g \in DOMAIN gates |-> Passes(points, gates[g])])

SectorTimesFromGates(points, gates) ==
  LET found == CrossGates(points, gates)
  IN  IF found = None THEN <<>> ELSE Durations(BoundsOf(points, found))

-----------------------------------------------------------------------------
(* sector-gates.ts: a ring is a sequence of points, a path one of [at, dist]. *)

Midpoint(gate) == Point(gate.a, gate.b, 1, 2)
HalfWidth(gate) == Distance(gate.a, gate.b) \div 2

NearestIndex(ring, p) ==
  SelectInSeq(ring, LAMBDA q : \A i \in DOMAIN ring : Apart(p, q) <= Apart(p, ring[i]))

(* A point a short way into the lap tells which way it was driven. *)
Probe(lap) ==
  LET i == SelectInSeq(lap, LAMBDA p : p.dist >= DIRECTION_PROBE)
  IN  lap[IF i = 0 THEN Len(lap) ELSE i].at

(* Mutated form: the ring is taken to be numbered the way it is driven. *)
DetectDirectionByIndex(ring, sfIndex, lap) ==
  IF NearestIndex(ring, Probe(lap)) >= sfIndex THEN 1 ELSE -1

DetectDirection(ring, sfIndex, lap) ==
  LET probe == NearestIndex(ring, Probe(lap))
      n == Len(ring)
  IN  IF (probe - sfIndex) % n <= (sfIndex - probe) % n THEN 1 ELSE -1

(* The distance of each point of a walk from its start. *)
Measured(walk) ==
  LET dist[i \in DOMAIN walk] == IF i = 1 THEN 0 ELSE dist[i - 1] + Distance(walk[i - 1], walk[i])
  IN  [i \in DOMAIN walk |-> [at |-> walk[i], dist |-> dist[i]]]

(* From the point nearest S/F, in driving direction, back to itself. *)
BuildDirectedRing(ring, sfIndex, direction) ==
  LET n == Len(ring)
  IN  Measured([i \in 1 .. n + 1 |-> ring[1 + ((sfIndex - 1 + direction * (i - 1)) % n)]])

(* pointAtDistance: where it is, and the two points of the path around it. *)
PointAtDistance(path, target, total) ==
  LET t == IF total > 0 THEN target % total ELSE 0
      i == SelectInSeq(Tail(path), LAMBDA p : p.dist >= t)
      n == Len(path)
  IN  IF i = 0 THEN [center |-> path[n].at, a |-> path[IF n > 1 THEN n - 1 ELSE n], b |-> path[n]]
      ELSE LET a == path[i]
               b == path[i + 1]
           IN  [ center |-> IF b.dist = a.dist THEN a.at
                            ELSE Point(a.at, b.at, t - a.dist, b.dist - a.dist),
                 a |-> a, b |-> b ]

PerpendicularGateAt(a, b, center, halfWidth) ==
  LET ux == -Sign(b[2] - a[2])
      uy == Sign(b[1] - a[1])
  IN  [ a |-> <<center[1] + ux * halfWidth, center[2] + uy * halfWidth>>,
        b |-> <<center[1] - ux * halfWidth, center[2] - uy * halfWidth>> ]

BuildInteriorGates(path, total, halfWidth, n) ==
  [k \in 1 .. n - 1 |->
     LET p == PointAtDistance(path, (total * k) \div n, total)
     IN  PerpendicularGateAt(p.a.at, p.b.at, p.center, halfWidth)]

(* Near the fractions of the lap that they are to split at. *)
Balanced(found, total, n) ==
  \A i \in DOMAIN found :
    LET d == found[i].dist
    IN  Abs(n * d[1] - total * i * d[2]) * BandDen <= total * BandNum * d[2]

(* isValidCandidate: crossed once each and in order. *)
IsValidCandidate(lap, gates, n) ==
  LET found == CrossGates(lap, gates)
  IN  found # None /\ Balanced(found, lap[Len(lap)].dist, n)

IfValid(gates, lap, n) == IF IsValidCandidate(lap, gates, n) THEN gates ELSE None

DeriveFromCentreline(ring, length, sfGate, lap, n) ==
  LET sfIndex == NearestIndex(ring, Midpoint(sfGate))
      path == BuildDirectedRing(ring, sfIndex, DetectDirection(ring, sfIndex, lap))
  IN  IfValid(BuildInteriorGates(path, length, HalfWidth(sfGate), n), lap, n)

DeriveFromLap(lap, sfGate, n) ==
  LET total == lap[Len(lap)].dist
  IN  IF total <= 0 THEN None
      ELSE IfValid(BuildInteriorGates(lap, total, HalfWidth(sfGate), n), lap, n)

Preferred(ofRing, ofLap) ==
  IF ofRing # None THEN [gates |-> ofRing, source |-> "centreline"]
  ELSE IF ofLap # None THEN [gates |-> ofLap, source |-> "reference-lap"]
  ELSE None

(* deriveSectorGates: from the ring if there is one, else from the reference lap. *)
DeriveSectorGates(sfGate, ring, length, lap, n) ==
  IF Len(lap) < 3 \/ n < 2 THEN None
  ELSE Preferred(IF Len(ring) >= 3 /\ length > 0
                 THEN DeriveFromCentreline(ring, length, sfGate, lap, n) ELSE None,
                 DeriveFromLap(lap, sfGate, n))

-----------------------------------------------------------------------------
(* Properties. *)

(* The same ring as other ways of the map may spell it: from another node, or the other way. *)
Spelled(ring, first, reversed) ==
  LET n == Len(ring)
      turned == [i \in 1 .. n |-> ring[1 + ((first + i - 2) % n)]]
  IN  IF reversed THEN Reverse(turned) ELSE turned

(* A probe that is nearer to another node than the start/finish line is tells the direction. *)
Resolved(ring, sfGate, lap) ==
  NearestIndex(ring, Probe(lap)) # NearestIndex(ring, Midpoint(sfGate))

(* The gates of a track, and so the splits of its laps, do not depend on the node or the
   winding that the ring of its map happens to begin with (nearestIndex, detectDirection,
   buildDirectedRing). *)
RingFormIsImmaterial(ring, length, sfGate, lap) ==
  Resolved(ring, sfGate, lap) =>
    \A first \in DOMAIN ring, reversed \in BOOLEAN :
      LET other == DeriveSectorGates(sfGate, Spelled(ring, first, reversed), length, lap, SECTOR_COUNT)
      IN  other = DeriveSectorGates(sfGate, ring, length, lap, SECTOR_COUNT)

(* As many sectors as there are to be, none of negative length, which together are the lap but
   for the half millisecond that rounding each of them may lose or gain. *)
SplitWhole(times, lap) ==
  /\ Len(times) = SECTOR_COUNT /\ \A i \in DOMAIN times : times[i] >= 0
  /\ 2 * Abs(FoldLeft(+, 0, times) - (lap[Len(lap)].time - lap[1].time)) <= SECTOR_COUNT

(* On the hop that reaches the k-th fraction of the distance, the sectors before it end as far into the hop
   as the distance is, however fast the rest was driven. *)
SplitByDistance(times, lap) ==
  \A k \in 1 .. SECTOR_COUNT - 1, i \in 2 .. Len(lap) :
    LET a == lap[i - 1]
        b == lap[i]
        Past(p) == (p.dist - lap[1].dist) * SECTOR_COUNT - (lap[Len(lap)].dist - lap[1].dist) * k
        into == lap[1].time + FoldLeft(+, 0, SubSeq(times, 1, k)) - a.time
        hop  == (b.dist - a.dist) * SECTOR_COUNT
    IN  Past(a) < 0 /\ Past(b) >= 0 =>
          2 * Abs(into * hop + Past(a) * (b.time - a.time)) <= k * hop

(* A lap is split all the way or not at all, by fractions of its distance wherever it has any.
   Splits are rounded one by one, so that they need not sum to the lap, nor end where they
   should, but neither is off by more than half a millisecond for each split summed. Derived
   gates split at least the lap they were derived from (sectorTimes, sectorTimesFromGates,
   isValidCandidate). *)
SplitsAddUp(ring, length, sfGate, lap) ==
  LET derived == DeriveSectorGates(sfGate, ring, length, lap, SECTOR_COUNT)
      times == SectorTimes(lap, SECTOR_COUNT)
  IN  /\ \/ SplitWhole(times, lap) /\ SplitByDistance(times, lap)
         \/ lap[Len(lap)].dist <= lap[1].dist
      /\ derived = None \/ SplitWhole(SectorTimesFromGates(lap, derived.gates), lap)
=============================================================================
