--------------------------- MODULE TrackMapBuilder ---------------------------
(***************************************************************************)
(* Stitches the raceway ways of one venue into the outline of a circuit,   *)
(* or says why it could not (track-map.builder.ts, pure).                  *)
(*                                                                         *)
(* A way is [nodes, use, name]: the ids of its nodes in order, what its    *)
(* tags say it is for, and the name of a corner or None. Nodes lie on a    *)
(* grid; the roads along its lines.                                        *)
(***************************************************************************)
EXTENDS Integers, Sequences, SequencesExt, FiniteSets

CONSTANTS
  None,
  Pos,                      \* node id -> <<x, y>>
  MaxGap,                   \* MAX_CLOSURE_GAP_M
  MinLength, MaxLength,     \* MIN_CIRCUIT_LENGTH_M, MAX_CIRCUIT_LENGTH_M
  MaxGateDistance           \* MAX_GATE_DISTANCE_M

Magnitude(n) == IF n < 0 THEN -n ELSE n
Clamp(n, lo, hi) == IF n < lo THEN lo ELSE IF n > hi THEN hi ELSE n

Leg(a, b) == Magnitude(Pos[a][1] - Pos[b][1]) + Magnitude(Pos[a][2] - Pos[b][2])

(* polylineLengthM *)
LengthOf(nodes) == FoldLeft(+, 0, [i \in 1 .. Len(nodes) - 1 |-> Leg(nodes[i], nodes[i + 1])])

(* Squares of distances: between two points, and from one to the leg a - b
   (pointToSegmentM), which runs along the grid. *)
Square(p, q) == (p[1] - q[1]) * (p[1] - q[1]) + (p[2] - q[2]) * (p[2] - q[2])

ToLeg(p, a, b) ==
  LET Near(i) == IF Pos[a][i] <= Pos[b][i] THEN Clamp(p[i], Pos[a][i], Pos[b][i])
                 ELSE Clamp(p[i], Pos[b][i], Pos[a][i])
  IN  Square(p, <<Near(1), Near(2)>>)

(* usableWays: kart tracks and pit lanes are raceways too. *)
UsableWays(ways) ==
  SelectSeq(ways, LAMBDA w : w.use \notin {"karting", "pit_lane", "other"} /\ Len(w.nodes) >= 2)

First(w) == w.nodes[1]
Final(w) == w.nodes[Len(w.nodes)]
Touches(w, node) == node \in {First(w), Final(w)}

-----------------------------------------------------------------------------
(* largestConnectedComponent: ways connect by the nodes they end in. *)

Joined(v, w) == {First(v), Final(v)} \cap {First(w), Final(w)} # {}

Component(ways, i) ==
  LET reach[n \in 0 .. Len(ways)] ==
        IF n = 0 THEN {i}
        ELSE LET nearer == reach[n - 1]
             IN  {k \in DOMAIN ways : \E j \in nearer : k = j \/ Joined(ways[k], ways[j])}
  IN  reach[Len(ways)]

ComponentLength(ways, set) == FoldLeft(+, 0, [k \in DOMAIN ways |-> IF k \in set THEN LengthOf(ways[k].nodes) ELSE 0])

(* The first of the greatest elements of a sequence. *)
FirstLongest(lengths) ==
  SelectInSeq(lengths, LAMBDA l : \A k \in DOMAIN lengths : lengths[k] <= l)

Among(ways, set) ==
  LET kept == SelectSeq([k \in DOMAIN ways |-> k], LAMBDA k : k \in set)
  IN  [n \in DOMAIN kept |-> ways[kept[n]]]

LargestConnectedComponent(ways) ==
  Among(ways, Component(ways, FirstLongest(
    [i \in DOMAIN ways |-> ComponentLength(ways, Component(ways, i))])))

-----------------------------------------------------------------------------
(* walk: from the first way on, along the first unused way at the tail. *)

(* Mutated form: the next way is taken the way it was drawn. *)
ExtendForward(chain, way) ==
  [ nodes |-> chain.nodes \o Tail(way.nodes), used |-> chain.used, tail |-> Final(way) ]

(* A way is turned round if it ends where the chain does; the shared node is there once. *)
Extend(chain, way) ==
  LET forward == First(way) = chain.tail
      nodes   == IF forward THEN way.nodes ELSE Reverse(way.nodes)
  IN  [ nodes |-> chain.nodes \o Tail(nodes), used |-> chain.used, tail |-> nodes[Len(nodes)] ]

Lengthened(before, ways) ==
  LET next == {k \in DOMAIN ways \ before.used : Touches(ways[k], before.tail)}
      k == CHOOSE k \in next : \A j \in next : k <= j
  IN  IF next = {} THEN before
      ELSE [Extend(before, ways[k]) EXCEPT !.used = @ \cup {k}]

Walk(ways) ==
  LET chain[n \in 1 .. Len(ways)] ==
        IF n = 1 THEN [nodes |-> ways[1].nodes, used |-> {1}, tail |-> Final(ways[1])]
        ELSE Lengthened(chain[n - 1], ways)
  IN  chain[Len(ways)]

-----------------------------------------------------------------------------
Rejected(reason) == [outcome |-> "rejected", reason |-> reason]

(* Named ways of a ring of several: corners. *)
Corners(ways, used) ==
  IF Cardinality(used) <= 1 THEN {} ELSE {ways[k].name : k \in used} \ {None}

IsClosed(nodes) == Square(Pos[nodes[1]], Pos[nodes[Len(nodes)]]) <= MaxGap * MaxGap

Holds(nodes, gate) ==
  \E i \in 1 .. Len(nodes) - 1 : ToLeg(gate, nodes[i], nodes[i + 1]) <= MaxGateDistance * MaxGateDistance

(* The stitched chain, if it is a plausible circuit through the gate. *)
Outlined(nodes, length, corners, gate) ==
  IF Len(nodes) < 3 THEN Rejected("could-not-stitch-a-ring")
  ELSE IF ~IsClosed(nodes) THEN Rejected("ring-not-closed")
  ELSE IF length < MinLength \/ length > MaxLength THEN Rejected("implausible-length")
  ELSE IF ~Holds(nodes, gate) THEN Rejected("gate-not-on-ring")
  ELSE [outcome |-> "built", ring |-> nodes, length |-> length, corners |-> corners]

OutlinedBy(chain, ways, gate) ==
  Outlined(chain.nodes, LengthOf(chain.nodes), Corners(ways, chain.used), gate)

OutlineOf(component, gate) == OutlinedBy(Walk(component), component, gate)

(* buildTrackMap; gate is the midpoint of the start/finish gate. *)
BuildTrackMap(elements, gate) ==
  LET ways == UsableWays(elements)
  IN  IF ways = <<>> THEN Rejected("no-raceway-ways")
      ELSE OutlineOf(LargestConnectedComponent(ways), gate)

-----------------------------------------------------------------------------
(* Properties. *)

Edges(nodes) == {{nodes[i], nodes[i + 1]} : i \in 1 .. Len(nodes) - 1}

IsOnce(built, circuit) ==
  /\ built.outcome = "built"
  /\ Edges(built.ring) = Edges(circuit) /\ Len(built.ring) = Len(circuit)
  /\ built.length = LengthOf(circuit)

(* Ways that make up one simple circuit, cut anywhere, drawn either way, in any order, among
   kart tracks, pit lanes and strays, give that circuit once round; with one of them missing
   there is no map rather than a wrong one (walk, largestConnectedComponent, the checks of
   buildTrackMap). *)
CircuitOrNothing(ways, gate, circuit, complete) ==
  IF complete THEN IsOnce(BuildTrackMap(ways, gate), circuit)
  ELSE BuildTrackMap(ways, gate).outcome = "rejected"
=============================================================================
