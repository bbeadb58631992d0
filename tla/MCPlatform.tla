----------------------------- MODULE MCPlatform ------------------------------
(***************************************************************************)
(* Small instances of the parts that share no state. Every step of         *)
(* Platform is a step of one of them, so the parts are explored one by     *)
(* one: `part`, chosen at the start, moves, and the others stay as they    *)
(* began. "analysis" applies the algorithms to every case of a set.        *)
(***************************************************************************)
EXTENDS Platform, MCLapSegmenter, Analysis, TLC

CONSTANTS n1, n2, q1, q2, v1, v2, c1, c2, s1, s2, s3, l1, l2, l3, t1, g1, g2

VARIABLE part

(* The session is cut at the gate g1 until a correction puts it at g2. *)
MCFirstGate == [t \in {t1} |-> g1]
MCLaps == [g \in {g1, g2} |-> [n \in 0 .. 3 |-> IF g # g1 THEN n ELSE IF n > 1 THEN 1 ELSE 0]]
MCSurveyed == [t \in {t1} |-> None]
MCCandidate ==
  [g \in {g1, g2} |-> [x \in {"ring", "lap"} |-> IF x = "ring" THEN "centreline" ELSE "reference"]]
MCClean == [s \in {"centreline", "reference"} |-> IF s = "centreline" THEN {2} ELSE 0 .. 3]

MCCarOf == [s \in {s1, s2, s3} |-> IF s = s3 THEN c2 ELSE c1]
Sent(k, s, t, f) == [kind |-> k, sess |-> s, t |-> t, fix |-> f]
MCMessage ==
  { Sent("start", s1, 0, FALSE), Sent("frame", s1, 2, TRUE), Sent("stop", s1, 9, FALSE),
    Sent("frame", s2, 7, FALSE), Sent("frame", s3, 5, TRUE) }

Derived(ls, best, optimal) == [laps |-> ls, best |-> best, optimal |-> optimal]
MCOutcome == { Derived({l1, l2, l3}, l2, TRUE), Derived({l1, l2}, l1, FALSE) }

Framed(lo, hi, span) == [min |-> lo, max |-> hi, minSpan |-> span]
MCFrame == {Framed(0, 64, 1), Framed(0, 128, 1), Framed(32, 32, 64)}

-----------------------------------------------------------------------------
(* Cases for the algorithms. *)

Splits == INSTANCE Sectors WITH DIRECTION_PROBE <- 2, BandNum <- 4, BandDen <- 10

(* Hops of 4 ms, or of 3 and 5. *)
Walk(w, uneven) ==
  LET m == Splits!Measured(w)
      Time(i) == 4 * i + (IF uneven THEN i % 2 ELSE 0)
  IN  [i \in DOMAIN w |-> [time |-> Time(i), dist |-> m[i].dist, at |-> w[i], slow |-> FALSE]]

Routes ==
  { << <<2, 0>>, <<9, 0>>, <<9, 6>>, <<0, 6>>, <<0, 0>>, <<2, 0>> >>,
    << <<2, 0>>, <<5, 0>>, <<9, 0>>, <<9, 4>>, <<9, 6>>, <<0, 6>>, <<0, 0>>, <<2, 0>> >>,
    << <<2, 0>>, <<10, 0>>, <<10, 7>>, <<0, 7>>, <<0, 0>>, <<2, 0>> >>,
    << <<2, 0>>, <<9, 0>>, <<9, 0>>, <<9, 6>>, <<0, 6>>, <<0, 0>>, <<2, 0>> >>,
    << <<2, 0>>, <<9, 0>>, <<9, 6>>, <<2, 6>>, <<2, 0>>, <<0, 0>>, <<2, 0>> >>,
    << <<2, 0>>, <<9, 0>>, <<9, -6>>, <<0, -6>>, <<0, 0>>, <<2, 0>> >> }

SectorCases ==
  [ kind : {"sectors"}, gate : {[a |-> <<2, -1>>, b |-> <<2, 1>>]},
    ring : { << <<0, 0>>, <<9, 0>>, <<9, 6>>, <<0, 6>> >>,
             << <<0, 0>>, <<3, 0>>, <<6, 0>>, <<9, 0>>, <<9, 3>>, <<9, 6>>, <<0, 6>> >> },
    length : {0, 30, 32},
    lap : {Walk(d, u) : d \in Routes \cup {Reverse(d) : d \in Routes}, u \in BOOLEAN} ]

Lap(n, dists, splits) ==
  [number : {n}, dist : dists, sectors : splits, brakes : {<<0, 3, 9>>}]

Timed(ds, es) == [i \in DOMAIN ds |-> [dist |-> ds[i], elapsed |-> es[i]]]

AllSplits == {<<2, 3, 4>>, <<3, 3, 2>>, <<2, 4, 3>>, <<0, 4, 4>>, <<>>}
Traces ==
  { <<>>, Timed(<<0, 3, 6, 9>>, <<0, 2, 5, 9>>), Timed(<<0, 2, 2, 10>>, <<0, 2, 4, 8>>),
    Timed(<<0, 1, 4, 6, 8, 12>>, <<0, 1, 3, 5, 7, 9>>) }

OptimalCases ==
  [ kind : {"optimal"},
    laps : Lap(1, {9, 12}, AllSplits) \X Lap(2, {12}, AllSplits)
             \X Lap(3, {12}, {<<2, 3, 4>>, <<0, 4, 4>>, <<>>}),
    traces : {<<a, b, a>> : a \in Traces \ {<<>>}, b \in Traces} ]

Instants == {<<0, 1, 2, 3, 4, 5>>, <<0, 2, 3, 5, 6, 9>>}

BrakingCases ==
  [ kind : {"braking"},
    points : {[i \in 1 .. 6 |-> [time |-> t[i], decel |-> d[i]]] :
                t \in Instants, d \in [1 .. 6 -> {None, 0, 20, 30}]} ]

Streets == << <<0, 0>>, <<5, 0>>, <<9, 0>>, <<9, 6>>, <<4, 6>>, <<0, 6>>, <<20, 0>>, <<24, 0>> >>

Builder == INSTANCE TrackMapBuilder WITH
  Pos <- Streets, MaxGap <- 1, MinLength <- 10, MaxLength <- 40, MaxGateDistance <- 2

(* A circuit mapped as one way or as several, drawn either way round, one possibly missing,
   beside others that are no part of it. *)
Circuit == <<1, 2, 3, 4, 5, 6, 1>>
Way(nodes, use, name) == [nodes |-> nodes, use |-> use, name |-> name]
Cuts == { {Circuit}, {<<1, 2, 3, 4>>, <<4, 5, 6, 1>>}, {<<1, 2, 3>>, <<3, 4>>, <<4, 5, 6, 1>>} }
Drawn(cut) == {{IF r[ns] THEN Reverse(ns) ELSE ns : ns \in cut} : r \in [cut -> BOOLEAN]}
Beside == { {}, {Way(<<1, 4>>, "pit_lane", None), Way(<<7, 8>>, "raceway", "stray")},
            {Way(Circuit, "karting", None)} }
Orders(set) ==
  LET seq == SetToSeq(set) IN {[i \in DOMAIN seq |-> seq[p[i]]] : p \in Permutations(DOMAIN seq)}

CircuitCases ==
  UNION { UNION { [kind : {"circuit"}, complete : {mapped = drawn},
                   ways : Orders({Way(ns, "raceway", None) : ns \in mapped} \cup beside)] :
                    mapped \in {drawn} \cup {drawn \ {w} : w \in drawn} } :
          drawn \in UNION {Drawn(cut) : cut \in Cuts}, beside \in Beside }

Chart == INSTANCE LineChart WITH MAX_ZOOM <- 8, DISPLAY_BUCKETS <- 2

ChartCases ==
  [ kind : {"chart"}, zoom : [scale : {1, 4}, offset : {-8, 12, 40}],
    points : {[i \in 1 .. 6 |-> [x |-> 4 + (32 * (i - 1)) \div 5, y |-> ys[i]]] :
                ys \in [1 .. 6 -> {None, 0, 1, 2}]} ]

MCCases == SectorCases \cup OptimalCases \cup BrakingCases \cup CircuitCases \cup ChartCases

-----------------------------------------------------------------------------
Parts == {"derivation", "maps", "tokens", "live", "pages", "canvas", "segmenter", "analysis"}

MCInit ==
  /\ part \in Parts
  /\ PlatformInit /\ AnalysisInit
  /\ part # "derivation" => stored = 0
  /\ part # "maps" => ~enabled
  /\ \A s \in Session : server[s].optimal <=> part = "pages"
  /\ part # "canvas" => frame = None

MCNext ==
  /\ UNCHANGED part
  /\ \/ /\ \/ part = "derivation" /\ DerivationStep
           \/ part = "maps" /\ MapsStep
           \/ part = "tokens" /\ TokensStep
           \/ part = "live" /\ LiveStep
           \/ part = "pages" /\ PagesStep
           \/ part = "canvas" /\ CanvasStep
           \/ part = "segmenter" /\ SegmenterStep
        /\ UNCHANGED case
     \/ /\ part = "analysis" /\ AnalysisStep /\ UNCHANGED platformVars

MCSpec == MCInit /\ [][MCNext]_<<part, case, platformVars>>

(* Instances, requests, tabs, browsers and sessions of a page are interchangeable. *)
Alike == Permutations({n1, n2}) \cup Permutations({q1, q2}) \cup Permutations({v1, v2})

-----------------------------------------------------------------------------
(* The properties of the algorithms, of the case at hand. *)

(* Sector gates do not depend on how the ring is written, and splits add up to the lap as far as
   rounding lets them (Sectors). *)
SectorsAreSound ==
  Asked("sectors") => /\ Splits!RingFormIsImmaterial(case.ring, case.length, case.gate, case.lap)
                   /\ Splits!SplitsAddUp(case.ring, case.length, case.gate, case.lap)

(* What is outlined is the circuit, however it is mapped (TrackMapBuilder). *)
CircuitOrNothing ==
  Asked("circuit") => Builder!CircuitOrNothing(case.ways, <<2, 1>>, Circuit, case.complete)

(* A chart shows what its zoom leaves visible, with its extremes and gaps (LineChart). *)
ChartIsSound ==
  Asked("chart") =>
    /\ Chart!ChartIsFaithful(case.points, case.zoom)
    /\ \A n \in 0 .. 4 : Chart!ZoomHoldsCursor([min |-> 4, span |-> 32], case.zoom, <<n, 4>>)

=============================================================================
