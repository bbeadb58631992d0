------------------------------ MODULE RunStore ------------------------------
(***************************************************************************)
(* What the telemetry store promises its readers, with no cache, buffer,   *)
(* broker or restart in sight: a run belongs to one device for good, its   *)
(* time line is fixed the moment it is opened, and a frame of the run is   *)
(* one row of it however many times the device sent it.                    *)
(*                                                                         *)
(* Ingest.tla is shown to implement this specification.                    *)
(***************************************************************************)
EXTENDS Integers

CONSTANTS
  RunId,        \* identities a run can be given
  Frame,        \* what devices publish: records with dev, sid, seq
  Mono,         \* [Frame -> Int], the device's monotonic counter in a frame
  NoRun         \* a run that has not been opened

VARIABLES
  runs,         \* [RunId -> run or NoRun]
  stored        \* the set of stored samples

vars == <<runs, stored>>

(* The one row that frame f is in run x. *)
RowOf(x, f) ==
  [ sess |-> x, car |-> runs[x].car, seq |-> f.seq,
    time |-> runs[x].anchor + (Mono[f] - runs[x].mono0), frame |-> f ]

(* The frames that belong to an open run: its own device's, under its sid. *)
Frames(x) == {f \in Frame : f.dev = runs[x].dev /\ f.sid = runs[x].sid}

Init ==
  /\ runs = [x \in RunId |-> NoRun]
  /\ stored = {}

Open(x, r) ==
  /\ runs[x] = NoRun
  /\ r # NoRun
  /\ runs' = [runs EXCEPT ![x] = r]
  /\ UNCHANGED stored

Store ==
  /\ stored \subseteq stored'
  /\ \A s \in stored' \ stored :
       \E x \in RunId : runs[x] # NoRun /\ \E f \in Frames(x) : s = RowOf(x, f)
  /\ UNCHANGED runs

Next ==
  \/ \E x \in RunId : Open(x, runs'[x])
  \/ Store

Spec == Init /\ [][Next]_vars

=============================================================================
