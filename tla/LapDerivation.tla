---------------------------- MODULE LapDerivation ----------------------------
(***************************************************************************)
(* AnalysisService: the laps of one session, derived by the first read of  *)
(* it, replaced by a forced recompute, and stamped on the session last.    *)
(* A request is a handler on one API node; each of its queries is a step,  *)
(* and other requests, late samples, corrected gates, restarts and the     *)
(* deletion of the session come in between.                                *)
(*                                                                         *)
(* What segmentation makes of samples and gates is a constant here (the    *)
(* modules LapSegmenter and Sectors are about that); n samples stand for   *)
(* the first n that reach the store. An `updatedAt` is how often its row   *)
(* was written.                                                            *)
(***************************************************************************)
EXTENDS Integers

CONSTANTS
  Node,         \* API instances
  Req,          \* requests that can run at once
  Track,        \* tracks of the reference table
  Gate,         \* start/finish gates a track may be given
  GateSet,      \* sets of sector gates
  None,
  MaxSamples,
  Ceiling,      \* MAX_ANALYSIS_SAMPLES
  FirstGate,    \* [Track -> Gate]
  Laps,         \* [Gate -> [0 .. MaxSamples -> Nat]]: laps segmentation finds
  Surveyed,     \* [Track -> GateSet \cup {None}]: surveyed sector gates
  Candidate,    \* [Gate -> [{"ring", "lap"} -> GateSet \cup {None}]]: gates derived from each
  Clean,        \* [GateSet -> SUBSET (0 .. MaxSamples)]: samples with a lap that crosses the set
  MaxAsks, MaxEdits, MaxFaults   \* bounds on requests, changes from outside, failures

Step == { "session", "track", "count", "samples", "ring", "persist", "gates", "stamp", "confirm",
          "rows" }
TrackRow == [id : Track, gate : Gate, updated : Nat, derived : GateSet \cup {None}]
MemoRecord == [count : Nat, updated : Nat]
Request == [ node : Node, replace : BOOLEAN, pc : Step, skipped : BOOLEAN, alone : BOOLEAN,
             track : Track \cup {None} \cup TrackRow, count : 0 .. MaxSamples,
             seen : 0 .. MaxSamples, sectors : GateSet \cup {None} ]

DerivationAssumption ==
  /\ MaxSamples \in Nat /\ FirstGate \in [Track -> Gate]
  /\ Laps \in [Gate -> [0 .. MaxSamples -> Nat]] /\ \A g \in Gate : Laps[g][0] = 0
  /\ Surveyed \in [Track -> GateSet \cup {None}]
  /\ Candidate \in [Gate -> [{"ring", "lap"} -> GateSet \cup {None}]]
  /\ Clean \in [GateSet -> SUBSET (0 .. MaxSamples)]
  /\ None \notin Track \cup GateSet \cup TrackRow \cup MemoRecord \cup Request \cup {"gates", "distance"}
  /\ "distance" \notin GateSet /\ Track \cap TrackRow = {}

VARIABLES
  sess,         \* the session's row: status, track, and the scheme stamped on it (or None)
  samples,      \* samples stored within the session's time
  rows,         \* rows of `laps`: number, what they were cut from, and their sector gates
  track,        \* [Track -> row of `tracks`]
  ready,        \* tracks whose map is READY
  memo,         \* [Node -> noCrossings entry of the session, or None]
  req,          \* [Req -> a request, or None]
  moved,        \* history: what laps are derived from changed since they were derived alone
  unseen,       \* history: so did the gate of the session, with no new count or `updatedAt`
  edits, asks, faults

inputs == <<sess, samples, track, ready>>
history == <<moved, unseen>>
vars == <<inputs, rows, memo, req, history, edits, asks, faults>>

Pending(r, step) == req[r] # None /\ req[r].pc = step
Become(r, q) == req' = [req EXCEPT ![r] = q]
Goto(r, step) == Become(r, [req[r] EXCEPT !.pc = step])
End(r) == Become(r, None)

(* skip: nothing was derived; a forced recompute still returns the laps it finds. *)
Skip(r) ==
  IF req[r].replace THEN Become(r, [req[r] EXCEPT !.pc = "rows", !.skipped = TRUE]) ELSE End(r)

-----------------------------------------------------------------------------
(* What a derivation makes of its inputs. *)

Row(k, n, g, set) == [lap |-> k, of |-> <<n, g>>, sectors |-> set]
RowsFrom(n, g, set) == {Row(k, n, g, set) : k \in 1 .. Laps[g][n]}

(* knownSectorGates: surveyed gates win over derived ones. *)
Known(t) == IF Surveyed[t.id] # None THEN Surveyed[t.id] ELSE t.derived

(* The gates laps are split at: a set no lap crosses cleanly gives way to fractions. *)
Usable(set, n) == IF set # None /\ n \in Clean[set] THEN set ELSE "distance"

SchemeOf(set) == IF set = "distance" THEN "distance" ELSE "gates"

(* What deriving the session's laps now, undisturbed, would store and stamp. *)
Proposed(t) == Candidate[t.gate][IF t.id \in ready THEN "ring" ELSE "lap"]
Chosen(t) == IF Known(t) # None THEN Known(t) ELSE Proposed(t)
Expected ==
  LET t == track[sess.track] IN RowsFrom(samples, t.gate, Usable(Chosen(t), samples))

ExpectedScheme == SchemeOf((CHOOSE x \in Expected : TRUE).sectors)

-----------------------------------------------------------------------------
(* getLaps and recompute. *)

(* A request counts as alone while no other runs and nothing it reads has changed. *)
Ask(r, i, replace) ==
  /\ req[r] = None /\ asks < MaxAsks /\ sess.status # "deleted"
  /\ asks' = asks + 1
  /\ LET alone == \A p \in Req : req[p] = None
         q == [ node |-> i, replace |-> replace, pc |-> "session", skipped |-> FALSE,
                alone |-> alone, track |-> None, count |-> 0, seen |-> 0, sectors |-> None ]
     IN  req' = [p \in Req |-> IF p = r THEN q
                               ELSE IF req[p] = None THEN None ELSE [req[p] EXCEPT !.alone = FALSE]]
  /\ UNCHANGED <<inputs, rows, memo, history, edits, faults>>

(* Mutated form: a forced recompute drops the old laps up front. *)
ReadSessionClearing(r) ==
  /\ Pending(r, "session")
  /\ rows' = IF req[r].replace THEN {} ELSE rows
  /\ memo' = IF req[r].replace THEN [memo EXCEPT ![req[r].node] = None] ELSE memo
  /\ IF sess.status = "deleted" THEN End(r)
     ELSE IF sess.scheme # None /\ ~req[r].replace THEN Goto(r, "rows")
     ELSE IF sess.status = "LIVE" THEN Skip(r)
     ELSE Become(r, [req[r] EXCEPT !.pc = "track", !.track = sess.track])
  /\ UNCHANGED <<inputs, history, edits, asks, faults>>

(* requireReadableSession; an analysed session is answered from its rows, and a live one
   is not derived. *)
ReadSession(r) ==
  /\ Pending(r, "session")
  /\ IF sess.status = "deleted" THEN End(r)
     ELSE IF sess.scheme # None /\ ~req[r].replace THEN Goto(r, "rows")
     ELSE IF sess.status = "LIVE" THEN Skip(r)
     ELSE Become(r, [req[r] EXCEPT !.pc = "track", !.track = sess.track])
  /\ memo' = IF req[r].replace /\ sess.status # "deleted"
             THEN [memo EXCEPT ![req[r].node] = None] ELSE memo
  /\ UNCHANGED <<inputs, rows, history, edits, asks, faults>>

(* TracksService.resolve, on the track name read with the session. *)
ResolveTrack(r) ==
  /\ Pending(r, "track")
  /\ IF req[r].track = None THEN Skip(r)
     ELSE Become(r, [req[r] EXCEPT !.pc = "count", !.track = track[req[r].track]])
  /\ UNCHANGED <<inputs, rows, memo, history, edits, asks, faults>>

(* Mutated form: the memo is keyed on the samples alone. *)
RemembersCount(m, n, updated) == m # None /\ m.count = n

(* The memo answers for the same samples and the same track row. *)
Remembers(m, n, updated) == m # None /\ m.count = n /\ m.updated = updated

Count(r) ==
  /\ Pending(r, "count")
  /\ LET q == [req[r] EXCEPT !.count = samples, !.pc = "samples"] IN
     IF samples = 0 \/ samples > Ceiling \/ Remembers(memo[q.node], samples, q.track.updated)
     THEN Skip(r) ELSE Become(r, q)
  /\ UNCHANGED <<inputs, rows, memo, history, edits, asks, faults>>

(* The samples are read and cut into laps; more may have come since they were counted.
   Finding no crossing is remembered with the count. *)
ReadSamples(r) ==
  /\ Pending(r, "samples")
  /\ LET q == req[r]
         k == [count |-> q.count, updated |-> q.track.updated] IN
     IF Laps[q.track.gate][samples] = 0
     THEN Skip(r) /\ memo' = [memo EXCEPT ![q.node] = k]
     ELSE /\ Become(r, [q EXCEPT !.seen = samples, !.sectors = Known(q.track),
                                 !.pc = IF Known(q.track) # None THEN "gates" ELSE "ring"])
          /\ UNCHANGED memo
  /\ UNCHANGED <<inputs, rows, history, edits, asks, faults>>

(* deriveSectorGatesFor: from the ring of a READY map, or from the reference lap. *)
ReadRing(r) ==
  /\ Pending(r, "ring")
  /\ LET q == req[r] IN
     Become(r, [q EXCEPT !.pc = "persist", !.sectors = Proposed(q.track)])
  /\ UNCHANGED <<inputs, rows, memo, history, edits, asks, faults>>

(* A set just derived is kept for later sessions if a lap of this one crosses it. *)
Persist(r) ==
  /\ Pending(r, "persist")
  /\ LET q == req[r] IN
     /\ Goto(r, "gates")
     /\ track' = IF Usable(q.sectors, q.seen) = "distance" THEN track
                 ELSE [track EXCEPT ![q.track.id].derived = q.sectors, ![q.track.id].updated = @ + 1]
  /\ UNCHANGED <<sess, samples, ready, rows, memo, history, edits, asks, faults>>

(* INSERT ... ON CONFLICT DO NOTHING on (sessionId, lapNumber). *)
InsertIgnoring(table, new) ==
  table \cup {x \in new : \A y \in table : y.lap # x.lap}

(* Mutated form: a recompute merges like a first read. *)
Merged(table, new, replace) == InsertIgnoring(table, new)

(* replaceSession clears and inserts in one transaction. *)
Stored(table, new, replace) == IF replace THEN new ELSE InsertIgnoring(table, new)

(* The laps are written; the foreign key refuses those of a session that is gone. *)
WriteLaps(r) ==
  /\ Pending(r, "gates")
  /\ LET q == req[r] IN
     IF sess.status = "deleted" THEN End(r) /\ UNCHANGED rows
     ELSE /\ rows' = Stored(rows, RowsFrom(q.seen, q.track.gate, Usable(q.sectors, q.seen)), q.replace)
          /\ Goto(r, "stamp")
  /\ UNCHANGED <<inputs, memo, history, edits, asks, faults>>

(* setAnalyzedAt: stamp and scheme in one UPDATE; the row is read back after it. *)
Stamp(r) ==
  /\ Pending(r, "stamp")
  /\ LET q == req[r] IN
     IF sess.status = "deleted" THEN End(r) /\ UNCHANGED <<sess, moved>>
     ELSE /\ sess' = [sess EXCEPT !.scheme = SchemeOf(Usable(q.sectors, q.seen))]
          /\ moved' = (moved /\ ~(q.alone /\ q.replace))
          /\ Goto(r, "confirm")
  /\ UNCHANGED <<samples, track, ready, rows, memo, unseen, edits, asks, faults>>

Confirm(r) ==
  /\ Pending(r, "confirm")
  /\ IF sess.status = "deleted" THEN End(r) /\ UNCHANGED memo
     ELSE Goto(r, "rows") /\ memo' = [memo EXCEPT ![req[r].node] = None]
  /\ UNCHANGED <<inputs, rows, history, edits, asks, faults>>

(* findBySession, and the answer. *)
Respond(r) ==
  /\ Pending(r, "rows")
  /\ End(r)
  /\ UNCHANGED <<inputs, rows, memo, history, edits, asks, faults>>

QueryFails(r) ==
  /\ req[r] # None /\ faults < MaxFaults
  /\ faults' = faults + 1
  /\ End(r)
  /\ UNCHANGED <<inputs, rows, memo, history, edits, asks>>

-----------------------------------------------------------------------------
(* The rest of the platform. *)

Edit == edits < MaxEdits /\ edits' = edits + 1 /\ UNCHANGED <<asks, faults>>

(* An edit of something laps are derived from. *)
InputMoves ==
  /\ moved' = (moved \/ rows # {} \/ \E r \in Req : req[r] # None)
  /\ req' = [r \in Req |-> IF req[r] = None THEN None ELSE [req[r] EXCEPT !.alone = FALSE]]

(* Samples of the session reach the store: live ones, or backfill after its end. *)
SamplesArrive ==
  /\ Edit /\ sess.status # "deleted" /\ samples < MaxSamples
  /\ \E n \in samples + 1 .. MaxSamples : samples' = n
  /\ InputMoves
  /\ UNCHANGED <<sess, track, ready, rows, memo, unseen>>

CloseSession ==
  /\ sess.status = "LIVE"
  /\ sess' = [sess EXCEPT !.status = "COMPLETED"]
  /\ UNCHANGED <<samples, track, ready, rows, memo, req, history, edits, asks, faults>>

(* PATCH /sessions/:id changes the track, possibly to a name nothing resolves. *)
PatchTrack(t) ==
  /\ Edit /\ sess.status # "deleted" /\ sess.track # t
  /\ sess' = [sess EXCEPT !.track = t]
  /\ InputMoves
  /\ unseen' = TRUE
  /\ UNCHANGED <<samples, track, ready, rows, memo>>

DeleteSession ==
  /\ Edit /\ sess.status # "deleted"
  /\ sess' = [sess EXCEPT !.status = "deleted"]
  /\ rows' = {}
  /\ UNCHANGED <<samples, track, ready, memo, req, history>>

(* A fetch of the track's map ends well, on either node. *)
MapArrives(t) ==
  /\ Edit /\ t \notin ready
  /\ ready' = ready \cup {t}
  /\ InputMoves
  /\ UNCHANGED <<sess, samples, track, rows, memo, unseen>>

(* A node stops: its requests and its memo are gone. *)
Stops(i) ==
  /\ req' = [r \in Req |-> IF req[r] # None /\ req[r].node = i THEN None ELSE req[r]]
  /\ memo' = [memo EXCEPT ![i] = None]

Restart(i) ==
  /\ faults < MaxFaults
  /\ faults' = faults + 1
  /\ Stops(i)
  /\ UNCHANGED <<inputs, rows, history, edits, asks>>

(* A node starts with a corrected gate in its seed, which it upserts: the other nodes keep
   their memo. The upsert may leave `updatedAt` as it was. *)
Redeploy(i, t, g) ==
  /\ Edit /\ track[t].gate # g
  /\ \E u \in {track[t].updated, track[t].updated + 1} :
       /\ track' = [track EXCEPT ![t].gate = g, ![t].updated = u]
       /\ unseen' = (unseen \/ u = track[t].updated)
  /\ moved' = (moved \/ rows # {} \/ \E r \in Req : req[r] # None)
  /\ req' = [r \in Req |-> IF req[r] = None \/ req[r].node = i THEN None
                           ELSE [req[r] EXCEPT !.alone = FALSE]]
  /\ memo' = [memo EXCEPT ![i] = None]
  /\ UNCHANGED <<sess, samples, ready, rows>>

-----------------------------------------------------------------------------
Init ==
  /\ \E t \in Track : sess = [status |-> "LIVE", track |-> t, scheme |-> None]
  /\ samples \in 0 .. MaxSamples /\ rows = {} /\ ready = {}
  /\ track = [t \in Track |-> [id |-> t, gate |-> FirstGate[t], updated |-> 0, derived |-> None]]
  /\ memo = [i \in Node |-> None]
  /\ req = [r \in Req |-> None]
  /\ moved = FALSE /\ unseen = FALSE
  /\ edits = 0 /\ asks = 0 /\ faults = 0

Derive(r) ==
  \/ ReadSession(r) \/ ResolveTrack(r) \/ Count(r) \/ ReadSamples(r) \/ ReadRing(r)
  \/ Persist(r) \/ WriteLaps(r) \/ Stamp(r) \/ Confirm(r) \/ Respond(r) \/ QueryFails(r)

Outside ==
  \/ SamplesArrive \/ CloseSession \/ DeleteSession
  \/ \E t \in Track \cup {None} : PatchTrack(t)
  \/ \E t \in Track : MapArrives(t)
  \/ \E i \in Node : Restart(i) \/ \E t \in Track, g \in Gate : Redeploy(i, t, g)

Next ==
  \/ \E r \in Req : Derive(r) \/ \E i \in Node, replace \in BOOLEAN : Ask(r, i, replace)
  \/ Outside

Spec == Init /\ [][Next]_vars

-----------------------------------------------------------------------------
(* Properties. *)

(* An answer that gives no reason has laps in it, as long as the session is there: the stamp
   is never ahead of the rows, whatever crashes, and a recompute never leaves a reader, or
   the session for good, without them (recompute, replaceSession, setAnalyzedAt). *)
AnswersHaveLaps ==
  [][ \A r \in Req :
        Pending(r, "rows") /\ ~req[r].skipped /\ req'[r] = None /\ sess.status # "deleted"
          => rows # {} ]_vars

(* However first reads and recomputes interleave, fail or are cut short, an analysed session
   has exactly the laps, and the scheme, that deriving it undisturbed would give, unless
   what they are derived from changed after laps were cut; and a recompute that runs alone
   puts even that right (insertIgnoringDuplicates, replaceSession, setDerivedSectorGates). *)
DerivedOnce ==
  sess.scheme # None /\ sess.status # "deleted" /\ ~moved
    => rows = Expected /\ sess.scheme = ExpectedScheme

(* Where a node's memo would answer `no-crossings` for the session, segmenting it would find
   none: more samples or a corrected gate are not masked (noCrossings), but for a gate
   corrected under the same updatedAt, or a session moved to another track. *)
MemoHonest ==
  \A i \in Node :
    /\ sess.track # None /\ ~unseen
    /\ Remembers(memo[i], samples, track[sess.track].updated)
    => Laps[track[sess.track].gate][samples] = 0

-----------------------------------------------------------------------------
(* Why they hold. *)

TypeOK ==
  /\ sess \in [ status : {"LIVE", "COMPLETED", "deleted"}, track : Track \cup {None},
                 scheme : {"gates", "distance", None} ]
  /\ samples \in 0 .. MaxSamples /\ ready \subseteq Track
  /\ track \in [Track -> TrackRow] /\ \A t \in Track : track[t].id = t
  /\ memo \in [Node -> MemoRecord \cup {None}]
  /\ req \in [Req -> Request \cup {None}]
  /\ moved \in BOOLEAN /\ unseen \in BOOLEAN

Cut == {"ring", "persist", "gates", "stamp", "confirm"}

(* What a request has by the time it is where it is. *)
Held(q) ==
  /\ q.pc = "track" => q.track \in Track \cup {None}
  /\ q.pc \in {"count", "samples"} \cup Cut => q.track \in TrackRow
  /\ q.pc \in Cut => Laps[q.track.gate][q.seen] > 0
  /\ q.pc \in {"ring", "persist"} => Known(q.track) = None

RequestsHold == \A r \in Req : req[r] # None => Held(req[r])

LapsAreThere(q) == q.pc \in {"stamp", "confirm"} \/ (q.pc = "rows" /\ ~q.skipped)

(* Laps come before the stamp, and before an answer that gives no reason. *)
LapsComeFirst ==
  sess.status # "deleted" =>
    /\ sess.scheme # None => rows # {}
    /\ \A r \in Req : req[r] # None /\ LapsAreThere(req[r]) => rows # {}

(* What a request has read is how things are, but for sector gates that were stored since:
   they are the ones it finds. *)
Current(q) ==
  LET t == track[sess.track] IN
  /\ q.pc = "track" => q.track = sess.track
  /\ q.pc \in {"count", "samples"} \cup Cut =>
       /\ q.track.id = sess.track /\ q.track.gate = t.gate
       /\ q.track.derived = t.derived \/ (q.track.derived = None /\ t.derived = Proposed(t))
  /\ q.pc \in Cut => q.seen = samples
  /\ q.pc \in Cut \ {"ring"} => q.sectors = Chosen(t)

AloneIsAlone ==
  \A p, r \in Req : req[p] # None /\ req[r] # None /\ req[p].alone => p = r

(* Undisturbed, every request is about the same laps, and they are the ones that are there. *)
RequestsAgree ==
  sess.status # "deleted" =>
    \A r \in Req : req[r] # None /\ (~moved \/ req[r].alone) =>
      /\ Current(req[r])
      /\ req[r].pc = "stamp" /\ req[r].replace /\ req[r].alone => rows = Expected

RowsAreExpected ==
  sess.status # "deleted" /\ ~moved =>
    /\ rows = {} \/ rows = Expected
    /\ sess.scheme # None => sess.scheme = SchemeOf(Usable(Chosen(track[sess.track]), samples))

(* Memos and requests are of the session's track, and know its gate as of its `updatedAt`. *)
MemoIsOld(m) ==
  LET t == track[sess.track] IN
  /\ m.count <= samples /\ m.updated <= t.updated
  /\ m.count = samples /\ m.updated = t.updated => Laps[t.gate][samples] = 0

Informed(q) ==
  LET t == track[sess.track] IN
  /\ q.pc = "track" => q.track = sess.track
  /\ q.pc \in {"count", "samples"} \cup Cut =>
       /\ q.track.id = sess.track /\ q.track.updated <= t.updated
       /\ q.track.updated = t.updated => q.track.gate = t.gate
  /\ q.count <= samples

MemosAreOld ==
  ~unseen =>
    /\ sess.track # None
    /\ \A i \in Node : memo[i] # None => MemoIsOld(memo[i])
    /\ \A r \in Req : req[r] # None => Informed(req[r])

DerivationInv ==
  /\ TypeOK /\ RequestsHold /\ LapsComeFirst /\ AloneIsAlone
  /\ RequestsAgree /\ RowsAreExpected /\ MemosAreOld
=============================================================================
