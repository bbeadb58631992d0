------------------------- MODULE LapDerivationProofs --------------------------
(***************************************************************************)
(* LapDerivation for any number of nodes and requests, any segmentation    *)
(* and any sector gates: answers have laps, racing derivations leave what  *)
(* one alone would, and the memo of a session without crossings is honest. *)
(***************************************************************************)
EXTENDS LapDerivation, TLAPS

USE DEF Step, Cut

(* A request goes on, or ends, and nothing it shares with others changes but a memo. *)
LEMMA RequestStep ==
  ASSUME DerivationInv, NEW r \in Req, NEW q \in Request \cup {None}, req[r] # None,
         req' = [req EXCEPT ![r] = q], UNCHANGED <<inputs, rows, history>>,
         q # None => /\ Held(q) /\ (q.alone => req[r].alone) /\ q.pc # "stamp"
                     /\ sess.status # "deleted" /\ LapsAreThere(q) => rows # {}
                     /\ sess.status # "deleted" /\ (~moved \/ q.alone) => Current(q)
                     /\ ~unseen => Informed(q),
         memo' \in [Node -> MemoRecord \cup {None}],
         \A i \in Node : \/ memo'[i] \in {memo[i], None}
                         \/ ~unseen => MemoIsOld(memo'[i])
  PROVE  DerivationInv'
<1>1. UNCHANGED <<sess, samples, track, ready, rows, moved, unseen>>
  BY DEF inputs, history
<1>2. \A p \in Req : req'[p] = IF p = r THEN q ELSE req[p]
  BY DEF DerivationInv, TypeOK
<1>3. TypeOK'
  BY <1>1, <1>2 DEF DerivationInv, TypeOK
<1>4. RequestsHold'
  BY <1>1, <1>2 DEF DerivationInv, RequestsHold, Held, Known
<1>5. LapsComeFirst'
  BY <1>1, <1>2 DEF DerivationInv, LapsComeFirst, LapsAreThere
<1>6. AloneIsAlone'
  BY <1>2 DEF DerivationInv, AloneIsAlone
<1>7. RequestsAgree'
  <2> SUFFICES ASSUME sess.status # "deleted", NEW p \in Req, req'[p] # None, ~moved \/ req'[p].alone
               PROVE  /\ Current(req[p])'
                      /\ (req[p].pc = "stamp" /\ req[p].replace /\ req[p].alone => rows = Expected)'
    BY <1>1 DEF RequestsAgree
  <2>1. (rows = Expected)' <=> rows = Expected
    BY <1>1 DEF Expected, Chosen, Proposed, Known
  <2>2. \A x : Current(x)' <=> Current(x)
    BY <1>1 DEF Current, Chosen, Proposed, Known
  <2>3. CASE p = r
    BY <2>3, <1>2, <2>2
  <2>4. CASE p # r
    BY <2>4, <1>2, <2>1, <2>2 DEF DerivationInv, RequestsAgree
  <2> QED BY <2>3, <2>4
<1>8. RowsAreExpected'
  BY <1>1 DEF DerivationInv, RowsAreExpected, Expected, Chosen, Proposed, Known
<1>9. MemosAreOld'
  <2> SUFFICES ASSUME ~unseen PROVE MemosAreOld'
    BY <1>1 DEF MemosAreOld
  <2>1. \A x : (MemoIsOld(x)' <=> MemoIsOld(x)) /\ (Informed(x)' <=> Informed(x))
    BY <1>1 DEF MemoIsOld, Informed
  <2>2. \A i \in Node : memo'[i] # None => MemoIsOld(memo'[i])
    BY DEF DerivationInv, MemosAreOld
  <2>3. \A p \in Req : req'[p] # None => Informed(req'[p])
    BY <1>2 DEF DerivationInv, MemosAreOld
  <2> QED BY <1>1, <2>1, <2>2, <2>3 DEF DerivationInv, MemosAreOld
<1> QED BY <1>3, <1>4, <1>5, <1>6, <1>7, <1>8, <1>9 DEF DerivationInv

(* A request ends. *)
LEMMA EndStep ==
  ASSUME DerivationInv, NEW r \in Req, req[r] # None, End(r), UNCHANGED <<inputs, rows, memo, history>>
  PROVE  DerivationInv'
BY RequestStep DEF End, Become, DerivationInv, TypeOK

(* What a request under way is. *)
LEMMA Underway ==
  ASSUME DerivationInv, NEW r \in Req, req[r] # None
  PROVE  /\ req[r] \in Request /\ Held(req[r]) /\ req[r].node \in Node
         /\ sess.status # "deleted" /\ LapsAreThere(req[r]) => rows # {}
         /\ sess.status # "deleted" /\ (~moved \/ req[r].alone) => Current(req[r])
         /\ ~unseen => Informed(req[r]) /\ sess.track # None
BY DEF DerivationInv, TypeOK, RequestsHold, LapsComeFirst, RequestsAgree, MemosAreOld, Request

(* A request that skips has nothing to answer for. *)
LEMMA SkipStep ==
  ASSUME DerivationInv, NEW r \in Req, req[r] # None, Skip(r), UNCHANGED <<inputs, rows, history>>,
         memo' \in [Node -> MemoRecord \cup {None}],
         \A i \in Node : \/ memo'[i] \in {memo[i], None}
                         \/ ~unseen => MemoIsOld(memo'[i])
  PROVE  DerivationInv'
<1>1. CASE req[r].replace
  <2> DEFINE q == [req[r] EXCEPT !.pc = "rows", !.skipped = TRUE]
  <2>1. req[r] \in Request /\ (~unseen => Informed(req[r]))
    BY Underway
  <2>2. q \in Request /\ q.pc = "rows" /\ q.skipped /\ q.alone = req[r].alone /\ q.count = req[r].count
    BY <2>1 DEF Request
  <2>3. req' = [req EXCEPT ![r] = q]
    BY <1>1 DEF Skip, Become
  <2> HIDE DEF q
  <2>4. Held(q) /\ ~LapsAreThere(q) /\ Current(q) /\ (~unseen => Informed(q))
    BY <2>1, <2>2 DEF Held, LapsAreThere, Current, Informed
  <2> QED BY <2>2, <2>3, <2>4, RequestStep
<1>2. CASE ~req[r].replace
  BY <1>2, RequestStep DEF Skip, End, Become
<1> QED BY <1>1, <1>2

-----------------------------------------------------------------------------
(* The steps that only read. *)

(* A memo that is cleared tells nothing. *)
LEMMA Cleared ==
  ASSUME DerivationInv, NEW i \in Node, memo' \in {memo, [memo EXCEPT ![i] = None]}
  PROVE  memo' \in [Node -> MemoRecord \cup {None}] /\ \A j \in Node : memo'[j] \in {memo[j], None}
BY DEF DerivationInv, TypeOK

LEMMA ReadSessionStep ==
  ASSUME DerivationAssumption, DerivationInv, NEW r \in Req, ReadSession(r) PROVE DerivationInv'
<1>1. req[r] # None /\ req[r] \in Request /\ req[r].node \in Node /\ UNCHANGED <<inputs, rows, history>>
      /\ (~unseen => Informed(req[r]))
  BY Underway DEF ReadSession, Pending
<1>2. memo' \in [Node -> MemoRecord \cup {None}] /\ \A j \in Node : memo'[j] \in {memo[j], None}
  BY <1>1, Cleared DEF ReadSession
<1>3. CASE End(r)
  BY <1>1, <1>2, <1>3, RequestStep DEF End, Become
<1>4. CASE Skip(r)
  BY <1>1, <1>2, <1>4, SkipStep
<1>5. CASE sess.scheme # None /\ Goto(r, "rows")
  <2> DEFINE q == [req[r] EXCEPT !.pc = "rows"]
  <2>1. q \in Request /\ q.pc = "rows" /\ q.alone = req[r].alone /\ q.count = req[r].count
        /\ req' = [req EXCEPT ![r] = q]
    BY <1>1, <1>5 DEF Request, Goto, Become
  <2> HIDE DEF q
  <2>2. sess.status # "deleted" => rows # {}
    BY <1>5 DEF DerivationInv, LapsComeFirst
  <2>3. Held(q) /\ Current(q) /\ (~unseen => Informed(q))
    BY <1>1, <2>1 DEF Held, Current, Informed
  <2> QED BY <1>1, <1>2, <2>1, <2>2, <2>3, RequestStep
<1>6. CASE Become(r, [req[r] EXCEPT !.pc = "track", !.track = sess.track])
  <2> DEFINE q == [req[r] EXCEPT !.pc = "track", !.track = sess.track]
  <2>1. q \in Request /\ q.pc = "track" /\ q.alone = req[r].alone /\ q.count = req[r].count
        /\ q.track = sess.track /\ sess.track \in Track \cup {None} /\ req' = [req EXCEPT ![r] = q]
    BY <1>1, <1>6 DEF Request, Become, DerivationInv, TypeOK
  <2> HIDE DEF q
  <2>2. Held(q) /\ Current(q) /\ ~LapsAreThere(q) /\ (~unseen => Informed(q))
    BY <1>1, <2>1 DEF Held, Current, LapsAreThere, Informed
  <2> QED BY <1>1, <1>2, <2>1, <2>2, RequestStep
<1> QED BY <1>3, <1>4, <1>5, <1>6 DEF ReadSession

LEMMA ResolveTrackStep ==
  ASSUME DerivationAssumption, DerivationInv, NEW r \in Req, ResolveTrack(r) PROVE DerivationInv'
<1>1. req[r] # None /\ req[r] \in Request /\ req[r].pc = "track" /\ Held(req[r])
      /\ UNCHANGED <<inputs, rows, history>> /\ memo' = memo /\ memo \in [Node -> MemoRecord \cup {None}]
  BY Underway DEF ResolveTrack, Pending, DerivationInv, TypeOK
<1>2. CASE Skip(r)
  BY <1>1, <1>2, SkipStep
<1>3. CASE req[r].track # None
           /\ Become(r, [req[r] EXCEPT !.pc = "count", !.track = track[req[r].track]])
  <2> DEFINE q == [req[r] EXCEPT !.pc = "count", !.track = track[req[r].track]]
  <2>1. req[r].track \in Track /\ track[req[r].track] \in TrackRow
        /\ track[req[r].track].id = req[r].track /\ track[req[r].track].updated \in Nat
    BY <1>1, <1>3 DEF Held, DerivationInv, TypeOK, TrackRow
  <2>2. q \in Request /\ q.pc = "count" /\ q.alone = req[r].alone /\ q.count = req[r].count
        /\ q.track = track[req[r].track] /\ req' = [req EXCEPT ![r] = q]
    BY <1>1, <1>3, <2>1 DEF Request, Become
  <2> HIDE DEF q
  <2>3. Held(q) /\ ~LapsAreThere(q)
    BY <2>1, <2>2 DEF Held, LapsAreThere
  <2>4. sess.status # "deleted" /\ (~moved \/ q.alone) => Current(q)
    BY <1>1, <2>1, <2>2, Underway DEF Current
  <2>5. ~unseen => Informed(q)
    BY <1>1, <2>1, <2>2, Underway DEF Informed
  <2> QED BY <1>1, <2>2, <2>3, <2>4, <2>5, RequestStep
<1> QED BY <1>2, <1>3 DEF ResolveTrack

LEMMA CountStep ==
  ASSUME DerivationAssumption, DerivationInv, NEW r \in Req, Count(r) PROVE DerivationInv'
<1>1. req[r] # None /\ req[r] \in Request /\ req[r].pc = "count" /\ Held(req[r])
      /\ UNCHANGED <<inputs, rows, history>> /\ memo' = memo /\ memo \in [Node -> MemoRecord \cup {None}]
      /\ samples \in 0 .. MaxSamples
  BY Underway DEF Count, Pending, DerivationInv, TypeOK
<1>2. CASE Skip(r)
  BY <1>1, <1>2, SkipStep
<1>3. CASE Become(r, [req[r] EXCEPT !.count = samples, !.pc = "samples"])
  <2> DEFINE q == [req[r] EXCEPT !.count = samples, !.pc = "samples"]
  <2>1. q \in Request /\ q.pc = "samples" /\ q.alone = req[r].alone /\ q.count = samples
        /\ q.track = req[r].track /\ req' = [req EXCEPT ![r] = q]
    BY <1>1, <1>3 DEF Request, Become
  <2> HIDE DEF q
  <2>2. Held(q) /\ ~LapsAreThere(q)
    BY <1>1, <2>1 DEF Held, LapsAreThere
  <2>3. sess.status # "deleted" /\ (~moved \/ q.alone) => Current(q)
    BY <1>1, <2>1, Underway DEF Current
  <2>4. ~unseen => Informed(q)
    BY <1>1, <2>1, Underway DEF Informed
  <2> QED BY <1>1, <2>1, <2>2, <2>3, <2>4, RequestStep
<1> QED BY <1>2, <1>3 DEF Count

(* What is remembered of a session without crossings is of its samples as they are, or of
   fewer: then it does not answer. *)
LEMMA ReadSamplesStep ==
  ASSUME DerivationAssumption, DerivationInv, NEW r \in Req, ReadSamples(r) PROVE DerivationInv'
<1>1. req[r] # None /\ req[r] \in Request /\ req[r].pc = "samples" /\ Held(req[r]) /\ req[r].node \in Node
      /\ UNCHANGED <<inputs, rows, history>> /\ samples \in 0 .. MaxSamples
      /\ memo \in [Node -> MemoRecord \cup {None}]
  BY Underway DEF ReadSamples, Pending, DerivationInv, TypeOK
<1>2. req[r].track \in TrackRow /\ req[r].track.updated \in Nat /\ req[r].track.gate \in Gate
      /\ req[r].count \in Nat
  <2>1. req[r].track \in TrackRow
    BY <1>1 DEF Held
  <2>2. req[r].count \in 0 .. MaxSamples
    BY <1>1 DEF Request
  <2> QED BY <2>1, <2>2 DEF TrackRow
<1>3. CASE Laps[req[r].track.gate][samples] = 0
  <2> DEFINE k == [count |-> req[r].count, updated |-> req[r].track.updated]
  <2>1. Skip(r) /\ memo' = [memo EXCEPT ![req[r].node] = k]
    BY <1>3 DEF ReadSamples
  <2>2. k \in MemoRecord /\ k.count = req[r].count /\ k.updated = req[r].track.updated
    BY <1>2 DEF MemoRecord
  <2> HIDE DEF k
  <2>3. ~unseen => MemoIsOld(k)
    BY <1>1, <1>3, <2>2, Underway DEF MemoIsOld, Informed
  <2>4. UNCHANGED <<sess, samples, track>>
    BY <1>1 DEF inputs
  <2>5. memo' \in [Node -> MemoRecord \cup {None}]
        /\ \A i \in Node : memo'[i] \in {memo[i], None} \/ memo'[i] = k
    BY <1>1, <2>1, <2>2
  <2>6. \A i \in Node : \/ memo'[i] \in {memo[i], None}
                        \/ ~unseen => MemoIsOld(memo'[i])
    <3> TAKE i \in Node
    <3>1. CASE memo'[i] = k
      BY <3>1, <2>3
    <3> QED BY <3>1, <2>5
  <2> QED BY <1>1, <2>1, <2>5, <2>6, SkipStep
<1>4. CASE Laps[req[r].track.gate][samples] # 0
  <2> DEFINE g == Known(req[r].track)
             q == [req[r] EXCEPT !.seen = samples, !.sectors = g, !.pc = IF g # None THEN "gates" ELSE "ring"]
  <2>1. req' = [req EXCEPT ![r] = q] /\ memo' = memo
    BY <1>4 DEF ReadSamples, Become
  <2>2. g \in GateSet \cup {None}
    BY <1>2 DEF Known, TrackRow, DerivationAssumption
  <2> HIDE DEF g
  <2>3. q \in Request /\ q.pc = (IF g # None THEN "gates" ELSE "ring") /\ q.alone = req[r].alone
        /\ q.count = req[r].count /\ q.track = req[r].track /\ q.seen = samples /\ q.sectors = g
    BY <1>1, <2>2 DEF Request
  <2> HIDE DEF q
  <2>4. Laps[req[r].track.gate][samples] > 0
    BY <1>1, <1>2, <1>4 DEF DerivationAssumption
  <2>5. Held(q) /\ ~LapsAreThere(q)
    BY <1>2, <2>3, <2>4 DEF Held, LapsAreThere, g
  <2>6. ASSUME sess.status # "deleted", ~moved \/ q.alone PROVE Current(q)
    <3>1. Current(req[r]) /\ (req[r].track).id \in Track
      BY <1>1, <1>2, <2>3, <2>6, Underway DEF TrackRow
    <3> DEFINE t == track[sess.track]
    <3>2. t.id = sess.track /\ req[r].track.id = sess.track /\ req[r].track.gate = t.gate
          /\ (req[r].track.derived = t.derived \/ (req[r].track.derived = None /\ t.derived = Proposed(t)))
      BY <1>1, <3>1 DEF Current, DerivationInv, TypeOK
    <3>3. g # None => g = Chosen(t)
      BY <3>2 DEF g, Known, Chosen
    <3> QED BY <3>2, <3>3, <2>3 DEF Current
  <2>7. ~unseen => Informed(q)
    BY <1>1, <2>3, Underway DEF Informed
  <2> QED BY <1>1, <2>1, <2>3, <2>5, <2>6, <2>7, RequestStep
<1> QED BY <1>3, <1>4

(* What a request proposes is what the track's row has, or would get. *)
LEMMA ProposedIsChosen ==
  ASSUME DerivationInv, NEW q, q.pc \in {"ring", "persist"}, Held(q), Current(q)
  PROVE  LET t == track[sess.track] IN
         /\ sess.track \in Track /\ q.track.id = sess.track /\ Surveyed[sess.track] = None
         /\ Proposed(q.track) = Proposed(t) /\ Chosen(t) = Proposed(t)
         /\ q.track.derived = None /\ t.derived \in {None, Proposed(t)}
<1> DEFINE t == track[sess.track]
<1>1. /\ q.track \in TrackRow /\ q.track.id = sess.track /\ q.track.gate = t.gate
      /\ Known(q.track) = None
      /\ q.track.derived = t.derived \/ (q.track.derived = None /\ t.derived = Proposed(t))
  BY DEF Held, Current
<1>2. sess.track \in Track /\ t.id = sess.track
  BY <1>1 DEF DerivationInv, TypeOK, TrackRow
<1>3. Surveyed[sess.track] = None /\ q.track.derived = None
  BY <1>1 DEF Known
<1>4. Proposed(q.track) = Proposed(t)
  BY <1>1, <1>2 DEF Proposed
<1>5. Known(t) = t.derived
  BY <1>2, <1>3 DEF Known
<1>6. t.derived \in {None, Proposed(t)}
  BY <1>1, <1>3
<1>7. Chosen(t) = Proposed(t)
  BY <1>5, <1>6 DEF Chosen
<1> QED BY <1>1, <1>2, <1>3, <1>4, <1>6, <1>7

LEMMA ReadRingStep ==
  ASSUME DerivationAssumption, DerivationInv, NEW r \in Req, ReadRing(r) PROVE DerivationInv'
<1> DEFINE g == Proposed(req[r].track)
           q == [req[r] EXCEPT !.pc = "persist", !.sectors = g]
<1>1. req[r] # None /\ req[r] \in Request /\ req[r].pc = "ring" /\ Held(req[r])
      /\ UNCHANGED <<inputs, rows, history>> /\ memo' = memo /\ memo \in [Node -> MemoRecord \cup {None}]
      /\ req' = [req EXCEPT ![r] = q]
  BY Underway DEF ReadRing, Pending, Become, DerivationInv, TypeOK
<1>2. g \in GateSet \cup {None}
  <2>1. req[r].track.gate \in Gate
    BY <1>1 DEF Held, TrackRow
  <2> QED BY <2>1 DEF Proposed, DerivationAssumption
<1>3. q \in Request /\ q.pc = "persist" /\ q.alone = req[r].alone /\ q.count = req[r].count
      /\ q.track = req[r].track /\ q.seen = req[r].seen /\ q.sectors = g
  BY <1>1, <1>2 DEF Request
<1> HIDE DEF q
<1>4. Held(q) /\ ~LapsAreThere(q)
  BY <1>1, <1>3 DEF Held, LapsAreThere
<1>5. sess.status # "deleted" /\ (~moved \/ q.alone) => Current(q)
  <2> SUFFICES ASSUME sess.status # "deleted", ~moved \/ q.alone PROVE Current(q)
    OBVIOUS
  <2>1. Current(req[r])
    BY <1>1, <1>3, Underway
  <2>2. g = Chosen(track[sess.track])
    BY <2>1, <1>1, ProposedIsChosen
  <2> QED BY <2>1, <2>2, <1>1, <1>3 DEF Current
<1>6. ~unseen => Informed(q)
  BY <1>1, <1>3, Underway DEF Informed
<1> QED BY <1>1, <1>3, <1>4, <1>5, <1>6, RequestStep

LEMMA ConfirmStep ==
  ASSUME DerivationAssumption, DerivationInv, NEW r \in Req, Confirm(r) PROVE DerivationInv'
<1>1. req[r] # None /\ req[r] \in Request /\ req[r].pc = "confirm" /\ req[r].node \in Node
      /\ UNCHANGED <<inputs, rows, history>>
  BY Underway DEF Confirm, Pending
<1>2. memo' \in [Node -> MemoRecord \cup {None}] /\ \A j \in Node : memo'[j] \in {memo[j], None}
  BY <1>1, Cleared DEF Confirm
<1>3. CASE End(r)
  BY <1>1, <1>2, <1>3, RequestStep DEF End, Become
<1>4. CASE sess.status # "deleted" /\ Goto(r, "rows")
  <2> DEFINE q == [req[r] EXCEPT !.pc = "rows"]
  <2>1. q \in Request /\ q.pc = "rows" /\ q.alone = req[r].alone /\ q.count = req[r].count
        /\ req' = [req EXCEPT ![r] = q]
    BY <1>1, <1>4 DEF Request, Goto, Become
  <2> HIDE DEF q
  <2>2. sess.status # "deleted" => rows # {}
    BY <1>1, Underway DEF LapsAreThere
  <2>3. Held(q) /\ Current(q)
    BY <2>1 DEF Held, Current
  <2>4. ~unseen => Informed(q)
    BY <1>1, <2>1, Underway DEF Informed
  <2> QED BY <1>1, <1>2, <2>1, <2>2, <2>3, <2>4, RequestStep
<1> QED BY <1>3, <1>4 DEF Confirm

LEMMA EndsStep ==
  ASSUME DerivationInv, NEW r \in Req, Respond(r) \/ QueryFails(r) PROVE DerivationInv'
BY EndStep, SMTT(60) DEF Respond, QueryFails, Pending

-----------------------------------------------------------------------------
(* The steps that write. *)

(* Gates that are stored are the ones every request of an undisturbed derivation finds. *)
LEMMA PersistStep ==
  ASSUME DerivationAssumption, DerivationInv, NEW r \in Req, Persist(r) PROVE DerivationInv'
<1> DEFINE q == [req[r] EXCEPT !.pc = "gates"]
           t == track[sess.track]
<1>1. req[r] # None /\ req[r] \in Request /\ req[r].pc = "persist" /\ Held(req[r])
      /\ UNCHANGED <<sess, samples, ready, rows, memo, moved, unseen>> /\ memo \in [Node -> MemoRecord \cup {None}]
      /\ req' = [req EXCEPT ![r] = q]
  BY Underway DEF Persist, Pending, Goto, Become, history, DerivationInv, TypeOK
<1>2. q \in Request /\ q.pc = "gates" /\ q.alone = req[r].alone /\ q.count = req[r].count
      /\ q.track = req[r].track /\ q.seen = req[r].seen /\ q.sectors = req[r].sectors
  BY <1>1 DEF Request
<1> HIDE DEF q
<1>3. Held(q) /\ ~LapsAreThere(q)
  BY <1>1, <1>2 DEF Held, LapsAreThere
<1>4. sess.status # "deleted" /\ (~moved \/ q.alone) => Current(q)
  BY <1>1, <1>2, Underway DEF Current
<1>5. ~unseen => Informed(q) /\ Informed(req[r])
  BY <1>1, <1>2, Underway DEF Informed
<1>6. CASE track' = track
  BY <1>1, <1>2, <1>3, <1>4, <1>5, <1>6, RequestStep DEF inputs, history
<1>7. CASE /\ Usable(req[r].sectors, req[r].seen) # "distance"
           /\ track' = [track EXCEPT ![req[r].track.id].derived = req[r].sectors,
                                     ![req[r].track.id].updated = @ + 1]
  <2> DEFINE x == req[r].track.id
             g == req[r].sectors
  <2>1. x \in Track /\ g \in GateSet
    <3>1. req[r].track \in TrackRow /\ g \in GateSet \cup {None}
      BY <1>1 DEF Held, Request
    <3>2. g # None
      BY <1>7 DEF Usable
    <3> QED BY <3>1, <3>2 DEF TrackRow
  <2>2. /\ track' \in [Track -> TrackRow]
        /\ \A y \in Track : /\ track'[y].id = y /\ track'[y].gate = track[y].gate
                            /\ y # x => track'[y] = track[y]
        /\ track'[x].derived = g /\ track'[x].updated = track[x].updated + 1
    BY <2>1, <1>7, SMTT(60) DEF DerivationInv, TypeOK, TrackRow
  <2> HIDE DEF x, g
  <2>3. \A p \in Req : req'[p] = IF p = r THEN q ELSE req[p]
    BY <1>1 DEF DerivationInv, TypeOK
  <2>4. TypeOK'
    BY <1>1, <1>2, <2>2 DEF DerivationInv, TypeOK
  <2>5. RequestsHold' /\ LapsComeFirst' /\ AloneIsAlone'
    BY <1>1, <1>2, <1>3, <2>3 DEF DerivationInv, RequestsHold, Held, Known, LapsComeFirst,
                                 LapsAreThere, AloneIsAlone
  <2>6. ASSUME sess.status # "deleted", ~moved \/ req[r].alone
        PROVE  /\ sess.track = x /\ track'[x].derived = g /\ Proposed(t)' = g /\ Chosen(t)' = g
               /\ Chosen(t) = g /\ t.derived \in {None, g} /\ (Expected' = Expected)
    <3>1. Current(req[r])
      BY <1>1, <2>6, Underway
    <3>2. /\ sess.track = x /\ Surveyed[x] = None /\ Chosen(t) = Proposed(t) /\ t.derived \in {None, Proposed(t)}
      BY <1>1, <3>1, ProposedIsChosen DEF x
    <3>3. g = Chosen(t)
      BY <1>1, <3>1, SMTT(60) DEF Current, g
    <3>4. Proposed(t)' = Proposed(t)
      <4>1. (t.gate)' = t.gate /\ (t.id)' = t.id /\ ready' = ready
        BY <1>1, <2>1, <2>2, <3>2 DEF DerivationInv, TypeOK, x
      <4> QED BY <4>1 DEF Proposed
    <3>5. Chosen(t)' = g
      <4>1. (Known(t))' = g
        BY <1>1, <2>1, <2>2, <3>2 DEF Known, x
      <4>2. g # None
        BY <2>1 DEF DerivationAssumption, g
      <4> QED BY <4>1, <4>2 DEF Chosen
    <3>6. Expected' = Expected
      <4>1. (t.gate)' = t.gate
        BY <1>1, <2>1, <2>2, <3>2 DEF x
      <4> QED BY <1>1, <3>3, <3>5, <4>1 DEF Expected
    <3> QED BY <2>2, <3>2, <3>3, <3>4, <3>5, <3>6
  <2>7. RequestsAgree'
    <3> SUFFICES ASSUME sess.status # "deleted", NEW p \in Req, req'[p] # None, ~moved \/ req'[p].alone
                 PROVE  /\ Current(req[p])'
                        /\ (req[p].pc = "stamp" /\ req[p].replace /\ req[p].alone => rows = Expected)'
      BY <1>1 DEF RequestsAgree
    <3>1. ~moved \/ req[r].alone
      BY <1>1, <1>2, <2>3 DEF DerivationInv, AloneIsAlone
    <3>2. (t.gate)' = t.gate /\ sess.track \in Track
      BY <1>1, <2>1, <2>2, <2>6, <3>1 DEF x
    <3>3. CASE p = r
      BY <3>1, <3>2, <3>3, <1>1, <1>2, <1>4, <2>3, <2>6 DEF Current, DerivationInv
    <3>4. CASE p # r
      <4>1. req'[p] = req[p] /\ ~moved
        BY <3>4, <2>3, <1>1 DEF DerivationInv, AloneIsAlone
      <4>2. Current(req[p]) /\ ~(req[p].alone /\ req[p].pc = "stamp")
        BY <4>1, <3>4, <1>1 DEF DerivationInv, RequestsAgree, AloneIsAlone
      <4>3. Current(req[p])'
        BY <4>1, <4>2, <3>1, <3>2, <1>1, <2>6 DEF Current
      <4> QED BY <4>1, <4>2, <4>3
    <3> QED BY <3>3, <3>4
  <2>8. RowsAreExpected'
    <3> SUFFICES ASSUME sess.status # "deleted", ~moved PROVE RowsAreExpected'
      BY <1>1 DEF RowsAreExpected
    <3> QED BY <1>1, <2>6 DEF DerivationInv, RowsAreExpected
  <2>9. MemosAreOld'
    <3> SUFFICES ASSUME ~unseen PROVE MemosAreOld'
      BY <1>1 DEF MemosAreOld
    <3>1. x = sess.track /\ (t.gate)' = t.gate /\ (t.updated)' = t.updated + 1 /\ t.updated \in Nat
      BY <1>1, <1>5, <2>1, <2>2 DEF Informed, x, DerivationInv, TypeOK, TrackRow
    <3>2. \A i \in Node : memo[i] # None => MemoIsOld(memo[i]) /\ memo[i].updated \in Nat
      BY <1>1 DEF DerivationInv, MemosAreOld, MemoRecord
    <3>3. (\A i \in Node : memo[i] # None => MemoIsOld(memo[i]))'
      BY <1>1, <3>1, <3>2 DEF MemoIsOld
    <3>4. ASSUME NEW p \in Req, req'[p] # None PROVE Informed(req[p])'
      <4>1. req'[p] \in Request /\ Informed(req'[p]) /\ Held(req'[p])
        BY <3>4, <1>1, <1>2, <1>3, <1>5, <2>3 DEF DerivationInv, MemosAreOld, TypeOK, RequestsHold
      <4>2. req'[p].pc \in {"count", "samples"} \cup Cut => req'[p].track.updated \in Nat
        BY <4>1 DEF Held, TrackRow
      <4> QED BY <4>1, <4>2, <3>1, <1>1 DEF Informed
    <3> QED BY <1>1, <3>3, <3>4 DEF DerivationInv, MemosAreOld
  <2> QED BY <2>4, <2>5, <2>7, <2>8, <2>9 DEF DerivationInv
<1> QED BY <1>6, <1>7 DEF Persist

(* What a derivation writes is something, and what an undisturbed one writes is expected. *)
LEMMA WhatIsWritten ==
  ASSUME DerivationAssumption, DerivationInv, NEW q \in Request, q.pc \in Cut \ {"ring"}, Held(q)
  PROVE  LET new == RowsFrom(q.seen, q.track.gate, Usable(q.sectors, q.seen)) IN
         /\ new # {}
         /\ Current(q) => /\ new = Expected
                          /\ Usable(q.sectors, q.seen) = Usable(Chosen(track[sess.track]), samples)
<1>1. q.track \in TrackRow /\ Laps[q.track.gate][q.seen] > 0
  BY DEF Held
<1>2. q.track.gate \in Gate /\ q.seen \in 0 .. MaxSamples
  BY <1>1 DEF TrackRow, Request
<1>3. Laps[q.track.gate][q.seen] \in Nat
  BY <1>2 DEF DerivationAssumption
<1>4. 1 \in 1 .. Laps[q.track.gate][q.seen]
  BY <1>1, <1>3
<1> QED BY <1>4 DEF RowsFrom, Expected, Current

LEMMA Inserted ==
  ASSUME NEW S, NEW T
  PROVE  /\ InsertIgnoring({}, S) = S /\ InsertIgnoring(S, S) = S
         /\ T # {} => InsertIgnoring(T, S) # {}
BY DEF InsertIgnoring

LEMMA WriteLapsStep ==
  ASSUME DerivationAssumption, DerivationInv, NEW r \in Req, WriteLaps(r) PROVE DerivationInv'
<1> DEFINE q == [req[r] EXCEPT !.pc = "stamp"]
           new == RowsFrom(req[r].seen, req[r].track.gate, Usable(req[r].sectors, req[r].seen))
<1>1. req[r] # None /\ req[r] \in Request /\ req[r].pc = "gates" /\ Held(req[r])
      /\ UNCHANGED <<sess, samples, track, ready, memo, moved, unseen>>
  BY Underway DEF WriteLaps, Pending, inputs, history
<1>2. CASE End(r) /\ UNCHANGED rows
  BY <1>1, <1>2, EndStep DEF inputs, history
<1>3. CASE /\ rows' = Stored(rows, new, req[r].replace) /\ req' = [req EXCEPT ![r] = q]
           /\ sess.status # "deleted"
  <2>1. q \in Request /\ q.pc = "stamp" /\ q.alone = req[r].alone /\ q.count = req[r].count
        /\ q.replace = req[r].replace
        /\ q.track = req[r].track /\ q.seen = req[r].seen /\ q.sectors = req[r].sectors
    BY <1>1 DEF Request
  <2>2. new # {} /\ (Current(req[r]) => new = Expected)
    BY <1>1, WhatIsWritten
  <2> HIDE DEF q, new
  <2>3. \A p \in Req : req'[p] = IF p = r THEN q ELSE req[p]
    BY <1>3 DEF DerivationInv, TypeOK
  <2>4. rows' # {} /\ (req[r].replace => rows' = new)
    BY <1>3, <2>2, Inserted DEF Stored
  <2>5. TypeOK'
    BY <1>1, <1>3, <2>1, <2>3 DEF DerivationInv, TypeOK
  <2>6. RequestsHold' /\ LapsComeFirst' /\ AloneIsAlone'
    BY <1>1, <2>1, <2>3, <2>4 DEF DerivationInv, RequestsHold, Held, Known, LapsComeFirst, AloneIsAlone
  <2>7. Expected' = Expected /\ (\A x : Current(x)' <=> Current(x))
    BY <1>1 DEF Expected, Current, Chosen, Proposed, Known
  <2>8. ~moved \/ req[r].alone => Current(req[r])
    BY <1>1, <1>3, Underway
  <2>9. RequestsAgree'
    <3> SUFFICES ASSUME NEW p \in Req, req'[p] # None, ~moved \/ req'[p].alone
                 PROVE  /\ Current(req[p])'
                        /\ (req[p].pc = "stamp" /\ req[p].replace /\ req[p].alone => rows = Expected)'
      BY <1>1 DEF RequestsAgree
    <3>1. CASE p = r
      <4>1. Current(req[r]) /\ new = Expected
        BY <3>1, <2>1, <2>2, <2>3, <2>8
      <4>2. Current(q)
        BY <4>1, <1>1, <2>1 DEF Current
      <4> QED BY <3>1, <4>1, <4>2, <2>1, <2>3, <2>4, <2>7
    <3>2. CASE p # r
      <4>1. req'[p] = req[p] /\ ~req[p].alone
        BY <3>2, <2>3, <1>1 DEF DerivationInv, AloneIsAlone
      <4> QED BY <4>1, <1>3, <2>7 DEF DerivationInv, RequestsAgree
    <3> QED BY <3>1, <3>2
  <2>10. RowsAreExpected'
    <3> SUFFICES ASSUME ~moved PROVE RowsAreExpected'
      BY <1>1 DEF RowsAreExpected
    <3>1. rows' = Expected
      BY <1>3, <2>2, <2>8, Inserted DEF Stored, DerivationInv, RowsAreExpected
    <3> QED BY <3>1, <2>7, <1>1, <1>3 DEF DerivationInv, RowsAreExpected, Chosen, Proposed, Known
  <2>11. MemosAreOld'
    <3> SUFFICES ASSUME ~unseen PROVE MemosAreOld'
      BY <1>1 DEF MemosAreOld
    <3>1. \A x : (MemoIsOld(x)' <=> MemoIsOld(x)) /\ (Informed(x)' <=> Informed(x))
      BY <1>1 DEF MemoIsOld, Informed
    <3>2. Informed(q)
      BY <1>1, <2>1, Underway DEF Informed
    <3> QED BY <1>1, <2>3, <3>1, <3>2 DEF DerivationInv, MemosAreOld
  <2> QED BY <2>5, <2>6, <2>9, <2>10, <2>11 DEF DerivationInv
<1> QED BY <1>2, <1>3 DEF WriteLaps, Goto, Become

LEMMA StampStep ==
  ASSUME DerivationAssumption, DerivationInv, NEW r \in Req, Stamp(r) PROVE DerivationInv'
<1> DEFINE q == [req[r] EXCEPT !.pc = "confirm"]
           s == SchemeOf(Usable(req[r].sectors, req[r].seen))
           t == track[sess.track]
<1>1. req[r] # None /\ req[r] \in Request /\ req[r].pc = "stamp" /\ Held(req[r])
      /\ UNCHANGED <<samples, track, ready, rows, memo, unseen>>
  BY Underway DEF Stamp, Pending
<1>2. CASE End(r) /\ UNCHANGED <<sess, moved>>
  BY <1>1, <1>2, EndStep DEF inputs, history
<1>3. CASE /\ sess' = [sess EXCEPT !.scheme = s] /\ moved' = (moved /\ ~(req[r].alone /\ req[r].replace))
           /\ req' = [req EXCEPT ![r] = q] /\ sess.status # "deleted"
  <2>1. q \in Request /\ q.pc = "confirm" /\ q.alone = req[r].alone /\ q.count = req[r].count
        /\ q.track = req[r].track /\ q.seen = req[r].seen /\ q.sectors = req[r].sectors
    BY <1>1 DEF Request
  <2>2. s \in {"gates", "distance"}
    BY DEF SchemeOf
  <2>3. Current(req[r]) => s = SchemeOf(Usable(Chosen(t), samples))
    BY <1>1, WhatIsWritten
  <2> HIDE DEF q, s
  <2>4. \A p \in Req : req'[p] = IF p = r THEN q ELSE req[p]
    BY <1>3 DEF DerivationInv, TypeOK
  <2>5. sess'.status = sess.status /\ sess'.track = sess.track /\ sess'.scheme = s
    BY <1>3 DEF DerivationInv, TypeOK
  <2>6. rows # {}
    BY <1>1, <1>3, Underway DEF LapsAreThere
  <2>7. TypeOK'
    BY <1>1, <1>3, <2>1, <2>2, <2>4, <2>5 DEF DerivationInv, TypeOK
  <2>8. RequestsHold' /\ LapsComeFirst' /\ AloneIsAlone'
    BY <1>1, <2>1, <2>4, <2>6 DEF DerivationInv, RequestsHold, Held, Known, LapsComeFirst, AloneIsAlone
  <2>9. Expected' = Expected /\ (\A x : Current(x)' <=> Current(x)) /\ Chosen(t)' = Chosen(t)
    BY <1>1, <2>5 DEF Expected, Current, Chosen, Proposed, Known
  <2>10. ~moved' \/ req[r].alone => Current(req[r])
    BY <1>1, <1>3, Underway
  <2>11. RequestsAgree'
    <3> SUFFICES ASSUME NEW p \in Req, req'[p] # None, ~moved' \/ req'[p].alone
                 PROVE  /\ Current(req[p])'
                        /\ (req[p].pc = "stamp" /\ req[p].replace /\ req[p].alone => rows = Expected)'
      BY DEF RequestsAgree
    <3>1. CASE p = r
      <4>1. Current(req[r])
        BY <3>1, <2>1, <2>4, <2>10
      <4>2. Current(q)
        BY <4>1, <1>1, <2>1 DEF Current
      <4> QED BY <3>1, <4>2, <2>1, <2>4, <2>9
    <3>2. CASE p # r
      <4>1. req'[p] = req[p] /\ ~req[p].alone /\ ~req[r].alone
        BY <3>2, <2>4, <1>1 DEF DerivationInv, AloneIsAlone
      <4>2. ~moved
        BY <4>1, <1>3
      <4> QED BY <4>1, <4>2, <1>3, <2>9 DEF DerivationInv, RequestsAgree
    <3> QED BY <3>1, <3>2
  <2>12. RowsAreExpected'
    <3> SUFFICES ASSUME ~moved' PROVE RowsAreExpected'
      BY DEF RowsAreExpected
    <3>1. Current(req[r])
      BY <2>10
    <3>2. rows = Expected
      BY <1>1, <1>3, <2>6 DEF DerivationInv, RowsAreExpected, RequestsAgree
    <3>3. (sess.scheme = SchemeOf(Usable(Chosen(t), samples)))'
      BY <1>1, <2>3, <2>5, <2>9, <3>1
    <3> QED BY <1>1, <2>9, <3>2, <3>3 DEF RowsAreExpected
  <2>13. MemosAreOld'
    <3> SUFFICES ASSUME ~unseen PROVE MemosAreOld'
      BY <1>1 DEF MemosAreOld
    <3>1. \A x : (MemoIsOld(x)' <=> MemoIsOld(x)) /\ (Informed(x)' <=> Informed(x))
      BY <1>1, <2>5 DEF MemoIsOld, Informed
    <3>2. Informed(q)
      BY <1>1, <2>1, Underway DEF Informed
    <3> QED BY <1>1, <2>4, <2>5, <3>1, <3>2 DEF DerivationInv, MemosAreOld
  <2> QED BY <2>7, <2>8, <2>11, <2>12, <2>13 DEF DerivationInv
<1> QED BY <1>2, <1>3 DEF Stamp, Goto, Become

-----------------------------------------------------------------------------
(* The steps from outside. *)

LEMMA AskStep ==
  ASSUME DerivationAssumption, DerivationInv, NEW r \in Req, NEW i \in Node, NEW replace \in BOOLEAN,
         Ask(r, i, replace)
  PROVE  DerivationInv'
<1> DEFINE alone == \A p \in Req : req[p] = None
           q == [ node |-> i, replace |-> replace, pc |-> "session", skipped |-> FALSE,
                  alone |-> alone, track |-> None, count |-> 0, seen |-> 0, sectors |-> None ]
           quiet(p) == [req[p] EXCEPT !.alone = FALSE]
<1>1. UNCHANGED <<sess, samples, track, ready, rows, memo, moved, unseen>>
      /\ req' = [p \in Req |-> IF p = r THEN q ELSE IF req[p] = None THEN None ELSE quiet(p)]
      /\ req[r] = None
  BY DEF Ask, inputs, history
<1>2. q \in Request /\ Held(q) /\ ~LapsAreThere(q) /\ Current(q) /\ q.alone = alone /\ q.pc = "session"
      /\ q.count = 0
  BY DEF Request, Held, LapsAreThere, Current, DerivationAssumption
<1>3. \A p \in Req : req[p] # None =>
        /\ quiet(p) \in Request /\ ~quiet(p).alone /\ quiet(p).pc = req[p].pc
        /\ quiet(p).track = req[p].track /\ quiet(p).seen = req[p].seen /\ quiet(p).count = req[p].count
        /\ quiet(p).sectors = req[p].sectors /\ quiet(p).skipped = req[p].skipped
  BY ZenonT(120) DEF DerivationInv, TypeOK, Request
<1> HIDE DEF q, quiet
<1>4. \A p \in Req : req'[p] = IF p = r THEN q ELSE IF req[p] = None THEN None ELSE quiet(p)
  BY <1>1
<1>5. TypeOK'
  BY <1>1, <1>2, <1>3 DEF DerivationInv, TypeOK
<1>6. RequestsHold' /\ LapsComeFirst'
  BY <1>1, <1>2, <1>3, <1>4 DEF DerivationInv, RequestsHold, Held, Known, LapsComeFirst, LapsAreThere
<1>7. AloneIsAlone'
  BY <1>2, <1>3, <1>4 DEF AloneIsAlone
<1>8. Expected' = Expected /\ (\A x : Current(x)' <=> Current(x))
  BY <1>1 DEF Expected, Current, Chosen, Proposed, Known
<1>9. RequestsAgree'
  <2> SUFFICES ASSUME sess.status # "deleted", NEW p \in Req, req'[p] # None, ~moved \/ req'[p].alone
               PROVE  /\ Current(req[p])'
                      /\ (req[p].pc = "stamp" /\ req[p].replace /\ req[p].alone => rows = Expected)'
    BY <1>1 DEF RequestsAgree
  <2>1. CASE p = r
    BY <2>1, <1>2, <1>4, <1>8
  <2>2. CASE p # r
    <3>1. req[p] # None /\ req'[p] = quiet(p) /\ ~moved /\ ~quiet(p).alone
      BY <2>2, <1>3, <1>4
    <3>2. Current(req[p])
      BY <3>1 DEF DerivationInv, RequestsAgree
    <3>3. Current(quiet(p))
      BY <3>1, <3>2, <1>3 DEF Current
    <3> QED BY <3>1, <3>3, <1>8
  <2> QED BY <2>1, <2>2
<1>10. RowsAreExpected'
  BY <1>1 DEF DerivationInv, RowsAreExpected, Expected, Chosen, Proposed, Known
<1>11. MemosAreOld'
  <2> SUFFICES ASSUME ~unseen PROVE MemosAreOld'
    BY <1>1 DEF MemosAreOld
  <2>1. \A x : (MemoIsOld(x)' <=> MemoIsOld(x)) /\ (Informed(x)' <=> Informed(x))
    BY <1>1 DEF MemoIsOld, Informed
  <2>2. Informed(q)
    BY <1>2 DEF Informed, DerivationInv, TypeOK
  <2>3. \A p \in Req : req[p] # None => Informed(quiet(p))
    BY <1>3 DEF Informed, DerivationInv, MemosAreOld
  <2> QED BY <1>1, <1>4, <2>1, <2>2, <2>3 DEF DerivationInv, MemosAreOld
<1> QED BY <1>5, <1>6, <1>7, <1>9, <1>10, <1>11 DEF DerivationInv

(* Once something that laps are derived from changes, no request counts as alone, and the
   change is known unless nothing has been derived. *)
LEMMA MovedStep ==
  ASSUME DerivationInv, sess'.status = sess.status, sess'.scheme = sess.scheme, rows' = rows,
         moved' = (moved \/ rows # {} \/ \E r \in Req : req[r] # None),
         \A r \in Req : \/ req'[r] = None
                        \/ req[r] # None /\ req'[r] = [req[r] EXCEPT !.alone = FALSE]
  PROVE  RequestsHold' /\ LapsComeFirst' /\ AloneIsAlone' /\ RequestsAgree' /\ RowsAreExpected'
<1>1. \A r \in Req : req'[r] # None =>
        /\ req[r] # None /\ ~req'[r].alone /\ req'[r].pc = req[r].pc /\ req'[r].track = req[r].track
        /\ req'[r].seen = req[r].seen /\ req'[r].skipped = req[r].skipped
  <2> SUFFICES ASSUME NEW r \in Req, req'[r] # None
               PROVE  /\ req[r] # None /\ ~req'[r].alone /\ req'[r].pc = req[r].pc /\ req'[r].track = req[r].track
                      /\ req'[r].seen = req[r].seen /\ req'[r].skipped = req[r].skipped
    OBVIOUS
  <2>1. req[r] # None /\ req'[r] = [req[r] EXCEPT !.alone = FALSE]
    OBVIOUS
  <2>2. req[r] \in Request
    BY <2>1 DEF DerivationInv, TypeOK
  <2> QED BY <2>1, <2>2 DEF Request
<1>2. RequestsHold' /\ LapsComeFirst' /\ AloneIsAlone'
  BY <1>1 DEF DerivationInv, RequestsHold, Held, Known, LapsComeFirst, LapsAreThere, AloneIsAlone
<1>3. ~moved' => rows = {} /\ \A r \in Req : req[r] = None
  OBVIOUS
<1>4. RequestsAgree'
  BY <1>1, <1>3 DEF RequestsAgree
<1>5. RowsAreExpected'
  BY <1>3 DEF DerivationInv, LapsComeFirst, RowsAreExpected
<1> QED BY <1>2, <1>4, <1>5

(* InputMoves is such a change. *)
LEMMA InputMovesStep ==
  ASSUME DerivationInv, InputMoves
  PROVE  /\ moved' = (moved \/ rows # {} \/ \E r \in Req : req[r] # None) /\ moved' \in BOOLEAN
         /\ req' \in [Req -> Request \cup {None}]
         /\ \A r \in Req : req'[r] = None \/ (req[r] # None /\ req'[r] = [req[r] EXCEPT !.alone = FALSE])
         /\ \A r \in Req : req'[r] # None =>
              /\ req[r] # None /\ req'[r].pc = req[r].pc /\ req'[r].track = req[r].track
              /\ req'[r].count = req[r].count
<1> DEFINE quiet(r) == [req[r] EXCEPT !.alone = FALSE]
<1>1. \A r \in Req : req[r] # None =>
        /\ quiet(r) \in Request /\ quiet(r).pc = req[r].pc /\ quiet(r).track = req[r].track
        /\ quiet(r).count = req[r].count
  <2>1. \A r \in Req : req[r] # None => req[r] \in Request
    BY DEF DerivationInv, TypeOK
  <2>2. TAKE r \in Req
  <2>3. HAVE req[r] # None
  <2>4. req[r] \in Request
    BY <2>1, <2>3
  <2> QED BY <2>4 DEF Request
<1>2. req' = [r \in Req |-> IF req[r] = None THEN None ELSE quiet(r)]
  BY DEF InputMoves
<1>3. \A r \in Req : \/ req'[r] = None
                     \/ req[r] # None /\ req'[r] = quiet(r)
  BY <1>2
<1> HIDE DEF quiet
<1>4. /\ req' \in [Req -> Request \cup {None}]
      /\ \A r \in Req : req'[r] # None =>
            /\ req[r] # None /\ req'[r].pc = req[r].pc /\ req'[r].track = req[r].track
            /\ req'[r].count = req[r].count
  BY <1>1, <1>2
<1>5. moved' = (moved \/ rows # {} \/ \E r \in Req : req[r] # None) /\ moved' \in BOOLEAN
  BY DEF InputMoves, DerivationInv, TypeOK
<1> QED BY <1>3, <1>4, <1>5 DEF quiet

LEMMA SamplesArriveStep ==
  ASSUME DerivationInv, SamplesArrive PROVE DerivationInv'
<1>1. UNCHANGED <<sess, track, ready, rows, memo, unseen>> /\ samples' \in 0 .. MaxSamples /\ samples' > samples
  BY DEF SamplesArrive, DerivationInv, TypeOK
<1>2. RequestsHold' /\ LapsComeFirst' /\ AloneIsAlone' /\ RequestsAgree' /\ RowsAreExpected'
  <2>1. InputMoves
    BY DEF SamplesArrive
  <2> QED BY <1>1, <2>1, MovedStep, InputMovesStep
<1>3. TypeOK'
  BY <1>1, InputMovesStep DEF SamplesArrive, DerivationInv, TypeOK
<1>4. MemosAreOld'
  <2> SUFFICES ASSUME ~unseen PROVE MemosAreOld'
    BY <1>1 DEF MemosAreOld
  <2>1. \A i \in Node : memo[i] # None => MemoIsOld(memo[i]) /\ memo[i].count \in Nat
    BY DEF DerivationInv, MemosAreOld, TypeOK, MemoRecord
  <2>2. \A i \in Node : memo[i] # None => MemoIsOld(memo[i])'
    BY <1>1, <2>1 DEF MemoIsOld, DerivationInv, TypeOK
  <2>3. ASSUME NEW r \in Req, req'[r] # None PROVE Informed(req[r])'
    <3>1. req[r] # None /\ req'[r].pc = req[r].pc /\ req'[r].track = req[r].track
          /\ req'[r].count = req[r].count /\ req[r].count \in 0 .. MaxSamples
      BY <2>3, InputMovesStep DEF SamplesArrive, DerivationInv, TypeOK, Request
    <3>2. Informed(req[r])
      BY <3>1 DEF DerivationInv, MemosAreOld
    <3> QED BY <3>1, <3>2, <1>1 DEF Informed, DerivationInv, TypeOK
  <2> QED BY <1>1, <2>2, <2>3 DEF DerivationInv, MemosAreOld
<1> QED BY <1>2, <1>3, <1>4 DEF DerivationInv

LEMMA PatchTrackStep ==
  ASSUME DerivationInv, NEW t \in Track \cup {None}, PatchTrack(t) PROVE DerivationInv'
<1>1. UNCHANGED <<samples, track, ready, rows, memo>> /\ unseen' /\ sess'.status = sess.status
      /\ sess'.scheme = sess.scheme /\ sess'.track = t /\ sess' = [sess EXCEPT !.track = t]
      /\ unseen' \in BOOLEAN
  BY DEF PatchTrack, DerivationInv, TypeOK
<1>2. RequestsHold' /\ LapsComeFirst' /\ AloneIsAlone' /\ RequestsAgree' /\ RowsAreExpected'
  <2>1. InputMoves
    BY DEF PatchTrack
  <2> QED BY <1>1, <2>1, MovedStep, InputMovesStep
<1>3. TypeOK'
  BY <1>1, InputMovesStep DEF PatchTrack, DerivationInv, TypeOK
<1> QED BY <1>1, <1>2, <1>3 DEF DerivationInv, MemosAreOld

LEMMA MapArrivesStep ==
  ASSUME DerivationInv, NEW t \in Track, MapArrives(t) PROVE DerivationInv'
<1>1. UNCHANGED <<sess, samples, track, rows, memo, unseen>> /\ ready' \subseteq Track
  BY DEF MapArrives, DerivationInv, TypeOK
<1>2. RequestsHold' /\ LapsComeFirst' /\ AloneIsAlone' /\ RequestsAgree' /\ RowsAreExpected'
  <2>1. InputMoves
    BY DEF MapArrives
  <2> QED BY <1>1, <2>1, MovedStep, InputMovesStep
<1>3. TypeOK'
  BY <1>1, InputMovesStep DEF MapArrives, DerivationInv, TypeOK
<1>4. MemosAreOld'
  BY <1>1, InputMovesStep DEF MapArrives, DerivationInv, MemosAreOld, MemoIsOld, Informed
<1> QED BY <1>2, <1>3, <1>4 DEF DerivationInv

(* A corrected gate: what was read before it is older than the row, or unseen is set. *)
LEMMA RedeployStep ==
  ASSUME DerivationInv, NEW i \in Node, NEW t \in Track, NEW g \in Gate, Redeploy(i, t, g)
  PROVE  DerivationInv'
<1>1. PICK u \in {track[t].updated, track[t].updated + 1} :
        /\ track' = [track EXCEPT ![t].gate = g, ![t].updated = u]
        /\ unseen' = (unseen \/ u = track[t].updated)
  BY DEF Redeploy
<1>2. /\ UNCHANGED <<sess, samples, ready, rows>> /\ memo' = [memo EXCEPT ![i] = None]
      /\ moved' = (moved \/ rows # {} \/ \E r \in Req : req[r] # None)
      /\ req' = [r \in Req |-> IF req[r] = None \/ req[r].node = i THEN None
                              ELSE [req[r] EXCEPT !.alone = FALSE]]
  BY DEF Redeploy
<1>3. \A r \in Req : \/ req'[r] = None
                     \/ req[r] # None /\ req'[r] = [req[r] EXCEPT !.alone = FALSE]
  BY <1>2
<1>4. RequestsHold' /\ LapsComeFirst' /\ AloneIsAlone' /\ RequestsAgree' /\ RowsAreExpected'
  BY <1>2, <1>3, MovedStep
<1>5. track[t] \in TrackRow /\ track[t].updated \in Nat /\ u \in Nat
  BY DEF DerivationInv, TypeOK, TrackRow
<1>6. /\ track' \in [Track -> TrackRow]
      /\ \A x \in Track : track'[x].id = x /\ (x # t => track'[x] = track[x])
      /\ track'[t].updated = u
  BY <1>1, <1>5 DEF DerivationInv, TypeOK, TrackRow
<1>7. \A r \in Req : req'[r] # None => /\ req[r] # None /\ req'[r] \in Request /\ req'[r].pc = req[r].pc
                                       /\ req'[r].track = req[r].track /\ req'[r].count = req[r].count
  BY <1>2, ZenonT(120) DEF DerivationInv, TypeOK, Request
<1>8. TypeOK'
  BY <1>1, <1>2, <1>6, <1>7 DEF DerivationInv, TypeOK
<1>9. MemosAreOld'
  <2> SUFFICES ASSUME ~unseen' PROVE MemosAreOld'
    BY DEF MemosAreOld
  <2>1. ~unseen /\ u = track[t].updated + 1 /\ sess.track # None /\ sess.track \in Track
    BY <1>1, <1>5 DEF DerivationInv, MemosAreOld, TypeOK
  <2> DEFINE s == track[sess.track]
  <2>2. \/ s' = s
        \/ sess.track = t /\ (s.updated)' = s.updated + 1 /\ s.updated \in Nat
    BY <1>2, <1>5, <1>6, <2>1
  <2>3. \A j \in Node : memo'[j] # None => memo[j] # None /\ memo'[j] = memo[j] /\ MemoIsOld(memo[j])
                                            /\ memo[j].updated \in Nat
    BY <1>2, <2>1 DEF DerivationInv, TypeOK, MemosAreOld, MemoRecord
  <2>4. \A j \in Node : memo'[j] # None => MemoIsOld(memo[j])'
    BY <1>2, <2>2, <2>3 DEF MemoIsOld
  <2>5. ASSUME NEW r \in Req, req'[r] # None PROVE Informed(req[r])'
    <3>1. Informed(req[r]) /\ Held(req[r])
      BY <1>7, <2>1, <2>5 DEF DerivationInv, MemosAreOld, RequestsHold
    <3>2. req[r].pc \in {"count", "samples"} \cup Cut => req[r].track.updated \in Nat
      BY <3>1 DEF Held, TrackRow
    <3> QED BY <1>2, <1>7, <2>2, <2>5, <3>1, <3>2 DEF Informed
  <2> QED BY <1>2, <2>1, <2>4, <2>5 DEF MemosAreOld
<1> QED BY <1>4, <1>8, <1>9 DEF DerivationInv

LEMMA CloseSessionStep ==
  ASSUME DerivationInv, CloseSession PROVE DerivationInv'
<1>1. UNCHANGED <<samples, track, ready, rows, memo, req, moved, unseen>>
      /\ sess'.status # "deleted" /\ sess'.track = sess.track /\ sess'.scheme = sess.scheme
      /\ sess.status # "deleted" /\ sess' = [sess EXCEPT !.status = "COMPLETED"]
  BY DEF CloseSession, history, DerivationInv, TypeOK
<1>2. TypeOK' /\ RequestsHold' /\ LapsComeFirst' /\ AloneIsAlone'
  BY <1>1 DEF DerivationInv, TypeOK, RequestsHold, Held, Known, LapsComeFirst, LapsAreThere, AloneIsAlone
<1>3. /\ (Expected' = Expected) /\ Chosen(track[sess.track])' = Chosen(track[sess.track])
      /\ \A x : (Current(x)' <=> Current(x)) /\ (MemoIsOld(x)' <=> MemoIsOld(x))
               /\ (Informed(x)' <=> Informed(x))
  BY <1>1 DEF Expected, Current, MemoIsOld, Informed, Chosen, Proposed, Known
<1>4. RequestsAgree' /\ RowsAreExpected' /\ MemosAreOld'
  BY <1>1, <1>3 DEF DerivationInv, RequestsAgree, RowsAreExpected, MemosAreOld
<1> QED BY <1>2, <1>4 DEF DerivationInv

LEMMA DeleteSessionStep ==
  ASSUME DerivationInv, DeleteSession PROVE DerivationInv'
<1>1. UNCHANGED <<samples, track, ready, memo, req, moved, unseen>>
      /\ sess'.status = "deleted" /\ sess'.track = sess.track /\ sess' = [sess EXCEPT !.status = "deleted"]
  BY DEF DeleteSession, history, DerivationInv, TypeOK
<1>2. TypeOK' /\ RequestsHold' /\ AloneIsAlone'
  BY <1>1 DEF DerivationInv, TypeOK, RequestsHold, Held, Known, AloneIsAlone
<1>3. LapsComeFirst' /\ RequestsAgree' /\ RowsAreExpected'
  BY <1>1 DEF LapsComeFirst, RequestsAgree, RowsAreExpected
<1>4. MemosAreOld'
  BY <1>1 DEF DerivationInv, MemosAreOld, MemoIsOld, Informed
<1> QED BY <1>2, <1>3, <1>4 DEF DerivationInv

LEMMA RestartStep ==
  ASSUME DerivationInv, NEW i \in Node, Restart(i) PROVE DerivationInv'
<1>1. UNCHANGED <<sess, samples, track, ready, rows, moved, unseen>>
      /\ (\A r \in Req : req'[r] \in {req[r], None}) /\ (\A j \in Node : memo'[j] \in {memo[j], None})
      /\ req' \in [Req -> Request \cup {None}] /\ memo' \in [Node -> MemoRecord \cup {None}]
  BY DEF Restart, Stops, inputs, history, DerivationInv, TypeOK
<1>2. TypeOK' /\ RequestsHold' /\ LapsComeFirst' /\ AloneIsAlone'
  BY <1>1 DEF DerivationInv, TypeOK, RequestsHold, Held, Known, LapsComeFirst, LapsAreThere, AloneIsAlone
<1>3. /\ (Expected' = Expected) /\ Chosen(track[sess.track])' = Chosen(track[sess.track])
      /\ \A x : (Current(x)' <=> Current(x)) /\ (MemoIsOld(x)' <=> MemoIsOld(x))
               /\ (Informed(x)' <=> Informed(x))
  BY <1>1 DEF Expected, Current, MemoIsOld, Informed, Chosen, Proposed, Known
<1>4. RequestsAgree' /\ RowsAreExpected' /\ MemosAreOld'
  BY <1>1, <1>3, SMTT(60) DEF DerivationInv, RequestsAgree, RowsAreExpected, MemosAreOld
<1> QED BY <1>2, <1>4 DEF DerivationInv

LEMMA StutterStep ==
  ASSUME DerivationInv, UNCHANGED vars PROVE DerivationInv'
<1>1. UNCHANGED <<sess, samples, track, ready, rows, memo, req, moved, unseen>>
  BY DEF vars, inputs, history
<1>2. Expected' = Expected
  BY <1>1 DEF Expected, Chosen, Proposed, Known
<1>3. /\ \A x : (Current(x)' <=> Current(x)) /\ (MemoIsOld(x)' <=> MemoIsOld(x))
      /\ \A x : (Informed(x)' <=> Informed(x)) /\ (Held(x)' <=> Held(x))
  BY <1>1 DEF Current, MemoIsOld, Informed, Held, Chosen, Proposed, Known
<1>4. TypeOK' /\ RequestsHold' /\ LapsComeFirst' /\ AloneIsAlone'
  BY <1>1, <1>3 DEF DerivationInv, TypeOK, RequestsHold, LapsComeFirst, LapsAreThere, AloneIsAlone
<1>5. RequestsAgree'
  BY <1>1, <1>2, <1>3 DEF DerivationInv, RequestsAgree
<1>6. RowsAreExpected'
  BY <1>1, <1>2 DEF DerivationInv, RowsAreExpected, Chosen, Proposed, Known
<1>7. MemosAreOld'
  BY <1>1, <1>3 DEF DerivationInv, MemosAreOld
<1> QED BY <1>4, <1>5, <1>6, <1>7 DEF DerivationInv

-----------------------------------------------------------------------------
(* Theorems. *)

LEMMA InitEstablishes ==
  ASSUME DerivationAssumption, Init PROVE DerivationInv
<1>1. PICK t \in Track : sess = [status |-> "LIVE", track |-> t, scheme |-> None]
  BY DEF Init
<1>2. \A x \in Track : [id |-> x, gate |-> FirstGate[x], updated |-> 0, derived |-> None] \in TrackRow
  BY DEF DerivationAssumption, TrackRow
<1>3. TypeOK
  BY <1>1, <1>2 DEF Init, TypeOK
<1>4. RequestsHold /\ LapsComeFirst /\ AloneIsAlone /\ RequestsAgree /\ RowsAreExpected /\ MemosAreOld
  BY <1>1 DEF Init, RequestsHold, LapsComeFirst, AloneIsAlone, RequestsAgree, RowsAreExpected, MemosAreOld,
             DerivationAssumption
<1> QED BY <1>3, <1>4 DEF DerivationInv

LEMMA NextPreserves ==
  ASSUME DerivationAssumption, DerivationInv, [Next]_vars PROVE DerivationInv'
<1>1. ASSUME NEW r \in Req, Derive(r) PROVE DerivationInv'
  BY <1>1, ReadSessionStep, ResolveTrackStep, CountStep, ReadSamplesStep, ReadRingStep, PersistStep,
     WriteLapsStep, StampStep, ConfirmStep, EndsStep DEF Derive
<1>2. ASSUME Outside PROVE DerivationInv'
  BY <1>2, SamplesArriveStep, CloseSessionStep, DeleteSessionStep, PatchTrackStep, MapArrivesStep,
     RestartStep, RedeployStep DEF Outside
<1> QED BY <1>1, <1>2, AskStep, StutterStep DEF Next

(* However many requests derive a session on however many nodes, what each of them has read is
   how things are unless something was changed since, rows come before the stamp, and what is
   remembered of a session without crossings is of its past. *)
THEOREM DerivationInvariant ==
  ASSUME DerivationAssumption PROVE Spec => []DerivationInv
BY InitEstablishes, NextPreserves, PTL DEF Spec

(* An answer that gives no reason has laps in it, whatever crashes or is recomputed. *)
THEOREM AnswersHaveLapsAlways ==
  ASSUME DerivationAssumption PROVE Spec => AnswersHaveLaps
<1>1. DerivationInv => \A r \in Req : Pending(r, "rows") /\ ~req[r].skipped /\ req'[r] = None
                                        /\ sess.status # "deleted" => rows # {}
  BY DEF DerivationInv, LapsComeFirst, LapsAreThere, Pending
<1> QED BY <1>1, DerivationInvariant, PTL DEF AnswersHaveLaps

(* Racing first reads and recomputes leave the laps and the scheme that one of them would have
   left alone, unless what they derive from changed. *)
THEOREM DerivedOnceAlways ==
  ASSUME DerivationAssumption PROVE Spec => []DerivedOnce
<1>1. ASSUME DerivationInv PROVE DerivedOnce
  <2> SUFFICES ASSUME sess.scheme # None, sess.status # "deleted", ~moved
               PROVE  rows = Expected /\ sess.scheme = ExpectedScheme
    BY DEF DerivedOnce
  <2>1. rows # {} /\ rows = Expected
    BY <1>1 DEF DerivationInv, LapsComeFirst, RowsAreExpected
  <2>2. \A x \in Expected : x.sectors = Usable(Chosen(track[sess.track]), samples)
    BY DEF Expected, RowsFrom, Row
  <2>3. (CHOOSE x \in Expected : TRUE) \in Expected
    BY <2>1
  <2>4. sess.scheme = ExpectedScheme
    BY <1>1, <2>2, <2>3 DEF ExpectedScheme, DerivationInv, RowsAreExpected
  <2> QED BY <2>1, <2>4
<1> QED BY <1>1, DerivationInvariant, PTL

(* Where a node's memo answers for the session, segmenting it would find no lap. *)
THEOREM MemoHonestAlways ==
  ASSUME DerivationAssumption PROVE Spec => []MemoHonest
<1>1. DerivationInv => MemoHonest
  BY DEF DerivationInv, MemosAreOld, MemoHonest, MemoIsOld, Remembers
<1> QED BY <1>1, DerivationInvariant, PTL
=============================================================================
