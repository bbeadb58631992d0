------------------------------- MODULE LapView -------------------------------
(***************************************************************************)
(* The analysis page of one browser: LapAnalysisService, its four reads    *)
(* (the laps of a session, the traces of two of them and their             *)
(* comparison), the pickers that choose the two, and the forced recompute. *)
(*                                                                         *)
(* A read is an httpResource: a request that is a function of the state,   *)
(* issued anew when that function changes, with the old value gone, or     *)
(* when it is reloaded, with the old value kept. A derivation is what the  *)
(* API would answer: [ver, laps, best, optimal].                           *)
(***************************************************************************)
EXTENDS Integers

CONSTANTS
  Session,
  Outcome,      \* what deriving may give: [laps, best, optimal]
  None,
  MaxMoves, MaxDerivations, MaxFaults   \* bounds on commands, derivations, failures

(* The laps there may be, and what the pickers may choose. *)
Lap == UNION {out.laps : out \in Outcome}
Ref == Lap \cup {"optimal"}

PageAssumption ==
  /\ None \notin [of : Session, derived : BOOLEAN]
  /\ Outcome \subseteq [laps : SUBSET Lap, best : Lap \cup {None}, optimal : BOOLEAN]

VARIABLES
  server,       \* [Session -> the derivation its laps are from]
  session,      \* the session shown, or None
  selected,     \* the lap chosen, "optimal", or None
  compareWith,  \* the lap to compare it with, "optimal", "none", or None
  res,          \* [Read -> an httpResource]
  post,         \* the recompute under way, or None
  missed,       \* history: a read was under way when it should have been reloaded
  moves, faults

choice == <<session, selected, compareWith>>
vars == <<server, choice, res, post, missed, moves, faults>>

Read == {"laps", "active", "reference", "compare"}

-----------------------------------------------------------------------------
(* The computed signals; resp is the laps response, None unless there is one to read. *)

LapsOf(resp) == IF resp = None THEN {} ELSE resp.laps
Optimal(resp) == resp # None /\ resp.optimal
BestLap(resp) == IF resp = None THEN None ELSE resp.best

Offerable(ref, resp) ==
  IF ref \in {None, "none"} \/ (ref = "optimal" /\ ~Optimal(resp)) THEN None ELSE ref

ActiveLap(sel, resp) ==
  IF Offerable(sel, resp) # None THEN Offerable(sel, resp) ELSE BestLap(resp)

(* The explicit comparison, or the best lap by default, but never the lap itself. *)
ReferenceLap(sel, cmp, resp) ==
  LET wanted == IF Offerable(cmp, resp) # None THEN Offerable(cmp, resp) ELSE BestLap(resp)
  IN  IF cmp = "none" \/ wanted = ActiveLap(sel, resp) THEN None ELSE wanted

(* What each read asks for: laps of a session, one lap, or two. *)
Wanted(k, s, sel, cmp, resp) ==
  LET a == ActiveLap(sel, resp)
      b == ReferenceLap(sel, cmp, resp)
      refs == CASE k = "laps" -> {}
                [] k = "active" -> {a}
                [] k = "reference" -> {b}
                [] k = "compare" -> {a, b}
  IN  IF s = None \/ None \in refs THEN None ELSE [of |-> s, refs |-> refs]

(* An httpResource takes up what it is asked for now. *)
Asking(x, key) ==
  IF x.key = key THEN x
  ELSE [key |-> key, status |-> IF key = None THEN "idle" ELSE "loading", value |-> None, sent |-> None]

(* Every signal follows the choice s, sel, cmp and the reads r. *)
Follow(s, sel, cmp, r) ==
  LET laps == Asking(r["laps"], Wanted("laps", s, sel, cmp, None))
  IN  /\ session' = s /\ selected' = sel /\ compareWith' = cmp
      /\ res' = [k \in Read |-> IF k = "laps" THEN laps
                                ELSE Asking(r[k], Wanted(k, s, sel, cmp, laps.value))]

Response == res["laps"].value
Shown == ActiveLap(selected, Response)
Ghost == ReferenceLap(selected, compareWith, Response)

-----------------------------------------------------------------------------
(* Commands. *)

Move == moves < MaxMoves /\ moves' = moves + 1 /\ UNCHANGED <<server, post, missed, faults>>

Open(s) == Move /\ s # session /\ Follow(s, None, None, res)

(* What the pickers render. *)
Options == LapsOf(Response) \cup (IF Optimal(Response) THEN {"optimal"} ELSE {})

(* selectRef, and select, which a row of the table calls. *)
Select(ref) ==
  /\ Move /\ ref \in Options
  /\ Follow(session, ref, IF compareWith = ref THEN None ELSE compareWith, res)

ToggleCompare(lap) ==
  /\ Move /\ lap \in LapsOf(Response)
  /\ Follow(session, selected, IF compareWith = lap THEN None ELSE lap, res)

(* The dash is a choice of its own. *)
SetCompare(ref) ==
  /\ Move /\ ref \in Options \cup {None}
  /\ Follow(session, selected, IF ref = None THEN "none" ELSE ref, res)

Recompute ==
  /\ post = None /\ session # None
  /\ post' = [of |-> session, derived |-> FALSE]
  /\ UNCHANGED <<server, choice, res, missed, moves, faults>>

-----------------------------------------------------------------------------
(* The API. *)

Derivation(s, out) ==
  [ver |-> server[s].ver + 1, laps |-> out.laps, best |-> out.best, optimal |-> out.optimal]

PostDerives(out) ==
  /\ post # None /\ ~post.derived /\ server[post.of].ver < MaxDerivations
  /\ server' = [server EXCEPT ![post.of] = Derivation(post.of, out)]
  /\ post' = [post EXCEPT !.derived = TRUE]
  /\ UNCHANGED <<choice, res, missed, moves, faults>>

PostFails ==
  /\ post # None /\ faults < MaxFaults
  /\ faults' = faults + 1
  /\ post' = None
  /\ missed' = (missed \/ post.derived)
  /\ UNCHANGED <<server, choice, res, moves>>

(* Mutated form: the comparison is taken to follow from the traces. *)
ReloadedButCompare(r) ==
  [k \in Read |-> IF k = "compare" \/ r[k].status \in {"idle", "loading"} THEN r[k]
                  ELSE [r[k] EXCEPT !.status = "reloading", !.sent = None]]

(* reload() leaves a read alone that has not had its first answer. *)
Reloaded(r) ==
  [k \in Read |-> IF r[k].status \in {"idle", "loading"} THEN r[k]
                  ELSE [r[k] EXCEPT !.status = "reloading", !.sent = None]]

(* recompute: the answer is dropped, and every read made again. *)
PostAnswered ==
  /\ post # None /\ post.derived
  /\ post' = None
  /\ res' = Reloaded(res)
  /\ missed' = (missed \/ \E k \in Read : res[k].status = "loading")
  /\ UNCHANGED <<server, choice, moves, faults>>

UnderWay(k) == res[k].status \in {"loading", "reloading"}

NotFound == [status |-> 404]

(* The answer the API would give: the derivation, or a 404 for a lap that is not in it. *)
Answer(key) ==
  LET d == server[key.of]
  IN  IF key.refs \subseteq d.laps \cup (IF d.optimal THEN {"optimal"} ELSE {}) THEN d ELSE NotFound

Serve(k) ==
  /\ UnderWay(k) /\ res[k].sent = None
  /\ res' = [res EXCEPT ![k].sent = Answer(res[k].key)]
  /\ UNCHANGED <<server, choice, post, missed, moves, faults>>

Settled(x, value) ==
  [x EXCEPT !.status = IF value = None THEN "error" ELSE "resolved", !.value = value, !.sent = None]

Arrive(k) ==
  /\ UnderWay(k) /\ res[k].sent # None
  /\ LET value == IF res[k].sent = NotFound THEN None ELSE res[k].sent
     IN  Follow(session, selected, compareWith, [res EXCEPT ![k] = Settled(@, value)])
  /\ UNCHANGED <<server, post, missed, moves, faults>>

ReadFails(k) ==
  /\ UnderWay(k) /\ faults < MaxFaults
  /\ faults' = faults + 1
  /\ Follow(session, selected, compareWith, [res EXCEPT ![k] = Settled(@, None)])
  /\ UNCHANGED <<server, post, missed, moves>>

-----------------------------------------------------------------------------
Init ==
  /\ \E out \in Outcome :
       server = [s \in Session |-> [ver |-> 0, laps |-> out.laps, best |-> out.best, optimal |-> out.optimal]]
  /\ session = None /\ selected = None /\ compareWith = None
  /\ res = [k \in Read |-> [key |-> None, status |-> "idle", value |-> None, sent |-> None]]
  /\ post = None /\ missed = FALSE
  /\ moves = 0 /\ faults = 0

Next ==
  \/ \E s \in Session : Open(s)
  \/ \E ref \in Options : Select(ref) \/ ToggleCompare(ref)
  \/ \E ref \in Options \cup {None} : SetCompare(ref)
  \/ Recompute \/ \E out \in Outcome : PostDerives(out)
  \/ PostFails \/ PostAnswered
  \/ \E k \in Read : Serve(k) \/ Arrive(k) \/ ReadFails(k)

Spec == Init /\ [][Next]_vars

-----------------------------------------------------------------------------
(* Properties. *)

(* Whatever is chosen, opened or recomputed while reads are under way, once they are all in
   the laps, both traces and the delta are of what the page shows now and of one derivation,
   the latest, but for a read that had not had its first answer when it should have been
   reloaded (Follow, recompute). *)
PageIsOfOneDerivation ==
  post = None /\ ~missed /\ (\A k \in Read : ~UnderWay(k)) =>
    \A k \in Read :
      /\ res[k].key = Wanted(k, session, selected, compareWith, Response)
      /\ res[k].status = "resolved" => res[k].value = server[session]

-----------------------------------------------------------------------------
(* What makes it true. *)

Key == [of : Session, refs : SUBSET Ref]
Derived == [ver : Nat, laps : SUBSET Lap, best : Lap \cup {None}, optimal : BOOLEAN]
Resource ==
  [ key : Key \cup {None}, status : {"idle", "loading", "reloading", "resolved", "error"},
    value : Derived \cup {None}, sent : Derived \cup {NotFound, None} ]

TypeOK ==
  /\ server \in [Session -> Derived]
  /\ session \in Session \cup {None}
  /\ selected \in Ref \cup {None} /\ compareWith \in Ref \cup {"none", None}
  /\ res \in [Read -> Resource]
  /\ post \in [of : Session, derived : BOOLEAN] \cup {None}
  /\ missed \in BOOLEAN /\ moves \in Nat /\ faults \in Nat

(* A read asks for what the page shows now. It is idle when that is nothing, and an answer
   comes only to one that is under way. *)
Coherent(x) ==
  /\ x.status = "idle" <=> x.key = None
  /\ x.sent # None => x.status \in {"loading", "reloading"}

ReadsFollow ==
  \A k \in Read :
    /\ res[k].key = Wanted(k, session, selected, compareWith, Response)
    /\ Coherent(res[k])

(* What it was told, or is about to be, is what the API would answer now. *)
Latest(x) ==
  /\ x.status = "resolved" => x.value = server[x.key.of]
  /\ x.sent # None => x.sent = Answer(x.key)

(* A derivation is made that the reads have not been told of. *)
Behind == missed \/ (post # None /\ post.derived)

ReadsAreLatest == ~Behind => \A k \in Read : Latest(res[k])

(* The inductive invariant of PageIsOfOneDerivation. *)
PageInv == TypeOK /\ ReadsFollow /\ ReadsAreLatest

=============================================================================
