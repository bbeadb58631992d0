------------------------- MODULE TrackMapCacheProofs --------------------------
(***************************************************************************)
(* TrackMapCache for any number of instances, browsers and requests and    *)
(* any budget of retries: a READY map stays unless fetches overlapped, and *)
(* polling neither stops short nor goes on for good.                       *)
(***************************************************************************)
EXTENDS TrackMapCache, TLAPS

(* What a step owes the browsers. *)
Browsers == /\ req' \in [Req -> Request \cup {None}] /\ view' \in [View -> ViewRecord]
            /\ \A c \in View : Budget(view'[c]) /\ Waits(c)'

(* A view that has asked as often as it has retried asks once more, and forgets the request
   it had sent before. *)
LEMMA Sends ==
  ASSUME CacheAssumption, CacheInv, NEW c \in View, NEW v \in ViewRecord, ~v.timer,
         v.count <= MaxPendingRetries, v.asked = v.count, Send(c, v)
  PROVE  Browsers
<1> DEFINE u == [v EXCEPT !.asked = @ + 1]
           w == [u EXCEPT !.res = "loading"]
<1>1. w \in ViewRecord /\ Budget(w) /\ w.res = "loading"
  <2>1. v.count \in Nat /\ v.asked \in Nat /\ MaxPendingRetries \in Nat
    BY DEF ViewRecord, CacheAssumption
  <2>2. w.asked = v.count + 1 /\ w.count = v.count /\ w.timer = v.timer /\ w.res = "loading"
    BY DEF ViewRecord
  <2>3. w \in ViewRecord
    <3>1. u \in ViewRecord
      BY <2>1 DEF ViewRecord
    <3> HIDE DEF u
    <3> QED BY <3>1 DEF ViewRecord
  <2> HIDE DEF w
  <2> QED BY <2>1, <2>2, <2>3 DEF Budget
<1>2. view' = [view EXCEPT ![c] = w]
  BY DEF Send, Seen, Status, ViewRecord
<1>3. view' \in [View -> ViewRecord] /\ \A d \in View : Budget(view'[d])
  BY <1>1, <1>2 DEF CacheInv, TypeOK
<1>4. PICK r \in Req, n \in Node :
        /\ req[r] = None
        /\ req' = [p \in Req |->
             IF p = r THEN [node |-> n, by |-> c, pc |-> "find", read |-> None]
             ELSE IF req[p] # None /\ req[p].by = c THEN [req[p] EXCEPT !.by = None] ELSE req[p]]
  BY DEF Send
<1>5. [node |-> n, by |-> c, pc |-> "find", read |-> None] \in Request
  BY DEF Request
<1>6. \A p \in Req : req[p] # None =>
        /\ [req[p] EXCEPT !.by = None] \in Request /\ [req[p] EXCEPT !.by = None].by = None
  BY DEF CacheInv, TypeOK, Request
<1>7. req' \in [Req -> Request \cup {None}]
  BY <1>4, <1>5, <1>6 DEF CacheInv, TypeOK
<1>8. /\ \A d \in View \ {c} : Asking(d)' = Asking(d)
      /\ Asking(c)' = {r}
  BY <1>4, <1>5, <1>6 DEF Asking, CacheAssumption
<1>9. \A d \in View : Waits(d)'
  BY <1>1, <1>2, <1>8 DEF Waits, CacheInv, TypeOK
<1> QED BY <1>3, <1>7, <1>9 DEF Browsers

(* An answer is the last a view waits for; only `pending` has it ask again, in its budget. *)
LEMMA Answers ==
  ASSUME CacheAssumption, CacheInv, NEW S \in SUBSET Req, \A r \in S : req[r] # None,
         NEW answer \in Status \cup {"pending", "error"}, Answered(S, answer)
  PROVE  Browsers
<1> DEFINE Told(c) == \E r \in S : req[r].by = c
<1>1. req' = [r \in Req |-> IF r \in S THEN None ELSE req[r]] /\ req' \in [Req -> Request \cup {None}]
  BY DEF Answered, CacheInv, TypeOK
<1>2. view' = [c \in View |-> IF Told(c) THEN Seen(view[c], answer) ELSE view[c]]
  BY DEF Answered
<1>3. ASSUME NEW c \in View, Told(c) PROVE view[c].res = "loading" /\ Asking(c)' = {}
  BY <1>1, <1>3 DEF CacheInv, Waits, Asking
<1>4. ASSUME NEW c \in View, ~Told(c) PROVE Asking(c)' = Asking(c)
  BY <1>1, <1>4 DEF Asking
<1>5. ASSUME NEW v \in ViewRecord, Budget(v), v.res = "loading"
      PROVE  Seen(v, answer) \in ViewRecord /\ Budget(Seen(v, answer))
  <2>1. v.timer = FALSE /\ v.asked = 1 + v.count /\ v.count <= MaxPendingRetries
        /\ v.count \in Nat /\ v.asked \in Nat /\ MaxPendingRetries \in Nat
    BY <1>5 DEF Budget, ViewRecord, CacheAssumption
  <2>2. CASE answer = "pending"
    <3>1. CASE v.count >= MaxPendingRetries
      BY <2>1, <2>2, <3>1 DEF Seen, Scheduled, ViewRecord, Budget, Status
    <3>2. CASE ~(v.count >= MaxPendingRetries)
      <4> DEFINE u == [v EXCEPT !.count = @ + 1]
                 w == [u EXCEPT !.res = "pending", !.timer = TRUE]
      <4>1. w \in ViewRecord
        <5>1. u \in ViewRecord
          BY <2>1 DEF ViewRecord
        <5> HIDE DEF u
        <5> QED BY <5>1 DEF ViewRecord
      <4>2. w.res = "pending" /\ w.count = v.count + 1 /\ w.timer = TRUE /\ w.asked = v.asked
        BY DEF ViewRecord
      <4>3. Seen(v, answer) = w
        BY <2>1, <2>2, <3>2 DEF Seen, Scheduled, ViewRecord, Status
      <4> HIDE DEF w
      <4>4. Budget(w)
        BY <2>1, <3>2, <4>2 DEF Budget
      <4> QED BY <4>1, <4>3, <4>4
    <3> QED BY <3>1, <3>2
  <2>3. CASE answer \in Status
    <3> DEFINE w == [v EXCEPT !.res = answer, !.count = 0, !.timer = FALSE]
    <3>1. Seen(v, answer) = w
      BY <2>3 DEF Seen, Status
    <3>2. w \in ViewRecord /\ w.res = answer /\ w.count = 0 /\ w.timer = FALSE /\ w.asked = v.asked
      BY <2>3 DEF ViewRecord
    <3> HIDE DEF w
    <3>3. Budget(w)
      BY <2>1, <2>3, <3>2 DEF Budget, Status
    <3> QED BY <3>1, <3>2, <3>3
  <2>4. CASE answer = "error"
    BY <2>1, <2>4 DEF Seen, ViewRecord, Budget, Status
  <2> QED BY <2>2, <2>3, <2>4
<1>6. view' \in [View -> ViewRecord] /\ \A c \in View : Budget(view'[c])
  BY <1>2, <1>3, <1>5 DEF CacheInv, TypeOK
<1>7. ASSUME NEW c \in View PROVE Waits(c)'
  <2>1. CASE Told(c)
    BY <2>1, <1>3 DEF Waits
  <2>2. CASE ~Told(c)
    BY <2>2, <1>2, <1>4 DEF Waits, CacheInv
  <2> QED BY <2>1, <2>2
<1> QED BY <1>1, <1>6, <1>7 DEF Browsers

(* A request that goes on is still its view's. *)
LEMMA GoesOn ==
  ASSUME CacheInv, NEW r \in Req, req[r] # None, NEW q \in Request, q.by = req[r].by,
         req' = [req EXCEPT ![r] = q], view' = view, None \notin Request
  PROVE  Browsers
<1>1. \A c \in View : Asking(c)' = Asking(c)
  BY DEF Asking, CacheInv, TypeOK
<1> QED BY <1>1 DEF Browsers, CacheInv, TypeOK, Waits

(* The fetches and the row are as they were. *)
LEMMA ServerKept ==
  ASSUME CacheInv, Browsers, UNCHANGED <<server, overlap>> PROVE CacheInv'
BY DEF CacheInv, Browsers, server, TypeOK, FetchesAreSettled, FetchesAreAlone

(* A fetch is over. *)
LEMMA FetchEnds ==
  ASSUME CacheInv, Browsers, NEW n \in Node, fetch' = [fetch EXCEPT ![n] = None],
         UNCHANGED <<enabled, row, overlap>>
  PROVE  CacheInv'
BY DEF CacheInv, Browsers, TypeOK, FetchesAreSettled, FetchesAreAlone

(* Nothing changes for the browsers. *)
LEMMA BrowsersKept ==
  ASSUME CacheInv, UNCHANGED <<req, view>> PROVE Browsers
BY DEF CacheInv, Browsers, TypeOK, Waits, Asking

-----------------------------------------------------------------------------
(* The steps, one by one. *)

LEMMA BrowserStep ==
  ASSUME CacheAssumption, CacheInv, NEW c \in View, Open(c) \/ Close(c) \/ RetryFires(c)
  PROVE  CacheInv'
<1>1. CASE Open(c)
  <2>1. Closed \in ViewRecord /\ ~Closed.timer /\ Closed.count <= MaxPendingRetries
        /\ Closed.asked = Closed.count
    BY DEF Closed, ViewRecord, CacheAssumption
  <2> QED BY <1>1, <2>1, Sends, ServerKept DEF Open
<1>2. CASE RetryFires(c)
  <2> DEFINE v == [view[c] EXCEPT !.timer = FALSE]
  <2>1. view[c] \in ViewRecord /\ view[c].timer /\ Budget(view[c])
    BY <1>2 DEF RetryFires, CacheInv, TypeOK
  <2>2. v \in ViewRecord /\ ~v.timer /\ v.count <= MaxPendingRetries /\ v.asked = v.count
    BY <2>1 DEF ViewRecord, Budget
  <2>3. Send(c, v) /\ UNCHANGED <<server, overlap>>
    BY <1>2 DEF RetryFires
  <2> HIDE DEF v
  <2> QED BY <2>2, <2>3, Sends, ServerKept
<1>3. CASE Close(c)
  <2>1. view' = [view EXCEPT ![c] = Closed] /\ UNCHANGED <<server, overlap>>
    BY <1>3 DEF Close
  <2>2. req' = [p \in Req |-> IF req[p] # None /\ req[p].by = c THEN [req[p] EXCEPT !.by = None]
                              ELSE req[p]]
    BY <1>3 DEF Close
  <2>3. \A p \in Req : req[p] # None =>
          /\ [req[p] EXCEPT !.by = None] \in Request /\ [req[p] EXCEPT !.by = None].by = None
    BY DEF CacheInv, TypeOK, Request
  <2>4. req' \in [Req -> Request \cup {None}]
    BY <2>2, <2>3 DEF CacheInv, TypeOK
  <2>5. Asking(c)' = {} /\ \A d \in View \ {c} : Asking(d)' = Asking(d)
    BY <2>2, <2>3 DEF Asking, CacheAssumption
  <2>6. Closed \in ViewRecord /\ Budget(Closed)
    BY DEF Closed, ViewRecord, Budget, CacheAssumption
  <2>7. Browsers
    BY <2>1, <2>4, <2>5, <2>6 DEF Browsers, Waits, CacheInv, TypeOK
  <2> QED BY <2>1, <2>7, ServerKept
<1> QED BY <1>1, <1>2, <1>3

LEMMA FindStep ==
  ASSUME CacheAssumption, CacheInv, NEW r \in Req, Find(r) PROVE CacheInv'
<1> DEFINE q == [req[r] EXCEPT !.pc = "found", !.read = row]
<1>1. req[r] # None /\ q \in Request /\ q.by = req[r].by /\ req' = [req EXCEPT ![r] = q]
  BY DEF Find, At, CacheInv, TypeOK, Request
<1> HIDE DEF q
<1> QED BY <1>1, GoesOn, ServerKept DEF Find, CacheAssumption

(* A fetch that begins alone, on a row that is still as it was read, will not be saved over
   a map. *)
LEMMA FoundStep ==
  ASSUME CacheAssumption, CacheInv, NEW r \in Req, Found(r) PROVE CacheInv'
<1> DEFINE x == req[r].read
           n == req[r].node
<1>1. req[r] # None /\ req[r] \in Request /\ x \in RowRecord \cup {None} /\ n \in Node
  BY DEF Found, At, CacheInv, TypeOK, Request
<1>2. CASE x # None /\ ~Stale(x)
  <2>1. x.status \in Status
    BY <1>1, <1>2 DEF RowRecord
  <2> QED BY <1>1, <1>2, <2>1, Answers, ServerKept DEF Found
<1>3. CASE ~(x # None /\ ~Stale(x)) /\ ~enabled
  <2> DEFINE a == IF x # None THEN x.status ELSE "unavailable"
  <2>1. a \in Status
    BY <1>1 DEF RowRecord, Status
  <2>2. Answered({r}, a) /\ UNCHANGED <<server, overlap>>
    BY <1>3 DEF Found
  <2> HIDE DEF a
  <2> QED BY <1>1, <2>1, <2>2, Answers, ServerKept
<1>4. CASE ~(x # None /\ ~Stale(x)) /\ enabled
  <2> DEFINE q == [req[r] EXCEPT !.pc = "wait"]
             f == [pc |-> "overpass", status |-> None]
  <2>1. /\ req' = [req EXCEPT ![r] = q]
        /\ fetch' = IF fetch[n] # None THEN fetch ELSE [fetch EXCEPT ![n] = f]
        /\ overlap' = (overlap \/ (fetch[n] = None /\ (x # row \/ \E m \in Node : fetch[m] # None)))
        /\ UNCHANGED <<enabled, row, view>>
    BY <1>4 DEF Found
  <2>2. q \in Request /\ q.by = req[r].by
    BY <1>1 DEF Request
  <2>3. Browsers
    BY <1>1, <2>1, <2>2, GoesOn DEF CacheAssumption
  <2>4. CASE fetch[n] # None
    <3>1. fetch' = fetch /\ overlap' = overlap
      BY <2>1, <2>4 DEF CacheInv, TypeOK
    <3> QED BY <2>1, <2>3, <3>1, ServerKept DEF server
  <2>5. CASE fetch[n] = None
    <3>1. f \in FetchRecord /\ f.pc = "overpass" /\ f # None
      BY DEF FetchRecord, CacheAssumption
    <3> HIDE DEF f
    <3>2. fetch' = [fetch EXCEPT ![n] = f]
      BY <2>1, <2>5
    <3>3. TypeOK'
      BY <2>1, <2>3, <3>1, <3>2 DEF Browsers, CacheInv, TypeOK
    <3>4. FetchesAreSettled'
      BY <1>1, <2>1, <3>1, <3>2 DEF FetchesAreSettled, CacheInv, TypeOK
    <3>5. FetchesAreAlone'
      <4> SUFFICES ASSUME ~overlap' PROVE FetchesAreAlone'
        BY DEF FetchesAreAlone
      <4>1. ~overlap /\ x = row /\ \A m \in Node : fetch[m] = None
        BY <2>1, <2>5
      <4>2. row = None \/ row.status # "ready"
        BY <1>4, <4>1 DEF Stale
      <4>3. \A m \in Node : fetch'[m] # None => m = n
        BY <1>1, <3>2, <4>1 DEF CacheInv, TypeOK
      <4> QED BY <2>1, <4>2, <4>3 DEF FetchesAreAlone
    <3> QED BY <2>3, <3>3, <3>4, <3>5 DEF CacheInv, Browsers
  <2> QED BY <2>4, <2>5
<1> QED BY <1>2, <1>3, <1>4

LEMMA NoAnswerStep ==
  ASSUME CacheAssumption, CacheInv, NEW r \in Req, Deadline(r) \/ FindFails(r) PROVE CacheInv'
BY Answers, ServerKept DEF Deadline, FindFails, At

LEMMA FetchedStep ==
  ASSUME CacheAssumption, CacheInv, NEW n \in Node, Fetched(n) PROVE CacheInv'
<1> PICK s \in Status : fetch' = [fetch EXCEPT ![n] = [pc |-> "save", status |-> s]]
  BY DEF Fetched
<1>1. fetch[n] # None /\ fetch[n].pc = "overpass" /\ UNCHANGED <<enabled, row, req, view, overlap>>
  BY DEF Fetched
<1>2. [pc |-> "save", status |-> s] \in FetchRecord
  BY DEF FetchRecord
<1>3. TypeOK'
  BY <1>1, <1>2 DEF CacheInv, TypeOK
<1>4. FetchesAreSettled' /\ FetchesAreAlone'
  BY <1>1, <1>2 DEF CacheInv, TypeOK, FetchesAreSettled, FetchesAreAlone, CacheAssumption
<1> QED BY <1>1, <1>3, <1>4, BrowsersKept DEF Browsers, CacheInv

LEMMA UpsertStep ==
  ASSUME CacheAssumption, CacheInv, NEW n \in Node, Upsert(n) PROVE CacheInv'
<1>1. /\ fetch[n] # None /\ fetch[n].pc = "save" /\ UNCHANGED <<enabled, req, view, overlap>>
      /\ row' = [status |-> fetch[n].status, old |-> FALSE]
      /\ fetch' = [fetch EXCEPT ![n].pc = "reread"]
  BY DEF Upsert
<1>2. fetch[n] \in FetchRecord /\ fetch[n].status \in Status
  BY <1>1 DEF CacheInv, TypeOK, FetchesAreSettled
<1>3. row' \in RowRecord /\ row' # None
  <2>1. row' \in RowRecord
    BY <1>1, <1>2 DEF RowRecord
  <2> QED BY <2>1 DEF CacheAssumption
<1> DEFINE f == [fetch[n] EXCEPT !.pc = "reread"]
<1>4. f \in FetchRecord /\ f.pc = "reread" /\ f.status \in Status /\ fetch' = [fetch EXCEPT ![n] = f]
  BY <1>1, <1>2 DEF FetchRecord
<1> HIDE DEF f
<1>5. TypeOK'
  BY <1>1, <1>3, <1>4 DEF CacheInv, TypeOK
<1>6. FetchesAreSettled'
  BY <1>3, <1>4 DEF CacheInv, TypeOK, FetchesAreSettled
<1>7. FetchesAreAlone'
  <2> SUFFICES ASSUME ~overlap PROVE FetchesAreAlone'
    BY <1>1 DEF FetchesAreAlone
  <2>1. \A m \in Node : fetch[m] # None => m = n
    BY <1>1 DEF CacheInv, FetchesAreAlone
  <2>2. \A m \in Node : fetch'[m] # None => m = n /\ fetch'[m].pc = "reread"
    BY <2>1, <1>4 DEF CacheInv, TypeOK
  <2> QED BY <2>2 DEF FetchesAreAlone
<1> QED BY <1>1, <1>5, <1>6, <1>7, BrowsersKept DEF Browsers, CacheInv

LEMMA FetchOverStep ==
  ASSUME CacheAssumption, CacheInv, NEW n \in Node, Reread(n) \/ SaveFails(n) \/ Restart(n)
  PROVE  CacheInv'
<1>1. Waiting(n) \in SUBSET Req /\ \A r \in Waiting(n) : req[r] # None
  BY DEF Waiting, At
<1>2. CASE Reread(n)
  <2>1. row.status \in Status
    BY <1>2 DEF Reread, CacheInv, TypeOK, FetchesAreSettled, RowRecord
  <2> QED BY <1>1, <1>2, <2>1, Answers, FetchEnds DEF Reread
<1>3. CASE SaveFails(n)
  BY <1>1, <1>3, Answers, FetchEnds DEF SaveFails
<1>4. CASE Restart(n)
  <2> DEFINE S == {r \in Req : req[r] # None /\ req[r].node = n}
  <2>1. S \in SUBSET Req /\ (\A r \in S : req[r] # None) /\ Answered(S, "error")
    BY <1>4 DEF Restart
  <2> HIDE DEF S
  <2> QED BY <1>4, <2>1, Answers, FetchEnds DEF Restart
<1> QED BY <1>2, <1>3, <1>4

LEMMA AgesStep ==
  ASSUME CacheAssumption, CacheInv, Ages PROVE CacheInv'
<1>1. row # None /\ row' = [row EXCEPT !.old = TRUE] /\ UNCHANGED <<enabled, fetch, req, view, overlap>>
  BY DEF Ages
<1>2. row' \in RowRecord /\ row' # None /\ row'.status = row.status
  BY <1>1 DEF CacheInv, TypeOK, RowRecord, CacheAssumption
<1> QED BY <1>1, <1>2, BrowsersKept
        DEF Browsers, CacheInv, TypeOK, FetchesAreSettled, FetchesAreAlone

-----------------------------------------------------------------------------
(* The invariant holds of every behaviour. *)
THEOREM CacheInvariant ==
  ASSUME CacheAssumption PROVE Spec => []CacheInv
<1>1. Init => CacheInv
  <2> SUFFICES ASSUME Init PROVE CacheInv
    OBVIOUS
  <2>1. TypeOK /\ \A c \in View : Asking(c) = {}
    BY DEF Init, TypeOK, Closed, ViewRecord, Asking
  <2>2. Budget(Closed)
    BY DEF Budget, Closed, CacheAssumption
  <2> QED BY <2>1, <2>2 DEF Init, CacheInv, FetchesAreSettled, FetchesAreAlone, Waits
<1>2. CacheInv /\ [Next]_vars => CacheInv'
  <2> SUFFICES ASSUME CacheInv, [Next]_vars PROVE CacheInv'
    OBVIOUS
  <2>1. ASSUME NEW c \in View, Open(c) \/ Close(c) \/ RetryFires(c) PROVE CacheInv'
    BY <2>1, BrowserStep
  <2>2. ASSUME NEW r \in Req, Find(r) \/ Found(r) \/ Deadline(r) \/ FindFails(r) PROVE CacheInv'
    BY <2>2, FindStep, FoundStep, NoAnswerStep
  <2>3. ASSUME NEW n \in Node, Fetched(n) \/ Upsert(n) \/ Reread(n) \/ SaveFails(n) \/ Restart(n)
        PROVE  CacheInv'
    BY <2>3, FetchedStep, UpsertStep, FetchOverStep
  <2>4. CASE Ages
    BY <2>4, AgesStep
  <2>5. CASE UNCHANGED vars
    BY <2>5, BrowsersKept, ServerKept DEF vars
  <2> QED BY <2>1, <2>2, <2>3, <2>4, <2>5 DEF Next
<1> QED BY <1>1, <1>2, PTL DEF Spec

(* For any number of views and any budget: polling for a pending map ends, and not before
   the budget is spent (scheduleRetry, clearRetry, the effect). *)
THEOREM PollsEndAlways ==
  ASSUME CacheAssumption PROVE Spec => []PollsEnd
<1>1. CacheInv => PollsEnd
  BY DEF CacheInv, Budget, PollsEnd
<1> QED BY <1>1, CacheInvariant, PTL

(* On any number of instances: a READY map is replaced only where fetches overlapped
   (TrackMapService.get, fetchAndPersist). *)
THEOREM ReadyStaysAlways ==
  ASSUME CacheAssumption PROVE Spec => ReadyStays
<1> DEFINE Kept == row # None /\ row.status = "ready" /\ row'.status # "ready" => overlap
<1>1. CacheInv /\ [Next]_vars => [Kept]_vars
  <2> SUFFICES ASSUME CacheInv, Next, row # None, row.status = "ready", row'.status # "ready", ~overlap
               PROVE  FALSE
    BY DEF vars
  <2>1. ASSUME NEW n \in Node, Upsert(n) PROVE FALSE
    BY <2>1 DEF Upsert, CacheInv, FetchesAreAlone
  <2>2. ASSUME Ages PROVE FALSE
    BY <2>2 DEF Ages, CacheInv, TypeOK, RowRecord
  <2>3. row' # row
    OBVIOUS
  <2> QED BY <2>1, <2>2, <2>3 DEF Next, Open, Close, RetryFires, Find, Found, Deadline, FindFails,
                                  Fetched, Reread, SaveFails, Restart, server
<1> QED BY <1>1, CacheInvariant, PTL DEF Spec, ReadyStays
=============================================================================
