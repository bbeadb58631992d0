---------------------------- MODULE TrackMapCache ----------------------------
(***************************************************************************)
(* The outline of one track: TrackMapService of the API, which fetches it  *)
(* from OpenStreetMap once and caches it, on several instances over one    *)
(* table, and TrackMapService of the browser, which asks again while the   *)
(* answer is `pending`. Tracks share no state; a view that shows another   *)
(* track, or none, is closed here.                                         *)
(***************************************************************************)
EXTENDS Integers, FiniteSets

CONSTANTS
  Node,         \* API instances
  View,         \* browsers
  Req,          \* HTTP requests that can be under way at once
  None,
  MaxPendingRetries,
  MaxOpens, MaxFaults, MaxAges   \* bounds on opened views, failures, rows grown stale

Status == {"ready", "unavailable"}
RowRecord == [status : Status, old : BOOLEAN]
FetchRecord == [pc : {"overpass", "save", "reread"}, status : Status \cup {None}]
Request == [node : Node, by : View \cup {None}, pc : {"find", "found", "wait"},
            read : RowRecord \cup {None}]
ViewRecord == [res : Status \cup {"idle", "loading", "pending", "error"}, count : Nat,
               timer : BOOLEAN, asked : Nat]

CacheAssumption ==
  /\ MaxPendingRetries \in Nat
  /\ None \notin View \cup Status \cup RowRecord \cup FetchRecord \cup Request

VARIABLES
  enabled,      \* TRACK_MAP_FETCH_ENABLED
  row,          \* the row of `track_maps`, or None
  fetch,        \* [Node -> the fetch under way (inflight), or None]
  req,          \* [Req -> a request, or None]
  view,         \* [View -> state of the browser's service]
  overlap,      \* history: a fetch began on a read that was no longer true, or beside another
  opens, faults, ages

server == <<enabled, row, fetch>>
vars == <<server, req, view, overlap, opens, faults, ages>>

At(r, pc) == req[r] # None /\ req[r].pc = pc
Fault == faults < MaxFaults /\ faults' = faults + 1

-----------------------------------------------------------------------------
(* The browser. *)

Closed == [res |-> "idle", count |-> 0, timer |-> FALSE, asked |-> 0]

(* scheduleRetry *)
Scheduled(v) ==
  IF v.timer \/ v.count >= MaxPendingRetries THEN v
  ELSE [v EXCEPT !.count = @ + 1, !.timer = TRUE]

(* Mutated form: whatever is not pending restores the budget. *)
SeenResetting(v, answer) ==
  IF answer = "pending" THEN Scheduled([v EXCEPT !.res = answer])
  ELSE [v EXCEPT !.res = answer, !.count = 0, !.timer = FALSE]

(* The effect on the response: `pending` is asked again, a settled answer restores the
   budget, and loading or an error leaves it alone. *)
Seen(v, answer) ==
  CASE answer = "pending" -> Scheduled([v EXCEPT !.res = answer])
    [] answer \in Status ->
         [v EXCEPT !.res = answer, !.count = 0, !.timer = FALSE]
    [] answer \in {"loading", "error"} -> [v EXCEPT !.res = answer]

(* A request for the view, answered by some node; the one before it is aborted. *)
Send(c, v) ==
  /\ view' = [view EXCEPT ![c] = Seen([v EXCEPT !.asked = @ + 1], "loading")]
  /\ \E r \in Req, n \in Node :
       /\ req[r] = None
       /\ req' = [p \in Req |->
            IF p = r THEN [node |-> n, by |-> c, pc |-> "find", read |-> None]
            ELSE IF req[p] # None /\ req[p].by = c THEN [req[p] EXCEPT !.by = None] ELSE req[p]]

(* open(track): a new track starts with a full budget and no timer. *)
Open(c) ==
  /\ view[c].res = "idle" /\ opens < MaxOpens
  /\ opens' = opens + 1
  /\ Send(c, Closed)
  /\ UNCHANGED <<server, overlap, faults, ages>>

(* open(null), on teardown or another track; clearRetry. *)
Close(c) ==
  /\ view[c].res # "idle"
  /\ view' = [view EXCEPT ![c] = Closed]
  /\ req' = [p \in Req |-> IF req[p] # None /\ req[p].by = c THEN [req[p] EXCEPT !.by = None]
                           ELSE req[p]]
  /\ UNCHANGED <<server, overlap, opens, faults, ages>>

RetryFires(c) ==
  /\ view[c].timer
  /\ Send(c, [view[c] EXCEPT !.timer = FALSE])
  /\ UNCHANGED <<server, overlap, opens, faults, ages>>

-----------------------------------------------------------------------------
(* TrackMapService.get on a node. *)

(* The requests in S get their answers, and the views still waiting for them see them. *)
Answered(S, answer) ==
  /\ req' = [r \in Req |-> IF r \in S THEN None ELSE req[r]]
  /\ view' = [c \in View |->
       IF \E r \in S : req[r].by = c THEN Seen(view[c], answer) ELSE view[c]]

Find(r) ==
  /\ At(r, "find")
  /\ req' = [req EXCEPT ![r].pc = "found", ![r].read = row]
  /\ UNCHANGED <<server, view, overlap, opens, faults, ages>>

(* Mutated form: a row of any status goes stale. *)
StaleAny(x) == x.old

(* isStaleUnavailable *)
Stale(x) == x.status = "unavailable" /\ x.old

(* The row just read is the answer, or a fetch is joined or begun. *)
Found(r) ==
  /\ At(r, "found")
  /\ LET x == req[r].read
         n == req[r].node IN
     IF x # None /\ ~Stale(x) THEN Answered({r}, x.status) /\ UNCHANGED <<server, overlap>>
     ELSE IF ~enabled
     THEN Answered({r}, IF x # None THEN x.status ELSE "unavailable") /\ UNCHANGED <<server, overlap>>
     ELSE /\ req' = [req EXCEPT ![r].pc = "wait"]
          /\ fetch' = IF fetch[n] # None THEN fetch
                      ELSE [fetch EXCEPT ![n] = [pc |-> "overpass", status |-> None]]
          /\ overlap' = (overlap \/ (fetch[n] = None /\
               (x # row \/ \E m \in Node : fetch[m] # None)))
          /\ UNCHANGED <<enabled, row, view>>
  /\ UNCHANGED <<opens, faults, ages>>

(* TRACK_MAP_FETCH_DEADLINE_MS: the caller gets PENDING and the fetch goes on. *)
Deadline(r) ==
  /\ At(r, "wait")
  /\ Answered({r}, "pending")
  /\ UNCHANGED <<server, overlap, opens, faults, ages>>

FindFails(r) ==
  /\ At(r, "find") /\ Fault
  /\ Answered({r}, "error")
  /\ UNCHANGED <<server, overlap, opens, ages>>

(* fetchAndPersist: Overpass answers with a usable outline, or with none, or not in time. *)
Fetched(n) ==
  /\ fetch[n] # None /\ fetch[n].pc = "overpass"
  /\ \E s \in Status : fetch' = [fetch EXCEPT ![n] = [pc |-> "save", status |-> s]]
  /\ UNCHANGED <<enabled, row, req, view, overlap, opens, faults, ages>>

(* save: the upsert ... *)
Upsert(n) ==
  /\ fetch[n] # None /\ fetch[n].pc = "save"
  /\ row' = [status |-> fetch[n].status, old |-> FALSE]
  /\ fetch' = [fetch EXCEPT ![n].pc = "reread"]
  /\ UNCHANGED <<enabled, req, view, overlap, opens, faults, ages>>

Waiting(n) == {r \in Req : At(r, "wait") /\ req[r].node = n}

(* ... and the row read back, which is what everyone waiting on the fetch gets. *)
Reread(n) ==
  /\ fetch[n] # None /\ fetch[n].pc = "reread"
  /\ fetch' = [fetch EXCEPT ![n] = None]
  /\ Answered(Waiting(n), row.status)
  /\ UNCHANGED <<enabled, row, overlap, opens, faults, ages>>

(* A failed query of save() rejects the fetch for everyone who waits. *)
SaveFails(n) ==
  /\ fetch[n] # None /\ fetch[n].pc \in {"save", "reread"} /\ Fault
  /\ fetch' = [fetch EXCEPT ![n] = None]
  /\ Answered(Waiting(n), "error")
  /\ UNCHANGED <<enabled, row, overlap, opens, ages>>

Restart(n) ==
  /\ Fault
  /\ fetch' = [fetch EXCEPT ![n] = None]
  /\ Answered({r \in Req : req[r] # None /\ req[r].node = n}, "error")
  /\ UNCHANGED <<enabled, row, overlap, opens, ages>>

(* TRACK_MAP_RETRY_AFTER_HOURS pass. *)
Ages ==
  /\ row # None /\ ~row.old /\ ages < MaxAges
  /\ row' = [row EXCEPT !.old = TRUE]
  /\ ages' = ages + 1
  /\ UNCHANGED <<enabled, fetch, req, view, overlap, opens, faults>>

-----------------------------------------------------------------------------
Init ==
  /\ enabled \in BOOLEAN
  /\ row = None
  /\ fetch = [n \in Node |-> None]
  /\ req = [r \in Req |-> None]
  /\ view = [c \in View |-> Closed]
  /\ overlap = FALSE
  /\ opens = 0 /\ faults = 0 /\ ages = 0

Next ==
  \/ \E c \in View : Open(c) \/ Close(c) \/ RetryFires(c)
  \/ \E r \in Req : Find(r) \/ Found(r) \/ Deadline(r) \/ FindFails(r)
  \/ \E n \in Node : Fetched(n) \/ Upsert(n) \/ Reread(n) \/ SaveFails(n) \/ Restart(n)
  \/ Ages

Spec == Init /\ [][Next]_vars

-----------------------------------------------------------------------------
(* Properties. *)

(* A READY outline is never replaced by an `unavailable` one ("cached forever"), but by a
   fetch that began beside another, on the read of a row that had changed since. *)
ReadyStays ==
  [][row # None /\ row.status = "ready" /\ row'.status # "ready" => overlap]_vars

(* A view asks at most once and MaxPendingRetries times more, however often the answer is
   `pending`, and one that shows `pending` will ask again or has asked that often: it is
   neither stuck nor polling forever (scheduleRetry, clearRetry, the effect). *)
PollsEnd ==
  \A c \in View :
    /\ view[c].asked <= 1 + MaxPendingRetries
    /\ view[c].res = "pending" => view[c].timer \/ view[c].asked = 1 + MaxPendingRetries

-----------------------------------------------------------------------------
(* Why they hold. *)

TypeOK ==
  /\ enabled \in BOOLEAN /\ overlap \in BOOLEAN
  /\ row \in RowRecord \cup {None}
  /\ fetch \in [Node -> FetchRecord \cup {None}]
  /\ req \in [Req -> Request \cup {None}]
  /\ view \in [View -> ViewRecord]

(* What a fetch saves is settled, and what it reads back is there. *)
FetchesAreSettled ==
  \A n \in Node : fetch[n] # None =>
    /\ fetch[n].pc # "overpass" => fetch[n].status \in Status
    /\ fetch[n].pc = "reread" => row # None

(* Unless fetches overlapped there is one at a time, and none is to be saved over a map. *)
FetchesAreAlone ==
  ~overlap =>
    /\ \A m, n \in Node : fetch[m] # None /\ fetch[n] # None => m = n
    /\ \A n \in Node : fetch[n] # None /\ fetch[n].pc # "reread" => row = None \/ row.status # "ready"

Asking(c) == {r \in Req : req[r] # None /\ req[r].by = c}

(* What a view has asked, by what it shows: a timer stands for the next request. *)
Budget(v) ==
  /\ v.count <= MaxPendingRetries
  /\ v.timer => v.res = "pending"
  /\ v.res = "idle" => v = Closed
  /\ v.res = "loading" => v.asked = 1 + v.count
  /\ v.res = "pending" =>
       IF v.timer THEN v.asked = v.count
       ELSE v.count = MaxPendingRetries /\ v.asked = 1 + MaxPendingRetries
  /\ v.asked <= 1 + MaxPendingRetries

(* One request at most is a view's, while it shows `loading`. *)
Waits(c) ==
  /\ view[c].res # "loading" => Asking(c) = {}
  /\ \A p, r \in Asking(c) : p = r

CacheInv ==
  TypeOK /\ FetchesAreSettled /\ FetchesAreAlone /\ \A c \in View : Budget(view[c]) /\ Waits(c)
=============================================================================
