------------------------------- MODULE Ingest -------------------------------
(***************************************************************************)
(* The telemetry-ingest process: MQTT messages in, hypertable rows and     *)
(* live frames out.                                                        *)
(*                                                                         *)
(* Node runs one turn at a time, and a turn ends at an await that reaches  *)
(* the database or Redis. Each action is one such turn, or one query       *)
(* taking effect in the database. The continuations of a promise that has  *)
(* just settled run back to back before anything else (Node drains its     *)
(* microtasks first): `turn` holds them, and nothing else is `Idle`.       *)
(*                                                                         *)
(* Durable: cars, sess, rows (Postgres and Timescale), lkv (Redis).        *)
(* Lost in a crash: the registry, the loads, the writer, the handlers.     *)
(***************************************************************************)
EXTENDS Integers, Sequences, FiniteSets

CONSTANTS
  Device,       \* deviceIds; the broker ACL makes the one in a topic genuine
  Sid,          \* run ids chosen by devices; two devices may choose the same
  SeqNo,        \* frame sequence numbers
  Mono,         \* [Frame -> Int]: a frame's monotonic timestamp, set by its device
  Messages,     \* what devices publish
  CarId,        \* primary keys of `cars`
  FirstCars,    \* cars registered to begin with
  CarDevice,    \* [CarId -> Device]
  SessionId,    \* primary keys of `sessions`
  LoadId,       \* registry lookups that can be in flight at once
  StopId,       \* stop handlers that can be in flight at once
  CloseId,      \* close requests that can be in flight at once in the API
  None,
  MaxBuffered,  \* MAX_BUFFERED_ROWS
  MaxNow,       \* bound on the server clock
  MaxMsgs,      \* bound on deliveries
  MaxFaults,    \* bound on restarts, failed queries and failed publishes
  MaxAdmin      \* bound on deletions and closes made through the API

Frame == [dev : Device, sid : Sid, seq : SeqNo]
Key == Device \X Sid

(* A message on one of the three topics of device dev: a single frame, a backfill
   batch, or a session event with the device's monotonic reading `mono`. The device of a
   frame is the publisher of its message. *)
Message == [ kind : {"frame", "batch", "start", "stop"}, dev : Device, sid : Sid, mono : Int,
             frames : Seq(Frame) ]

ASSUME IngestAssumption ==
  /\ Mono \in [Frame -> Int]
  /\ CarDevice \in [CarId -> Device]
  /\ FirstCars \subseteq CarId
  /\ Messages \subseteq Message
  /\ \A m \in Messages :
       /\ \A i \in DOMAIN m.frames : m.frames[i].dev = m.dev
       /\ m.kind = "frame" => Len(m.frames) = 1 /\ m.frames[1].sid = m.sid
  /\ MaxBuffered \in Nat \ {0}

Session == [ status : {"LIVE", "COMPLETED", "deleted"},
             car : CarId, sid : Sid, anchor : Int, mono0 : Int, ended : Int ]
Context == [sess : SessionId, car : CarId, anchor : Int, mono0 : Int]
Sample  == [sess : SessionId, car : CarId, seq : SeqNo, time : Int, frame : Frame]

(* A handler suspended on the registry, with the frames it will store. *)
Waiter == [kind : {"frame", "batch", "start"}, sid : Sid, frames : Seq(Frame)]

(* A lookup: the next query it makes, and what the earlier ones returned. *)
Load == [ st : {"findCar", "findRow", "insert", "reread", "settle"},
          dev : Device, sid : Sid, mono : Int, car : CarId \cup {None}, anchor : Int,
          ctx : Context \cup {None}, queue : Seq(Waiter) \ {<<>>} ]

(* A stop handler; `ahead` batches and the samples `cut` were unwritten when it
   called flush(). *)
Stop == [ pc : {"find", "close", "reread", "flush", "await", "forget"},
          dev : Device, sid : Sid, car : CarId \cup {None},
          sess : SessionId \cup {None}, ahead : Nat, cut : SUBSET Sample ]

(* What a session's row says of its run for good. *)
Run == [dev : Device, sid : Sid, car : CarId, anchor : Int, mono0 : Int]

(* None is none of the things it stands for the absence of. *)
ASSUME NoneAssumption ==
  /\ None \notin SessionId /\ None \notin CarId /\ None \notin LoadId
  /\ None \notin Session /\ None \notin Run /\ None \notin Context /\ None \notin Sample
  /\ None \notin Load /\ None \notin Stop

VARIABLES
  now,          \* the server's clock
  cars,         \* [CarId -> state of the row in `cars`]
  sess,         \* [SessionId -> row of `sessions`, or None]
  rows,         \* rows of `telemetry_samples`
  lkv,          \* [CarId -> Sample or None]: Redis last-known values
  pending,      \* [Key -> LoadId or None]: registry slots with an unsettled promise
  ready,        \* [Key -> Context or None]: registry slots whose promise has settled
  load,         \* [LoadId -> Load or None]
  turn,         \* continuations running in this turn, or None
  buffer,       \* the writer's samples
  count,        \* buffer.length: pushes, repeats included
  timer,        \* the writer's flush timer is armed
  wq,           \* batches chained on `flushing`, the first one being written
  lost,         \* samples of batches whose insert failed
  stop,         \* [StopId -> Stop or None]
  stops,        \* [SessionId -> number of `stop` events announced]
  drain,        \* what onApplicationShutdown still awaits, or None while serving
  closing,      \* [CloseId -> session the API is about to close, or None]
  msgs, faults, admin

dbVars  == <<now, cars, sess>>
regVars == <<pending, ready, load, turn>>
wrVars  == <<buffer, count, timer, wq, lost>>
liveVars == <<lkv, stops>>
budgets == <<msgs, faults, admin>>
vars == <<dbVars, rows, liveVars, regVars, wrVars, stop, drain, closing, budgets>>

(* Stop handler p awaits; the promise of its flush() has resolved, and it goes on in
   this turn; nothing is left of this turn, so that another event can start one. *)
At(p, pc) == stop[p] # None /\ stop[p].pc = pc
Resumed(p) == At(p, "await") /\ stop[p].ahead = 0
Idle == turn = None /\ \A p \in StopId : ~Resumed(p)

(***************************************************************************)
(* The tables, as the queries see them.                                    *)
(***************************************************************************)
Present(x) == sess[x] # None /\ sess[x].status # "deleted"
CarsOf(d) == {c \in CarId : cars[c] = "registered" /\ CarDevice[c] = d}
RowsOf(s) == {x \in SessionId : Present(x) /\ sess[x].sid = s}

(* The unique index on samples, and INSERT ... ON CONFLICT DO NOTHING against it. *)
DedupKey(s) == <<s.sess, s.seq, s.time>>

InsertIgnoring(table, batch) ==
  LET fresh == {DedupKey(s) : s \in batch} \ {DedupKey(s) : s \in table}
  IN  table \cup {CHOOSE s \in batch : DedupKey(s) = k : k \in fresh}

Fault == faults < MaxFaults /\ faults' = faults + 1

(***************************************************************************)
(* DeviceRegistryService: what a lookup resolves to, and sampleTime.       *)
(***************************************************************************)

(* Mutated form: the context is anchored where and when the lookup happens. *)
ContextAtLookup(x, mono) ==
  [sess |-> x, car |-> sess[x].car, anchor |-> now, mono0 |-> mono]

(* The session context, rebuilt from the row and never from the clock. *)
ContextOf(x, mono) ==
  [sess |-> x, car |-> sess[x].car, anchor |-> sess[x].anchor, mono0 |-> sess[x].mono0]

(* Mutated form: whatever row is found under the sid will do. *)
AnyRow(x, c) == TRUE

(* A row found under the sid is the caller's only if it is the caller's car's. *)
OwnRow(x, c) == sess[x].car = c

FoundContext(x, c, mono) == IF OwnRow(x, c) THEN ContextOf(x, mono) ELSE None

ToSample(c, f) ==
  [ sess |-> c.sess, car |-> c.car, seq |-> f.seq,
    time |-> c.anchor + (Mono[f] - c.mono0), frame |-> f ]

(* Mutated form: a batch is stored whole, frames of other runs included. *)
WholeBatch(w) == DOMAIN w.frames

(* The frames of a batch that carry its own sid; the others are filtered out. *)
OwnFrames(w) == {i \in DOMAIN w.frames : w.frames[i].sid = w.sid}

NewLoad(d, s, mono, w) ==
  [ st |-> "findCar", dev |-> d, sid |-> s, mono |-> mono, car |-> None,
    anchor |-> 0, ctx |-> None, queue |-> <<w>> ]

(* resolve(): a settled promise continues the caller in this turn, an unsettled one
   later, and a miss starts the one lookup its key will share. *)
Resolve(d, s, mono, w) ==
  LET k == <<d, s>> IN
  \/ /\ ready[k] # None
     /\ turn' = [ctx |-> ready[k], queue |-> <<w>>]
     /\ UNCHANGED <<pending, ready, load>>
  \/ /\ pending[k] # None
     /\ load' = [load EXCEPT ![pending[k]].queue = Append(@, w)]
     /\ UNCHANGED <<pending, ready, turn>>
  \/ /\ ready[k] = None /\ pending[k] = None
     /\ \E l \in LoadId :
          /\ load[l] = None
          /\ load' = [load EXCEPT ![l] = NewLoad(d, s, mono, w)]
          /\ pending' = [pending EXCEPT ![k] = l]
     /\ UNCHANGED <<ready, turn>>

(* forget(), and every other deletion of a slot. *)
Forget(k) ==
  /\ pending' = [pending EXCEPT ![k] = None]
  /\ ready' = [ready EXCEPT ![k] = None]

(***************************************************************************)
(* TelemetryWriterService: flush, scheduleFlush, enqueue and enqueueAll.   *)
(***************************************************************************)

(* Mutated form: the batch is cleared only after its insert, so a flush hands the
   writer an empty batch. *)
FlushDropping(samples, n) ==
  /\ buffer' = {} /\ count' = 0
  /\ timer' = FALSE
  /\ wq' = IF n = 0 THEN wq ELSE Append(wq, {})
  /\ UNCHANGED lost

(* flush(): cancel the timer, chain the buffer behind the batch being written. *)
Flush(samples, n) ==
  /\ buffer' = {} /\ count' = 0
  /\ timer' = FALSE
  /\ wq' = IF n = 0 THEN wq ELSE Append(wq, samples)
  /\ UNCHANGED lost

(* Mutated form: only the row threshold schedules a flush. *)
EnqueueUntimed(samples, n) ==
  IF count + n >= MaxBuffered
  THEN Flush(buffer \cup samples, count + n)
  ELSE /\ buffer' = buffer \cup samples
       /\ count' = count + n
       /\ UNCHANGED <<timer, wq, lost>>

Enqueue(samples, n) ==
  IF count + n >= MaxBuffered
  THEN Flush(buffer \cup samples, count + n)
  ELSE /\ buffer' = buffer \cup samples
       /\ count' = count + n
       /\ timer' = TRUE
       /\ UNCHANGED <<wq, lost>>

(* Samples accepted from a device whose insert has not returned. *)
Unwritten == buffer \cup UNION {wq[i] : i \in DOMAIN wq}

(***************************************************************************)
(* Deliveries. Any message may arrive at any time and any number of times: *)
(* frames are QoS 0 and lossy, events and backfill are QoS 1 and repeated, *)
(* and the three topics are not ordered with respect to each other.        *)
(***************************************************************************)
Deliver ==
  /\ Idle
  /\ drain = None
  /\ msgs < MaxMsgs /\ msgs' = msgs + 1
  /\ UNCHANGED <<dbVars, rows, liveVars, wrVars, drain, closing, faults, admin>>

WaiterOf(m) == [kind |-> m.kind, sid |-> m.sid, frames |-> m.frames]

DeliverFrame(m) ==
  /\ m.kind = "frame"
  /\ Deliver
  /\ Resolve(m.dev, m.sid, Mono[m.frames[1]], WaiterOf(m))
  /\ UNCHANGED stop

(* A batch resolves on its own first frame, whichever run that carries. *)
DeliverBackfill(m) ==
  /\ m.kind = "batch"
  /\ Deliver
  /\ \/ m.frames = <<>> /\ UNCHANGED regVars
     \/ m.frames # <<>> /\ Resolve(m.dev, m.sid, Mono[m.frames[1]], WaiterOf(m))
  /\ UNCHANGED stop

DeliverStart(m) ==
  /\ m.kind = "start"
  /\ Deliver
  /\ Resolve(m.dev, m.sid, m.mono, WaiterOf(m))
  /\ UNCHANGED stop

DeliverStop(m) ==
  /\ m.kind = "stop"
  /\ Deliver
  /\ \E p \in StopId :
       /\ stop[p] = None
       /\ stop' = [stop EXCEPT ![p] =
            [ pc |-> "find", dev |-> m.dev, sid |-> m.sid, car |-> None, sess |-> None,
              ahead |-> 0, cut |-> {} ]]
  /\ UNCHANGED regVars

(***************************************************************************)
(* A registry lookup: load() and openSession(), one query per action.      *)
(***************************************************************************)
LoadAt(l, st) == Idle /\ load[l] # None /\ load[l].st = st

SetLoad(l, r) ==
  /\ load' = [load EXCEPT ![l] = r]
  /\ UNCHANGED <<pending, ready, turn>>

LoadUnchanged ==
  UNCHANGED <<now, cars, rows, liveVars, wrVars, stop, drain, closing, msgs, admin>>

LoadFindCar(l) ==
  /\ LoadAt(l, "findCar")
  /\ \/ /\ CarsOf(load[l].dev) = {}
        /\ SetLoad(l, [load[l] EXCEPT !.st = "settle"])
     \/ \E c \in CarsOf(load[l].dev) :
          SetLoad(l, [load[l] EXCEPT !.st = "findRow", !.car = c])
  /\ LoadUnchanged /\ UNCHANGED <<sess, faults>>

Found(l, x) ==
  SetLoad(l, [load[l] EXCEPT !.st = "settle",
                !.ctx = FoundContext(x, load[l].car, load[l].mono)])

(* The read before the insert; `startedAt: new Date()` is taken once it finds nothing. *)
LoadFindRow(l) ==
  /\ LoadAt(l, "findRow")
  /\ \/ \E x \in RowsOf(load[l].sid) : Found(l, x)
     \/ /\ RowsOf(load[l].sid) = {}
        /\ SetLoad(l, [load[l] EXCEPT !.st = "insert", !.anchor = now])
  /\ LoadUnchanged /\ UNCHANGED <<sess, faults>>

(* Mutated form: a unique violation is retried as an insert. *)
LoadInsertRetrying(l) ==
  /\ LoadAt(l, "insert")
  /\ \/ /\ RowsOf(load[l].sid) # {}
        /\ UNCHANGED <<sess, load, pending, ready, turn>>
     \/ /\ RowsOf(load[l].sid) = {} /\ cars[load[l].car] = "registered"
        /\ \E x \in SessionId :
             /\ sess[x] = None
             /\ sess' = [sess EXCEPT ![x] =
                  [ status |-> "LIVE", car |-> load[l].car, sid |-> load[l].sid,
                    anchor |-> load[l].anchor, mono0 |-> load[l].mono, ended |-> 0 ]]
             /\ SetLoad(l, [load[l] EXCEPT !.st = "settle",
                  !.ctx = [ sess |-> x, car |-> load[l].car,
                            anchor |-> load[l].anchor, mono0 |-> load[l].mono ]])
  /\ LoadUnchanged /\ UNCHANGED faults

(* The insert: a row already under this sid is a unique violation and a re-read, a
   deleted car a foreign-key violation and a failure. *)
LoadInsert(l) ==
  /\ LoadAt(l, "insert")
  /\ \/ /\ RowsOf(load[l].sid) # {}
        /\ SetLoad(l, [load[l] EXCEPT !.st = "reread"])
        /\ UNCHANGED sess
     \/ /\ RowsOf(load[l].sid) = {} /\ cars[load[l].car] # "registered"
        /\ SetLoad(l, [load[l] EXCEPT !.st = "settle"])
        /\ UNCHANGED sess
     \/ /\ RowsOf(load[l].sid) = {} /\ cars[load[l].car] = "registered"
        /\ \E x \in SessionId :
             /\ sess[x] = None
             /\ sess' = [sess EXCEPT ![x] =
                  [ status |-> "LIVE", car |-> load[l].car, sid |-> load[l].sid,
                    anchor |-> load[l].anchor, mono0 |-> load[l].mono, ended |-> 0 ]]
             /\ SetLoad(l, [load[l] EXCEPT !.st = "settle",
                  !.ctx = [ sess |-> x, car |-> load[l].car,
                            anchor |-> load[l].anchor, mono0 |-> load[l].mono ]])
  /\ LoadUnchanged /\ UNCHANGED faults

LoadReread(l) ==
  /\ LoadAt(l, "reread")
  /\ \/ \E x \in RowsOf(load[l].sid) : Found(l, x)
     \/ /\ RowsOf(load[l].sid) = {}
        /\ SetLoad(l, [load[l] EXCEPT !.st = "settle"])
  /\ LoadUnchanged /\ UNCHANGED <<sess, faults>>

(* A query fails, or its answer is lost after it took effect. *)
LoadFail(l) ==
  /\ Idle
  /\ load[l] # None
  /\ load[l].st = "settle" => load[l].ctx # None
  /\ Fault
  /\ SetLoad(l, [load[l] EXCEPT !.st = "settle", !.ctx = None])
  /\ LoadUnchanged /\ UNCHANGED sess

(* The promise settles. A null or a failure drops every waiter and whatever the slot
   holds by now; a context is kept by the slot only if the slot is still this one. *)
Settle(l) ==
  LET k == <<load[l].dev, load[l].sid>> IN
  /\ LoadAt(l, "settle")
  /\ load' = [load EXCEPT ![l] = None]
  /\ \/ /\ load[l].ctx = None
        /\ Forget(k)
        /\ UNCHANGED turn
     \/ /\ load[l].ctx # None
        /\ turn' = [ctx |-> load[l].ctx, queue |-> load[l].queue]
        /\ \/ /\ pending[k] = l
              /\ pending' = [pending EXCEPT ![k] = None]
              /\ ready' = [ready EXCEPT ![k] = load[l].ctx]
           \/ /\ pending[k] # l
              /\ UNCHANGED <<pending, ready>>
  /\ LoadUnchanged /\ UNCHANGED <<sess, faults>>

(* sweep(): an entry an hour idle goes. The hour itself is not modelled. *)
Sweep(k) ==
  /\ Idle
  /\ ready[k] # None
  /\ Forget(k)
  /\ LoadUnchanged /\ UNCHANGED <<sess, faults, load, turn>>

(***************************************************************************)
(* The continuations of handleFrame, handleBackfill and handleSessionEvent *)
(* once their context is there.                                            *)
(***************************************************************************)
NextWaiter ==
  turn' = IF Tail(turn.queue) = <<>> THEN None ELSE [turn EXCEPT !.queue = Tail(@)]

ContinueUnchanged ==
  UNCHANGED <<dbVars, rows, stops, pending, ready, load, stop, drain, closing, msgs, admin>>

(* Mutated form: the live frame is built from the raw frame and not from the sample. *)
PublishRaw(s) ==
  \/ lkv' = [lkv EXCEPT ![s.car] = [s EXCEPT !.time = Mono[s.frame]]] /\ UNCHANGED faults
  \/ Fault /\ UNCHANGED lkv

(* PUBLISH and SET, fire-and-forget: they land or are counted as failed. *)
PublishFrame(s) ==
  \/ lkv' = [lkv EXCEPT ![s.car] = s] /\ UNCHANGED faults
  \/ Fault /\ UNCHANGED lkv

ContinueFrame ==
  LET w == Head(turn.queue) IN
  /\ turn # None /\ w.kind = "frame"
  /\ LET s == ToSample(turn.ctx, w.frames[1])
     IN  PublishFrame(s) /\ Enqueue({s}, 1)
  /\ NextWaiter
  /\ ContinueUnchanged

ContinueBatch ==
  LET w == Head(turn.queue) IN
  /\ turn # None /\ w.kind = "batch"
  /\ Enqueue({ToSample(turn.ctx, w.frames[i]) : i \in OwnFrames(w)},
             Cardinality(OwnFrames(w)))
  /\ NextWaiter
  /\ ContinueUnchanged /\ UNCHANGED <<lkv, faults>>

(* The `start` announcement changes nothing but what viewers are told. *)
ContinueStart ==
  /\ turn # None /\ Head(turn.queue).kind = "start"
  /\ NextWaiter
  /\ ContinueUnchanged /\ UNCHANGED <<lkv, faults, wrVars>>

(***************************************************************************)
(* The rest of the writer.                                                 *)
(***************************************************************************)
TimerFires ==
  /\ Idle
  /\ timer
  /\ Flush(buffer, count)
  /\ UNCHANGED <<dbVars, rows, liveVars, regVars, stop, drain, closing, budgets>>

OneLess(n) == IF n > 0 THEN n - 1 ELSE 0

(* The first batch leaves the chain, and whoever awaits `flushing` is one closer. *)
BatchLeaves ==
  /\ Idle
  /\ wq # <<>>
  /\ wq' = Tail(wq)
  /\ stop' = [p \in StopId |->
                IF stop[p] = None THEN None ELSE [stop[p] EXCEPT !.ahead = OneLess(@)]]
  /\ drain' = IF drain = None THEN None ELSE [drain EXCEPT !.ahead = OneLess(@)]
  /\ UNCHANGED <<dbVars, liveVars, regVars, buffer, count, timer, closing, msgs, admin>>

WriteDone ==
  /\ BatchLeaves
  /\ rows' = InsertIgnoring(rows, Head(wq))
  /\ UNCHANGED <<lost, faults>>

(* Mutated form: the error escapes write() and breaks the promise chain, so those who
   await it are never released. *)
WriteFailsUncaught ==
  /\ Idle
  /\ wq # <<>>
  /\ wq' = Tail(wq)
  /\ Fault
  /\ lost' = lost \cup Head(wq)
  /\ UNCHANGED <<dbVars, rows, liveVars, regVars, buffer, count, timer, stop, drain, closing,
                 msgs, admin>>

WriteFails ==
  /\ BatchLeaves
  /\ Fault
  /\ lost' = lost \cup Head(wq)
  /\ UNCHANGED rows

(***************************************************************************)
(* handleSessionEvent for a `stop`.                                        *)
(***************************************************************************)
SetStop(p, r) == stop' = [stop EXCEPT ![p] = r]

StopUnchanged ==
  UNCHANGED <<now, cars, rows, load, turn, drain, closing, msgs, admin>>

StopFind(p) ==
  /\ Idle /\ At(p, "find")
  /\ \/ CarsOf(stop[p].dev) = {} /\ SetStop(p, None)
     \/ \E c \in CarsOf(stop[p].dev) :
          SetStop(p, [stop[p] EXCEPT !.pc = "close", !.car = c])
  /\ StopUnchanged /\ UNCHANGED <<sess, liveVars, pending, ready, wrVars, faults>>

(* Mutated form: the update is not restricted to a live row. *)
ClosableTwice(s, c) == {x \in RowsOf(s) : sess[x].car = c}

(* The rows closeSession's UPDATE matches. *)
Closable(s, c) == {x \in RowsOf(s) : sess[x].car = c /\ sess[x].status = "LIVE"}

Closed(x) == [sess EXCEPT ![x].status = "COMPLETED", ![x].ended = now]

StopClose(p) ==
  LET open == Closable(stop[p].sid, stop[p].car) IN
  /\ Idle /\ At(p, "close")
  /\ \/ /\ open = {}
        /\ SetStop(p, [stop[p] EXCEPT !.pc = "flush"])
        /\ UNCHANGED sess
     \/ \E x \in open :
          /\ sess' = Closed(x)
          /\ SetStop(p, [stop[p] EXCEPT !.pc = "reread"])
  /\ StopUnchanged /\ UNCHANGED <<liveVars, pending, ready, wrVars, faults>>

StopReread(p) ==
  LET found == RowsOf(stop[p].sid) IN
  /\ Idle /\ At(p, "reread")
  /\ \/ found = {} /\ SetStop(p, [stop[p] EXCEPT !.pc = "flush"])
     \/ \E x \in found : SetStop(p, [stop[p] EXCEPT !.pc = "flush", !.sess = x])
  /\ StopUnchanged /\ UNCHANGED <<sess, liveVars, pending, ready, wrVars, faults>>

(* Mutated form: an empty buffer means there is nothing to wait for. *)
AheadIfBuffered == IF count = 0 THEN 0 ELSE Len(wq')

(* The promise flush() returns: every batch chained so far. *)
AheadOfFlush == Len(wq')

StopFlush(p) ==
  /\ Idle /\ At(p, "flush")
  /\ Flush(buffer, count)
  /\ SetStop(p, [stop[p] EXCEPT !.pc = "await", !.ahead = AheadOfFlush, !.cut = Unwritten])
  /\ StopUnchanged /\ UNCHANGED <<sess, liveVars, pending, ready, faults>>

(* publishEvent(stop): PUBLISH and DEL in a pipeline that is no transaction, so that either may
   fail without the other. *)
PublishStop(x, c) ==
  \/ /\ stops' = [stops EXCEPT ![x] = @ + 1]
     /\ \/ lkv' = [lkv EXCEPT ![c] = None] /\ UNCHANGED faults
        \/ Fault /\ UNCHANGED lkv
  \/ /\ Fault /\ UNCHANGED stops
     /\ lkv' \in {lkv, [lkv EXCEPT ![c] = None]}

StopAnnounce(p) ==
  /\ Resumed(p)
  /\ \/ /\ stop[p].sess # None
        /\ PublishStop(stop[p].sess, stop[p].car)
        /\ SetStop(p, [stop[p] EXCEPT !.pc = "forget"])
        /\ UNCHANGED <<pending, ready>>
     \/ /\ stop[p].sess = None
        /\ Forget(<<stop[p].dev, stop[p].sid>>)
        /\ SetStop(p, None)
        /\ UNCHANGED <<liveVars, faults>>
  /\ StopUnchanged /\ UNCHANGED <<sess, wrVars>>

StopForget(p) ==
  /\ Idle /\ At(p, "forget")
  /\ Forget(<<stop[p].dev, stop[p].sid>>)
  /\ SetStop(p, None)
  /\ StopUnchanged /\ UNCHANGED <<sess, liveVars, wrVars, faults>>

(* A query of the handler fails; the controller's dispatch swallows it. *)
StopFails(p) ==
  /\ Idle
  /\ At(p, "find") \/ At(p, "close") \/ At(p, "reread")
  /\ Fault
  /\ SetStop(p, None)
  /\ StopUnchanged /\ UNCHANGED <<sess, liveVars, pending, ready, wrVars>>

(***************************************************************************)
(* Process life: a crash loses everything in memory; a shutdown first      *)
(* closes the MQTT connection and drains the writer.                       *)
(***************************************************************************)
ForgetMemory ==
  /\ pending' = [k \in Key |-> None] /\ ready' = [k \in Key |-> None]
  /\ load' = [l \in LoadId |-> None] /\ turn' = None
  /\ buffer' = {} /\ count' = 0 /\ timer' = FALSE /\ wq' = <<>>
  /\ stop' = [p \in StopId |-> None]
  /\ drain' = None

Crash ==
  /\ Idle
  /\ Fault
  /\ ForgetMemory
  /\ UNCHANGED <<dbVars, rows, liveVars, lost, closing, msgs, admin>>

Shutdown ==
  /\ Idle
  /\ drain = None
  /\ Fault
  /\ Flush(buffer, count)
  /\ drain' = [ahead |-> AheadOfFlush, cut |-> Unwritten]
  /\ UNCHANGED <<dbVars, rows, liveVars, regVars, stop, closing, msgs, admin>>

Exit ==
  /\ Idle
  /\ drain # None /\ drain.ahead = 0
  /\ ForgetMemory
  /\ UNCHANGED <<dbVars, rows, liveVars, lost, closing, budgets>>

(***************************************************************************)
(* The API and the clock, which share the tables with ingest.              *)
(***************************************************************************)
ApiUnchanged ==
  UNCHANGED <<now, rows, lkv, stops, regVars, wrVars, stop, drain, msgs, faults>>

Admin == admin < MaxAdmin /\ admin' = admin + 1

RegisterCar(c) ==
  /\ Idle
  /\ cars[c] = "unregistered" /\ CarsOf(CarDevice[c]) = {}
  /\ cars' = [cars EXCEPT ![c] = "registered"]
  /\ ApiUnchanged /\ UNCHANGED <<sess, closing, admin>>

(* Deleting a car takes its sessions with it; the samples have no foreign key. *)
DeleteCar(c) ==
  /\ Idle
  /\ Admin
  /\ cars[c] = "registered"
  /\ cars' = [cars EXCEPT ![c] = "deleted"]
  /\ sess' = [x \in SessionId |->
       IF Present(x) /\ sess[x].car = c THEN [sess[x] EXCEPT !.status = "deleted"] ELSE sess[x]]
  /\ ApiUnchanged /\ UNCHANGED closing

DeleteSession(x) ==
  /\ Idle
  /\ Admin
  /\ Present(x)
  /\ sess' = [sess EXCEPT ![x].status = "deleted"]
  /\ ApiUnchanged /\ UNCHANGED <<cars, closing>>

(* SessionsService.close: the status is read, and the row updated by id later. *)
CloseCheck(q, x) ==
  /\ Idle
  /\ Admin
  /\ closing[q] = None
  /\ Present(x) /\ sess[x].status = "LIVE"
  /\ closing' = [closing EXCEPT ![q] = x]
  /\ ApiUnchanged /\ UNCHANGED <<cars, sess>>

CloseUpdate(q) ==
  /\ Idle
  /\ closing[q] # None
  /\ sess' = IF Present(closing[q]) THEN Closed(closing[q]) ELSE sess
  /\ closing' = [closing EXCEPT ![q] = None]
  /\ ApiUnchanged /\ UNCHANGED <<cars, admin>>

Tick ==
  /\ Idle
  /\ now < MaxNow
  /\ now' = now + 1
  /\ UNCHANGED <<cars, sess, rows, liveVars, regVars, wrVars, stop, drain, closing, budgets>>

(* The last-known value's EX runs out. *)
LkvExpires(c) ==
  /\ Idle
  /\ lkv[c] # None
  /\ lkv' = [lkv EXCEPT ![c] = None]
  /\ UNCHANGED <<dbVars, rows, stops, regVars, wrVars, stop, drain, closing, budgets>>

-----------------------------------------------------------------------------
Init ==
  /\ now = 0
  /\ cars = [c \in CarId |-> IF c \in FirstCars THEN "registered" ELSE "unregistered"]
  /\ sess = [x \in SessionId |-> None]
  /\ rows = {} /\ lost = {}
  /\ lkv = [c \in CarId |-> None]
  /\ pending = [k \in Key |-> None] /\ ready = [k \in Key |-> None]
  /\ load = [l \in LoadId |-> None] /\ turn = None
  /\ buffer = {} /\ count = 0 /\ timer = FALSE /\ wq = <<>>
  /\ stop = [p \in StopId |-> None]
  /\ stops = [x \in SessionId |-> 0]
  /\ drain = None
  /\ closing = [q \in CloseId |-> None]
  /\ msgs = 0 /\ faults = 0 /\ admin = 0

Delivery ==
  \E m \in Messages : DeliverFrame(m) \/ DeliverBackfill(m) \/ DeliverStart(m) \/ DeliverStop(m)

(* What runs before anything else does. *)
Continue ==
  \/ ContinueFrame \/ ContinueBatch \/ ContinueStart
  \/ \E p \in StopId : StopAnnounce(p)

LoadStep(l) ==
  LoadFindCar(l) \/ LoadFindRow(l) \/ LoadInsert(l) \/ LoadReread(l) \/ Settle(l)

StopStep(p) ==
  StopFind(p) \/ StopClose(p) \/ StopReread(p) \/ StopFlush(p) \/ StopForget(p)

Process ==
  \/ Delivery
  \/ \E l \in LoadId : LoadStep(l) \/ LoadFail(l)
  \/ \E p \in StopId : StopStep(p) \/ StopFails(p)
  \/ \E k \in Key : Sweep(k)
  \/ TimerFires \/ WriteDone \/ WriteFails
  \/ Crash \/ Shutdown \/ Exit

Environment ==
  \/ \E c \in CarId : RegisterCar(c) \/ DeleteCar(c) \/ LkvExpires(c)
  \/ \E x \in SessionId : DeleteSession(x)
  \/ \E q \in CloseId : CloseUpdate(q) \/ \E x \in SessionId : CloseCheck(q, x)
  \/ Tick

Next ==
  \/ Continue
  \/ Process
  \/ Environment

Spec == Init /\ [][Next]_vars

(* Node runs its microtasks and its armed timers, and every query and insert is
   answered, with a result or an error. Nothing obliges a device to publish, the
   process to fail, or anyone to use the API. *)
Fairness ==
  /\ WF_vars(Continue)
  /\ WF_vars(TimerFires)
  /\ WF_vars(WriteDone \/ WriteFails)
  /\ \A l \in LoadId : WF_vars(LoadStep(l) \/ LoadFail(l))
  /\ \A p \in StopId : WF_vars(StopStep(p) \/ StopFails(p))

FairSpec == Spec /\ Fairness

-----------------------------------------------------------------------------
(***************************************************************************)
(* What must hold.                                                         *)
(***************************************************************************)

TypeOK ==
  /\ now \in Int
  /\ cars \in [CarId -> {"unregistered", "registered", "deleted"}]
  /\ sess \in [SessionId -> Session \cup {None}]
  /\ rows \subseteq Sample /\ lost \subseteq Sample
  /\ lkv \in [CarId -> Sample \cup {None}]
  /\ pending \in [Key -> LoadId \cup {None}]
  /\ ready \in [Key -> Context \cup {None}]
  /\ load \in [LoadId -> Load \cup {None}]
  /\ turn \in [ctx : Context, queue : Seq(Waiter) \ {<<>>}] \cup {None}
  /\ buffer \subseteq Sample /\ count \in Nat /\ timer \in BOOLEAN
  /\ wq \in Seq(SUBSET Sample)
  /\ stop \in [StopId -> Stop \cup {None}]
  /\ stops \in [SessionId -> Nat]
  /\ drain \in [ahead : Nat, cut : SUBSET Sample] \cup {None}
  /\ closing \in [CloseId -> SessionId \cup {None}]
  /\ msgs \in Nat /\ faults \in Nat /\ admin \in Nat

(* What makes the rest true, and holds of every variable that carries it: a context is
   its session's row as it was opened, and the session is its caller's ... *)
ContextOK(c, d, s) ==
  /\ sess[c.sess] # None
  /\ c.car = sess[c.sess].car
  /\ c.anchor = sess[c.sess].anchor /\ c.mono0 = sess[c.sess].mono0
  /\ CarDevice[c.car] = d /\ sess[c.sess].sid = s

(* ... and a sample is the one row that its frame is in its session. *)
SampleOK(r) ==
  /\ sess[r.sess] # None
  /\ r.car = sess[r.sess].car /\ r.seq = r.frame.seq
  /\ r.frame.dev = CarDevice[r.car] /\ r.frame.sid = sess[r.sess].sid
  /\ r.time = sess[r.sess].anchor + (Mono[r.frame] - sess[r.sess].mono0)

WaiterOK(w, d, s) ==
  /\ w.sid = s
  /\ \A i \in DOMAIN w.frames : w.frames[i].dev = d
  /\ w.kind = "frame" => Len(w.frames) = 1 /\ w.frames[1].sid = s

ReadyOK == \A k \in Key : ready[k] # None => ContextOK(ready[k], k[1], k[2])

PendingOK ==
  \A k \in Key : pending[k] # None =>
    /\ load[pending[k]] # None
    /\ load[pending[k]].dev = k[1] /\ load[pending[k]].sid = k[2]

LookupOK(r) ==
  /\ \A i \in DOMAIN r.queue : WaiterOK(r.queue[i], r.dev, r.sid)
  /\ r.ctx # None => ContextOK(r.ctx, r.dev, r.sid)
  /\ r.car # None => CarDevice[r.car] = r.dev
  /\ r.st \in {"findRow", "insert", "reread"} => r.car # None

LoadOK == \A l \in LoadId : load[l] # None => LookupOK(load[l])

TurnOK ==
  turn # None =>
    LET d == CarDevice[turn.ctx.car]
        s == sess[turn.ctx.sess].sid
    IN  /\ ContextOK(turn.ctx, d, s)
        /\ \A i \in DOMAIN turn.queue : WaiterOK(turn.queue[i], d, s)

SamplesOK ==
  /\ \A r \in rows \cup lost \cup Unwritten : SampleOK(r)
  /\ \A c \in CarId : lkv[c] # None => lkv[c].car = c /\ SampleOK(lkv[c])

(* Samples `cut` are in the first `ahead` batches, or have been inserted or lost. *)
Awaits(cut, ahead) ==
  /\ ahead <= Len(wq)
  /\ \A r \in cut : r \in rows \/ r \in lost \/ \E i \in 1..ahead : r \in wq[i]

CountOK == count = 0 => buffer = {}

PromisesOK ==
  /\ \A p \in StopId : At(p, "await") => Awaits(stop[p].cut, stop[p].ahead)
  /\ drain # None => Awaits(drain.cut, drain.ahead)

(* A frame is one row of its run, whatever was re-sent, replayed hours later or
   re-read after a restart. The index carries `time` because Timescale needs it there,
   so this rests on every copy of a frame getting the same time. *)
OneRowPerFrame ==
  \A r1, r2 \in rows : r1.sess = r2.sess /\ r1.seq = r2.seq => r1 = r2

(* Every sample is its publisher's: the car it is stored under is that of the device
   whose credential published it, and so is the run, even when another device
   presents the same sid. *)
Attributed ==
  \A r \in rows \cup Unwritten \cup ({lkv[c] : c \in CarId} \ {None}) :
    /\ CarDevice[r.car] = r.frame.dev
    /\ sess[r.sess].car = r.car

(* The value viewers are seeded with is the value stored for that frame of that run. *)
LiveIsStored ==
  \A c \in CarId : lkv[c] # None =>
    /\ lkv[c].car = c
    /\ \A r \in rows : r.sess = lkv[c].sess /\ r.seq = lkv[c].seq => r = lkv[c]

(* A run's end is announced at most once, however often the device repeats its `stop`
   and whoever else closes the run. Not so if the session is deleted and opened again
   under its sid between closeSession's update and its re-read by sid alone. *)
AtMostOneStop ==
  \A x \in SessionId : stops[x] > 1 =>
    \E y \in SessionId : sess[y] # None /\ sess[y].sid = sess[x].sid /\ sess[y].status = "deleted"

(* What was unwritten when a `stop` handler or the shutdown hook called flush() has
   been through its insert once the promise flush() returned resolves. *)
FlushAwaited ==
  /\ \A p \in StopId : Resumed(p) => stop[p].cut \subseteq rows \cup lost
  /\ drain # None /\ drain.ahead = 0 => drain.cut \subseteq rows \cup lost

(* Buffered samples always have a timer that will flush them. *)
TimerArmed == buffer # {} => timer

(* The inductive invariant, from which all of the above follow but AtMostOneStop, which has
   its own (StopInv): every context the registry, a lookup or a turn holds is its session's,
   every sample anywhere is the one its frame has, and every promise of flush() covers its
   cut. *)
IngestInv ==
  /\ TypeOK
  /\ ReadyOK /\ PendingOK /\ LoadOK /\ TurnOK
  /\ SamplesOK /\ CountOK /\ PromisesOK /\ TimerArmed

(* A row was opened under the sid; one was, and has been deleted. *)
Known(s) == \E y \in SessionId : sess[y] # None /\ sess[y].sid = s
Gone(s) == \E y \in SessionId : sess[y] # None /\ sess[y].sid = s /\ sess[y].status = "deleted"

(* The handlers that have closed session x and are yet to announce it. *)
Announcers(x) ==
  {p \in StopId : \/ At(p, "reread") /\ stop[p].sid = sess[x].sid
                  \/ (At(p, "flush") \/ At(p, "await")) /\ stop[p].sess = x}

(* Handlers refer to rows that were there. *)
StopsRefer ==
  \A p \in StopId : stop[p] # None =>
    /\ stop[p].pc \in {"find", "close", "reread"} => stop[p].sess = None
    /\ stop[p].pc = "reread" => Known(stop[p].sid)
    /\ stop[p].sess # None => sess[stop[p].sess] # None

(* The unique index on sessionKey; ids are not used twice. *)
SidsAreOnes ==
  /\ \A x, y \in SessionId : Present(x) /\ Present(y) /\ sess[x].sid = sess[y].sid => x = y
  /\ \A x \in SessionId : sess[x] = None => stops[x] = 0

(* Closing a row makes one announcer of it, and announcing it leaves none. *)
AnnouncedOnce ==
  \A x \in SessionId : sess[x] # None /\ ~Gone(sess[x].sid) =>
    /\ stops[x] <= 1
    /\ \A p, q \in Announcers(x) : p = q
    /\ sess[x].status = "LIVE" \/ stops[x] = 1 => Announcers(x) = {}
    /\ sess[x].status = "LIVE" => stops[x] = 0

(* The inductive invariant of AtMostOneStop. *)
StopInv == StopsRefer /\ SidsAreOnes /\ AnnouncedOnce

(* A sample accepted from a device leaves the writer for the table or with a failed
   insert, unless the process dies. *)
NothingVanishes ==
  [][Crash \/ Exit \/ Unwritten \subseteq Unwritten' \cup rows' \cup lost']_vars

(* The store readers see, refined. *)
RunOf(x) ==
  IF sess[x] = None THEN None
  ELSE [ dev |-> CarDevice[sess[x].car], sid |-> sess[x].sid, car |-> sess[x].car,
         anchor |-> sess[x].anchor, mono0 |-> sess[x].mono0 ]

Store == INSTANCE RunStore WITH RunId <- SessionId, NoRun <- None,
                                runs <- [x \in SessionId |-> RunOf(x)], stored <- rows

(* Ingest implements RunStore: a run's car, sid and time line are fixed when it opens,
   and every stored row is a frame of an open run, in its only form. *)
ImplementsRunStore == Store!Spec

(* Every buffered sample is written, or dropped by a failed insert, or lost with the
   process: none stays in memory for good. *)
BufferDrains == Unwritten # {} ~> Unwritten = {}

(* A frame that waits for its session is always released: no lookup hangs. *)
LookupsSettle == \A l \in LoadId : load[l] # None ~> load[l] = None

(* A `stop` handler always gets to the end of its await on the writer. *)
StopsFinish == \A p \in StopId : stop[p] # None ~> stop[p] = None

(* The comment in handleSessionEvent, as a viewer would read it: when a run's end is
   announced, none of its samples is still buffered. *)
AnnouncedAfterLastSample ==
  [][\A x \in SessionId :
       stops'[x] > stops[x] => \A s \in Unwritten : s.sess # x]_vars

(* SessionsService.close: closing is one-way, endedAt does not move once set. *)
EndedAtFixed ==
  [][\A x \in SessionId :
       sess[x] # None /\ sess[x].status = "COMPLETED" => sess'[x].ended = sess[x].ended]_vars

=============================================================================
