----------------------------- MODULE LiveFanout -----------------------------
(***************************************************************************)
(* One API instance's live feed: the sockets watching cars, and the        *)
(* reference-counted Redis subscriptions behind them.                      *)
(*                                                                         *)
(* A handler ends its turn at the authorization query and at a SUBSCRIBE   *)
(* that Redis has not answered. The answer settles one promise, and every  *)
(* handler awaiting it goes on in that turn. Rooms are the in-memory       *)
(* adapter's: join and leave do not end a turn.                            *)
(***************************************************************************)
EXTENDS Integers, Sequences, SequencesExt

CONSTANTS
  Conn,         \* sockets; a client that reconnects is another one
  Car,
  Readable,     \* [Conn -> SUBSET Car]: what requireReadableCar lets its user watch
  Job,          \* subscribe handlers that can run at once
  Entry,        \* identities of the bus's map entries
  None,
  MaxAsks,      \* bound on subscribe and unsubscribe messages
  MaxFaults     \* bound on failed queries and Redis commands

JobRecord == [pc : {"authorize", "await"}, conn : Conn, car : Car, id : Entry \cup {None}]
EntryRecord == [id : Entry, count : Nat, ok : BOOLEAN]
Command == [op : {"subscribe", "unsubscribe"}, car : Car, id : Entry \cup {None}]

ASSUME FanoutAssumption ==
  /\ IsFiniteSet(Conn) /\ IsFiniteSet(Car)
  /\ Readable \in [Conn -> SUBSET Car]
  /\ None \notin Entry \cup JobRecord \cup EntryRecord

VARIABLES
  socket,       \* [Conn -> "new", "open" or "gone"]
  held,         \* [Conn -> SUBSET Car]: data.cars
  room,         \* [Car -> SUBSET Conn]
  job,          \* [Job -> a subscribe handler, or None]
  entry,        \* [Car -> the bus's entry, or None]
  cmds,         \* commands sent on the subscriber connection, unanswered
  subscribed,   \* cars whose channels Redis delivers to this instance
  overlapped,   \* history: cars some client left while its subscribe was running
  asks, faults

vars == <<socket, held, room, job, entry, cmds, subscribed, overlapped, asks, faults>>

Running(c, x) == {j \in Job : job[j] # None /\ job[j].conn = c /\ job[j].car = x}
Fault == faults < MaxFaults /\ faults' = faults + 1
Ask == asks < MaxAsks /\ asks' = asks + 1

(* An entry is in use while the map, a command or a handler refers to it. *)
Fresh == {e \in Entry :
  /\ \A x \in Car : entry[x] # None => entry[x].id # e
  /\ \A i \in DOMAIN cmds : cmds[i].id # e
  /\ \A j \in Job : job[j] # None => job[j].id # e}

-----------------------------------------------------------------------------
(* LiveTelemetryBusService. *)

(* Mutated forms: an entry is dropped a release late, or with any viewer. *)
BelowZero(x) == entry[x].count < 1
AnyViewer(x) == TRUE

LastViewer(x) == entry[x].count <= 1

(* release() for each of the cars xs, each with a viewer less. *)
Released(xs) ==
  [x \in Car |-> IF x \notin xs \/ entry[x] = None THEN entry[x]
                 ELSE IF LastViewer(x) THEN None
                 ELSE [entry[x] EXCEPT !.count = @ - 1]]

(* removeViewer(): those whose entry went are unsubscribed. *)
RemoveViewer(xs) ==
  LET last == {x \in xs : entry[x] # None /\ LastViewer(x)} IN
  /\ entry' = Released(xs)
  /\ cmds' = cmds \o SetToSeq({[op |-> "unsubscribe", car |-> x, id |-> None] : x \in last})

(* addViewer() up to its await, and past it when the subscription is already there. *)
AddViewer(j) ==
  LET x == job[j].car IN
  \/ /\ entry[x] = None
     /\ \E e \in Fresh :
          /\ entry' = [entry EXCEPT ![x] = [id |-> e, count |-> 1, ok |-> FALSE]]
          /\ cmds' = Append(cmds, [op |-> "subscribe", car |-> x, id |-> e])
          /\ job' = [job EXCEPT ![j].pc = "await", ![j].id = e]
     /\ UNCHANGED room
  \/ /\ entry[x] # None
     /\ entry' = [entry EXCEPT ![x].count = @ + 1]
     /\ UNCHANGED cmds
     /\ \/ /\ entry[x].ok
           /\ room' = [room EXCEPT ![x] = @ \cup {job[j].conn}]
           /\ job' = [job EXCEPT ![j] = None]
        \/ /\ ~entry[x].ok
           /\ job' = [job EXCEPT ![j].pc = "await", ![j].id = entry[x].id]
           /\ UNCHANGED room

(* Mutated form: only the handler that sent the SUBSCRIBE hears its answer. *)
FirstWaiter(e) ==
  {CHOOSE j \in Job : job[j] # None /\ job[j].pc = "await" /\ job[j].id = e}

Waiters(e) == {j \in Job : job[j] # None /\ job[j].pc = "await" /\ job[j].id = e}

Done(js) == [j \in Job |-> IF j \in js THEN None ELSE job[j]]
ConnsOf(js) == {job[j].conn : j \in js}

Answer(op) == cmds # <<>> /\ Head(cmds).op = op /\ cmds' = Tail(cmds)

(* The promise resolves: its waiters join the room, gone sockets too. The seed each one
   then reads is an emit to one socket, and no state here. *)
Subscribed ==
  LET x == Head(cmds).car  e == Head(cmds).id IN
  /\ Answer("subscribe")
  /\ subscribed' = subscribed \cup {x}
  /\ entry' = IF entry[x] # None /\ entry[x].id = e THEN [entry EXCEPT ![x].ok = TRUE] ELSE entry
  /\ room' = [room EXCEPT ![x] = @ \cup ConnsOf(Waiters(e))]
  /\ job' = Done(Waiters(e))
  /\ UNCHANGED <<socket, held, overlapped, asks, faults>>

(* Mutated form: each waiter takes itself off the count, and the entry stays. *)
Decremented(x, e) ==
  IF entry[x] # None /\ entry[x].id = e
  THEN [entry EXCEPT ![x].count = 0, ![x].ok = TRUE] ELSE entry

(* The entry a failed SUBSCRIBE leaves: none, unless a newer one has its place. *)
Dropped(x, e) ==
  IF entry[x] # None /\ entry[x].id = e THEN [entry EXCEPT ![x] = None] ELSE entry

SubscribeFails ==
  LET x == Head(cmds).car  e == Head(cmds).id IN
  /\ Answer("subscribe")
  /\ Fault
  /\ entry' = Dropped(x, e)
  /\ held' = [c \in Conn |-> IF c \in ConnsOf(Waiters(e)) THEN held[c] \ {x} ELSE held[c]]
  /\ job' = Done(Waiters(e))
  /\ UNCHANGED <<socket, room, subscribed, overlapped, asks>>

(* A failed UNSUBSCRIBE is logged, and its subscription stays. *)
Unsubscribed ==
  /\ Answer("unsubscribe")
  /\ \/ subscribed' = subscribed \ {Head(cmds).car} /\ UNCHANGED faults
     \/ Fault /\ UNCHANGED subscribed
  /\ UNCHANGED <<socket, held, room, job, entry, overlapped, asks>>

-----------------------------------------------------------------------------
(* LiveTelemetryGateway. *)

Connect(c) ==
  /\ socket[c] = "new"
  /\ socket' = [socket EXCEPT ![c] = "open"]
  /\ UNCHANGED <<held, room, job, entry, cmds, subscribed, overlapped, asks, faults>>

(* The client goes, or its token expires. *)
Disconnect(c) ==
  /\ socket[c] = "open"
  /\ socket' = [socket EXCEPT ![c] = "gone"]
  /\ RemoveViewer(held[c])
  /\ held' = [held EXCEPT ![c] = {}]
  /\ room' = [x \in Car |-> room[x] \ {c}]
  /\ overlapped' = overlapped \cup {x \in Car : Running(c, x) # {}}
  /\ UNCHANGED <<job, subscribed, asks, faults>>

(* Mutated form: the room is joined while the authorization is under way. *)
SubscribeJoining(c, x) ==
  /\ socket[c] = "open" /\ x \notin held[c]
  /\ Ask
  /\ held' = [held EXCEPT ![c] = @ \cup {x}]
  /\ room' = [room EXCEPT ![x] = @ \cup {c}]
  /\ \E j \in Job :
       /\ job[j] = None
       /\ job' = [job EXCEPT ![j] = [pc |-> "authorize", conn |-> c, car |-> x, id |-> None]]
  /\ UNCHANGED <<socket, entry, cmds, subscribed, overlapped, faults>>

(* subscribe: the car is claimed before anything is awaited. *)
Subscribe(c, x) ==
  /\ socket[c] = "open" /\ x \notin held[c]
  /\ Ask
  /\ held' = [held EXCEPT ![c] = @ \cup {x}]
  /\ \E j \in Job :
       /\ job[j] = None
       /\ job' = [job EXCEPT ![j] = [pc |-> "authorize", conn |-> c, car |-> x, id |-> None]]
  /\ UNCHANGED <<socket, room, entry, cmds, subscribed, overlapped, faults>>

Authorizing(j) == job[j] # None /\ job[j].pc = "authorize"

Authorized(j) ==
  /\ Authorizing(j)
  /\ job[j].car \in Readable[job[j].conn]
  /\ AddViewer(j)
  /\ UNCHANGED <<socket, held, subscribed, overlapped, asks, faults>>

(* Not this user's car, or the query failed: the claim goes. *)
Refused(j) ==
  /\ Authorizing(j)
  /\ \/ job[j].car \notin Readable[job[j].conn] /\ UNCHANGED faults
     \/ job[j].car \in Readable[job[j].conn] /\ Fault
  /\ held' = [held EXCEPT ![job[j].conn] = @ \ {job[j].car}]
  /\ job' = [job EXCEPT ![j] = None]
  /\ UNCHANGED <<socket, room, entry, cmds, subscribed, overlapped, asks>>

Unsubscribe(c, x) ==
  /\ socket[c] = "open" /\ x \in held[c]
  /\ Ask
  /\ held' = [held EXCEPT ![c] = @ \ {x}]
  /\ room' = [room EXCEPT ![x] = @ \ {c}]
  /\ RemoveViewer({x})
  /\ overlapped' = IF Running(c, x) = {} THEN overlapped ELSE overlapped \cup {x}
  /\ UNCHANGED <<socket, job, subscribed, faults>>

-----------------------------------------------------------------------------
Init ==
  /\ socket = [c \in Conn |-> "new"]
  /\ held = [c \in Conn |-> {}]
  /\ room = [x \in Car |-> {}]
  /\ job = [j \in Job |-> None]
  /\ entry = [x \in Car |-> None]
  /\ cmds = <<>>
  /\ subscribed = {} /\ overlapped = {}
  /\ asks = 0 /\ faults = 0

Redis == Subscribed \/ SubscribeFails \/ Unsubscribed

Next ==
  \/ Redis
  \/ \E j \in Job : Authorized(j) \/ Refused(j)
  \/ \E c \in Conn : Connect(c) \/ Disconnect(c)
  \/ \E c \in Conn, x \in Car : Subscribe(c, x) \/ Unsubscribe(c, x)

Spec == Init /\ [][Next]_vars

(* Every query and every Redis command is answered, with a result or an error. *)
FairSpec ==
  /\ Spec
  /\ WF_vars(Redis)
  /\ \A j \in Job : WF_vars(Authorized(j) \/ Refused(j))

-----------------------------------------------------------------------------
TypeOK ==
  /\ socket \in [Conn -> {"new", "open", "gone"}]
  /\ held \in [Conn -> SUBSET Car]
  /\ room \in [Car -> SUBSET Conn]
  /\ job \in [Job -> JobRecord \cup {None}]
  /\ entry \in [Car -> EntryRecord \cup {None}]
  /\ cmds \in Seq(Command)
  /\ subscribed \subseteq Car /\ overlapped \subseteq Car
  /\ asks \in Nat /\ faults \in Nat

(* Car x is subscribed once what is on its way to Redis has been answered. *)
WillBeSubscribed(x) ==
  LET sent == {i \in DOMAIN cmds : cmds[i].car = x} IN
  IF sent = {} THEN x \in subscribed
  ELSE \E i \in sent : cmds[i].op = "subscribe" /\ \A k \in sent : k <= i

(* The comment on the bus's `cars`: no entry is a count with no subscription behind it,
   whichever commands fail and however viewers come and go meanwhile. *)
EntryIsSubscribed == \A x \in Car : entry[x] # None => WillBeSubscribed(x)

(* The tenant boundary: whoever gets a car's frames has passed its authorization, in
   whatever order authorizations, answers and departures come. *)
RoomIsReadable == \A x \in Car, c \in Conn : c \in room[x] => x \in Readable[c]

(* Viewers of x that addViewer has counted, and its count of them. *)
Counted(x) ==
  {c \in Conn : x \in held[c] /\ \A j \in Running(c, x) : job[j].pc # "authorize"}

Exact(x) ==
  IF Counted(x) = {} THEN entry[x] = None
  ELSE entry[x] # None /\ entry[x].count = Cardinality(Counted(x))

(* The refcount is the number of viewers, so that the car is unsubscribed with its last
   one: as long as no client leaves while its own subscribe is still running. *)
RefcountExact == \A x \in Car \ overlapped : Exact(x)

(* Without that exception, whoever is in a car's room has the subscription behind it. *)
ViewerIsFed ==
  \A x \in Car \ overlapped, c \in Conn :
    c \in room[x] => socket[c] = "open" /\ x \in held[c] /\ WillBeSubscribed(x)

(* A subscribe is always answered, with frames or with an error. *)
SubscribeAnswered == \A j \in Job : job[j] # None ~> job[j] = None

(* The bus's own claim: a car is subscribed when its first viewer arrives and
   unsubscribed when its last one leaves. *)
WatchedIsSubscribed ==
  \A x \in Car : Counted(x) \cap room[x] # {} => WillBeSubscribed(x)

-----------------------------------------------------------------------------
(* What the four rest on. *)

(* The last word on its way to Redis about the car of an entry is that entry's SUBSCRIBE. *)
Backed(x) ==
  \/ x \in subscribed /\ \A i \in DOMAIN cmds : cmds[i].car # x
  \/ \E i \in DOMAIN cmds :
       /\ cmds[i].car = x /\ cmds[i].op = "subscribe" /\ cmds[i].id = entry[x].id
       /\ \A k \in DOMAIN cmds : k > i => cmds[k].car # x

EntriesAreBacked == \A x \in Car : entry[x] # None => Backed(x)

(* A handler waits on the promise of an entry, which is one car's and is answered once. *)
UsedFor(e, x) ==
  \/ entry[x] # None /\ entry[x].id = e
  \/ \E i \in DOMAIN cmds : cmds[i].op = "subscribe" /\ cmds[i].id = e /\ cmds[i].car = x
  \/ \E j \in Job : job[j] # None /\ job[j].pc = "await" /\ job[j].id = e /\ job[j].car = x

PromisesAreOnes ==
  /\ \A e \in Entry, x, y \in Car : UsedFor(e, x) /\ UsedFor(e, y) => x = y
  /\ \A i, k \in DOMAIN cmds :
       cmds[i].op = "subscribe" /\ cmds[k].op = "subscribe" /\ cmds[i].id = cmds[k].id => i = k
  /\ \A x \in Car, i \in DOMAIN cmds :
       entry[x] # None /\ entry[x].ok => ~(cmds[i].op = "subscribe" /\ cmds[i].id = entry[x].id)

(* Whoever waits, or is in a room, has been authorized. *)
JobsAreSound ==
  \A j \in Job : job[j] # None /\ job[j].pc = "await" =>
    job[j].id \in Entry /\ job[j].car \in Readable[job[j].conn]

(* Of the cars nobody left while subscribing to them: a handler's client is there and has
   claimed the car, once; a waiter is counted in the entry it waits on, and until the answer
   everyone counted waits. *)
Alone(x) ==
  /\ \A j \in Job : job[j] # None /\ job[j].car = x =>
       /\ x \in held[job[j].conn]
       /\ job[j].conn \notin room[x]
       /\ job[j].pc = "await" => /\ entry[x] # None /\ job[j].id = entry[x].id
                                 /\ ~entry[x].ok
  /\ \A c \in Conn : \A j, k \in Running(c, x) : j = k
  /\ \A c \in room[x] : x \in held[c]
  /\ entry[x] # None /\ ~entry[x].ok => \A c \in Counted(x) : Running(c, x) # {}

LoneCars == \A x \in Car \ overlapped : Alone(x)

HoldersAreOpen == \A c \in Conn : socket[c] # "open" => held[c] = {}

FanoutInv ==
  /\ TypeOK /\ JobsAreSound /\ RoomIsReadable /\ HoldersAreOpen
  /\ PromisesAreOnes /\ EntriesAreBacked
  /\ LoneCars /\ RefcountExact

=============================================================================
