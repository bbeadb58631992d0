------------------------------- MODULE LiveView -------------------------------
(***************************************************************************)
(* The live page of one browser: LiveTelemetryService, the sockets it      *)
(* opens to the gateway, and what the gateway sends on them.               *)
(*                                                                         *)
(* Devices retransmit events, and frames and events of a run come on       *)
(* different topics, so any message may follow any other; a socket keeps   *)
(* the order it was given. A reconnect starts on the server anew.          *)
(***************************************************************************)
EXTENDS Integers, Sequences, SequencesExt

CONSTANTS
  Car, Session,
  CarOf,        \* [Session -> Car]
  Message,      \* frames and events that ingest publishes: [kind, sess, t, fix]
  None,
  MaxLivePoints,   \* MAX_LIVE_POINTS
  MaxSockets, MaxPublished, MaxFaults

ViewAssumption ==
  /\ None \notin Session
  /\ CarOf \in [Session -> Car]
  /\ Message \subseteq [kind : {"frame", "start", "stop"}, sess : Session, t : Nat, fix : BOOLEAN]
  /\ MaxLivePoints \in Nat \ {0}

VARIABLES
  sock,         \* the sockets opened so far, the current one last
  open,         \* the service holds the last of them (`socket` is not null)
  view,         \* the signals of the service
  log,          \* history: messages of the watched car, as this visit was sent them
  published, faults

vars == <<sock, open, view, log, published, faults>>

Top == Len(sock)

Cleared ==
  [ frame |-> None, points |-> <<>>, channels |-> <<>>, startT |-> None, holds |-> None,
    session |-> None, status |-> "idle" ]

-----------------------------------------------------------------------------
(* The service. *)

(* appendCapped *)
Appended(buffer, point) ==
  Append(SubSeq(buffer, IF Len(buffer) >= MaxLivePoints THEN Len(buffer) - MaxLivePoints + 2 ELSE 1,
                Len(buffer)), point)

(* beginSessionIfNew: the buffers start over for data of another session. *)
Begun(v, m) ==
  IF m.sess = v.holds THEN v
  ELSE [v EXCEPT !.holds = m.sess, !.startT = m.t, !.points = <<>>, !.channels = <<>>]

OnFrame(v, m) ==
  LET b == Begun(v, m) IN
  [b EXCEPT !.frame = m, !.session = m.sess,
            !.channels = Appended(@, m.t - b.startT),
            !.points = IF m.fix THEN Appended(@, m) ELSE @]

OnStart(v, m) == [Begun(v, m) EXCEPT !.session = m.sess]

(* Mutated form: the buffers are given up with the session. *)
OnStopForgetting(v) == [v EXCEPT !.session = None, !.holds = None]

(* Whose data the buffers hold outlives the session. *)
OnStop(v) == [v EXCEPT !.session = None]

Shown(v, m) ==
  CASE m.kind = "frame" -> OnFrame(v, m)
    [] m.kind = "start" -> OnStart(v, m)
    [] m.kind = "stop"  -> OnStop(v)
    [] m.kind = "error" -> [v EXCEPT !.status = "error"]

Socket(c) == [car |-> c, link |-> "connecting", joined |-> FALSE, heard |-> TRUE, wire |-> <<>>]

(* disconnect: the listeners go first, so that nothing still queued is heard. *)
Disconnected(s) == [s EXCEPT !.link = "closed", !.joined = FALSE, !.heard = FALSE]

(* connect: another car, or a first one, in the address. *)
Connect(c) ==
  /\ Top < MaxSockets
  /\ ~(open /\ sock[Top].car = c)
  /\ sock' = (IF open THEN [sock EXCEPT ![Top] = Disconnected(@)] ELSE sock) \o <<Socket(c)>>
  /\ open' = TRUE
  /\ view' = [Cleared EXCEPT !.status = "connecting"]
  /\ log' = <<>>
  /\ UNCHANGED <<published, faults>>

Leave ==
  /\ open
  /\ sock' = [sock EXCEPT ![Top] = Disconnected(@)]
  /\ open' = FALSE
  /\ view' = Cleared /\ log' = <<>>
  /\ UNCHANGED <<published, faults>>

-----------------------------------------------------------------------------
(* The sockets and the gateway. *)

Current(k) == open /\ k = Top

(* The connection is up: `connect` subscribes, on every connection anew. *)
LinkUp(k) ==
  /\ sock[k].link = "connecting"
  /\ sock' = [sock EXCEPT ![k].link = "up"]
  /\ view' = [view EXCEPT !.status = "connected"]
  /\ UNCHANGED <<open, log, published, faults>>

(* The subscription is authorized: the room is joined, and a last-known value, if there is
   one, goes to this socket alone; it was read apart from the channel, so it may be as old
   as any frame. *)
Joined(k) ==
  /\ sock[k].link = "up" /\ ~sock[k].joined
  /\ \E seed \in {<<>>} \cup {<<m>> : m \in {x \in Message : x.kind = "frame" /\ CarOf[x.sess] = sock[k].car}} :
       sock' = [sock EXCEPT ![k].joined = TRUE, ![k].wire = @ \o seed]
  /\ UNCHANGED <<open, view, log, published, faults>>

(* It is not, or the feed is unavailable. *)
Refused(k) ==
  /\ sock[k].link = "up" /\ ~sock[k].joined /\ faults < MaxFaults
  /\ faults' = faults + 1
  /\ sock' = [sock EXCEPT ![k].wire = Append(@, [kind |-> "error"])]
  /\ UNCHANGED <<open, view, log, published>>

(* A message of ingest goes to the room of its car. *)
Publish(m) ==
  /\ published < MaxPublished
  /\ published' = published + 1
  /\ \E k \in DOMAIN sock : sock[k].joined
  /\ sock' = [k \in DOMAIN sock |->
       IF sock[k].joined /\ sock[k].car = CarOf[m.sess] THEN [sock[k] EXCEPT !.wire = Append(@, m)]
       ELSE sock[k]]
  /\ UNCHANGED <<open, view, log, faults>>

Deliver(k) ==
  /\ sock[k].wire # <<>>
  /\ LET m == Head(sock[k].wire) IN
     /\ view' = IF sock[k].heard THEN Shown(view, m) ELSE view
     /\ log' = IF Current(k) /\ m.kind # "error" THEN Append(log, m) ELSE log
  /\ sock' = [sock EXCEPT ![k].wire = Tail(@)]
  /\ UNCHANGED <<open, published, faults>>

(* The connection is lost with all that is on it; the client tries again on its own. *)
LinkDown(k) ==
  /\ sock[k].link = "up" /\ faults < MaxFaults
  /\ faults' = faults + 1
  /\ sock' = [sock EXCEPT ![k].link = "connecting", ![k].joined = FALSE, ![k].wire = <<>>]
  /\ view' = IF sock[k].heard /\ view.status # "error" THEN [view EXCEPT !.status = "disconnected"]
             ELSE view
  /\ UNCHANGED <<open, log, published>>

(* connect_error *)
LinkRefused(k) ==
  /\ sock[k].link = "connecting" /\ faults < MaxFaults
  /\ faults' = faults + 1
  /\ view' = [view EXCEPT !.status = "error"]
  /\ UNCHANGED <<sock, open, log, published>>

(* The token expires: the gateway says so and closes, which no client undoes by itself. *)
Expire(k) ==
  /\ sock[k].link = "up" /\ sock[k].heard /\ faults < MaxFaults
  /\ faults' = faults + 1
  /\ sock' = [sock EXCEPT ![k].link = "closed", ![k].joined = FALSE, ![k].wire = Append(@, [kind |-> "error"])]
  /\ UNCHANGED <<open, view, log, published>>

-----------------------------------------------------------------------------
Init ==
  /\ sock = <<>> /\ open = FALSE
  /\ view = Cleared /\ log = <<>>
  /\ published = 0 /\ faults = 0

Next ==
  \/ \E c \in Car : Connect(c)
  \/ Leave
  \/ \E k \in DOMAIN sock :
       \/ LinkUp(k) \/ Joined(k) \/ Refused(k) \/ Deliver(k) \/ LinkDown(k) \/ LinkRefused(k)
       \/ Expire(k)
  \/ \E m \in Message : Publish(m)

Spec == Init /\ [][Next]_vars

-----------------------------------------------------------------------------
(* Properties. *)

(* Starts and frames carry data. The run whose data came last starts at the first message
   from which on all data is of one session. *)
IsData(i) == log[i].kind # "stop"
OneRun(i) == IsData(i) /\ \A j \in i .. Len(log) : IsData(j) => log[j].sess = log[i].sess
StartsRun(i) == OneRun(i) /\ \A h \in 1 .. i - 1 : ~OneRun(h)

Frames(o) == {i \in o .. Len(log) : log[i].kind = "frame"}
Fixes(o) == {i \in Frames(o) : log[i].fix}

(* f lists the newest of a set of messages in the order they came in, n of them: all, but for
   older ones there is no room for. *)
Newest(f, n, set) ==
  /\ n <= MaxLivePoints
  /\ \A i, j \in 1 .. n : i < j => f[i] < f[j]
  /\ \A x \in set :
       \/ \E i \in 1 .. n : f[i] = x
       \/ n = MaxLivePoints /\ \A i \in 1 .. n : x < f[i]

(* The times of a set of frames since an origin, and a set of fixes, as the buffers hold them. *)
ShowsTimes(buffer, origin, set) ==
  \E f \in [1 .. Len(buffer) -> set] :
    /\ Newest(f, Len(buffer), set)
    /\ \A i \in 1 .. Len(buffer) : buffer[i] = log[f[i]].t - origin

ShowsFixes(buffer, set) ==
  \E f \in [1 .. Len(buffer) -> set] :
    /\ Newest(f, Len(buffer), set)
    /\ \A i \in 1 .. Len(buffer) : buffer[i] = log[f[i]]

Traced(o) ==
  /\ StartsRun(o)
  /\ ShowsTimes(view.channels, log[o].t, Frames(o))
  /\ ShowsFixes(view.points, Fixes(o))

Untraced ==
  /\ \A i \in DOMAIN log : ~IsData(i)
  /\ view.channels = <<>> /\ view.points = <<>>

(* The buffers hold exactly the newest samples of the run whose data came last, all of them
   measured from one origin: repeated starts, a stop, stragglers after it, a seed and a
   reconnect wipe nothing and mix nothing in (beginSessionIfNew, onFrame, onEvent). *)
TraceIsNewest == Untraced \/ \E o \in DOMAIN log : Traced(o)

(* What is shown is of the car in the address, also while the socket of another one still
   delivers what was queued on it (connect, disconnect). *)
OwnCar ==
  LET shown == {view.session, view.holds} \ {None}
  IN  \A s \in shown \cup {m.sess : m \in ToSet(view.points)} : open /\ CarOf[s] = sock[Top].car

-----------------------------------------------------------------------------
(* What makes OwnCar true. *)

Wire == Seq(Message \cup {[kind |-> "error"]})
SocketRecord ==
  [ car : Car, link : {"connecting", "up", "closed"}, joined : BOOLEAN, heard : BOOLEAN,
    wire : Wire ]

ViewRecord ==
  [ frame : Message \cup {None}, points : Seq(Message), channels : Seq(Int),
    startT : Nat \cup {None}, holds : Session \cup {None}, session : Session \cup {None},
    status : {"idle", "connecting", "connected", "disconnected", "error"} ]

TypeOK ==
  /\ sock \in Seq(SocketRecord)
  /\ open \in BOOLEAN /\ (open => Top > 0)
  /\ view \in ViewRecord /\ (view.holds # None => view.startT \in Nat)
  /\ log \in Seq(Message)
  /\ published \in Nat /\ faults \in Nat

(* The socket that is listened to is the one the service holds, if it holds one. *)
OnlyCurrentIsHeard == \A k \in DOMAIN sock : sock[k].heard <=> Current(k)

(* A socket carries messages of its own car, the seed included. *)
OwnMessages(s) ==
  \A i \in DOMAIN s.wire : s.wire[i].kind # "error" => CarOf[s.wire[i].sess] = s.car
WiresAreOwn == \A k \in DOMAIN sock : OwnMessages(sock[k])

(* The inductive invariant of OwnCar. *)
OwnInv == TypeOK /\ OnlyCurrentIsHeard /\ WiresAreOwn /\ OwnCar

(* And of TraceIsNewest: the service knows the session and the origin of what it holds. *)
TraceInv ==
  /\ OwnInv
  /\ \/ Untraced /\ view.holds = None
     \/ \E o \in DOMAIN log :
          Traced(o) /\ view.holds = log[o].sess /\ view.startT = log[o].t

=============================================================================
