------------------------------ MODULE MqttAdmin -----------------------------
(***************************************************************************)
(* Cars and their broker accounts: the API's requests that create, rename, *)
(* delete a car or issue its credentials (CarsService), the one-in-flight  *)
(* queue of dynamic-security commands they share (MqttAdminService), and   *)
(* the broker at the other end, as far as that service relies on it.       *)
(*                                                                         *)
(* Each query and each command of a request is a step. Commands reach the  *)
(* broker, and responses the API, in order. A promise that settles runs    *)
(* its request, and then the next queued command, before anything else:    *)
(* every other action waits until nothing can be sent.                     *)
(***************************************************************************)
EXTENDS Integers, Sequences, FiniteSets, SequencesExt

CONSTANTS
  Car, Device,
  Topic,        \* carPublishTopics: what a car may publish on
  Req,          \* requests that can run at once
  Token,        \* identities of commands under way, 1 .. n
  None,
  MaxAsks,      \* bound on requests
  MaxFaults,    \* bound on failed queries and lost connections
  MaxLate       \* bound on commands that time out before an answer that comes

ASSUME AdminAssumption ==
  /\ Token \subseteq Nat
  /\ IsFiniteSet(Topic) /\ IsFiniteSet(Car) /\ IsFiniteSet(Req)

Name == { "createRole", "addRoleACL", "createClient", "getClient", "addClientRole",
          "setClientPassword", "deleteClient", "deleteRole" }
Command == [name : Name, dev : Device, topic : Topic \cup {None}]

Response == [ tok : Token, name : Name, result : {"ok", "exists", "missing", "error"},
              holds : BOOLEAN ]

Row == [dev : Device, prov : BOOLEAN]
Account == [role : BOOLEAN, usable : BOOLEAN]
CarRequest == [ kind : {"create", "issue", "remove", "rename"},
                car : Car \cup {None}, dev : Device \cup {None}, new : Device \cup {None},
                todo : Seq(Command),
                pc : {"insert", "read", "queued", "sent", "stamp", "delete", "rename", "unprovision"} ]

(* None is none of the things it stands for the absence of. *)
ASSUME NoneAssumption ==
  /\ None \notin Car /\ None \notin Device /\ \A T \in SUBSET Topic : T # None
  /\ None \notin Row /\ None \notin Account /\ None \notin CarRequest
  /\ None \notin [tok : Token, req : Req]

VARIABLES
  row,          \* [Car -> [dev, prov] or None]; prov: mqttProvisionedAt is set
  born,         \* ids of cars created so far
  req,          \* [Req -> a request, or None]
  queue,        \* requests whose command waits its turn
  inFlight,     \* the command in flight, or None
  connected,    \* the API's connection to the broker
  cmdq, respq,  \* commands and responses on their way
  role,         \* [Device -> the topics its role allows, or None]
  account,      \* [Device -> [role, usable] or None]; usable: somebody was told its password
  overlapped,   \* history: every car and device of requests that worked on a common one at once
  halfway,      \* history: cars whose removal from the broker failed, or went unrecorded,
                \* and which have not been provisioned since
  misled,       \* history: a late response has settled another command
  asks, faults, late

broker == <<role, account>>
wire == <<queue, inFlight, connected, cmdq, respq>>
history == <<overlapped, halfway, misled>>
vars == <<row, born, req, wire, broker, history, asks, faults, late>>

Fault == faults < MaxFaults /\ faults' = faults + 1

(* Nothing is left of this turn. *)
Idle == inFlight # None \/ queue = <<>>

-----------------------------------------------------------------------------
(* What each method sends. *)

Cmd(name, d) == [name |-> name, dev |-> d, topic |-> None]

EnsureCar(d) ==
  <<Cmd("createRole", d)>>
    \o SetToSeq({[name |-> "addRoleACL", dev |-> d, topic |-> t] : t \in Topic})
    \o <<Cmd("createClient", d), Cmd("getClient", d)>>

IssuePassword(d) == EnsureCar(d) \o <<Cmd("setClientPassword", d)>>

RemoveCar(d) == <<Cmd("deleteClient", d), Cmd("deleteRole", d)>>

(* Mutated form: deleting an account tolerates a broker that does not answer. *)
ToleratedOrDown(name, result) ==
  \/ result = "ok"
  \/ result = "exists" /\ name \in {"createRole", "addRoleACL", "createClient"}
  \/ result \in {"missing", "down"} /\ name \in {"getClient", "deleteClient", "deleteRole"}

(* The outcomes request() does not throw for; "down" is this side's own error. *)
Tolerated(name, result) ==
  \/ result = "ok"
  \/ result = "exists" /\ name \in {"createRole", "addRoleACL", "createClient"}
  \/ result = "missing" /\ name \in {"getClient", "deleteClient", "deleteRole"}

(* What a request goes on with when its commands are done. *)
Finish(kind) ==
  CASE kind = "create" -> "done" [] kind = "issue" -> "stamp"
    [] kind = "remove" -> "delete" [] kind = "rename" -> "rename"

-----------------------------------------------------------------------------
(* Requests. Two meet when both have begun and work on a common car or device. *)

Begun(r) == req[r] # None /\ req[r].pc \notin {"insert", "read"}
Works(q) == {q.car, q.dev, q.new} \ {None}
Meets(q, o) == Begun(o) /\ Works(q) \cap Works(req[o]) # {}
Overlaps(r, q) ==
  overlapped \cup UNION {Works(q) \cup Works(req[o]) : o \in {o \in Req \ {r} : Meets(q, o)}}

(* Requests are alike: a new one takes the first free place. *)
FreeReq == CHOOSE r \in Req : req[r] = None

(* Ids still to be given out, one for each request that creates a car. *)
Creating == {r \in Req : req[r] # None /\ req[r].pc = "insert"}

Ask(k, c, d) ==
  /\ Idle
  /\ IF k = "create" THEN Cardinality(born) + Cardinality(Creating) < Cardinality(Car) ELSE c \in born
  /\ asks < MaxAsks /\ asks' = asks + 1
  /\ \E r \in Req : req[r] = None
  /\ req' = [req EXCEPT ![FreeReq] =
            [ kind |-> k, car |-> c, dev |-> IF k = "create" THEN d ELSE None,
              new |-> IF k = "rename" THEN d ELSE None, todo |-> <<>>,
              pc |-> IF k = "create" THEN "insert" ELSE "read" ]]
  /\ UNCHANGED <<row, born, wire, broker, history, faults, late>>

(* Request r begins to send q's commands. *)
Begin(r, q) ==
  /\ req' = [req EXCEPT ![r] = q]
  /\ queue' = Append(queue, r)
  /\ overlapped' = Overlaps(r, q)
  /\ UNCHANGED <<inFlight, connected, cmdq, respq, broker, halfway, misled, asks, faults, late>>

At(r, pc) == req[r] # None /\ req[r].pc = pc

(* The unique index on deviceId, for a row c. *)
Taken(d, c) == \E o \in Car \ {c} : row[o] # None /\ row[o].dev = d
Quiet == UNCHANGED <<wire, broker, overlapped, misled, asks, late>>
End(r) == req' = [req EXCEPT ![r] = None]

(* createCar; a deviceId that is taken is a conflict. *)
Insert(r) ==
  LET q == req[r]
      c == CHOOSE c \in Car : c \notin born
  IN
  /\ Idle /\ At(r, "insert")
  /\ \/ /\ ~Taken(q.dev, None)
        /\ row' = [row EXCEPT ![c] = [dev |-> q.dev, prov |-> FALSE]]
        /\ born' = born \cup {c}
        /\ Begin(r, [q EXCEPT !.car = c, !.pc = "queued", !.todo = EnsureCar(q.dev)])
     \/ /\ Taken(q.dev, None)
        /\ End(r) /\ UNCHANGED <<row, born, halfway, faults>> /\ Quiet

(* requireWritableCar, and what is sent for the car it returns. *)
Read(r) ==
  LET q == req[r]
      d == row[q.car].dev
      todo == CASE q.kind = "issue"  -> IssuePassword(d)
                [] q.kind = "remove" -> RemoveCar(d)
                [] q.kind = "rename" -> RemoveCar(d) \o EnsureCar(q.new)
  IN
  /\ Idle /\ At(r, "read")
  /\ \/ /\ row[q.car] # None /\ d # q.new
        /\ Begin(r, [q EXCEPT !.pc = "queued", !.dev = d, !.todo = todo])
        /\ UNCHANGED <<row, born>>
     \/ /\ row[q.car] # None => d = q.new
        /\ End(r) /\ UNCHANGED <<row, born, halfway, faults>> /\ Quiet

(* The credential is issued: only now does the row say so. *)
Stamp(r) ==
  LET c == req[r].car IN
  /\ Idle /\ At(r, "stamp")
  /\ row' = IF row[c] = None THEN row ELSE [row EXCEPT ![c].prov = TRUE]
  /\ halfway' = halfway \ {c}
  /\ End(r) /\ UNCHANGED <<born, faults>> /\ Quiet

DeleteRow(r) ==
  /\ Idle /\ At(r, "delete")
  /\ row' = [row EXCEPT ![req[r].car] = None]
  /\ End(r) /\ UNCHANGED <<born, halfway, faults>> /\ Quiet

(* Mutated form: the row goes on claiming the credential of the old name. *)
RenamedOnly(x, d) == [x EXCEPT !.dev = d]

Renamed(x, d) == [x EXCEPT !.dev = d, !.prov = FALSE]

(* The row takes its new deviceId, or the update fails and the catch block is next. *)
Rename(r) ==
  LET q == req[r] IN
  /\ Idle /\ At(r, "rename")
  /\ \/ /\ row[q.car] # None /\ ~Taken(q.new, q.car)
        /\ row' = [row EXCEPT ![q.car] = Renamed(row[q.car], q.new)]
        /\ End(r)
     \/ /\ row[q.car] = None \/ Taken(q.new, q.car)
        /\ req' = [req EXCEPT ![r].pc = "unprovision"] /\ UNCHANGED row
  /\ UNCHANGED <<born, halfway, faults>> /\ Quiet

MarkUnprovisioned(r) ==
  LET c == req[r].car IN
  /\ Idle /\ At(r, "unprovision")
  /\ row' = IF row[c] = None THEN row ELSE [row EXCEPT ![c].prov = FALSE]
  /\ End(r) /\ UNCHANGED <<born, halfway, faults>> /\ Quiet

(* A query fails: the request ends, a rename through its catch block. *)
QueryFails(r) ==
  /\ Idle
  /\ req[r] # None
  /\ req[r].pc \in {"insert", "read", "stamp", "delete", "rename", "unprovision"}
  /\ Fault
  /\ IF req[r].pc = "rename" THEN req' = [req EXCEPT ![r].pc = "unprovision"] ELSE End(r)
  /\ halfway' = IF req[r].pc \in {"delete", "unprovision"} THEN halfway \cup {req[r].car}
                ELSE halfway
  /\ UNCHANGED <<row, born>> /\ Quiet

-----------------------------------------------------------------------------
(* The command queue. *)

(* Request r's command came to `result`, the queue being q0; holds: getClient found the
   role on the client. A failed removal aborts its request; a later failure of a rename
   is caught. *)
Completed(r, q0, result, holds) ==
  LET q == req[r]
      cmd == Head(q.todo)
      rest == IF cmd.name = "getClient" /\ ~holds
              THEN <<Cmd("addClientRole", cmd.dev)>> \o Tail(q.todo) ELSE Tail(q.todo)
      removing == cmd.name \in {"deleteClient", "deleteRole"}
  IN
  IF Tolerated(cmd.name, result)
  THEN /\ queue' = IF rest = <<>> THEN q0 ELSE Append(q0, r)
       /\ req' = [req EXCEPT ![r] =
            IF rest # <<>> THEN [q EXCEPT !.pc = "queued", !.todo = rest]
            ELSE IF Finish(q.kind) = "done" THEN None
            ELSE [q EXCEPT !.pc = Finish(q.kind), !.todo = <<>>]]
       /\ UNCHANGED halfway
  ELSE /\ req' = [req EXCEPT ![r] =
            IF q.kind = "rename" /\ ~removing
            THEN [q EXCEPT !.pc = "unprovision", !.todo = <<>>] ELSE None]
       /\ halfway' = IF removing THEN halfway \cup {q.car} ELSE halfway
       /\ queue' = q0

FreshTokens ==
  Token \ ( {cmdq[i].tok : i \in DOMAIN cmdq} \cup {respq[i].tok : i \in DOMAIN respq} )

(* sendNow(): not connected is an error at once. *)
SendNow ==
  LET r == Head(queue)
      t == CHOOSE t \in FreshTokens : \A u \in FreshTokens : t <= u
  IN
  /\ inFlight = None /\ queue # <<>> /\ connected
  /\ FreshTokens # {}
  /\ queue' = Tail(queue)
  /\ req' = [req EXCEPT ![r].pc = "sent"]
  /\ inFlight' = [tok |-> t, req |-> r]
  /\ cmdq' = Append(cmdq, [tok |-> t, cmd |-> Head(req[r].todo)])
  /\ UNCHANGED <<row, born, connected, respq, broker, history, asks, faults, late>>

SendRefused ==
  /\ inFlight = None /\ queue # <<>> /\ ~connected
  /\ Completed(Head(queue), Tail(queue), "down", FALSE)
  /\ UNCHANGED <<row, born, inFlight, connected, cmdq, respq, broker, overlapped, misled, asks, faults, late>>

InFlightName == Head(req[inFlight.req].todo).name

(* onResponse(): a response is matched with the command in flight by name. *)
Answers(m) == inFlight # None /\ m.name = InFlightName

OnResponse ==
  LET m == Head(respq) IN
  /\ Idle
  /\ respq # <<>>
  /\ respq' = Tail(respq)
  /\ \/ /\ Answers(m)
        /\ Completed(inFlight.req, queue, m.result, m.holds)
        /\ inFlight' = None
        /\ misled' = (misled \/ m.tok # inFlight.tok)
     \/ /\ ~Answers(m)
        /\ UNCHANGED <<queue, req, inFlight, halfway, misled>>
  /\ UNCHANGED <<row, born, connected, cmdq, broker, overlapped, asks, faults, late>>

(* The command in flight has neither reached the broker nor is its answer on its way. *)
Unanswerable ==
  /\ \A i \in DOMAIN cmdq : cmdq[i].tok # inFlight.tok
  /\ \A i \in DOMAIN respq : respq[i].tok # inFlight.tok

(* COMMAND_TIMEOUT_MS runs out: for good reason, or while the answer is on its way. *)
Timeout ==
  /\ inFlight # None
  /\ IF Unanswerable THEN UNCHANGED late ELSE late < MaxLate /\ late' = late + 1
  /\ Completed(inFlight.req, queue, "down", FALSE)
  /\ inFlight' = None
  /\ UNCHANGED <<row, born, connected, cmdq, respq, broker, overlapped, misled, asks, faults>>

(* Mutated form: the first callback clears the command in flight, whose-ever it is. *)
FirstSettles(dead) == IF inFlight = None \/ dead = <<>> THEN {} ELSE {dead[1]}

(* Of the callbacks called, in order, those settle(token) acts for. *)
Settling(dead) == {t \in ToSet(dead) : inFlight # None /\ inFlight.tok = t}

(* The connection closes. Responses are lost, and commands may be; publish callbacks not
   yet called are, with an error, those of commands that timed out among them. *)
Disconnect ==
  /\ Idle
  /\ connected
  /\ Fault
  /\ connected' = FALSE
  /\ respq' = <<>>
  /\ cmdq' \in {cmdq, <<>>}
  /\ \E acked \in BOOLEAN :
       LET unsent == [i \in DOMAIN cmdq |-> cmdq[i].tok]
           dead == IF inFlight = None \/ acked \/ inFlight.tok \in ToSet(unsent)
                   THEN unsent ELSE Append(unsent, inFlight.tok)
       IN  /\ inFlight' = IF Settling(dead) = {} THEN inFlight ELSE None
           /\ IF inFlight # None /\ inFlight.tok \in Settling(dead)
              THEN Completed(inFlight.req, queue, "down", FALSE) ELSE UNCHANGED <<queue, req, halfway>>
  /\ UNCHANGED <<row, born, broker, overlapped, misled, asks, late>>

Reconnect ==
  /\ Idle
  /\ ~connected
  /\ connected' = TRUE
  /\ UNCHANGED <<row, born, req, queue, inFlight, cmdq, respq, broker, history, asks, faults, late>>

-----------------------------------------------------------------------------
(* The broker's dynamic-security plugin. *)

(* What command c comes to. *)
Outcome(c) ==
  LET roleThere == role[c.dev] # None
      clientThere == account[c.dev] # None
  IN CASE c.name = "createRole" -> IF roleThere THEN "exists" ELSE "ok"
       [] c.name = "addRoleACL" -> IF ~roleThere THEN "missing"
                                   ELSE IF c.topic \in role[c.dev] THEN "exists" ELSE "ok"
       [] c.name = "createClient" -> IF clientThere THEN "exists" ELSE "ok"
       [] c.name = "addClientRole" -> IF ~(roleThere /\ clientThere) THEN "missing"
                                      ELSE IF account[c.dev].role THEN "error" ELSE "ok"
       [] c.name = "deleteRole" -> IF roleThere THEN "ok" ELSE "missing"
       [] OTHER -> IF clientThere THEN "ok" ELSE "missing"

RoleAfter(c) ==
  CASE c.name = "createRole" -> {} [] c.name = "deleteRole" -> None
    [] c.name = "addRoleACL" -> role[c.dev] \cup {c.topic} [] OTHER -> role[c.dev]

AccountAfter(c) ==
  LET a == account[c.dev] IN
  CASE c.name = "createClient" -> [role |-> FALSE, usable |-> FALSE]
    [] c.name = "addClientRole" -> [a EXCEPT !.role = TRUE]
    [] c.name = "setClientPassword" -> [a EXCEPT !.usable = TRUE]
    [] c.name = "deleteClient" -> None
    [] c.name = "deleteRole" -> IF a = None THEN None ELSE [a EXCEPT !.role = FALSE]
    [] OTHER -> a

Broker ==
  LET c == Head(cmdq).cmd
      done == Outcome(c) = "ok"
      holds == account[c.dev] # None /\ account[c.dev].role
  IN
  /\ Idle
  /\ cmdq # <<>>
  /\ cmdq' = Tail(cmdq)
  /\ role' = IF done THEN [role EXCEPT ![c.dev] = RoleAfter(c)] ELSE role
  /\ account' = IF done THEN [account EXCEPT ![c.dev] = AccountAfter(c)] ELSE account
  /\ respq' = IF connected
              THEN Append(respq, [ tok |-> Head(cmdq).tok, name |-> c.name,
                                   result |-> Outcome(c), holds |-> holds ])
              ELSE respq
  /\ UNCHANGED <<row, born, req, queue, inFlight, connected, history, asks, faults, late>>

-----------------------------------------------------------------------------
Init ==
  /\ row = [c \in Car |-> None] /\ born = {}
  /\ req = [r \in Req |-> None]
  /\ queue = <<>> /\ inFlight = None /\ connected = TRUE /\ cmdq = <<>> /\ respq = <<>>
  /\ role = [d \in Device |-> None] /\ account = [d \in Device |-> None]
  /\ overlapped = {} /\ halfway = {} /\ misled = FALSE
  /\ asks = 0 /\ faults = 0 /\ late = 0

Query(r) ==
  Insert(r) \/ Read(r) \/ Stamp(r) \/ DeleteRow(r) \/ Rename(r) \/ MarkUnprovisioned(r)

Create == \E d \in Device : Ask("create", None, d)

Request(c) ==
  \/ \E d \in Device : Ask("rename", c, d)
  \/ Ask("issue", c, None) \/ Ask("remove", c, None)

Send == SendNow \/ SendRefused

Next ==
  \/ Send
  \/ \E r \in Req : Query(r) \/ QueryFails(r)
  \/ Create
  \/ \E c \in Car : Request(c)
  \/ OnResponse \/ Timeout \/ Disconnect \/ Reconnect \/ Broker

Spec == Init /\ [][Next]_vars

(* Promises and timers run, and queries are answered. The broker takes what reaches it:
   not taking it is a timeout, and MaxLate bounds those. *)
FairSpec ==
  /\ Spec
  /\ WF_vars(Send)
  /\ WF_vars(OnResponse \/ Timeout)
  /\ WF_vars(Broker)
  /\ \A r \in Req : WF_vars(Query(r) \/ QueryFails(r))

-----------------------------------------------------------------------------
TypeOK ==
  /\ row \in [Car -> Row \cup {None}] /\ born \subseteq Car
  /\ req \in [Req -> CarRequest \cup {None}]
  /\ queue \in Seq(Req) /\ connected \in BOOLEAN
  /\ inFlight \in [tok : Token, req : Req] \cup {None}
  /\ cmdq \in Seq([tok : Token, cmd : Command])
  /\ respq \in Seq(Response)
  /\ role \in [Device -> {None} \cup SUBSET Topic]
  /\ account \in [Device -> Account \cup {None}]
  /\ overlapped \subseteq Car \cup Device /\ halfway \subseteq Car /\ misled \in BOOLEAN
  /\ asks \in Nat /\ faults \in Nat /\ late \in Nat

(* Whoever awaits the broker is in flight, or once in the queue: no callback of a command
   that timed out leaves its successor with nobody to settle it, which would stall the
   queue for the life of the process. *)
NoneStranded ==
  \A r \in Req : req[r] # None =>
    /\ req[r].pc = "sent" <=> inFlight # None /\ inFlight.req = r
    /\ req[r].pc = "queued" <=> \E i \in DOMAIN queue : queue[i] = r

(* Every request ends, whatever the broker answers or does not. *)
RequestsEnd == \A r \in Req : req[r] # None ~> req[r] = None

(* The comment in CarsService.remove: no device that somebody holds a password of still
   authenticates after its car's row has gone or been renamed. Not so for the cars and devices of requests
   that met, or once a late response has passed for another's. *)
NoOrphanAccount ==
  \A d \in Device :
    /\ account[d] # None /\ account[d].usable
    /\ d \notin overlapped /\ ~misled
    => \E c \in Car : row[c] # None /\ row[c].dev = d

Working(d) == account[d] # None /\ account[d] = [role |-> TRUE, usable |-> TRUE] /\ role[d] = Topic

(* The comment in CarsService.update: a row that claims to be provisioned has an account that
   can publish, through renames and re-issues that fail at any point after the removal.
   A removal that fails itself, or that the row never hears of, is `halfway`, until
   credentials are issued again. *)
ProvisionedWorks ==
  \A c \in Car :
    /\ row[c] # None /\ row[c].prov
    /\ c \notin halfway /\ {c, row[c].dev} \cap overlapped = {} /\ ~misled
    /\ \A r \in Req : Begun(r) => req[r].car # c
    => Working(row[c].dev)

(* The comment on inFlight.token: a response that comes after its own command timed out does
   not resolve the next one. *)
OwnAnswer == ~misled

-----------------------------------------------------------------------------
(* What makes the above true. A request that has begun works on a car that was created, and
   has commands left while it waits for the broker and at no other time ... *)
RequestOK(q) ==
  /\ q.pc = "insert" => q.kind = "create" /\ q.dev # None
  /\ q.pc = "read" => q.kind # "create"
  /\ q.pc # "insert" => q.car \in born
  /\ q.pc \notin {"insert", "read"} => q.dev # None
  /\ q.new # None <=> q.kind = "rename"
  /\ q.pc \in {"queued", "sent"} <=> q.todo # <<>>
  /\ q.pc = "stamp" => q.kind = "issue"
  /\ q.pc = "delete" => q.kind = "remove"
  /\ q.pc \in {"rename", "unprovision"} => q.kind = "rename"

(* ... and the commands are about its devices: one that removes starts with the account,
   and one that issues a password does nothing else to the old account. *)
Removing(q) == q.kind \in {"remove", "rename"}
Destroys(c) == c.name \in {"deleteClient", "deleteRole"}
TodoOK(q) ==
  \A i \in DOMAIN q.todo :
    LET c == q.todo[i] IN
    /\ c.dev \in {q.dev, q.new}
    /\ q.kind = "issue" => c.dev = q.dev
    /\ q.kind = "remove" => Destroys(c)
    /\ c.name = "addRoleACL" => c.topic \in Topic
    /\ Destroys(c) => Removing(q) /\ c.dev = q.dev
    /\ c.name = "deleteClient" => i = 1
    /\ c.name = "setClientPassword" => q.kind = "issue" /\ c.dev = q.dev

RequestsOK == \A r \in Req : req[r] # None => RequestOK(req[r]) /\ TodoOK(req[r])

(* One row a device, one id a car; there are ids for the cars being created. *)
RowsOK ==
  /\ \A c \in Car : row[c] # None => c \in born /\ ~Taken(row[c].dev, c)
  /\ Cardinality(born) + Cardinality(Creating) <= Cardinality(Car)

(* The queue holds the requests that wait, each once; the one in flight is not among them. *)
QueueOK ==
  /\ \A i \in DOMAIN queue : At(queue[i], "queued")
  /\ \A i, j \in DOMAIN queue : queue[i] = queue[j] => i = j
  /\ \A r \in Req : At(r, "queued") => \E i \in DOMAIN queue : queue[i] = r
  /\ \A r \in Req : At(r, "sent") <=> inFlight # None /\ inFlight.req = r

(* What command c has achieved once it is answered with a result that is tolerated. *)
Achieved(c, holds) ==
  /\ c.name = "deleteClient" => account[c.dev] = None
  /\ c.name = "createRole" => role[c.dev] # None
  /\ c.name = "addRoleACL" => role[c.dev] # None /\ c.topic \in role[c.dev]
  /\ c.name = "createClient" => account[c.dev] # None
  /\ c.name = "addClientRole" \/ (c.name = "getClient" /\ holds) =>
       account[c.dev] # None /\ account[c.dev].role
  /\ c.name = "setClientPassword" => account[c.dev] # None /\ account[c.dev].usable

(* The command in flight is the last one sent: its own response finds nothing on the way to
   the broker, and what it achieved still there. *)
InFlightOK ==
  inFlight # None =>
    LET c == Head(req[inFlight.req].todo) IN
    /\ \A i \in DOMAIN cmdq : cmdq[i].tok = inFlight.tok => i = Len(cmdq) /\ cmdq[i].cmd = c
    /\ \A i \in DOMAIN respq : respq[i].tok = inFlight.tok =>
         /\ cmdq = <<>> /\ respq[i].name = c.name
         /\ Tolerated(c.name, respq[i].result) => Achieved(c, respq[i].holds)

CmdsOK ==
  \A i \in DOMAIN cmdq : cmdq[i].cmd.name = "addRoleACL" => cmdq[i].cmd.topic \in Topic

(* Requests that met have overlapped, in all they work on; one that met nobody works on the
   row it read. *)
Alone(q) == ~(Works(q) \subseteq overlapped)
OverlapOK ==
  /\ \A r, o \in Req : Begun(r) /\ Begun(o) /\ r # o /\ Works(req[r]) \cap Works(req[o]) # {} =>
       ~Alone(req[r])
  /\ \A r \in Req : Begun(r) =>
       /\ Alone(req[r]) => row[req[r].car] # None /\ row[req[r].car].dev = req[r].dev
       /\ row[req[r].car] # None => row[req[r].car].dev \in overlapped \cup {req[r].dev}

(* Device d has no account that somebody could use, and no password is on its way to it. *)
Unusable(d) ==
  /\ account[d] # None => ~account[d].usable
  /\ \A i \in DOMAIN cmdq : cmdq[i].cmd.dev = d => cmdq[i].cmd.name # "setClientPassword"

(* The request has had the account of its car's device deleted. *)
Removed(q) ==
  /\ Removing(q)
  /\ q.pc \in {"delete", "rename"} \/ (q.todo # <<>> /\ Head(q.todo).name # "deleteClient")

AccountsOK ==
  \A d \in Device \ overlapped :
    \/ misled
    \/ /\ (\A c \in Car : row[c] # None => row[c].dev # d) => Unusable(d)
       /\ \A r \in Req : Begun(r) /\ req[r].dev = d /\ Removed(req[r]) => Unusable(d)

(* Nothing that destroys device d's account is on its way. *)
Spared(d) == \A i \in DOMAIN cmdq : cmdq[i].cmd.dev = d => ~Destroys(cmdq[i].cmd)
Sound(d) == Working(d) /\ Spared(d)

(* How far a request that issues a password has come. *)
Progress(q) ==
  LET d == q.dev
      Has(name) == \E i \in DOMAIN q.todo : q.todo[i].name = name
  IN
  \/ q.todo = IssuePassword(d)
  \/ /\ Spared(d)
     /\ role[d] # None
     /\ \A t \in Topic : t \in role[d] \/
            \E i \in DOMAIN q.todo : q.todo[i].name = "addRoleACL" /\ q.todo[i].topic = t
     /\ account[d] # None \/ Has("createClient")
     /\ (account[d] # None /\ account[d].role) \/ Has("getClient") \/ Has("addClientRole")
     /\ (account[d] # None /\ account[d].usable) \/ Has("setClientPassword")

IssueOK ==
  \A r \in Req : Begun(r) /\ req[r].kind = "issue" /\ req[r].dev \notin overlapped =>
    misled \/ Progress(req[r])

ProvisionedOK ==
  \A c \in Car :
    /\ row[c] # None /\ row[c].prov
    /\ c \notin halfway /\ {c, row[c].dev} \cap overlapped = {} /\ ~misled
    /\ \A r \in Req : Begun(r) /\ Removing(req[r]) => req[r].car # c
    => Sound(row[c].dev)

(* The inductive invariant. *)
AdminInv ==
  /\ TypeOK /\ RequestsOK /\ RowsOK /\ QueueOK /\ InFlightOK /\ CmdsOK
  /\ OverlapOK /\ AccountsOK /\ IssueOK /\ ProvisionedOK

=============================================================================
