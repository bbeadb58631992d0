--------------------------- MODULE LiveFanoutProofs ---------------------------
(***************************************************************************)
(* FanoutInv is an invariant of LiveFanout, and with it the four           *)
(* invariants of the live feed: entries have subscriptions, rooms have     *)
(* authorized viewers, and of the cars nobody left while subscribing to    *)
(* them the count is exact and every viewer is fed.                        *)
(***************************************************************************)
EXTENDS LiveFanout, FiniteSetTheorems, SequenceTheorems, TLAPS

LEMMA InitInv == Init => FanoutInv
<1> SUFFICES ASSUME Init PROVE FanoutInv
  OBVIOUS
<1> USE FanoutAssumption DEF Init
<1>1. TypeOK
  BY DEF TypeOK
<1>2. JobsAreSound /\ RoomIsReadable /\ HoldersAreOpen
  BY DEF JobsAreSound, RoomIsReadable, HoldersAreOpen
<1>3. PromisesAreOnes /\ EntriesAreBacked
  BY DEF PromisesAreOnes, UsedFor, EntriesAreBacked
<1>4. LoneCars /\ RefcountExact
  BY DEF LoneCars, Alone, Running, Counted, RefcountExact, Exact
<1> QED BY <1>1, <1>2, <1>3, <1>4 DEF FanoutInv

-----------------------------------------------------------------------------
(* The commands on the subscriber connection. *)

(* Redis answers the first. *)
LEMMA HeadAnswered ==
  ASSUME TypeOK, NEW op, Answer(op)
  PROVE  /\ cmds' \in Seq(Command)
         /\ DOMAIN cmds \subseteq Nat \ {0} /\ DOMAIN cmds' \subseteq Nat \ {0}
         /\ 1 \in DOMAIN cmds /\ cmds[1] = Head(cmds) /\ Head(cmds) \in Command /\ Head(cmds).op = op
         /\ \A i \in DOMAIN cmds' : i + 1 \in DOMAIN cmds /\ cmds'[i] = cmds[i + 1]
         /\ \A i \in DOMAIN cmds : i # 1 => i - 1 \in DOMAIN cmds' /\ cmds'[i - 1] = cmds[i]
<1>1. cmds \in Seq(Command) /\ cmds # <<>> /\ cmds' = Tail(cmds) /\ Head(cmds).op = op
  BY DEF TypeOK, Answer
<1>2. /\ Head(cmds) \in Command /\ cmds' \in Seq(Command) /\ Len(cmds') = Len(cmds) - 1
      /\ \A i \in 1 .. Len(cmds') : cmds'[i] = cmds[i + 1]
  BY <1>1, HeadTailProperties
<1>3. Len(cmds) \in Nat \ {0} /\ DOMAIN cmds = 1 .. Len(cmds) /\ DOMAIN cmds' = 1 .. Len(cmds')
  BY <1>1, <1>2, EmptySeq, LenProperties
<1>4. cmds[1] = Head(cmds)
  BY <1>1
<1> QED BY <1>1, <1>2, <1>3, <1>4

(* A car stays backed when the first command was not its SUBSCRIBE, or has done its work. *)
LEMMA BackedAfterAnswer ==
  ASSUME TypeOK, NEW op, Answer(op),
         NEW x \in Car, Backed(x), entry'[x].id = entry[x].id,
         x \in subscribed /\ Head(cmds).car # x => x \in subscribed',
         Head(cmds).car = x /\ op = "subscribe" /\ Head(cmds).id = entry[x].id => x \in subscribed'
  PROVE  Backed(x)'
<1> USE HeadAnswered
<1>1. CASE x \in subscribed /\ \A i \in DOMAIN cmds : cmds[i].car # x
  BY <1>1 DEF Backed
<1>2. ASSUME NEW i \in DOMAIN cmds,
             cmds[i].car = x, cmds[i].op = "subscribe", cmds[i].id = entry[x].id,
             \A k \in DOMAIN cmds : k > i => cmds[k].car # x
      PROVE  Backed(x)'
  <2>1. CASE i = 1
    BY <1>2, <2>1 DEF Backed
  <2>2. CASE i # 1
    <3>1. i - 1 \in DOMAIN cmds' /\ cmds'[i - 1] = cmds[i]
      BY <2>2
    <3>2. \A k \in DOMAIN cmds' : k > i - 1 => cmds'[k].car # x
      BY <1>2
    <3> QED BY <1>2, <3>1, <3>2 DEF Backed
  <2> QED BY <2>1, <2>2
<1> QED BY <1>1, <1>2 DEF Backed

(* More are sent. *)
LEMMA MoreSent ==
  ASSUME TypeOK, NEW more \in Seq(Command), cmds' = cmds \o more
  PROVE  /\ cmds' \in Seq(Command) /\ DOMAIN cmds' \subseteq Nat
         /\ DOMAIN cmds \subseteq DOMAIN cmds'
         /\ \A i \in DOMAIN cmds : cmds'[i] = cmds[i]
         /\ \A i \in DOMAIN cmds' \ DOMAIN cmds :
              /\ \E k \in DOMAIN more : cmds'[i] = more[k]
              /\ \A k \in DOMAIN cmds : k < i
<1>1. cmds \in Seq(Command)
  BY DEF TypeOK
<1>2. /\ cmds' \in Seq(Command) /\ Len(cmds') = Len(cmds) + Len(more)
      /\ \A i \in 1 .. Len(cmds) + Len(more) :
           cmds'[i] = IF i <= Len(cmds) THEN cmds[i] ELSE more[i - Len(cmds)]
  BY <1>1, ConcatProperties
<1>3. /\ Len(cmds) \in Nat /\ Len(more) \in Nat
      /\ DOMAIN cmds = 1 .. Len(cmds) /\ DOMAIN more = 1 .. Len(more)
      /\ DOMAIN cmds' = 1 .. Len(cmds')
  BY <1>1, <1>2, LenProperties
<1>4. ASSUME NEW i \in DOMAIN cmds' \ DOMAIN cmds
      PROVE  /\ \E k \in DOMAIN more : cmds'[i] = more[k]
             /\ \A k \in DOMAIN cmds : k < i
  <2>1. i - Len(cmds) \in DOMAIN more /\ cmds'[i] = more[i - Len(cmds)]
    BY <1>2, <1>3
  <2> QED BY <1>3, <2>1
<1> QED BY <1>2, <1>3, <1>4

(* A finite set of commands, as a sequence. *)
LEMMA SetToSeqType ==
  ASSUME NEW S, IsFiniteSet(S)
  PROVE  SetToSeq(S) \in Seq(S)
<1>1. Cardinality(S) \in Nat /\ ExistsBijection(1 .. Cardinality(S), S)
  BY FS_CardinalityType
<1>2. \E f \in [1 .. Cardinality(S) -> S] : IsInjective(f)
  BY <1>1 DEF ExistsBijection, Bijection, Injection
<1>3. SetToSeq(S) \in [1 .. Cardinality(S) -> S]
  BY <1>2 DEF SetToSeq
<1> QED BY <1>1, <1>3, SeqDef

LEMMA ViewerRemoved ==
  ASSUME TypeOK, NEW xs \in SUBSET Car, RemoveViewer(xs)
  PROVE  /\ entry' \in [Car -> EntryRecord \cup {None}]
         /\ \A x \in Car :
              \/ (x \notin xs \/ entry[x] = None) /\ entry'[x] = entry[x]
              \/ x \in xs /\ entry[x] # None /\ entry[x].count <= 1 /\ entry'[x] = None
              \/ /\ x \in xs /\ entry[x] # None /\ ~(entry[x].count <= 1)
                 /\ entry'[x] # None /\ entry'[x].count = entry[x].count - 1
                 /\ entry'[x].id = entry[x].id /\ entry'[x].ok = entry[x].ok
         /\ cmds' \in Seq(Command) /\ DOMAIN cmds' \subseteq Nat
         /\ DOMAIN cmds \subseteq DOMAIN cmds'
         /\ \A i \in DOMAIN cmds : cmds'[i] = cmds[i]
         /\ \A i \in DOMAIN cmds' \ DOMAIN cmds :
              cmds'[i].op = "unsubscribe" /\ entry'[cmds'[i].car] = None
<1> USE FanoutAssumption
<1> DEFINE last == {x \in xs : entry[x] # None /\ LastViewer(x)}
           cmd(x) == [op |-> "unsubscribe", car |-> x, id |-> None]
           S == {cmd(x) : x \in last}
           out(x) == IF x \notin xs \/ entry[x] = None THEN entry[x]
                     ELSE IF entry[x].count <= 1 THEN None
                     ELSE [entry[x] EXCEPT !.count = @ - 1]
<1>1. entry' = [x \in Car |-> out(x)]
  BY DEF RemoveViewer, Released, LastViewer
<1>2. ASSUME NEW x \in Car
      PROVE  /\ out(x) \in EntryRecord \cup {None}
             /\ \/ (x \notin xs \/ entry[x] = None) /\ out(x) = entry[x]
                \/ x \in xs /\ entry[x] # None /\ entry[x].count <= 1 /\ out(x) = None
                \/ /\ x \in xs /\ entry[x] # None /\ ~(entry[x].count <= 1)
                   /\ out(x) # None /\ out(x).count = entry[x].count - 1
                   /\ out(x).id = entry[x].id /\ out(x).ok = entry[x].ok
  <2>1. CASE x \notin xs \/ entry[x] = None
    BY <2>1 DEF TypeOK
  <2>2. CASE x \in xs /\ entry[x] # None /\ entry[x].count <= 1
    BY <2>2
  <2>3. CASE x \in xs /\ entry[x] # None /\ ~(entry[x].count <= 1)
    <3>1. entry[x] \in EntryRecord /\ out(x) = [entry[x] EXCEPT !.count = @ - 1]
      BY <2>3 DEF TypeOK
    <3>2. /\ out(x) \in EntryRecord /\ out(x).count = entry[x].count - 1
          /\ out(x).id = entry[x].id /\ out(x).ok = entry[x].ok
      BY <2>3, <3>1 DEF EntryRecord
    <3> QED BY <2>3, <3>2
  <2> QED BY <2>1, <2>2, <2>3
<1> HIDE DEF out
<1>3. IsFiniteSet(S)
  <2>1. IsFiniteSet(last)
    BY FS_Subset
  <2>2. [x \in last |-> cmd(x)] \in Surjection(last, S)
    BY DEF Surjection
  <2> QED BY <2>1, <2>2, FS_Surjection
<1>4. SetToSeq(S) \in Seq(S) /\ S \subseteq Command
  BY <1>3, SetToSeqType DEF Command
<1>5. SetToSeq(S) \in Seq(Command)
  BY <1>4
<1>6. cmds' = cmds \o SetToSeq(S)
  BY DEF RemoveViewer
<1>7. \A k \in DOMAIN SetToSeq(S) : \E x \in last : SetToSeq(S)[k] = cmd(x)
  <2>1. \A k \in DOMAIN SetToSeq(S) : SetToSeq(S)[k] \in S
    BY <1>4, ElementOfSeq, LenProperties
  <2> QED BY <2>1
<1>8. \A x \in last : entry'[x] = None
  BY <1>1, <1>2 DEF LastViewer
<1>9. ASSUME NEW i \in DOMAIN cmds' \ DOMAIN cmds
      PROVE  cmds'[i].op = "unsubscribe" /\ entry'[cmds'[i].car] = None
  <2>1. PICK k \in DOMAIN SetToSeq(S) : cmds'[i] = SetToSeq(S)[k]
    BY <1>5, <1>6, MoreSent
  <2>2. PICK x \in last : cmds'[i] = cmd(x)
    BY <1>7, <2>1
  <2> QED BY <1>8, <2>2
<1>10. /\ cmds' \in Seq(Command) /\ DOMAIN cmds' \subseteq Nat
       /\ DOMAIN cmds \subseteq DOMAIN cmds'
       /\ \A i \in DOMAIN cmds : cmds'[i] = cmds[i]
  BY <1>5, <1>6, MoreSent
<1> QED BY <1>1, <1>2, <1>9, <1>10

-----------------------------------------------------------------------------
(* Sockets come, ask, are refused and go. *)

LEMMA ConnectInv ==
  ASSUME FanoutInv, NEW c \in Conn, Connect(c)
  PROVE  FanoutInv'
<1> USE DEF FanoutInv, Connect
<1>1. TypeOK'
  BY DEF TypeOK
<1>2. JobsAreSound' /\ RoomIsReadable' /\ HoldersAreOpen'
  BY DEF TypeOK, JobsAreSound, RoomIsReadable, HoldersAreOpen
<1>3. PromisesAreOnes' /\ EntriesAreBacked'
  BY DEF PromisesAreOnes, UsedFor, EntriesAreBacked, Backed
<1>4. LoneCars'
  BY DEF LoneCars, Alone, Counted, Running
<1>5. \A x \in Car : Counted(x)' = Counted(x)
  BY DEF Counted, Running
<1>6. RefcountExact'
  BY <1>5 DEF RefcountExact, Exact
<1> QED BY <1>1, <1>2, <1>3, <1>4, <1>6

LEMMA SubscribeInv ==
  ASSUME FanoutInv, NEW c \in Conn, NEW x \in Car, Subscribe(c, x)
  PROVE  FanoutInv'
<1> USE FanoutAssumption DEF FanoutInv
<1>1. PICK j \in Job :
        /\ job[j] = None
        /\ job' = [job EXCEPT ![j] = [pc |-> "authorize", conn |-> c, car |-> x, id |-> None]]
  BY DEF Subscribe
<1>2. /\ socket[c] = "open" /\ x \notin held[c]
      /\ held' = [held EXCEPT ![c] = @ \cup {x}] /\ asks' = asks + 1
      /\ UNCHANGED <<socket, room, entry, cmds, subscribed, overlapped, faults>>
  BY DEF Subscribe, Ask
<1>3. /\ [pc |-> "authorize", conn |-> c, car |-> x, id |-> None] \in JobRecord
      /\ job'[j] # None /\ job'[j].pc = "authorize" /\ job'[j].conn = c /\ job'[j].car = x
      /\ \A k \in Job \ {j} : job'[k] = job[k]
  BY <1>1 DEF TypeOK, JobRecord
<1>4. TypeOK'
  BY <1>1, <1>2, <1>3 DEF TypeOK
<1>5. JobsAreSound' /\ RoomIsReadable' /\ HoldersAreOpen'
  BY <1>2, <1>3 DEF TypeOK, JobsAreSound, RoomIsReadable, HoldersAreOpen
<1>6. PromisesAreOnes' /\ EntriesAreBacked'
  BY <1>2, <1>3 DEF PromisesAreOnes, UsedFor, EntriesAreBacked, Backed
<1>7. \A y \in Car : Counted(y)' = Counted(y)
  <2>1. \A d \in Conn, y \in Car : d # c \/ y # x => (y \in held'[d] <=> y \in held[d])
    BY <1>2 DEF TypeOK
  <2>2. c \notin Counted(x) /\ c \notin Counted(x)'
    BY <1>2, <1>3 DEF Counted, Running
  <2>3. ASSUME NEW y \in Car, NEW d \in Conn, d # c \/ y # x
        PROVE  d \in Counted(y)' <=> d \in Counted(y)
    BY <1>1, <1>3, <2>1, <2>3 DEF Counted, Running
  <2> QED BY <2>2, <2>3 DEF Counted
<1>8. LoneCars'
  <2> SUFFICES ASSUME NEW y \in Car \ overlapped
               PROVE  Alone(y)'
    BY <1>2 DEF LoneCars
  <2>1. Alone(y)
    BY DEF LoneCars
  <2>2. /\ \A k \in Job : job'[k] # None /\ job'[k].car = y =>
             /\ y \in held'[job'[k].conn]
             /\ job'[k].conn \notin room[y]
             /\ job'[k].pc = "await" => /\ entry[y] # None /\ job'[k].id = entry[y].id
                                        /\ ~entry[y].ok
    BY <1>2, <1>3, <2>1 DEF Alone, TypeOK, JobRecord
  <2>3. \A d \in Conn : \A k, l \in Running(d, y)' : k = l
    BY <1>2, <1>3, <2>1 DEF Alone, Running
  <2>4. \A d \in room[y] : y \in held'[d]
    BY <1>2, <2>1 DEF Alone, TypeOK
  <2>5. entry[y] # None /\ ~entry[y].ok => \A d \in Counted(y)' : Running(d, y)' # {}
    BY <1>1, <1>3, <1>7, <2>1 DEF Alone, Running
  <2> QED BY <1>2, <2>2, <2>3, <2>4, <2>5 DEF Alone
<1>9. RefcountExact'
  BY <1>2, <1>7 DEF RefcountExact, Exact
<1> HIDE DEF FanoutInv
<1> QED BY <1>4, <1>5, <1>6, <1>8, <1>9 DEF FanoutInv

LEMMA RefusedInv ==
  ASSUME FanoutInv, NEW j \in Job, Refused(j)
  PROVE  FanoutInv'
<1> USE FanoutAssumption DEF FanoutInv
<1>1. PICK c \in Conn, x \in Car :
        /\ job[j] # None /\ job[j].pc = "authorize" /\ job[j].conn = c /\ job[j].car = x
        /\ held' = [held EXCEPT ![c] = @ \ {x}] /\ job' = [job EXCEPT ![j] = None]
        /\ faults' \in Nat
        /\ UNCHANGED <<socket, room, entry, cmds, subscribed, overlapped, asks>>
  <2>1. job[j] # None /\ job[j].pc = "authorize" /\ job[j].conn \in Conn /\ job[j].car \in Car
    BY DEF Refused, Authorizing, TypeOK, JobRecord
  <2>2. /\ held' = [held EXCEPT ![job[j].conn] = @ \ {job[j].car}]
        /\ job' = [job EXCEPT ![j] = None]
        /\ faults' \in Nat
        /\ UNCHANGED <<socket, room, entry, cmds, subscribed, overlapped, asks>>
    BY DEF Refused, Fault, TypeOK
  <2> QED BY <2>1, <2>2
<1>2. job'[j] = None /\ \A k \in Job \ {j} : job'[k] = job[k]
  BY <1>1 DEF TypeOK
<1>3. TypeOK'
  BY <1>1, <1>2 DEF TypeOK
<1>4. JobsAreSound' /\ RoomIsReadable' /\ HoldersAreOpen'
  BY <1>1, <1>2 DEF TypeOK, JobsAreSound, RoomIsReadable, HoldersAreOpen
<1>5. PromisesAreOnes' /\ EntriesAreBacked'
  BY <1>1, <1>2 DEF PromisesAreOnes, UsedFor, EntriesAreBacked, Backed
<1>6. \A y \in Car : Counted(y)' = Counted(y)
  <2>1. /\ x \notin held'[c]
        /\ \A d \in Conn, y \in Car : d # c \/ y # x => (y \in held'[d] <=> y \in held[d])
    BY <1>1, <1>2 DEF TypeOK
  <2>2. c \notin Counted(x) /\ c \notin Counted(x)'
    BY <1>1, <1>2, <2>1 DEF Counted, Running
  <2>3. ASSUME NEW y \in Car, NEW d \in Conn, d # c \/ y # x
        PROVE  d \in Counted(y)' <=> d \in Counted(y)
    BY <1>1, <1>2, <2>1, <2>3 DEF Counted, Running
  <2> QED BY <1>2, <2>2, <2>3 DEF Counted
<1>7. LoneCars'
  <2> SUFFICES ASSUME NEW y \in Car \ overlapped
               PROVE  Alone(y)'
    BY <1>1 DEF LoneCars
  <2>1. Alone(y)
    BY DEF LoneCars
  <2>2. \A k \in Job : job'[k] # None /\ job'[k].car = y =>
             /\ y \in held'[job'[k].conn]
             /\ job'[k].conn \notin room[y]
             /\ job'[k].pc = "await" => /\ entry[y] # None /\ job'[k].id = entry[y].id
                                        /\ ~entry[y].ok
    BY <1>1, <1>2, <2>1 DEF Alone, TypeOK, JobRecord, Running
  <2>3. \A d \in Conn : \A k, l \in Running(d, y)' : k = l
    BY <1>1, <1>2, <2>1 DEF Alone, Running
  <2>4. \A d \in room[y] : y \in held'[d]
    BY <1>1, <1>2, <2>1 DEF Alone, TypeOK
  <2>5. entry[y] # None /\ ~entry[y].ok => \A d \in Counted(y)' : Running(d, y)' # {}
    BY <1>1, <1>2, <1>6, <2>1 DEF Alone, Running, Counted
  <2> QED BY <1>1, <2>2, <2>3, <2>4, <2>5 DEF Alone
<1>8. RefcountExact'
  BY <1>1, <1>6 DEF RefcountExact, Exact
<1> HIDE DEF FanoutInv
<1> QED BY <1>3, <1>4, <1>5, <1>7, <1>8 DEF FanoutInv

LEMMA ViewerLeaves ==
  ASSUME FanoutInv, NEW c \in Conn, NEW xs \in SUBSET Car, xs \subseteq held[c],
         held' = [held EXCEPT ![c] = @ \ xs], RemoveViewer(xs),
         room' \in [Car -> SUBSET Conn],
         \A x \in Car : room'[x] \subseteq room[x] /\ (x \in xs => c \notin room'[x]),
         overlapped' \subseteq Car, overlapped \subseteq overlapped',
         \A x \in xs : Running(c, x) # {} => x \in overlapped',
         socket' \in [Conn -> {"new", "open", "gone"}], HoldersAreOpen',
         asks' \in Nat, faults' \in Nat, UNCHANGED <<job, subscribed>>
  PROVE  FanoutInv'
<1> USE FanoutAssumption DEF FanoutInv
<1>1. /\ entry' \in [Car -> EntryRecord \cup {None}]
      /\ \A x \in Car :
           \/ (x \notin xs \/ entry[x] = None) /\ entry'[x] = entry[x]
           \/ x \in xs /\ entry[x] # None /\ entry[x].count <= 1 /\ entry'[x] = None
           \/ /\ x \in xs /\ entry[x] # None /\ ~(entry[x].count <= 1)
              /\ entry'[x] # None /\ entry'[x].count = entry[x].count - 1
              /\ entry'[x].id = entry[x].id /\ entry'[x].ok = entry[x].ok
      /\ cmds' \in Seq(Command) /\ DOMAIN cmds' \subseteq Nat
      /\ DOMAIN cmds \subseteq DOMAIN cmds'
      /\ \A i \in DOMAIN cmds : cmds'[i] = cmds[i]
      /\ \A i \in DOMAIN cmds' \ DOMAIN cmds :
           cmds'[i].op = "unsubscribe" /\ entry'[cmds'[i].car] = None
  BY ViewerRemoved
<1>2. \A x \in Car : entry'[x] # None =>
        entry[x] # None /\ entry'[x].id = entry[x].id /\ entry'[x].ok = entry[x].ok
  BY <1>1
<1>3. TypeOK'
  BY <1>1 DEF TypeOK
<1>4. JobsAreSound' /\ RoomIsReadable'
  BY DEF JobsAreSound, RoomIsReadable
<1>5. PromisesAreOnes'
  <2>1. \A e \in Entry, x \in Car : UsedFor(e, x)' => UsedFor(e, x)
    BY <1>1, <1>2 DEF UsedFor
  <2>2. \A e \in Entry, x, y \in Car : UsedFor(e, x)' /\ UsedFor(e, y)' => x = y
    BY <2>1 DEF PromisesAreOnes
  <2>3. \A i \in DOMAIN cmds' : cmds'[i].op = "subscribe" => i \in DOMAIN cmds /\ cmds'[i] = cmds[i]
    BY <1>1
  <2> QED BY <1>2, <2>2, <2>3 DEF PromisesAreOnes
<1>6. EntriesAreBacked'
  <2> SUFFICES ASSUME NEW x \in Car, entry'[x] # None
               PROVE  Backed(x)'
    BY DEF EntriesAreBacked
  <2>1. Backed(x) /\ \A i \in DOMAIN cmds' \ DOMAIN cmds : cmds'[i].car # x
    BY <1>1, <1>2 DEF EntriesAreBacked
  <2> QED BY <1>1, <1>2, <2>1 DEF Backed
<1>7. \A x \in Car : Counted(x)' = IF x \in xs THEN Counted(x) \ {c} ELSE Counted(x)
  BY DEF Counted, Running, TypeOK
<1>8. LoneCars'
  <2> SUFFICES ASSUME NEW y \in Car \ overlapped'
               PROVE  Alone(y)'
    BY DEF LoneCars
  <2>1. Alone(y)
    BY DEF LoneCars
  <2>2. \A k \in Job : job[k] # None /\ job[k].car = y => job[k].conn # c \/ y \notin xs
    BY DEF Running
  <2>3. \A k \in Job : job[k] # None /\ job[k].car = y =>
             /\ y \in held'[job[k].conn]
             /\ job[k].conn \notin room'[y]
    BY <2>1, <2>2 DEF Alone, TypeOK, JobRecord
  <2>4. \A d \in room'[y] : y \in held'[d]
    BY <2>1 DEF Alone, TypeOK
  <2>5. \A d \in Conn : \A k, l \in Running(d, y)' : k = l
    BY <2>1 DEF Alone, Running
  <2>6. entry'[y] # None /\ ~entry'[y].ok => \A d \in Counted(y)' : Running(d, y)' # {}
    BY <1>2, <1>7, <2>1 DEF Alone, Running
  <2>7. \A k \in Job : job[k] # None /\ job[k].car = y /\ job[k].pc = "await" => entry'[y] # None
    <3> SUFFICES ASSUME NEW k \in Job, job[k] # None, job[k].car = y, job[k].pc = "await",
                        entry'[y] = None
                 PROVE  FALSE
      OBVIOUS
    <3>1. entry[y] # None /\ y \in xs /\ entry[y].count <= 1
      BY <1>1, <2>1 DEF Alone
    <3>2. c \in Counted(y) /\ c # job[k].conn
      BY <2>2, <3>1 DEF Counted
    <3>3. job[k].conn \in Counted(y)
      BY <2>1 DEF Alone, Counted, Running, TypeOK, JobRecord
    <3>4. Cardinality(Counted(y)) <= 1 /\ IsFiniteSet(Counted(y))
      BY <3>1, <3>2, FS_Subset DEF RefcountExact, Exact, Counted
    <3>5. Cardinality(Counted(y)) = 0 \/ Cardinality(Counted(y)) = 1
      BY <3>4, FS_CardinalityType
    <3>6. Counted(y) = {} \/ \E d : Counted(y) = {d}
      BY <3>4, <3>5, FS_EmptySet, FS_Singleton
    <3> QED BY <3>2, <3>3, <3>6
  <2> QED BY <1>2, <2>1, <2>3, <2>4, <2>5, <2>6, <2>7 DEF Alone
<1>9. RefcountExact'
  <2> SUFFICES ASSUME NEW x \in Car \ overlapped'
               PROVE  Exact(x)'
    BY DEF RefcountExact
  <2>1. Exact(x)
    BY DEF RefcountExact
  <2>2. CASE x \notin xs
    BY <1>1, <1>7, <2>1, <2>2 DEF Exact
  <2>3. CASE x \in xs
    <3>1. c \in Counted(x) /\ Counted(x)' = Counted(x) \ {c}
      BY <1>7, <2>3 DEF Counted
    <3>2. entry[x] # None /\ entry[x].count = Cardinality(Counted(x))
      BY <2>1, <3>1 DEF Exact
    <3>3. IsFiniteSet(Counted(x))
      BY FS_Subset DEF Counted
    <3>4. /\ Cardinality(Counted(x)') = Cardinality(Counted(x)) - 1 /\ IsFiniteSet(Counted(x)')
          /\ Cardinality(Counted(x)) \in Nat /\ Cardinality(Counted(x)') \in Nat
      BY <3>1, <3>3, FS_RemoveElement, FS_CardinalityType
    <3>5. Counted(x)' = {} <=> Cardinality(Counted(x)') = 0
      BY <3>4, FS_EmptySet
    <3> QED BY <1>1, <2>3, <3>2, <3>4, <3>5 DEF Exact
  <2> QED BY <2>2, <2>3
<1> HIDE DEF FanoutInv
<1> QED BY <1>3, <1>4, <1>5, <1>6, <1>8, <1>9 DEF FanoutInv

LEMMA DisconnectInv ==
  ASSUME FanoutInv, NEW c \in Conn, Disconnect(c)
  PROVE  FanoutInv'
<1> DEFINE xs == held[c]
<1>1. xs \in SUBSET Car /\ HoldersAreOpen'
  BY DEF Disconnect, FanoutInv, TypeOK, HoldersAreOpen
<1>2. /\ held' = [held EXCEPT ![c] = @ \ xs] /\ RemoveViewer(xs)
      /\ room' \in [Car -> SUBSET Conn]
      /\ \A x \in Car : room'[x] \subseteq room[x] /\ (x \in xs => c \notin room'[x])
      /\ overlapped' \subseteq Car /\ overlapped \subseteq overlapped'
      /\ \A x \in xs : Running(c, x) # {} => x \in overlapped'
      /\ socket' \in [Conn -> {"new", "open", "gone"}]
      /\ asks' \in Nat /\ faults' \in Nat /\ UNCHANGED <<job, subscribed>>
  BY <1>1 DEF Disconnect, FanoutInv, TypeOK
<1> QED BY <1>1, <1>2, ViewerLeaves

LEMMA UnsubscribeInv ==
  ASSUME FanoutInv, NEW c \in Conn, NEW x \in Car, Unsubscribe(c, x)
  PROVE  FanoutInv'
<1>1. {x} \in SUBSET Car /\ {x} \subseteq held[c] /\ HoldersAreOpen'
  BY DEF Unsubscribe, FanoutInv, TypeOK, HoldersAreOpen
<1>2. /\ held' = [held EXCEPT ![c] = @ \ {x}] /\ RemoveViewer({x})
      /\ room' \in [Car -> SUBSET Conn]
      /\ \A y \in Car : room'[y] \subseteq room[y] /\ (y \in {x} => c \notin room'[y])
      /\ overlapped' \subseteq Car /\ overlapped \subseteq overlapped'
      /\ \A y \in {x} : Running(c, y) # {} => y \in overlapped'
      /\ socket' \in [Conn -> {"new", "open", "gone"}]
      /\ asks' \in Nat /\ faults' \in Nat /\ UNCHANGED <<job, subscribed>>
  BY DEF Unsubscribe, Ask, FanoutInv, TypeOK
<1> QED BY <1>1, <1>2, ViewerLeaves

-----------------------------------------------------------------------------
(* A viewer is authorized: it is counted, and joins the room or waits. *)

(* What the three ways of addViewer have in common: handler j of client c on car x is
   counted, and the entry of x is one viewer more. *)
Counts(j, c, x) ==
  /\ job[j] # None /\ job[j].pc = "authorize" /\ job[j].conn = c /\ job[j].car = x
  /\ x \in Readable[c]
  /\ \A k \in Job \ {j} : job'[k] = job[k]
  /\ job' \in [Job -> JobRecord \cup {None}]
  /\ job'[j] # None => job'[j].pc = "await" /\ job'[j].conn = c /\ job'[j].car = x
  /\ entry' \in [Car -> EntryRecord \cup {None}]
  /\ \A y \in Car \ {x} : entry'[y] = entry[y]
  /\ entry'[x] # None
  /\ entry'[x].count = IF entry[x] = None THEN 1 ELSE entry[x].count + 1
  /\ UNCHANGED <<socket, held, subscribed, overlapped, asks, faults>>

LEMMA CountedGrows ==
  ASSUME FanoutInv, NEW j \in Job, NEW c \in Conn, NEW x \in Car, Counts(j, c, x)
  PROVE  /\ c \notin Counted(x)
         /\ \A y \in Car \ overlapped :
              Counted(y)' = IF y = x THEN Counted(y) \cup {c} ELSE Counted(y)
<1> USE DEF Counts
<1>1. c \notin Counted(x)
  BY DEF Counted, Running
<1>2. ASSUME NEW y \in Car \ overlapped, NEW d \in Conn, d # c \/ y # x
      PROVE  d \in Counted(y)' <=> d \in Counted(y)
  BY <1>2 DEF Counted, Running
<1>3. x \notin overlapped => c \in Counted(x)'
  <2> SUFFICES ASSUME x \notin overlapped PROVE c \in Counted(x)'
    OBVIOUS
  <2>1. Alone(x)
    BY DEF FanoutInv, LoneCars
  <2>2. x \in held[c] /\ Running(c, x) = {j}
    BY <2>1 DEF Alone, Running
  <2>3. \A k \in Running(c, x)' : k = j
    BY <2>2 DEF Running
  <2> QED BY <2>2, <2>3 DEF Counted, Running
<1> QED BY <1>1, <1>2, <1>3 DEF Counted

LEMMA ExactGrows ==
  ASSUME FanoutInv, NEW j \in Job, NEW c \in Conn, NEW x \in Car, Counts(j, c, x)
  PROVE  RefcountExact'
<1> SUFFICES ASSUME NEW y \in Car \ overlapped
             PROVE  Exact(y)'
  BY DEF RefcountExact, Counts
<1>1. Exact(y)
  BY DEF FanoutInv, RefcountExact
<1>2. CASE y # x
  BY <1>1, <1>2, CountedGrows DEF Exact, Counts
<1>3. CASE y = x
  <2>1. Counted(x)' = Counted(x) \cup {c} /\ c \notin Counted(x)
    BY <1>3, CountedGrows
  <2>2. IsFiniteSet(Counted(x))
    BY FanoutAssumption, FS_Subset DEF Counted
  <2>3. Cardinality(Counted(x)') = Cardinality(Counted(x)) + 1
    BY <2>1, <2>2, FS_AddElement
  <2>4. entry'[x].count = Cardinality(Counted(x)')
    <3>1. CASE Counted(x) = {}
      BY <1>1, <1>3, <2>3, <3>1, FS_EmptySet DEF Exact, Counts
    <3>2. CASE Counted(x) # {}
      BY <1>1, <1>3, <2>3, <3>2 DEF Exact, Counts
    <3> QED BY <3>1, <3>2
  <2> QED BY <1>3, <2>1, <2>4 DEF Exact, Counts
<1> QED BY <1>2, <1>3

(* The first viewer makes an entry with its SUBSCRIBE, and waits on it. *)
SendsFirst(j, x, e) ==
  /\ entry'[x].id = e /\ ~entry'[x].ok
  /\ cmds' = Append(cmds, [op |-> "subscribe", car |-> x, id |-> e])
  /\ job'[j] # None /\ job'[j].id = e
  /\ room' = room

LEMMA FirstViewer ==
  ASSUME FanoutInv, NEW j \in Job, NEW c \in Conn, NEW x \in Car, Counts(j, c, x),
         NEW e \in Fresh, entry[x] = None, SendsFirst(j, x, e)
  PROVE  FanoutInv'
<1> USE FanoutAssumption DEF FanoutInv, Counts, SendsFirst
<1> DEFINE cmd == [op |-> "subscribe", car |-> x, id |-> e]
           n == Len(cmds) + 1
<1>1. e \in Entry /\ cmd \in Command
  BY DEF Fresh, Command
<1>2. /\ cmds' \in Seq(Command) /\ n \in Nat /\ n \notin DOMAIN cmds
      /\ DOMAIN cmds' = DOMAIN cmds \cup {n} /\ cmds'[n] = cmd
      /\ \A i \in DOMAIN cmds : cmds'[i] = cmds[i] /\ i < n
  <2>1. cmds \in Seq(Command)
    BY DEF TypeOK
  <2>2. /\ cmds' \in Seq(Command) /\ Len(cmds') = n /\ cmds'[n] = cmd
        /\ \A i \in 1 .. Len(cmds) : cmds'[i] = cmds[i]
    BY <1>1, <2>1, AppendProperties
  <2>3. Len(cmds) \in Nat /\ DOMAIN cmds = 1 .. Len(cmds) /\ DOMAIN cmds' = 1 .. n
    BY <2>1, <2>2, LenProperties
  <2> QED BY <2>2, <2>3
<1> HIDE DEF n
<1>3. TypeOK'
  BY <1>2 DEF TypeOK
<1>4. JobsAreSound' /\ RoomIsReadable' /\ HoldersAreOpen'
  BY <1>1 DEF JobsAreSound, RoomIsReadable, HoldersAreOpen
<1>5. PromisesAreOnes'
  <2>1. \A y \in Car : ~UsedFor(e, y)
    BY DEF Fresh, UsedFor
  <2>2. \A f \in Entry, y \in Car : UsedFor(f, y)' => UsedFor(f, y) \/ (f = e /\ y = x)
    BY <1>2, SMTT(60) DEF UsedFor
  <2>3. \A f \in Entry, y, z \in Car : UsedFor(f, y)' /\ UsedFor(f, z)' => y = z
    BY <2>1, <2>2 DEF PromisesAreOnes
  <2>4. \A i \in DOMAIN cmds : cmds[i].id # e
    BY DEF Fresh
  <2>5. \A i, k \in DOMAIN cmds' :
          cmds'[i].op = "subscribe" /\ cmds'[k].op = "subscribe" /\ cmds'[i].id = cmds'[k].id => i = k
    BY <1>2, <2>4 DEF PromisesAreOnes
  <2>6. \A y \in Car, i \in DOMAIN cmds' :
          entry'[y] # None /\ entry'[y].ok
            => ~(cmds'[i].op = "subscribe" /\ cmds'[i].id = entry'[y].id)
    <3> SUFFICES ASSUME NEW y \in Car, NEW i \in DOMAIN cmds', entry'[y] # None, entry'[y].ok
                 PROVE  ~(cmds'[i].op = "subscribe" /\ cmds'[i].id = entry'[y].id)
      OBVIOUS
    <3>1. y # x /\ entry'[y] = entry[y] /\ entry[y].id # e
      BY DEF Fresh
    <3> QED BY <1>2, <3>1 DEF PromisesAreOnes
  <2> QED BY <2>3, <2>5, <2>6 DEF PromisesAreOnes
<1>6. EntriesAreBacked'
  <2> SUFFICES ASSUME NEW y \in Car, entry'[y] # None
               PROVE  Backed(y)'
    BY DEF EntriesAreBacked
  <2>1. CASE y = x
    BY <1>2, <2>1 DEF Backed
  <2>2. CASE y # x
    <3>1. Backed(y) /\ entry'[y] = entry[y]
      BY <2>2 DEF EntriesAreBacked
    <3>2. \A k \in DOMAIN cmds' : cmds'[k].car = y => k \in DOMAIN cmds
      BY <1>2, <2>2
    <3>3. CASE y \in subscribed /\ \A i \in DOMAIN cmds : cmds[i].car # y
      BY <1>2, <3>2, <3>3 DEF Backed
    <3>4. CASE ~(y \in subscribed /\ \A i \in DOMAIN cmds : cmds[i].car # y)
      BY <1>2, <3>1, <3>2, <3>4, SMTT(60) DEF Backed
    <3> QED BY <3>3, <3>4
  <2> QED BY <2>1, <2>2
<1>7. LoneCars'
  <2> SUFFICES ASSUME NEW y \in Car \ overlapped
               PROVE  Alone(y)'
    BY DEF LoneCars
  <2>1. Alone(y) /\ Exact(y)
    BY DEF LoneCars, RefcountExact
  <2>2. \A k \in Job : job'[k] # None /\ job'[k].car = y =>
          /\ y \in held'[job'[k].conn]
          /\ job'[k].conn \notin room'[y]
          /\ job'[k].pc = "await" => entry'[y] # None /\ job'[k].id = entry'[y].id /\ ~entry'[y].ok
    BY <2>1 DEF Alone
  <2>3. \A d \in Conn : \A k, l \in Running(d, y)' : k = l
    BY <2>1 DEF Alone, Running
  <2>4. entry'[y] # None /\ ~entry'[y].ok => \A d \in Counted(y)' : Running(d, y)' # {}
    <3>1. CASE y = x
      <4>1. Counted(x)' = {c}
        BY <2>1, <3>1, CountedGrows DEF Exact
      <4> QED BY <3>1, <4>1 DEF Running
    <3>2. CASE y # x
      <4>1. Counted(y)' = Counted(y)
        BY <3>2, CountedGrows
      <4> QED BY <2>1, <3>2, <4>1 DEF Alone, Running
    <3> QED BY <3>1, <3>2
  <2> QED BY <2>1, <2>2, <2>3, <2>4 DEF Alone
<1>8. RefcountExact'
  BY ExactGrows
<1> HIDE DEF FanoutInv
<1> QED BY <1>3, <1>4, <1>5, <1>6, <1>7, <1>8 DEF FanoutInv

(* Another viewer: it joins the room, or waits with those who wait. *)
LEMMA AnotherViewer ==
  ASSUME FanoutInv, NEW j \in Job, NEW c \in Conn, NEW x \in Car, Counts(j, c, x),
         entry[x] # None, entry'[x].id = entry[x].id, entry'[x].ok = entry[x].ok, cmds' = cmds,
         \/ /\ entry[x].ok /\ job'[j] = None
            /\ room' = [room EXCEPT ![x] = @ \cup {c}]
         \/ /\ ~entry[x].ok /\ job'[j] # None /\ job'[j].id = entry[x].id
            /\ room' = room
  PROVE  FanoutInv'
<1> USE FanoutAssumption DEF FanoutInv, Counts
<1>1. TypeOK'
  BY DEF TypeOK
<1>2. entry[x].id \in Entry
  BY DEF TypeOK, EntryRecord
<1>3. JobsAreSound' /\ RoomIsReadable' /\ HoldersAreOpen'
  BY <1>2 DEF JobsAreSound, RoomIsReadable, HoldersAreOpen, TypeOK
<1>4. PromisesAreOnes'
  <2>1. \A f \in Entry, y \in Car : UsedFor(f, y)' => UsedFor(f, y)
    BY DEF UsedFor
  <2>2. \A f \in Entry, y, z \in Car : UsedFor(f, y)' /\ UsedFor(f, z)' => y = z
    BY <2>1 DEF PromisesAreOnes
  <2> QED BY <2>2 DEF PromisesAreOnes
<1>5. EntriesAreBacked'
  BY DEF EntriesAreBacked, Backed
<1>6. LoneCars'
  <2> SUFFICES ASSUME NEW y \in Car \ overlapped
               PROVE  Alone(y)'
    BY DEF LoneCars
  <2>1. Alone(y) /\ room'[y] \subseteq room[y] \cup {c} /\ (y # x => room'[y] = room[y])
    BY DEF LoneCars, TypeOK
  <2>2. \A k \in Job : job'[k] # None /\ job'[k].car = y =>
          /\ y \in held'[job'[k].conn]
          /\ job'[k].conn \notin room'[y]
          /\ job'[k].pc = "await" => entry'[y] # None /\ job'[k].id = entry'[y].id /\ ~entry'[y].ok
    BY <2>1 DEF Alone, Running
  <2>3. \A d \in Conn : \A k, l \in Running(d, y)' : k = l
    BY <2>1 DEF Alone, Running
  <2>4. \A d \in room'[y] : y \in held'[d]
    BY <2>1 DEF Alone
  <2>5. entry'[y] # None /\ ~entry'[y].ok => \A d \in Counted(y)' : Running(d, y)' # {}
    <3>1. CASE y = x
      <4>1. Counted(x)' = Counted(x) \cup {c}
        BY <3>1, CountedGrows
      <4> QED BY <2>1, <3>1, <4>1 DEF Alone, Running
    <3>2. CASE y # x
      <4>1. Counted(y)' = Counted(y)
        BY <3>2, CountedGrows
      <4> QED BY <2>1, <3>2, <4>1 DEF Alone, Running
    <3> QED BY <3>1, <3>2
  <2> QED BY <2>1, <2>2, <2>3, <2>4, <2>5 DEF Alone
<1>7. RefcountExact'
  BY ExactGrows
<1> HIDE DEF FanoutInv
<1> QED BY <1>1, <1>3, <1>4, <1>5, <1>6, <1>7 DEF FanoutInv

LEMMA AuthorizedInv ==
  ASSUME FanoutInv, NEW j \in Job, Authorized(j)
  PROVE  FanoutInv'
<1> USE FanoutAssumption
<1>1. PICK c \in Conn, x \in Car :
        /\ job[j] \in JobRecord /\ job[j].pc = "authorize" /\ job[j].conn = c /\ job[j].car = x
        /\ x \in Readable[c]
  BY DEF Authorized, Authorizing, FanoutInv, TypeOK, JobRecord
<1>2. UNCHANGED <<socket, held, subscribed, overlapped, asks, faults>>
  BY DEF Authorized
<1>3. job[j] # None
  BY <1>1
<1>4. CASE entry[x] = None
  <2>1. PICK e \in Fresh :
          /\ entry' = [entry EXCEPT ![x] = [id |-> e, count |-> 1, ok |-> FALSE]]
          /\ cmds' = Append(cmds, [op |-> "subscribe", car |-> x, id |-> e])
          /\ job' = [job EXCEPT ![j].pc = "await", ![j].id = e]
          /\ room' = room
    BY <1>1, <1>4 DEF Authorized, AddViewer
  <2>2. /\ [id |-> e, count |-> 1, ok |-> FALSE] \in EntryRecord
        /\ [job[j] EXCEPT !.pc = "await", !.id = e] \in JobRecord
    BY <1>1, <2>1 DEF Fresh, EntryRecord, JobRecord
  <2>3. job' = [job EXCEPT ![j] = [job[j] EXCEPT !.pc = "await", !.id = e]]
    BY <2>1 DEF FanoutInv, TypeOK
  <2>4. /\ job' \in [Job -> JobRecord \cup {None}]
        /\ job'[j] # None /\ job'[j].pc = "await" /\ job'[j].conn = c /\ job'[j].car = x
        /\ job'[j].id = e
        /\ \A k \in Job \ {j} : job'[k] = job[k]
    BY <1>1, <2>2, <2>3 DEF FanoutInv, TypeOK, JobRecord
  <2>5. /\ entry' \in [Car -> EntryRecord \cup {None}]
        /\ \A y \in Car \ {x} : entry'[y] = entry[y]
        /\ entry'[x] # None /\ entry'[x].count = 1 /\ entry'[x].id = e /\ ~entry'[x].ok
    BY <2>1, <2>2 DEF FanoutInv, TypeOK
  <2>6. Counts(j, c, x)
    BY <1>1, <1>2, <1>3, <1>4, <2>4, <2>5 DEF Counts
  <2>7. SendsFirst(j, x, e)
    BY <2>1, <2>4, <2>5 DEF SendsFirst
  <2> QED BY <1>4, <2>6, <2>7, FirstViewer
<1>5. CASE entry[x] # None
  <2>1. /\ entry' = [entry EXCEPT ![x].count = @ + 1]
        /\ cmds' = cmds
        /\ \/ /\ entry[x].ok
              /\ room' = [room EXCEPT ![x] = @ \cup {c}]
              /\ job' = [job EXCEPT ![j] = None]
           \/ /\ ~entry[x].ok
              /\ job' = [job EXCEPT ![j].pc = "await", ![j].id = entry[x].id]
              /\ room' = room
    BY <1>1, <1>5 DEF Authorized, AddViewer
  <2>2. entry[x] \in EntryRecord
    BY <1>5 DEF FanoutInv, TypeOK
  <2>3. /\ [entry[x] EXCEPT !.count = @ + 1] \in EntryRecord
        /\ entry' = [entry EXCEPT ![x] = [entry[x] EXCEPT !.count = @ + 1]]
    BY <2>1, <2>2, SMTT(60) DEF EntryRecord, FanoutInv, TypeOK
  <2>4. /\ entry' \in [Car -> EntryRecord \cup {None}]
        /\ \A y \in Car \ {x} : entry'[y] = entry[y]
        /\ entry'[x] # None /\ entry'[x].count = entry[x].count + 1
        /\ entry'[x].id = entry[x].id /\ entry'[x].ok = entry[x].ok
    BY <2>2, <2>3 DEF EntryRecord, FanoutInv, TypeOK
  <2>5. CASE entry[x].ok
    <3>1. /\ job' \in [Job -> JobRecord \cup {None}] /\ job'[j] = None
          /\ \A k \in Job \ {j} : job'[k] = job[k]
      BY <2>1, <2>5 DEF FanoutInv, TypeOK
    <3>2. Counts(j, c, x)
      BY <1>1, <1>2, <1>3, <1>5, <2>4, <3>1 DEF Counts
    <3> QED BY <1>5, <2>1, <2>4, <2>5, <3>1, <3>2, AnotherViewer
  <2>6. CASE ~entry[x].ok
    <3> DEFINE q == [job[j] EXCEPT !.pc = "await", !.id = entry[x].id]
    <3>1. /\ q \in JobRecord /\ q.pc = "await" /\ q.conn = c /\ q.car = x /\ q.id = entry[x].id
      BY <1>1, <2>2 DEF EntryRecord, JobRecord
    <3>2. job' = [job EXCEPT ![j] = q]
      BY <2>1, <2>6 DEF FanoutInv, TypeOK
    <3> HIDE DEF q
    <3>3. /\ job' \in [Job -> JobRecord \cup {None}] /\ job'[j] = q /\ q # None
          /\ \A k \in Job \ {j} : job'[k] = job[k]
      BY <3>1, <3>2 DEF FanoutInv, TypeOK
    <3>4. Counts(j, c, x)
      BY <1>1, <1>2, <1>3, <1>5, <2>4, <3>1, <3>3 DEF Counts
    <3> QED BY <1>5, <2>1, <2>4, <2>6, <3>1, <3>3, <3>4, AnotherViewer
  <2> QED BY <2>5, <2>6
<1> QED BY <1>4, <1>5

-----------------------------------------------------------------------------
(* Redis answers. *)

(* Who waits on the first SUBSCRIBE waits for its car, and an entry it serves is not ok yet. *)
LEMMA WaitersOfHead ==
  ASSUME FanoutInv, Answer("subscribe"), NEW x, x = Head(cmds).car, NEW e, e = Head(cmds).id
  PROVE  /\ x \in Car
         /\ \A j \in Waiters(e) : /\ j \in Job /\ job[j] # None /\ job[j].pc = "await"
                                 /\ job[j].id = e /\ job[j].car = x
                                 /\ job[j].conn \in Conn /\ x \in Readable[job[j].conn]
         /\ entry[x] # None /\ entry[x].id = e => ~entry[x].ok
         /\ x \notin overlapped /\ Waiters(e) # {} => entry[x] # None /\ entry[x].id = e
<1>1. /\ 1 \in DOMAIN cmds /\ cmds[1] \in Command
      /\ cmds[1].op = "subscribe" /\ cmds[1].car = x /\ cmds[1].id = e
  BY HeadAnswered DEF FanoutInv
<1>2. x \in Car
  BY <1>1 DEF Command
<1>3. ASSUME NEW j \in Waiters(e)
      PROVE  /\ j \in Job /\ job[j] # None /\ job[j].pc = "await"
             /\ job[j].id = e /\ job[j].car = x
             /\ job[j].conn \in Conn /\ x \in Readable[job[j].conn]
  <2>1. /\ j \in Job /\ job[j] # None /\ job[j].pc = "await" /\ job[j].id = e
        /\ job[j] \in JobRecord
    BY DEF Waiters, FanoutInv, TypeOK
  <2>2. /\ e \in Entry /\ job[j].car \in Car /\ job[j].conn \in Conn
        /\ job[j].car \in Readable[job[j].conn]
    BY <2>1 DEF FanoutInv, JobsAreSound, JobRecord
  <2>3. UsedFor(e, x) /\ UsedFor(e, job[j].car)
    BY <1>1, <2>1 DEF UsedFor
  <2>4. job[j].car = x
    BY <1>2, <2>2, <2>3 DEF FanoutInv, PromisesAreOnes
  <2> QED BY <2>1, <2>2, <2>4
<1>4. entry[x] # None /\ entry[x].id = e => ~entry[x].ok
  BY <1>1, <1>2 DEF FanoutInv, PromisesAreOnes
<1>5. x \notin overlapped /\ Waiters(e) # {} => entry[x] # None /\ entry[x].id = e
  <2> SUFFICES ASSUME x \notin overlapped, NEW j \in Waiters(e)
               PROVE  entry[x] # None /\ entry[x].id = e
    OBVIOUS
  <2>1. Alone(x)
    BY <1>2 DEF FanoutInv, LoneCars
  <2> QED BY <1>3, <2>1 DEF Alone
<1> QED BY <1>2, <1>3, <1>4, <1>5

(* Promises after the first command: nothing new refers to one, and what has become ok was
   the first command's. *)
LEMMA PromisesAfterAnswer ==
  ASSUME FanoutInv, NEW op, Answer(op),
         \A y \in Car : entry'[y] # None => entry[y] # None /\ entry'[y].id = entry[y].id,
         \A y \in Car : entry'[y] # None /\ entry'[y].ok =>
           entry[y].ok \/ (op = "subscribe" /\ Head(cmds).id = entry[y].id),
         \A j \in Job : job'[j] # None => job'[j] = job[j]
  PROVE  PromisesAreOnes'
<1> USE DEF FanoutInv
<1>1. /\ DOMAIN cmds \subseteq Nat \ {0} /\ DOMAIN cmds' \subseteq Nat \ {0}
      /\ 1 \in DOMAIN cmds /\ cmds[1] = Head(cmds) /\ Head(cmds).op = op
      /\ \A i \in DOMAIN cmds' : i + 1 \in DOMAIN cmds /\ cmds'[i] = cmds[i + 1]
  BY HeadAnswered
<1>2. \A e \in Entry, y \in Car : UsedFor(e, y)' => UsedFor(e, y)
  BY <1>1 DEF UsedFor
<1>3. \A e \in Entry, y, z \in Car : UsedFor(e, y)' /\ UsedFor(e, z)' => y = z
  BY <1>2 DEF PromisesAreOnes
<1>4. \A i, k \in DOMAIN cmds' :
        cmds'[i].op = "subscribe" /\ cmds'[k].op = "subscribe" /\ cmds'[i].id = cmds'[k].id => i = k
  <2> SUFFICES ASSUME NEW i \in DOMAIN cmds', NEW k \in DOMAIN cmds',
                      cmds'[i].op = "subscribe", cmds'[k].op = "subscribe", cmds'[i].id = cmds'[k].id
               PROVE  i = k
    OBVIOUS
  <2>1. i + 1 = k + 1
    BY <1>1 DEF PromisesAreOnes
  <2> QED BY <1>1, <2>1
<1>5. \A y \in Car, i \in DOMAIN cmds' :
        entry'[y] # None /\ entry'[y].ok
          => ~(cmds'[i].op = "subscribe" /\ cmds'[i].id = entry'[y].id)
  <2> SUFFICES ASSUME NEW y \in Car, NEW i \in DOMAIN cmds', entry'[y] # None, entry'[y].ok,
                      cmds'[i].op = "subscribe", cmds'[i].id = entry'[y].id
               PROVE  FALSE
    OBVIOUS
  <2>1. i + 1 \in DOMAIN cmds /\ cmds[i + 1].op = "subscribe" /\ cmds[i + 1].id = entry[y].id
    BY <1>1
  <2>2. CASE entry[y].ok
    BY <2>1, <2>2 DEF PromisesAreOnes
  <2>3. CASE op = "subscribe" /\ Head(cmds).id = entry[y].id
    <3>1. i + 1 = 1
      BY <1>1, <2>1, <2>3 DEF PromisesAreOnes
    <3> QED BY <1>1, <3>1
  <2> QED BY <2>2, <2>3
<1> QED BY <1>3, <1>4, <1>5 DEF PromisesAreOnes

LEMMA SubscribedInv ==
  ASSUME FanoutInv, Subscribed
  PROVE  FanoutInv'
<1> USE FanoutAssumption DEF FanoutInv
<1>1. PICK x, e :
        /\ x = Head(cmds).car /\ e = Head(cmds).id
        /\ subscribed' = subscribed \cup {x}
        /\ entry' = IF entry[x] # None /\ entry[x].id = e THEN [entry EXCEPT ![x].ok = TRUE] ELSE entry
        /\ room' = [room EXCEPT ![x] = @ \cup ConnsOf(Waiters(e))]
        /\ job' = Done(Waiters(e))
  BY DEF Subscribed
<1>2. Answer("subscribe") /\ UNCHANGED <<socket, held, overlapped, asks, faults>>
  BY DEF Subscribed
<1> DEFINE W == Waiters(e)
<1>3. /\ x \in Car
      /\ \A j \in W : /\ j \in Job /\ job[j] # None /\ job[j].pc = "await"
                      /\ job[j].id = e /\ job[j].car = x
                      /\ job[j].conn \in Conn /\ x \in Readable[job[j].conn]
      /\ x \notin overlapped /\ W # {} => entry[x] # None /\ entry[x].id = e
  BY <1>1, <1>2, WaitersOfHead
<1>4. /\ entry' \in [Car -> EntryRecord \cup {None}]
      /\ \A y \in Car : /\ entry'[y] = None <=> entry[y] = None
                        /\ entry[y] # None => entry'[y].id = entry[y].id /\ entry'[y].count = entry[y].count
                        /\ entry[y] # None => entry'[y].ok = (entry[y].ok \/ (y = x /\ entry[y].id = e))
  <2>1. CASE entry[x] # None /\ entry[x].id = e
    <3>1. entry[x] \in EntryRecord
      BY <1>3, <2>1 DEF TypeOK
    <3>2. /\ [entry[x] EXCEPT !.ok = TRUE] \in EntryRecord
          /\ [entry[x] EXCEPT !.ok = TRUE].id = e
          /\ [entry[x] EXCEPT !.ok = TRUE].count = entry[x].count
          /\ [entry[x] EXCEPT !.ok = TRUE].ok = TRUE
      BY <2>1, <3>1 DEF EntryRecord
    <3>3. entry' = [entry EXCEPT ![x] = [entry[x] EXCEPT !.ok = TRUE]]
      BY <1>1, <1>3, <2>1 DEF TypeOK
    <3>4. \A y \in Car : entry'[y] = IF y = x THEN [entry[x] EXCEPT !.ok = TRUE] ELSE entry[y]
      BY <3>3 DEF TypeOK
    <3> QED BY <2>1, <3>2, <3>3, <3>4 DEF TypeOK, EntryRecord
  <2>2. CASE ~(entry[x] # None /\ entry[x].id = e)
    BY <1>1, <2>2 DEF TypeOK, EntryRecord
  <2> QED BY <2>1, <2>2
<1>5. /\ job' \in [Job -> JobRecord \cup {None}]
      /\ \A j \in Job : job'[j] = IF j \in W THEN None ELSE job[j]
  BY <1>1 DEF Done, TypeOK
<1>6. /\ room' \in [Car -> SUBSET Conn]
      /\ \A y \in Car : y # x => room'[y] = room[y]
      /\ \A c \in Conn : c \in room'[x] <=> c \in room[x] \/ \E j \in W : job[j].conn = c
  <2>1. ConnsOf(W) \subseteq Conn /\ \A c : c \in ConnsOf(W) <=> \E j \in W : job[j].conn = c
    BY <1>3 DEF ConnsOf
  <2> QED BY <1>1, <1>3, <2>1 DEF TypeOK
<1> HIDE DEF W
<1>7. cmds' \in Seq(Command)
  BY <1>2, HeadAnswered
<1>8. TypeOK'
  BY <1>1, <1>2, <1>3, <1>4, <1>5, <1>6, <1>7 DEF TypeOK
<1>9. JobsAreSound' /\ RoomIsReadable' /\ HoldersAreOpen'
  BY <1>2, <1>3, <1>5, <1>6 DEF JobsAreSound, RoomIsReadable, HoldersAreOpen
<1>10. PromisesAreOnes'
  BY <1>1, <1>2, <1>4, <1>5, PromisesAfterAnswer
<1>11. EntriesAreBacked'
  <2> SUFFICES ASSUME NEW y \in Car, entry'[y] # None
               PROVE  Backed(y)'
    BY DEF EntriesAreBacked
  <2>1. Backed(y) /\ entry'[y].id = entry[y].id
    BY <1>4 DEF EntriesAreBacked
  <2> QED BY <1>1, <1>2, <2>1, BackedAfterAnswer
<1>12. \A y \in Car : Counted(y)' = Counted(y)
  BY <1>2, <1>3, <1>5 DEF Counted, Running
<1>13. LoneCars'
  <2> SUFFICES ASSUME NEW y \in Car \ overlapped
               PROVE  Alone(y)'
    BY <1>2 DEF LoneCars
  <2>1. Alone(y)
    BY DEF LoneCars
  <2>2. ASSUME NEW k \in Job, job'[k] # None, job'[k].car = y
        PROVE  /\ y \in held'[job'[k].conn]
               /\ job'[k].conn \notin room'[y]
               /\ job'[k].pc = "await" =>
                    entry'[y] # None /\ job'[k].id = entry'[y].id /\ ~entry'[y].ok
    <3>1. k \notin W /\ job'[k] = job[k] /\ job[k] \in JobRecord /\ job[k].conn \in Conn
      BY <1>5, <2>2 DEF TypeOK, JobRecord
    <3>2. y \in held[job[k].conn] /\ job[k].conn \notin room[y]
      BY <2>1, <2>2, <3>1 DEF Alone
    <3>3. \A j \in W : y = x => job[j].conn # job[k].conn
      BY <1>3, <2>1, <2>2, <3>1 DEF Alone, Running
    <3>4. job[k].pc = "await" => entry'[y] # None /\ job[k].id = entry'[y].id /\ ~entry'[y].ok
      <4>1. job[k].pc = "await" /\ job[k].id = e => k \in W
        BY <2>2, <3>1 DEF W, Waiters
      <4> QED BY <1>4, <2>1, <2>2, <3>1, <4>1, ZenonT(60) DEF Alone
    <3> QED BY <1>2, <1>6, <3>1, <3>2, <3>3, <3>4
  <2>3. \A d \in Conn : \A k, l \in Running(d, y)' : k = l
    BY <1>5, <2>1 DEF Alone, Running
  <2>4. \A d \in room'[y] : y \in held'[d]
    <3> SUFFICES ASSUME NEW d \in room'[y]
                 PROVE  y \in held[d]
      BY <1>2
    <3>1. d \in Conn /\ (d \in room[y] \/ (y = x /\ \E j \in W : job[j].conn = d))
      BY <1>6
    <3>2. CASE d \in room[y]
      BY <2>1, <3>2 DEF Alone
    <3>3. CASE y = x /\ \E j \in W : job[j].conn = d
      BY <1>3, <2>1, <3>3 DEF Alone
    <3> QED BY <3>1, <3>2, <3>3
  <2>5. ASSUME entry'[y] # None, ~entry'[y].ok, NEW d \in Counted(y)'
        PROVE  Running(d, y)' # {}
    <3>1. PICK j \in Running(d, y) : TRUE
      BY <1>4, <1>12, <2>1, <2>5 DEF Alone
    <3>2. j \notin W
      BY <1>3, <1>4, <2>5, <3>1 DEF Running
    <3> QED BY <1>5, <3>1, <3>2 DEF Running
  <2> QED BY <2>2, <2>3, <2>4, <2>5 DEF Alone
<1>14. RefcountExact'
  BY <1>2, <1>4, <1>12 DEF RefcountExact, Exact
<1> HIDE DEF FanoutInv
<1> QED BY <1>8, <1>9, <1>10, <1>11, <1>13, <1>14 DEF FanoutInv

LEMMA SubscribeFailsInv ==
  ASSUME FanoutInv, SubscribeFails
  PROVE  FanoutInv'
<1> USE FanoutAssumption DEF FanoutInv
<1>1. PICK x, e :
        /\ x = Head(cmds).car /\ e = Head(cmds).id
        /\ entry' = Dropped(x, e)
        /\ held' = [c \in Conn |-> IF c \in ConnsOf(Waiters(e)) THEN held[c] \ {x} ELSE held[c]]
        /\ job' = Done(Waiters(e))
  BY DEF SubscribeFails
<1>2. /\ Answer("subscribe") /\ faults' \in Nat
      /\ UNCHANGED <<socket, room, subscribed, overlapped, asks>>
  BY DEF SubscribeFails, Fault, TypeOK
<1> DEFINE W == Waiters(e)
<1>3. /\ x \in Car
      /\ \A j \in W : /\ j \in Job /\ job[j] # None /\ job[j].pc = "await"
                      /\ job[j].id = e /\ job[j].car = x
                      /\ job[j].conn \in Conn /\ x \in Readable[job[j].conn]
      /\ entry[x] # None /\ entry[x].id = e => ~entry[x].ok
      /\ x \notin overlapped /\ W # {} => entry[x] # None /\ entry[x].id = e
  BY <1>1, <1>2, WaitersOfHead
<1>4. /\ entry' \in [Car -> EntryRecord \cup {None}]
      /\ \A y \in Car : entry'[y] = IF y = x /\ entry[y] # None /\ entry[y].id = e
                                    THEN None ELSE entry[y]
  BY <1>1, <1>3 DEF Dropped, TypeOK
<1>5. /\ job' \in [Job -> JobRecord \cup {None}]
      /\ \A j \in Job : job'[j] = IF j \in W THEN None ELSE job[j]
  BY <1>1 DEF Done, TypeOK
<1>6. /\ held' \in [Conn -> SUBSET Car]
      /\ \A c \in Conn, y \in Car :
           y \in held'[c] <=> y \in held[c] /\ ~(y = x /\ \E j \in W : job[j].conn = c)
  BY <1>1, <1>3 DEF ConnsOf, TypeOK
<1> HIDE DEF W
<1>7. cmds' \in Seq(Command)
  BY <1>2, HeadAnswered
<1>8. TypeOK'
  BY <1>2, <1>4, <1>5, <1>6, <1>7 DEF TypeOK
<1>9. JobsAreSound' /\ RoomIsReadable' /\ HoldersAreOpen'
  <2>1. \A c \in Conn : held'[c] \subseteq held[c]
    BY <1>6, <1>8 DEF TypeOK
  <2> QED BY <1>2, <1>5, <2>1 DEF JobsAreSound, RoomIsReadable, HoldersAreOpen
<1>10. PromisesAreOnes'
  BY <1>1, <1>2, <1>4, <1>5, PromisesAfterAnswer
<1>11. EntriesAreBacked'
  <2> SUFFICES ASSUME NEW y \in Car, entry'[y] # None
               PROVE  Backed(y)'
    BY DEF EntriesAreBacked
  <2>1. Backed(y) /\ entry'[y].id = entry[y].id /\ ~(y = x /\ entry[y].id = e)
    BY <1>4 DEF EntriesAreBacked
  <2> QED BY <1>1, <1>2, <2>1, BackedAfterAnswer
<1>12. ASSUME NEW y \in Car \ overlapped, ~(y = x /\ entry[y] # None /\ entry[y].id = e)
       PROVE  /\ \A j \in Job : job[j] # None /\ job[j].car = y => j \notin W /\ job'[j] = job[j]
              /\ \A j \in Job : job'[j] # None => job'[j] = job[j]
              /\ \A c \in Conn : y \in held'[c] <=> y \in held[c]
              /\ entry'[y] = entry[y]
  BY <1>3, <1>4, <1>5, <1>6, <1>12
<1>13. ASSUME x \notin overlapped, entry[x] # None, entry[x].id = e
       PROVE  Counted(x)' = {}
  <2> SUFFICES ASSUME NEW c \in Counted(x)'
               PROVE  FALSE
    OBVIOUS
  <2>1. c \in Counted(x)
    BY <1>3, <1>5, <1>6 DEF Counted, Running
  <2>2. Alone(x)
    BY <1>3, <1>13 DEF LoneCars
  <2>3. PICK j \in Running(c, x) : job[j].pc # "authorize"
    BY <1>3, <1>13, <2>1, <2>2 DEF Alone, Counted
  <2>4. j \in Job /\ job[j] # None /\ job[j].car = x /\ job[j].conn = c /\ job[j].pc = "await"
    BY <2>3 DEF Running, TypeOK, JobRecord
  <2>5. j \in W
    BY <1>13, <2>2, <2>4 DEF Alone, W, Waiters
  <2> QED BY <1>3, <1>6, <2>4, <2>5 DEF Counted
<1>14. LoneCars'
  <2> SUFFICES ASSUME NEW y \in Car \ overlapped
               PROVE  Alone(y)'
    BY <1>2 DEF LoneCars
  <2>1. Alone(y)
    BY DEF LoneCars
  <2>2. CASE ~(y = x /\ entry[y] # None /\ entry[y].id = e)
    <3>1. \A d \in Conn : Running(d, y)' = Running(d, y)
      BY <1>12, <2>2 DEF Running
    <3>2. Counted(y)' = Counted(y)
      BY <1>12, <2>2 DEF Counted, Running
    <3>3. \A k \in Job : job'[k] # None /\ job'[k].car = y =>
            /\ y \in held'[job'[k].conn]
            /\ job'[k].conn \notin room'[y]
            /\ job'[k].pc = "await" =>
                 entry'[y] # None /\ job'[k].id = entry'[y].id /\ ~entry'[y].ok
      BY <1>2, <1>12, <2>1, <2>2 DEF Alone, TypeOK, JobRecord
    <3>4. \A d \in Conn : \A k, l \in Running(d, y)' : k = l
      BY <2>1, <3>1 DEF Alone
    <3>5. \A d \in room'[y] : y \in held'[d]
      BY <1>2, <1>12, <2>1, <2>2 DEF Alone, TypeOK
    <3>6. entry'[y] # None /\ ~entry'[y].ok => \A d \in Counted(y)' : Running(d, y)' # {}
      <4>1. Counted(y) \subseteq Conn
        BY DEF Counted
      <4> QED BY <1>12, <2>1, <2>2, <3>1, <3>2, <4>1 DEF Alone
    <3> QED BY <3>3, <3>4, <3>5, <3>6 DEF Alone
  <2>3. CASE y = x /\ entry[y] # None /\ entry[y].id = e
    <3>1. ASSUME NEW k \in Job, job'[k] # None, job'[k].car = y
          PROVE  y \in held'[job'[k].conn] /\ job'[k].conn \notin room'[y] /\ job'[k].pc # "await"
      <4>1. k \notin W /\ job'[k] = job[k] /\ job[k].conn \in Conn
        BY <1>5, <3>1 DEF TypeOK, JobRecord
      <4>2. job[k].pc # "await"
        BY <2>1, <2>3, <3>1, <4>1 DEF Alone, W, Waiters
      <4>3. \A j \in W : job[j].conn # job[k].conn
        BY <1>3, <2>1, <2>3, <3>1, <4>1 DEF Alone, Running
      <4> QED BY <1>2, <1>6, <2>1, <3>1, <4>1, <4>2, <4>3 DEF Alone
    <3>2. \A d \in Conn : \A k, l \in Running(d, y)' : k = l
      BY <1>5, <2>1 DEF Alone, Running
    <3>3. \A d \in room'[y] : y \in held'[d]
      <4>1. \A d \in room[y] : d \in Conn /\ y \in held[d] /\ \A j \in W : job[j].conn # d
        BY <1>3, <2>1, <2>3 DEF Alone, TypeOK
      <4> QED BY <1>2, <1>6, <4>1
    <3>4. entry'[y] = None
      BY <1>4, <2>3
    <3> QED BY <3>1, <3>2, <3>3, <3>4 DEF Alone
  <2> QED BY <2>2, <2>3
<1>15. RefcountExact'
  <2> SUFFICES ASSUME NEW y \in Car \ overlapped
               PROVE  Exact(y)'
    BY <1>2 DEF RefcountExact
  <2>1. CASE ~(y = x /\ entry[y] # None /\ entry[y].id = e)
    <3>1. Counted(y)' = Counted(y)
      BY <1>12, <2>1 DEF Counted, Running
    <3> QED BY <1>12, <2>1, <3>1 DEF RefcountExact, Exact
  <2>2. CASE y = x /\ entry[y] # None /\ entry[y].id = e
    BY <1>4, <1>13, <2>2 DEF Exact
  <2> QED BY <2>1, <2>2
<1> HIDE DEF FanoutInv
<1> QED BY <1>8, <1>9, <1>10, <1>11, <1>14, <1>15 DEF FanoutInv

LEMMA UnsubscribedInv ==
  ASSUME FanoutInv, Unsubscribed
  PROVE  FanoutInv'
<1> USE DEF FanoutInv
<1>1. /\ Answer("unsubscribe") /\ faults' \in Nat /\ subscribed' \subseteq Car
      /\ \A x \in subscribed : x # Head(cmds).car => x \in subscribed'
      /\ UNCHANGED <<socket, held, room, job, entry, overlapped, asks>>
  BY DEF Unsubscribed, Fault, TypeOK
<1>2. cmds' \in Seq(Command)
  BY <1>1, HeadAnswered
<1>3. TypeOK'
  BY <1>1, <1>2 DEF TypeOK
<1>4. JobsAreSound' /\ RoomIsReadable' /\ HoldersAreOpen'
  BY <1>1 DEF JobsAreSound, RoomIsReadable, HoldersAreOpen
<1>5. PromisesAreOnes'
  BY <1>1, PromisesAfterAnswer
<1>6. EntriesAreBacked'
  <2> SUFFICES ASSUME NEW x \in Car, entry'[x] # None
               PROVE  Backed(x)'
    BY DEF EntriesAreBacked
  <2>1. Backed(x)
    BY <1>1 DEF EntriesAreBacked
  <2> QED BY <1>1, <2>1, BackedAfterAnswer
<1>7. \A x \in Car : Counted(x)' = Counted(x)
  BY <1>1 DEF Counted, Running
<1>8. LoneCars'
  BY <1>1 DEF LoneCars, Alone, Running, Counted
<1>9. RefcountExact'
  BY <1>1, <1>7 DEF RefcountExact, Exact
<1> HIDE DEF FanoutInv
<1> QED BY <1>3, <1>4, <1>5, <1>6, <1>8, <1>9 DEF FanoutInv

-----------------------------------------------------------------------------
(* The invariant: sockets, entries, rooms and commands of one API instance agree, however
   authorizations, answers, failures and departures interleave. *)
THEOREM FanoutInvariant == Spec => []FanoutInv
<1>1. Init => FanoutInv
  BY InitInv
<1>2. FanoutInv /\ [Next]_vars => FanoutInv'
  <2> SUFFICES ASSUME FanoutInv, [Next]_vars PROVE FanoutInv'
    OBVIOUS
  <2>1. CASE Redis
    BY <2>1, SubscribedInv, SubscribeFailsInv, UnsubscribedInv DEF Redis
  <2>2. CASE UNCHANGED vars
    <3> USE <2>2 DEF vars, FanoutInv
    <3>1. TypeOK' /\ JobsAreSound' /\ RoomIsReadable' /\ HoldersAreOpen'
      BY DEF TypeOK, JobsAreSound, RoomIsReadable, HoldersAreOpen
    <3>2. PromisesAreOnes' /\ EntriesAreBacked'
      BY DEF PromisesAreOnes, UsedFor, EntriesAreBacked, Backed
    <3>3. LoneCars'
      BY DEF LoneCars, Alone, Running, Counted
    <3>4. \A x \in Car : Counted(x)' = Counted(x)
      BY DEF Counted, Running
    <3>5. RefcountExact'
      BY <3>4 DEF RefcountExact, Exact
    <3> QED BY <3>1, <3>2, <3>3, <3>5
  <2> QED BY <2>1, <2>2, AuthorizedInv, RefusedInv, ConnectInv, DisconnectInv, SubscribeInv,
             UnsubscribeInv DEF Next
<1> QED BY <1>1, <1>2, PTL DEF Spec

(* A car whose entry is backed is subscribed once its commands are answered. *)
LEMMA BackedWillBeSubscribed ==
  ASSUME TypeOK, NEW x \in Car, Backed(x)
  PROVE  WillBeSubscribed(x)
<1>1. DOMAIN cmds \subseteq Nat
  BY LenProperties DEF TypeOK
<1> QED BY <1>1 DEF Backed, WillBeSubscribed

(* The bus never counts viewers of a car that it has no subscription for, nor one under way:
   addViewer, removeViewer and the answers of Redis, in any order and failing anywhere. *)
THEOREM EntryIsSubscribedAlways == Spec => []EntryIsSubscribed
<1>1. FanoutInv => EntryIsSubscribed
  BY BackedWillBeSubscribed DEF FanoutInv, EntriesAreBacked, EntryIsSubscribed
<1> QED BY <1>1, FanoutInvariant, PTL

(* Nobody is in the room of a car that requireReadableCar does not let them watch, for any
   number of sockets, cars and handlers. *)
THEOREM RoomIsReadableAlways == Spec => []RoomIsReadable
<1>1. FanoutInv => RoomIsReadable
  BY DEF FanoutInv
<1> QED BY <1>1, FanoutInvariant, PTL

(* The refcount of the bus is the number of viewers the gateway holds, of every car no client
   has left while subscribing to it. *)
THEOREM RefcountExactAlways == Spec => []RefcountExact
<1>1. FanoutInv => RefcountExact
  BY DEF FanoutInv
<1> QED BY <1>1, FanoutInvariant, PTL

(* Whoever is in the room of such a car is connected, watches it, and is or will be fed. *)
THEOREM ViewerIsFedAlways == Spec => []ViewerIsFed
<1>1. FanoutInv => ViewerIsFed
  <2> SUFFICES ASSUME FanoutInv, NEW x \in Car \ overlapped, NEW c \in Conn, c \in room[x]
               PROVE  socket[c] = "open" /\ x \in held[c] /\ WillBeSubscribed(x)
    BY DEF ViewerIsFed
  <2>1. x \in held[c] /\ Running(c, x) = {}
    BY DEF FanoutInv, LoneCars, Alone, Running
  <2>2. socket[c] = "open"
    BY <2>1 DEF FanoutInv, HoldersAreOpen
  <2>3. entry[x] # None
    BY <2>1 DEF FanoutInv, RefcountExact, Exact, Counted
  <2> QED BY <2>1, <2>2, <2>3, BackedWillBeSubscribed DEF FanoutInv, EntriesAreBacked
<1> QED BY <1>1, FanoutInvariant, PTL

=============================================================================
