--------------------------- MODULE MqttAdminProofs ---------------------------
(* Proofs about the broker administration: AdminInv is inductive, and the properties follow
   from it. *)
EXTENDS MqttAdmin, FiniteSetTheorems, SequenceTheorems, WellFoundedInduction, TLAPS

-----------------------------------------------------------------------------
(* The sequences of commands. *)

LEMMA AllListed ==
  ASSUME NEW S, IsFiniteSet(S)
  PROVE  SetToSeq(S) \in Seq(S) /\ \A x \in S : \E i \in DOMAIN SetToSeq(S) : SetToSeq(S)[i] = x
<1> DEFINE n == Cardinality(S)
<1>1. n \in Nat /\ ExistsBijection(1 .. n, S)
  BY FS_CardinalityType
<1>2. \E f \in [1 .. n -> S] : IsInjective(f)
  BY <1>1 DEF ExistsBijection, Bijection, Injection
<1>3. SetToSeq(S) \in [1 .. n -> S] /\ IsInjective(SetToSeq(S))
  BY <1>2 DEF SetToSeq
<1>4. SetToSeq(S) \in Injection(1 .. n, S)
  BY <1>3 DEF Injection
<1>5. IsFiniteSet(1 .. n) /\ Cardinality(1 .. n) = n
  BY <1>1, FS_Interval
<1>6. SetToSeq(S) \in Surjection(1 .. n, S)
  BY <1>4, <1>5, FS_Injection
<1>7. SetToSeq(S) \in Seq(S)
  BY <1>1, <1>3, SeqDef
<1> QED BY <1>3, <1>6, <1>7 DEF Surjection

Acl(d) == {[name |-> "addRoleACL", dev |-> d, topic |-> t] : t \in Topic}

LEMMA AclsListed ==
  ASSUME NEW d \in Device
  PROVE  /\ SetToSeq(Acl(d)) \in Seq(Acl(d))
         /\ \A x \in Acl(d) : \E i \in DOMAIN SetToSeq(Acl(d)) : SetToSeq(Acl(d))[i] = x
<1> DEFINE f == [t \in Topic |-> [name |-> "addRoleACL", dev |-> d, topic |-> t]]
<1>1. f \in Surjection(Topic, Acl(d))
  BY DEF Surjection, Acl
<1>2. IsFiniteSet(Acl(d))
  BY <1>1, FS_Surjection, AdminAssumption DEF AdminAssumption
<1> QED BY <1>2, AllListed

(* What ensureCar sends: it creates, and destroys nothing. *)
LEMMA EnsureTodo ==
  ASSUME NEW d \in Device
  PROVE  /\ EnsureCar(d) \in Seq(Command) /\ EnsureCar(d) # <<>>
         /\ Len(EnsureCar(d)) = Len(SetToSeq(Acl(d))) + 3 /\ Len(SetToSeq(Acl(d))) \in Nat
         /\ EnsureCar(d)[1] = Cmd("createRole", d)
         /\ \A i \in 1 .. Len(SetToSeq(Acl(d))) : EnsureCar(d)[i + 1] = SetToSeq(Acl(d))[i]
         /\ EnsureCar(d)[Len(EnsureCar(d)) - 1] = Cmd("createClient", d)
         /\ EnsureCar(d)[Len(EnsureCar(d))] = Cmd("getClient", d)
<1> DEFINE acls == SetToSeq(Acl(d))
<1>1. acls \in Seq(Command)
  <2>1. Acl(d) \subseteq Command
    BY DEF Acl, Command, Name
  <2> QED BY <2>1, AclsListed, SeqMonotonic
<1>2. EnsureCar(d) = <<Cmd("createRole", d)>> \o acls \o <<Cmd("createClient", d), Cmd("getClient", d)>>
  BY DEF EnsureCar, Acl
<1>3. \A name \in Name : Cmd(name, d) \in Command
  BY DEF Cmd, Command
<1>4. Cmd("createRole", d) \in Command /\ Cmd("createClient", d) \in Command /\ Cmd("getClient", d) \in Command
  BY <1>3 DEF Name
<1> HIDE DEF acls, Acl
<1> QED BY <1>1, <1>2, <1>4 DEF acls

LEMMA EnsureCommands ==
  ASSUME NEW d \in Device, NEW i \in DOMAIN EnsureCar(d)
  PROVE  /\ EnsureCar(d)[i].dev = d
         /\ EnsureCar(d)[i].name \in {"createRole", "addRoleACL", "createClient", "getClient"}
         /\ EnsureCar(d)[i].name = "addRoleACL" => EnsureCar(d)[i].topic \in Topic
<1> DEFINE acls == SetToSeq(Acl(d))
           n == Len(acls)
<1>1. i = 1 \/ i - 1 \in 1 .. n \/ i = n + 2 \/ i = n + 3
  BY EnsureTodo
<1>2. CASE i - 1 \in 1 .. n
  <2>1. EnsureCar(d)[i] = acls[i - 1]
    <3>1. EnsureCar(d)[(i - 1) + 1] = acls[i - 1]
      BY <1>2, EnsureTodo
    <3>2. i \in Int
      BY EnsureTodo
    <3> QED BY <3>1, <3>2
  <2>2. acls[i - 1] \in Acl(d)
    BY <1>2, AclsListed, ElementOfSeq
  <2>3. PICK t \in Topic : EnsureCar(d)[i] = [name |-> "addRoleACL", dev |-> d, topic |-> t]
    BY <2>1, <2>2 DEF Acl
  <2> QED BY <2>3
<1>3. CASE i # 1 => i = n + 2 \/ i = n + 3
  <2>1. PICK name \in {"createRole", "createClient", "getClient"} : EnsureCar(d)[i] = Cmd(name, d)
    <3>1. Len(EnsureCar(d)) = n + 3 /\ n \in Nat
      BY EnsureTodo
    <3>2. (n + 3) - 1 = n + 2
      BY <3>1
    <3> HIDE DEF n, acls
    <3> QED BY <1>3, <3>1, <3>2, EnsureTodo
  <2>2. EnsureCar(d)[i] = [name |-> name, dev |-> d, topic |-> None]
    BY <2>1 DEF Cmd
  <2> HIDE DEF n, acls
  <2> QED BY <2>1, <2>2
<1> QED BY <1>1, <1>2, <1>3

(* The commands of each kind of request, as TodoOK says. *)
LEMMA EnsureTodoOK ==
  ASSUME NEW q \in CarRequest, q.kind = "create", NEW d \in Device, q.dev = d, q.todo = EnsureCar(d)
  PROVE  TodoOK(q)
<1> SUFFICES ASSUME NEW i \in DOMAIN EnsureCar(d)
             PROVE  LET c == EnsureCar(d)[i] IN
                    /\ c.dev = d /\ c.name = "addRoleACL" => c.topic \in Topic
                    /\ ~Destroys(c) /\ c.name # "setClientPassword"
  BY EnsureCommands DEF TodoOK, Destroys
<1> QED BY EnsureCommands DEF Destroys

LEMMA IssueTodo ==
  ASSUME NEW d \in Device
  PROVE  /\ IssuePassword(d) \in Seq(Command) /\ IssuePassword(d) # <<>>
         /\ Len(IssuePassword(d)) = Len(EnsureCar(d)) + 1 /\ Len(EnsureCar(d)) \in Nat \ {0}
         /\ \A i \in DOMAIN EnsureCar(d) : IssuePassword(d)[i] = EnsureCar(d)[i]
         /\ IssuePassword(d)[Len(EnsureCar(d)) + 1] = Cmd("setClientPassword", d)
<1>1. Cmd("setClientPassword", d) \in Command
  BY DEF Cmd, Command, Name
<1>2. EnsureCar(d) \in Seq(Command) /\ EnsureCar(d) # <<>>
  BY EnsureTodo
<1> QED BY <1>1, <1>2 DEF IssuePassword

LEMMA IssueCommands ==
  ASSUME NEW d \in Device, NEW i \in DOMAIN IssuePassword(d)
  PROVE  LET c == IssuePassword(d)[i] IN
         /\ c.dev = d /\ (c.name = "addRoleACL" => c.topic \in Topic) /\ ~Destroys(c)
<1>1. i \in DOMAIN EnsureCar(d) \/ i = Len(EnsureCar(d)) + 1
  <2>1. IssuePassword(d) \in Seq(Command) /\ EnsureCar(d) \in Seq(Command)
    BY IssueTodo, EnsureTodo
  <2>2. DOMAIN IssuePassword(d) = 1 .. Len(EnsureCar(d)) + 1 /\ DOMAIN EnsureCar(d) = 1 .. Len(EnsureCar(d))
    BY <2>1, IssueTodo
  <2> QED BY <2>2, IssueTodo
<1>2. CASE i \in DOMAIN EnsureCar(d)
  BY <1>2, IssueTodo, EnsureCommands DEF Destroys
<1>3. CASE i = Len(EnsureCar(d)) + 1
  <2>1. IssuePassword(d)[i] = [name |-> "setClientPassword", dev |-> d, topic |-> None]
    BY <1>3, IssueTodo DEF Cmd
  <2> QED BY <2>1 DEF Destroys
<1> QED BY <1>1, <1>2, <1>3

LEMMA IssueTodoOK ==
  ASSUME NEW q \in CarRequest, q.kind = "issue", NEW d \in Device, q.dev = d, q.todo = IssuePassword(d)
  PROVE  TodoOK(q)
<1> SUFFICES ASSUME NEW i \in DOMAIN IssuePassword(d)
             PROVE  LET c == IssuePassword(d)[i] IN
                    /\ c.dev = d /\ (c.name = "addRoleACL" => c.topic \in Topic) /\ ~Destroys(c)
  BY DEF TodoOK, Destroys
<1> QED BY IssueCommands

LEMMA RemoveTodo ==
  ASSUME NEW d \in Device
  PROVE  /\ RemoveCar(d) \in Seq(Command) /\ RemoveCar(d) # <<>> /\ Len(RemoveCar(d)) = 2
         /\ RemoveCar(d)[1] = Cmd("deleteClient", d) /\ RemoveCar(d)[2] = Cmd("deleteRole", d)
<1>1. Cmd("deleteClient", d) \in Command /\ Cmd("deleteRole", d) \in Command
  BY DEF Cmd, Command, Name
<1> QED BY <1>1 DEF RemoveCar

LEMMA RemoveTodoOK ==
  ASSUME NEW q \in CarRequest, q.kind = "remove", NEW d \in Device, q.dev = d, q.todo = RemoveCar(d)
  PROVE  TodoOK(q) /\ Head(q.todo).name = "deleteClient"
<1>1. \A i \in DOMAIN q.todo : i = 1 \/ i = 2
  BY RemoveTodo
<1>2. /\ q.todo[1] = [name |-> "deleteClient", dev |-> d, topic |-> None]
      /\ q.todo[2] = [name |-> "deleteRole", dev |-> d, topic |-> None]
  BY RemoveTodo DEF Cmd
<1>3. Head(q.todo) = q.todo[1]
  BY RemoveTodo
<1> QED BY <1>1, <1>2, <1>3 DEF TodoOK, Destroys, Removing

LEMMA Concat ==
  ASSUME NEW a \in Seq(Command), NEW b \in Seq(Command)
  PROVE  /\ a \o b \in Seq(Command) /\ Len(a \o b) = Len(a) + Len(b)
         /\ \A i \in 1 .. Len(a) + Len(b) : (a \o b)[i] = IF i <= Len(a) THEN a[i] ELSE b[i - Len(a)]
OBVIOUS

LEMMA PairThen ==
  ASSUME NEW a \in Seq(Command), NEW b \in Seq(Command)
  PROVE  LET t == a \o b IN Len(a) = 2 =>
         /\ t \in Seq(Command) /\ t # <<>> /\ Head(t) = t[1] /\ t[1] = a[1] /\ t[2] = a[2]
         /\ \A i \in DOMAIN t : i = 1 \/ i = 2 \/ (i - 2 \in DOMAIN b /\ t[i] = b[i - 2])
<1> DEFINE t == a \o b
<1>1. /\ t \in Seq(Command) /\ Len(t) = Len(a) + Len(b)
      /\ \A i \in 1 .. Len(a) + Len(b) : t[i] = IF i <= Len(a) THEN a[i] ELSE b[i - Len(a)]
  BY Concat
<1> HIDE DEF t
<1> SUFFICES ASSUME Len(a) = 2
             PROVE  /\ t \in Seq(Command) /\ t # <<>> /\ Head(t) = t[1] /\ t[1] = a[1] /\ t[2] = a[2]
                    /\ \A i \in DOMAIN t : i = 1 \/ i = 2 \/ (i - 2 \in DOMAIN b /\ t[i] = b[i - 2])
  BY DEF t
<1>2. /\ t \in Seq(Command) /\ Len(t) = 2 + Len(b)
      /\ \A i \in 1 .. 2 + Len(b) : t[i] = IF i <= 2 THEN a[i] ELSE b[i - 2]
  BY <1>1
<1>3. Len(b) \in Nat /\ DOMAIN t = 1 .. 2 + Len(b) /\ DOMAIN b = 1 .. Len(b)
  BY <1>2
<1>4. t # <<>> /\ Head(t) = t[1]
  BY <1>2, <1>3
<1>5. t[1] = a[1] /\ t[2] = a[2]
  BY <1>2, <1>3
<1>6. \A i \in DOMAIN t : i = 1 \/ i = 2 \/ (i - 2 \in DOMAIN b /\ t[i] = b[i - 2])
  BY <1>2, <1>3
<1> QED BY <1>2, <1>4, <1>5, <1>6

LEMMA RenameTodoOK ==
  ASSUME NEW q \in CarRequest, q.kind = "rename", NEW d \in Device, NEW n \in Device,
         q.dev = d, q.new = n, q.todo = RemoveCar(d) \o EnsureCar(n)
  PROVE  /\ TodoOK(q) /\ q.todo \in Seq(Command) /\ q.todo # <<>>
         /\ Head(q.todo).name = "deleteClient"
<1>1. /\ RemoveCar(d) \in Seq(Command) /\ Len(RemoveCar(d)) = 2
      /\ EnsureCar(n) \in Seq(Command) /\ EnsureCar(n) # <<>>
  BY RemoveTodo, EnsureTodo
<1>2. /\ q.todo \in Seq(Command) /\ q.todo # <<>> /\ Head(q.todo) = q.todo[1]
      /\ q.todo[1] = RemoveCar(d)[1] /\ q.todo[2] = RemoveCar(d)[2]
      /\ \A i \in DOMAIN q.todo : i = 1 \/ i = 2 \/ (i - 2 \in DOMAIN EnsureCar(n) /\ q.todo[i] = EnsureCar(n)[i - 2])
  BY <1>1, PairThen
<1>3. /\ q.todo[1] = [name |-> "deleteClient", dev |-> d, topic |-> None]
      /\ q.todo[2] = [name |-> "deleteRole", dev |-> d, topic |-> None]
  BY <1>2, RemoveTodo DEF Cmd
<1>4. ASSUME NEW i \in DOMAIN q.todo
      PROVE  LET c == q.todo[i] IN
             /\ c.dev \in {d, n}
             /\ c.name = "addRoleACL" => c.topic \in Topic
             /\ Destroys(c) => c.dev = d
             /\ c.name = "deleteClient" => i = 1
             /\ c.name # "setClientPassword"
  <2>1. CASE i = 1 \/ i = 2
    BY <1>3, <2>1
  <2>2. CASE i - 2 \in DOMAIN EnsureCar(n) /\ q.todo[i] = EnsureCar(n)[i - 2]
    <3>1. /\ q.todo[i].dev = n
          /\ q.todo[i].name \in {"createRole", "addRoleACL", "createClient", "getClient"}
          /\ q.todo[i].name = "addRoleACL" => q.todo[i].topic \in Topic
      BY <2>2, EnsureCommands
    <3> QED BY <3>1 DEF Destroys
  <2> QED BY <1>2, <2>1, <2>2
<1>5. TodoOK(q)
  BY <1>4 DEF TodoOK, Removing
<1> QED BY <1>2, <1>3, <1>5

-----------------------------------------------------------------------------
(* Choices. *)

LEMMA IdLeft ==
  ASSUME TypeOK, RowsOK, NEW r \in Req, At(r, "insert")
  PROVE  (CHOOSE c \in Car : c \notin born) \in Car \ born
<1>1. IsFiniteSet(Car) /\ IsFiniteSet(born) /\ IsFiniteSet(Creating) /\ r \in Creating
  <2>1. Creating \in SUBSET Req /\ born \in SUBSET Car
    BY DEF Creating, TypeOK
  <2>2. IsFiniteSet(Car) /\ IsFiniteSet(Req)
    BY AdminAssumption DEF AdminAssumption
  <2> QED BY <2>1, <2>2, FS_Subset DEF At, Creating
<1>2. /\ Cardinality(Creating \ {r}) = Cardinality(Creating) - 1
      /\ Cardinality(Creating \ {r}) \in Nat /\ Cardinality(Creating) \in Nat
      /\ Cardinality(born) \in Nat /\ Cardinality(Car) \in Nat
  BY <1>1, FS_RemoveElement, FS_CardinalityType
<1>3. born # Car
  BY <1>2 DEF RowsOK
<1> QED BY <1>3 DEF TypeOK

LEMMA FreeReqIsFree ==
  ASSUME \E r \in Req : req[r] = None
  PROVE  FreeReq \in Req /\ req[FreeReq] = None
BY DEF FreeReq

(* A token is not that of any command or response under way. *)
LEMMA FreshTokenIsFresh ==
  ASSUME FreshTokens # {}
  PROVE  LET t == CHOOSE t \in FreshTokens : \A u \in FreshTokens : t <= u IN
         /\ t \in Token
         /\ \A i \in DOMAIN cmdq : cmdq[i].tok # t
         /\ \A i \in DOMAIN respq : respq[i].tok # t
<1>1. FreshTokens \subseteq Nat
  BY AdminAssumption DEF FreshTokens, AdminAssumption
<1>2. \E t \in FreshTokens : \A u \in FreshTokens : ~ (<<u, t>> \in OpToRel(<, Nat))
  BY <1>1, WFMin, NatLessThanWellFounded
<1>3. \E t \in FreshTokens : \A u \in FreshTokens : t <= u
  <2>1. PICK t \in FreshTokens : \A u \in FreshTokens : ~ (<<u, t>> \in OpToRel(<, Nat))
    BY <1>2
  <2>2. ASSUME NEW u \in FreshTokens
        PROVE  t <= u
    <3>1. ~ (u < t)
      BY <1>1, <2>1 DEF OpToRel
    <3> QED BY <1>1, <3>1
  <2> QED BY <2>2
<1>4. (CHOOSE t \in FreshTokens : \A u \in FreshTokens : t <= u) \in FreshTokens
  BY <1>3
<1> QED BY <1>4 DEF FreshTokens

-----------------------------------------------------------------------------
(* What most steps leave alone, and what follows from that. *)

(* A request that has begun works on what it worked on before. *)
SameWork(r) ==
  Begun(r)' => /\ Begun(r) /\ req'[r].kind = req[r].kind /\ req'[r].car = req[r].car
               /\ req'[r].dev = req[r].dev /\ req'[r].new = req[r].new

(* The rows keep their deviceIds. *)
RowsStay ==
  \A c \in Car : /\ row'[c] = None <=> row[c] = None
                 /\ row[c] # None => row'[c].dev = row[c].dev

LEMMA RequestsFrame ==
  ASSUME RequestsOK, born \subseteq born',
         \A r \in Req : \/ req'[r] = req[r] \/ req'[r] = None
                        \/ RequestOK(req[r])' /\ TodoOK(req[r])'
  PROVE  RequestsOK'
<1> SUFFICES ASSUME NEW r \in Req, req'[r] # None
             PROVE  RequestOK(req[r])' /\ TodoOK(req[r])'
  BY DEF RequestsOK
<1>1. CASE req'[r] = req[r]
  <2>1. RequestOK(req[r]) /\ TodoOK(req[r])
    BY <1>1 DEF RequestsOK
  <2> QED BY <1>1, <2>1 DEF RequestOK, TodoOK
<1> QED BY <1>1

LEMMA CreatingFinite ==
  IsFiniteSet(Creating) /\ Cardinality(Creating) \in Nat
<1>1. Creating \in SUBSET Req /\ IsFiniteSet(Req)
  BY AdminAssumption DEF Creating, AdminAssumption
<1> QED BY <1>1, FS_Subset, FS_CardinalityType

LEMMA CreatingFrame ==
  ASSUME TypeOK, RowsOK, UNCHANGED born, \A r \in Req : At(r, "insert")' => At(r, "insert")
  PROVE  (Cardinality(born) + Cardinality(Creating) <= Cardinality(Car))'
<1>1. Creating' \in SUBSET Creating
  BY DEF Creating, At
<1>2. IsFiniteSet(Creating) /\ IsFiniteSet(Creating')
  BY <1>1, CreatingFinite, FS_Subset
<1>3. Cardinality(Creating') <= Cardinality(Creating) /\ Cardinality(Creating') \in Nat
  BY <1>1, <1>2, FS_Subset, FS_CardinalityType
<1>4. Cardinality(born) \in Nat /\ Cardinality(Car) \in Nat /\ Cardinality(Creating) \in Nat
  <2>1. IsFiniteSet(Car) /\ born \in SUBSET Car
    BY AdminAssumption DEF AdminAssumption, TypeOK
  <2> QED BY <2>1, CreatingFinite, FS_Subset, FS_CardinalityType
<1> QED BY <1>3, <1>4 DEF RowsOK

LEMMA RowsFrame ==
  ASSUME TypeOK, RowsOK, RowsStay, UNCHANGED born,
         \A r \in Req : At(r, "insert")' => At(r, "insert")
  PROVE  RowsOK'
<1>1. (\A c \in Car : row[c] # None => c \in born /\ ~Taken(row[c].dev, c))'
  BY DEF RowsOK, RowsStay, Taken
<1> QED BY <1>1, CreatingFrame DEF RowsOK

LEMMA OverlapFrame ==
  ASSUME TypeOK, OverlapOK, RequestsOK, RowsStay, UNCHANGED overlapped, \A r \in Req : SameWork(r)
  PROVE  OverlapOK'
<1>1. \A r \in Req : Begun(r)' => Works(req[r])' = Works(req[r]) /\ req'[r].car = req[r].car /\ Begun(r)
                                  /\ req'[r].dev = req[r].dev
  BY DEF SameWork, Works
<1>2. \A r \in Req : Begun(r) => req[r].car \in Car
  BY DEF RequestsOK, RequestOK, Begun, TypeOK
<1>3. (\A r, o \in Req : Begun(r) /\ Begun(o) /\ r # o /\ Works(req[r]) \cap Works(req[o]) # {} =>
         ~Alone(req[r]))'
  BY <1>1 DEF OverlapOK, Alone
<1>4. (\A r \in Req : Begun(r) =>
         /\ Alone(req[r]) => row[req[r].car] # None /\ row[req[r].car].dev = req[r].dev
         /\ row[req[r].car] # None => row[req[r].car].dev \in overlapped \cup {req[r].dev})'
  BY <1>1, <1>2 DEF OverlapOK, Alone, RowsStay
<1> QED BY <1>3, <1>4 DEF OverlapOK

(* Nothing is added to what is on its way to the broker, and nothing changes there. *)
BrokerIdle == UNCHANGED <<role, account>> /\ (cmdq' = cmdq \/ cmdq' = <<>>)

LEMMA DevicesStay ==
  ASSUME BrokerIdle
  PROVE  \A d \in Device : /\ Unusable(d) => Unusable(d)'
                           /\ Spared(d) => Spared(d)'
                           /\ Sound(d) => Sound(d)'
BY DEF BrokerIdle, Unusable, Spared, Sound, Working

LEMMA ProgressStays ==
  ASSUME BrokerIdle, NEW r \in Req, req'[r].todo = req[r].todo, req'[r].dev = req[r].dev,
         req[r].dev \in Device, Progress(req[r])
  PROVE  Progress(req[r])'
<1>1. Spared(req[r].dev) => Spared(req[r].dev)'
  BY DEF BrokerIdle, Spared
<1> QED BY <1>1 DEF BrokerIdle, Progress

(* The histories only grow, so that what they exempt stays exempted. *)
Grown == overlapped \subseteq overlapped' /\ (misled => misled')

LEMMA AccountsFrame ==
  ASSUME TypeOK, AccountsOK, Grown, RowsStay, \A r \in Req : SameWork(r),
         \A d \in Device \ overlapped' : ~misled' /\ Unusable(d) => Unusable(d)',
         \A r \in Req : Begun(r)' /\ Removed(req[r])' /\ ~misled' =>
           Removed(req[r]) \/ Unusable(req[r].dev)'
  PROVE  AccountsOK'
<1> SUFFICES ASSUME NEW d \in Device, d \notin overlapped', ~misled'
             PROVE  /\ (\A c \in Car : row'[c] # None => row'[c].dev # d) => Unusable(d)'
                    /\ \A r \in Req : Begun(r)' /\ req'[r].dev = d /\ Removed(req[r])' => Unusable(d)'
  BY DEF AccountsOK
<1>1. d \notin overlapped /\ ~misled
  BY DEF Grown
<1>2. ASSUME \A c \in Car : row'[c] # None => row'[c].dev # d
      PROVE  Unusable(d)'
  BY <1>1, <1>2 DEF RowsStay, AccountsOK
<1>3. ASSUME NEW r \in Req, Begun(r)', req'[r].dev = d, Removed(req[r])'
      PROVE  Unusable(d)'
  <2>1. Begun(r) /\ req[r].dev = d
    BY <1>3 DEF SameWork
  <2>2. CASE Removed(req[r])
    BY <1>1, <2>1, <2>2 DEF AccountsOK
  <2>3. CASE Unusable(req[r].dev)'
    BY <1>3, <2>3 DEF Unusable
  <2> QED BY <1>3, <2>2, <2>3
<1> QED BY <1>2, <1>3

LEMMA IssueFrame ==
  ASSUME IssueOK, Grown, \A r \in Req : SameWork(r),
         \A r \in Req : Begun(r)' /\ req'[r].kind = "issue" /\ ~misled' /\ req'[r].dev \notin overlapped' =>
           (Progress(req[r]) => Progress(req[r])')
  PROVE  IssueOK'
BY DEF IssueOK, Grown, SameWork

(* The request ended a removal for which the row answers. *)
Answered(r) ==
  LET c == req[r].car IN
  Begun(r) /\ Removing(req[r]) =>
    \/ Begun(r)' /\ Removing(req[r])' /\ req'[r].car = c
    \/ c \in halfway'
    \/ row'[c] # None => ~row'[c].prov

LEMMA ProvisionedFrame ==
  ASSUME ProvisionedOK, Grown, RowsStay, halfway \subseteq halfway',
         \A c \in Car : row'[c] # None /\ row'[c].prov => row[c].prov,
         \A r \in Req : Answered(r),
         \A d \in Device : Sound(d) => Sound(d)',
         row \in [Car -> Row \cup {None}]
  PROVE  ProvisionedOK'
<1> SUFFICES ASSUME NEW c \in Car, row'[c] # None, row'[c].prov, c \notin halfway',
                    {c, row'[c].dev} \cap overlapped' = {}, ~misled',
                    \A r \in Req : Begun(r)' /\ Removing(req[r])' => req'[r].car # c
             PROVE  Sound(row[c].dev)'
  BY DEF ProvisionedOK
<1>1. row[c] # None /\ row[c].prov /\ row'[c].dev = row[c].dev /\ row[c].dev \in Device
  BY NoneAssumption DEF RowsStay, Row
<1>2. c \notin halfway /\ {c, row[c].dev} \cap overlapped = {} /\ ~misled
  BY <1>1 DEF Grown
<1>3. \A r \in Req : Begun(r) /\ Removing(req[r]) => req[r].car # c
  BY DEF Answered
<1>4. Sound(row[c].dev)
  BY <1>1, <1>2, <1>3 DEF ProvisionedOK
<1>5. \A d \in Device : Sound(d) => Sound(d)'
  OBVIOUS
<1>6. ASSUME NEW d \in Device, d = row[c].dev, d = row'[c].dev, Sound(d)'
      PROVE  Sound(row[c].dev)'
  BY <1>6 DEF Sound, Working, Spared
<1>7. Sound(row[c].dev)'
  <2>1. PICK d \in Device : d = row[c].dev
    BY <1>1
  <2>2. Sound(d)
    BY <1>4, <2>1
  <2>3. Sound(d)'
    BY <2>2, <1>5
  <2> QED BY <1>1, <1>6, <2>1, <2>3
<1> QED BY <1>7

(* The waiting requests and the command in flight are as they were. *)
LEMMA WaitFrame ==
  ASSUME TypeOK, QueueOK, InFlightOK, CmdsOK, UNCHANGED <<wire, broker>>,
         \A r \in Req : /\ At(r, "queued")' <=> At(r, "queued")
                        /\ At(r, "sent")' <=> At(r, "sent")
                        /\ At(r, "sent") => req'[r] = req[r]
  PROVE  QueueOK' /\ InFlightOK' /\ CmdsOK'
<1> USE DEF wire, broker
<1>1. \A i \in DOMAIN queue : queue[i] \in Req
  BY DEF TypeOK
<1>2. QueueOK'
  BY <1>1, SMTT(60) DEF QueueOK
<1>3. InFlightOK'
  <2> SUFFICES ASSUME inFlight # None
               PROVE  InFlightOK'
    BY DEF InFlightOK
  <2>1. inFlight.req \in Req /\ At(inFlight.req, "sent")
    BY DEF TypeOK, QueueOK
  <2>2. req'[inFlight.req] = req[inFlight.req]
    BY <2>1
  <2> QED BY <2>2 DEF InFlightOK, Achieved
<1>4. CmdsOK'
  BY DEF CmdsOK
<1> QED BY <1>2, <1>3, <1>4

-----------------------------------------------------------------------------
(* The queries of a request. *)

(* A query that ends its request, or sends it to its catch block, or a new request. *)
LEMMA QueryStep ==
  ASSUME AdminInv, NEW r \in Req, UNCHANGED <<wire, broker, overlapped, misled, born>>, RowsStay,
         \A o \in Req \ {r} : req'[o] = req[o],
         ~At(r, "queued"), ~At(r, "sent"),
         \/ req'[r] = None
         \/ /\ RequestOK(req[r])' /\ TodoOK(req[r])' /\ SameWork(r)
            /\ req'[r].pc \in {"insert", "read", "unprovision"} /\ req'[r].todo = <<>>
  PROVE  RequestsOK' /\ QueueOK' /\ InFlightOK' /\ CmdsOK' /\ OverlapOK' /\ AccountsOK' /\ IssueOK'
<1> USE DEF AdminInv
<1>1. \A o \in Req : SameWork(o)
  BY DEF SameWork, Begun
<1>2. RequestsOK'
  BY RequestsFrame
<1>3. QueueOK' /\ InFlightOK' /\ CmdsOK'
  <2>1. ~At(r, "queued")' /\ ~At(r, "sent")'
    BY DEF At
  <2>2. \A o \in Req : /\ At(o, "queued")' <=> At(o, "queued")
                       /\ At(o, "sent")' <=> At(o, "sent")
                       /\ At(o, "sent") => req'[o] = req[o]
    BY <2>1 DEF At
  <2> QED BY <2>2, WaitFrame
<1>4. OverlapOK'
  BY <1>1, OverlapFrame
<1>5. BrokerIdle /\ Grown
  BY DEF BrokerIdle, Grown, broker, wire
<1>6. AccountsOK'
  <2>1. \A o \in Req : Begun(o)' /\ Removed(req[o])' => Removed(req[o])
    BY DEF Removed, Removing, Begun
  <2> QED BY <1>1, <1>5, <2>1, AccountsFrame, DevicesStay
<1>7. IssueOK'
  <2>1. ASSUME NEW o \in Req, Begun(o)', req'[o].kind = "issue", Progress(req[o])
        PROVE  Progress(req[o])'
    <3>1. o # r
      BY <1>2, <2>1 DEF RequestsOK, RequestOK, Begun
    <3>2. req'[o] = req[o] /\ req[o] \in CarRequest /\ req[o].dev \in Device
      BY <2>1, <3>1 DEF TypeOK, Begun, RequestsOK, RequestOK, CarRequest
    <3> QED BY <1>5, <2>1, <3>2, ProgressStays
  <2> QED BY <1>1, <1>5, <2>1, IssueFrame
<1> QED BY <1>2, <1>3, <1>4, <1>6, <1>7

LEMMA AskStep ==
  ASSUME AdminInv, NEW k \in {"create", "issue", "remove", "rename"}, NEW c \in Car \cup {None},
         NEW d \in Device \cup {None}, k # "create" => c \in Car,
         k \in {"create", "rename"} <=> d # None, Ask(k, c, d)
  PROVE  AdminInv'
<1>1. PICK r \in Req : r = FreeReq /\ req[r] = None
  BY FreeReqIsFree DEF Ask
<1> DEFINE q == [ kind |-> k, car |-> c, dev |-> IF k = "create" THEN d ELSE None,
                  new |-> IF k = "rename" THEN d ELSE None, todo |-> <<>>,
                  pc |-> IF k = "create" THEN "insert" ELSE "read" ]
<1>2. req[r] = None
  BY <1>1
<1>3. TypeOK /\ req' = [req EXCEPT ![r] = q] /\ UNCHANGED <<row, born, wire, broker, history, faults, late>>
      /\ asks' = asks + 1
  BY <1>1 DEF Ask, AdminInv
<1>4. q \in CarRequest /\ <<>> \in Seq(Command)
  BY DEF CarRequest
<1>5. RequestOK(q)' /\ TodoOK(q)
  BY <1>3, NoneAssumption DEF RequestOK, TodoOK, Ask
<1>6. q.kind = k /\ q.todo = <<>> /\ q.pc = IF k = "create" THEN "insert" ELSE "read"
  OBVIOUS
<1>7. req'[r] = q /\ (\A o \in Req \ {r} : req'[o] = req[o]) /\ q # None
  BY <1>2, <1>3, <1>4, NoneAssumption DEF TypeOK
<1> HIDE DEF q
<1>8. TypeOK'
  BY <1>2, <1>3, <1>4 DEF TypeOK, wire, broker, history
<1>9. RequestsOK' /\ QueueOK' /\ InFlightOK' /\ CmdsOK' /\ OverlapOK' /\ AccountsOK' /\ IssueOK'
  <2>1. RowsStay /\ UNCHANGED <<wire, broker, overlapped, misled, born>>
    BY <1>3 DEF RowsStay, history
  <2>2. ~At(r, "queued") /\ ~At(r, "sent")
    BY <1>2 DEF At
  <2>3. SameWork(r) /\ req'[r].pc \in {"insert", "read"} /\ req'[r].todo = <<>>
    BY <1>6, <1>7 DEF SameWork, Begun
  <2>4. RequestOK(req[r])' /\ TodoOK(req[r])'
    BY <1>5, <1>6, <1>7 DEF RequestOK, TodoOK
  <2> QED BY <1>2, <1>6, <1>7, <2>1, <2>2, <2>3, <2>4, QueryStep
<1>10. RowsOK'
  <2>1. CASE k # "create"
    <3>1. RowsStay
      BY <1>3 DEF RowsStay
    <3>2. \A o \in Req : At(o, "insert")' => At(o, "insert")
      BY <1>2, <1>6, <1>7, <2>1 DEF At
    <3> QED BY <1>3, <3>1, <3>2, RowsFrame DEF AdminInv
  <2>2. CASE k = "create"
    <3>1. Creating' = Creating \cup {r} /\ r \notin Creating
      BY <1>2, <1>6, <1>7, <2>2 DEF Creating
    <3>2. Cardinality(Creating') = Cardinality(Creating) + 1
      BY <3>1, CreatingFinite, FS_AddElement
    <3>3. Cardinality(born) + Cardinality(Creating) < Cardinality(Car)
      BY <2>2 DEF Ask
    <3>4. Cardinality(born) \in Nat /\ Cardinality(Car) \in Nat /\ Cardinality(Creating) \in Nat
      <4>1. IsFiniteSet(Car) /\ born \in SUBSET Car
        BY <1>3, AdminAssumption DEF AdminAssumption, TypeOK
      <4> QED BY <4>1, CreatingFinite, FS_Subset, FS_CardinalityType
    <3>5. (Cardinality(born) + Cardinality(Creating) <= Cardinality(Car))'
      BY <1>3, <3>2, <3>3, <3>4
    <3> QED BY <1>3, <3>5 DEF RowsOK, Taken, AdminInv
  <2> QED BY <2>1, <2>2
<1>11. ProvisionedOK'
  <2>1. \A o \in Req : Answered(o)
    BY <1>2, <1>6, <1>7 DEF Answered, Begun, Removing
  <2>2. Grown /\ RowsStay /\ BrokerIdle /\ halfway' = halfway /\ row' = row
    BY <1>3 DEF Grown, RowsStay, BrokerIdle, history, broker, wire
  <2> QED BY <1>3, <2>1, <2>2, ProvisionedFrame, DevicesStay DEF AdminInv, TypeOK
<1> QED BY <1>8, <1>9, <1>10, <1>11 DEF AdminInv

(* The queries that end a request and leave the rows their deviceIds. *)
LEMMA StampStep ==
  ASSUME AdminInv, NEW r \in Req, Stamp(r)
  PROVE  AdminInv'
<1> USE DEF AdminInv
<1>1. /\ At(r, "stamp") /\ req[r] \in CarRequest /\ req[r] # None
      /\ UNCHANGED <<wire, broker, overlapped, misled, asks, late, born, faults>>
  BY DEF Stamp, At, Quiet, TypeOK
<1>2. req' = [req EXCEPT ![r] = None] /\ req'[r] = None /\ \A o \in Req \ {r} : req'[o] = req[o]
  BY DEF Stamp, End, TypeOK
<1>3. PICK c \in Car : c = req[r].car /\ req[r].kind = "issue" /\ req[r].todo = <<>> /\ Begun(r)
  BY <1>1 DEF RequestsOK, RequestOK, At, TypeOK, Begun
<1>4. /\ row' = IF row[c] = None THEN row ELSE [row EXCEPT ![c].prov = TRUE]
      /\ halfway' = halfway \ {c}
  BY <1>3 DEF Stamp
<1>5. row' \in [Car -> Row \cup {None}] /\ RowsStay /\ \A o \in Car \ {c} : row'[o] = row[o]
  <2>1. row \in [Car -> Row \cup {None}]
    BY DEF TypeOK
  <2>2. CASE row[c] = None
    BY <1>4, <2>1, <2>2 DEF RowsStay
  <2>3. CASE row[c] # None
    <3>1. row'[c] = [row[c] EXCEPT !.prov = TRUE] /\ row' = [row EXCEPT ![c] = row'[c]] /\ row[c] \in Row
      BY <1>4, <2>1, <2>3
    <3>2. row'[c] \in Row /\ row'[c].dev = row[c].dev
      BY <3>1 DEF Row
    <3> QED BY <2>1, <2>3, <3>1, <3>2, NoneAssumption DEF RowsStay
  <2> QED BY <2>2, <2>3
<1>6. TypeOK'
  BY <1>1, <1>2, <1>4, <1>5 DEF TypeOK, wire, broker
<1>7. RequestsOK' /\ QueueOK' /\ InFlightOK' /\ CmdsOK' /\ OverlapOK' /\ AccountsOK' /\ IssueOK'
  BY <1>1, <1>2, <1>5, QueryStep DEF At
<1>8. RowsOK'
  BY <1>1, <1>2, <1>5, RowsFrame DEF At
<1>9. ProvisionedOK'
  <2> SUFFICES ASSUME NEW o \in Car, row'[o] # None, row'[o].prov, o \notin halfway',
                      {o, row'[o].dev} \cap overlapped' = {}, ~misled',
                      \A p \in Req : Begun(p)' /\ Removing(req[p])' => req'[p].car # o
               PROVE  Sound(row[o].dev)'
    BY DEF ProvisionedOK
  <2>1. row[o] # None /\ row'[o].dev = row[o].dev /\ {o, row[o].dev} \cap overlapped = {} /\ ~misled
    BY <1>1, <1>5 DEF RowsStay
  <2>2. Sound(row[o].dev) => Sound(row[o].dev)'
    BY <1>1, <2>1 DEF Sound, Working, Spared, wire, broker
  <2>3. CASE o # c
    <3>1. row'[o] = row[o] /\ o \notin halfway
      BY <1>4, <1>5, <2>3
    <3>2. \A p \in Req : Begun(p) /\ Removing(req[p]) => req[p].car # o
      BY <1>2, <1>3 DEF Removing, Begun
    <3> QED BY <2>1, <2>2, <3>1, <3>2 DEF ProvisionedOK
  <2>4. CASE o = c
    <3>1. c \in Works(req[r])
      BY <1>3, NoneAssumption DEF Works
    <3>2. Alone(req[r]) /\ row[c].dev = req[r].dev
      BY <1>3, <2>1, <2>4, <3>1 DEF Alone, OverlapOK
    <3>3. Progress(req[r])
      BY <1>3, <2>1, <2>4, <3>2 DEF IssueOK
    <3>4. req[r].dev \in Device
      BY <1>1, <1>3 DEF RequestsOK, RequestOK, Begun, CarRequest
    <3>5. Sound(req[r].dev)
      <4>1. IssuePassword(req[r].dev) # <<>>
        BY <3>4, IssueTodo
      <4>2. DOMAIN req[r].todo = {}
        BY <1>3
      <4>3. /\ Spared(req[r].dev) /\ role[req[r].dev] # None /\ (\A t \in Topic : t \in role[req[r].dev])
            /\ account[req[r].dev] # None /\ account[req[r].dev].role /\ account[req[r].dev].usable
        BY <1>3, <3>3, <4>1, <4>2 DEF Progress
      <4>4. role[req[r].dev] = Topic
        BY <3>4, <4>3 DEF TypeOK
      <4>5. account[req[r].dev] \in Account
        BY <3>4, <4>3 DEF TypeOK
      <4>6. account[req[r].dev] = [role |-> TRUE, usable |-> TRUE]
        BY <4>3, <4>5 DEF Account
      <4> QED BY <4>3, <4>4, <4>6 DEF Sound, Working
    <3> QED BY <2>2, <2>4, <3>2, <3>5
  <2> QED BY <2>3, <2>4
<1> QED BY <1>6, <1>7, <1>8, <1>9

LEMMA MarkStep ==
  ASSUME AdminInv, NEW r \in Req, MarkUnprovisioned(r)
  PROVE  AdminInv'
<1> USE DEF AdminInv
<1>1. /\ At(r, "unprovision") /\ req[r] \in CarRequest /\ req[r] # None
      /\ UNCHANGED <<wire, broker, overlapped, misled, asks, late, born, halfway, faults>>
  BY DEF MarkUnprovisioned, At, Quiet, TypeOK
<1>2. req' = [req EXCEPT ![r] = None] /\ req'[r] = None /\ \A o \in Req \ {r} : req'[o] = req[o]
  BY DEF MarkUnprovisioned, End, TypeOK
<1>3. PICK c \in Car : c = req[r].car
  BY <1>1 DEF RequestsOK, RequestOK, At, TypeOK
<1>4. row' = IF row[c] = None THEN row ELSE [row EXCEPT ![c].prov = FALSE]
  BY <1>3 DEF MarkUnprovisioned
<1>5. /\ row' \in [Car -> Row \cup {None}] /\ RowsStay
      /\ \A o \in Car : row'[o] # None /\ row'[o].prov => row[o].prov /\ o # c
  <2>1. row \in [Car -> Row \cup {None}]
    BY DEF TypeOK
  <2>2. CASE row[c] = None
    BY <1>4, <2>1, <2>2 DEF RowsStay
  <2>3. CASE row[c] # None
    <3>1. row'[c] = [row[c] EXCEPT !.prov = FALSE] /\ row' = [row EXCEPT ![c] = row'[c]] /\ row[c] \in Row
      BY <1>4, <2>1, <2>3
    <3>2. row'[c] \in Row /\ row'[c].dev = row[c].dev /\ row'[c].prov = FALSE
      BY <3>1 DEF Row
    <3> QED BY <2>1, <2>3, <3>1, <3>2, NoneAssumption DEF RowsStay
  <2> QED BY <2>2, <2>3
<1>6. TypeOK'
  BY <1>1, <1>2, <1>5 DEF TypeOK, wire, broker
<1>7. RequestsOK' /\ QueueOK' /\ InFlightOK' /\ CmdsOK' /\ OverlapOK' /\ AccountsOK' /\ IssueOK'
  BY <1>1, <1>2, <1>5, QueryStep DEF At
<1>8. RowsOK'
  BY <1>1, <1>2, <1>5, RowsFrame DEF At
<1>9. ProvisionedOK'
  <2>1. \A o \in Req : Answered(o)
    BY <1>2, <1>3, <1>5 DEF Answered, Begun, Removing
  <2>2. Grown /\ BrokerIdle
    BY <1>1 DEF Grown, BrokerIdle, broker, wire
  <2> QED BY <1>1, <1>5, <2>1, <2>2, ProvisionedFrame, DevicesStay DEF TypeOK
<1> QED BY <1>6, <1>7, <1>8, <1>9

(* A query comes to nothing: it fails, or finds no row or a device that is taken. *)
LEMMA AbandonStep ==
  ASSUME AdminInv, NEW r \in Req, req[r] # None,
         req[r].pc \in {"insert", "read", "stamp", "delete", "rename", "unprovision"},
         UNCHANGED row, UNCHANGED born, Quiet, faults' \in Nat,
         IF req[r].pc = "rename" THEN req' = [req EXCEPT ![r].pc = "unprovision"] ELSE End(r),
         halfway' = IF req[r].pc \in {"delete", "unprovision"} THEN halfway \cup {req[r].car}
                    ELSE halfway
  PROVE  AdminInv'
<1> USE DEF AdminInv
<1> DEFINE q == [req[r] EXCEPT !.pc = "unprovision"]
<1>1. /\ req[r] \in CarRequest /\ req[r] # None /\ RequestOK(req[r]) /\ TodoOK(req[r])
      /\ UNCHANGED <<row, wire, broker, overlapped, misled, asks, late, born>>
      /\ req[r].pc \in {"insert", "read", "stamp", "delete", "rename", "unprovision"}
  BY DEF Quiet, TypeOK, RequestsOK
<1>2. /\ \A o \in Req \ {r} : req'[o] = req[o]
      /\ \/ req' = [req EXCEPT ![r] = None] /\ req'[r] = None /\ req[r].pc # "rename"
         \/ req[r].pc = "rename" /\ req' = [req EXCEPT ![r] = q] /\ req'[r] = q
  BY <1>1 DEF End, TypeOK
<1>3. /\ q \in CarRequest /\ q.kind = req[r].kind /\ q.car = req[r].car /\ q.dev = req[r].dev
      /\ q.new = req[r].new /\ q.todo = req[r].todo /\ q.pc = "unprovision"
  BY <1>1 DEF CarRequest
<1>4. /\ halfway' = IF req[r].pc \in {"delete", "unprovision"} THEN halfway \cup {req[r].car} ELSE halfway
      /\ req[r].pc # "insert" => req[r].car \in Car
  BY <1>1 DEF RequestOK, TypeOK
<1>5. RowsStay /\ req[r].todo = <<>> /\ ~At(r, "queued") /\ ~At(r, "sent")
  BY <1>1 DEF RowsStay, RequestOK, At
<1> HIDE DEF q
<1>6. TypeOK'
  BY <1>1, <1>2, <1>3, <1>4 DEF TypeOK, wire, broker
<1>7. req'[r] = None \/
       (/\ RequestOK(req[r])' /\ TodoOK(req[r])' /\ SameWork(r)
        /\ req'[r].pc = "unprovision" /\ req'[r].todo = <<>>)
  <2> SUFFICES ASSUME req[r].pc = "rename", req'[r] = q
               PROVE  /\ RequestOK(req[r])' /\ TodoOK(req[r])' /\ SameWork(r)
                      /\ req'[r].pc = "unprovision" /\ req'[r].todo = <<>>
    BY <1>2
  <2> QED BY <1>1, <1>3, <1>5 DEF RequestOK, TodoOK, SameWork, Begun
<1>8. RequestsOK' /\ QueueOK' /\ InFlightOK' /\ CmdsOK' /\ OverlapOK' /\ AccountsOK' /\ IssueOK'
  BY <1>1, <1>2, <1>5, <1>7, QueryStep
<1>9. RowsOK'
  BY <1>1, <1>2, <1>3, <1>5, RowsFrame DEF At
<1>10. ProvisionedOK'
  <2>1. \A o \in Req : Answered(o)
    <3>1. Answered(r)
      <4>1. CASE req[r].pc \in {"insert", "read", "stamp"}
        BY <1>1, <4>1 DEF Answered, Begun, Removing, RequestOK
      <4>2. CASE req[r].pc \in {"delete", "unprovision"}
        BY <1>4, <4>2 DEF Answered
      <4>3. CASE req[r].pc = "rename"
        <5>1. req'[r] = q
          BY <1>2, <4>3, NoneAssumption
        <5>2. Begun(r)' /\ (Removing(req[r]) => Removing(req[r])') /\ req'[r].car = req[r].car
          BY <1>3, <5>1, NoneAssumption DEF Begun, Removing
        <5> QED BY <5>2 DEF Answered
      <4> QED BY <1>1, <4>1, <4>2, <4>3
    <3> QED BY <1>2, <3>1 DEF Answered, Begun, Removing
  <2>2. Grown /\ BrokerIdle
    BY <1>1 DEF Grown, BrokerIdle, broker, wire
  <2> QED BY <1>1, <1>4, <1>5, <2>1, <2>2, ProvisionedFrame, DevicesStay DEF TypeOK
<1> QED BY <1>6, <1>8, <1>9, <1>10

LEMMA QueryFailsStep ==
  ASSUME AdminInv, NEW r \in Req, QueryFails(r)
  PROVE  AdminInv'
<1>1. faults' \in Nat
  BY DEF QueryFails, Fault, AdminInv, TypeOK
<1> QED BY <1>1, AbandonStep DEF QueryFails

(* A deviceId that is taken, and a car that is gone or has the deviceId it is to get. *)
LEMMA InsertTakenStep ==
  ASSUME AdminInv, NEW r \in Req, Insert(r), Taken(req[r].dev, None)
  PROVE  AdminInv'
<1>1. /\ At(r, "insert") /\ End(r) /\ UNCHANGED <<row, born, halfway, faults>> /\ Quiet
  BY DEF Insert
<1> QED BY <1>1, AbandonStep DEF At, AdminInv, TypeOK

LEMMA ReadNothingStep ==
  ASSUME AdminInv, NEW r \in Req, At(r, "read"), End(r), UNCHANGED <<row, born, halfway, faults>>, Quiet
  PROVE  AdminInv'
BY AbandonStep DEF At, AdminInv, TypeOK

LEMMA RenameCaughtStep ==
  ASSUME AdminInv, NEW r \in Req, At(r, "rename"), UNCHANGED row,
         req' = [req EXCEPT ![r].pc = "unprovision"], UNCHANGED <<born, halfway, faults>>, Quiet
  PROVE  AdminInv'
BY AbandonStep DEF At, AdminInv, TypeOK

(* The row goes, or takes the new name, once the account of the old one has gone. *)
LEMMA RowLeaves ==
  ASSUME AdminInv, NEW r \in Req, At(r, "delete") \/ At(r, "rename"),
         req' = [req EXCEPT ![r] = None], NEW c \in Car, c = req[r].car, NEW x \in Row \cup {None},
         x # None => row[c] # None /\ x.dev = req[r].new /\ ~x.prov /\ ~Taken(req[r].new, c),
         row' = [row EXCEPT ![c] = x], UNCHANGED <<born, halfway, faults>>, Quiet
  PROVE  AdminInv'
<1> USE DEF AdminInv
<1>1. /\ req[r] \in CarRequest /\ req[r] # None /\ RequestOK(req[r]) /\ Begun(r) /\ Removed(req[r])
      /\ ~At(r, "queued") /\ ~At(r, "sent")
      /\ UNCHANGED <<wire, broker, overlapped, misled, asks, late>>
  BY DEF Quiet, TypeOK, RequestsOK, RequestOK, At, Begun, Removed, Removing
<1>2. /\ req'[r] = None /\ (\A p \in Req \ {r} : req'[p] = req[p])
      /\ row'[c] = x /\ (\A o \in Car \ {c} : row'[o] = row[o])
  BY DEF TypeOK
<1>3. TypeOK'
  BY <1>1, <1>2 DEF TypeOK, wire, broker
<1>4. RequestsOK'
  BY <1>2, RequestsFrame
<1>5. QueueOK' /\ InFlightOK' /\ CmdsOK'
  BY <1>1, <1>2, WaitFrame DEF At
<1>6. RowsOK'
  <2>1. (Cardinality(born) + Cardinality(Creating) <= Cardinality(Car))'
    BY <1>2, CreatingFrame DEF At
  <2>2. ASSUME NEW o \in Car, row'[o] # None
        PROVE  o \in born /\ ~Taken(row[o].dev, o)'
    <3>1. row[o] # None
      BY <1>2, <2>2
    <3>2. o \in born /\ ~Taken(row[o].dev, o)
      BY <3>1 DEF RowsOK
    <3>3. CASE o = c
      BY <1>2, <2>2, <3>2, <3>3 DEF Taken
    <3>4. CASE o # c
      BY <1>2, <3>1, <3>2, <3>4 DEF Taken
    <3> QED BY <3>3, <3>4
  <2> QED BY <2>1, <2>2 DEF RowsOK
<1>7. \A p \in Req : Begun(p)' => p # r /\ Begun(p) /\ req'[p] = req[p]
  BY <1>2 DEF Begun
<1>8. OverlapOK'
  <2>1. ASSUME NEW p \in Req, Begun(p)', req[p].car = c
        PROVE  Works(req[p]) \cap Works(req[r]) # {}
    BY <2>1, NoneAssumption DEF Works
  <2>2. ASSUME NEW p \in Req, Begun(p)'
        PROVE  /\ Alone(req[p])' => row'[req'[p].car] # None /\ row'[req'[p].car].dev = req'[p].dev
               /\ row'[req'[p].car] # None => row'[req'[p].car].dev \in overlapped' \cup {req'[p].dev}
    <3>1. req[p].car \in Car /\ req'[p] = req[p] /\ p # r /\ Begun(p) /\ (Alone(req[p])' <=> Alone(req[p]))
      BY <1>1, <1>7, <2>2 DEF RequestsOK, RequestOK, Begun, TypeOK, Alone
    <3>2. CASE req[p].car = c
      <4>1. ~Alone(req[p]) /\ ~Alone(req[r])
        BY <1>1, <2>1, <2>2, <3>1, <3>2 DEF OverlapOK
      <4>2. x # None => x.dev \in overlapped
        BY <4>1, NoneAssumption DEF Alone, Works, Row
      <4> QED BY <1>1, <1>2, <3>1, <3>2, <4>1, <4>2
    <3>3. CASE req[p].car # c
      <4>1. row'[req[p].car] = row[req[p].car]
        BY <1>2, <3>1, <3>3
      <4> QED BY <1>1, <3>1, <4>1 DEF OverlapOK
    <3> QED BY <3>2, <3>3
  <2>3. ASSUME NEW p \in Req, NEW o \in Req, Begun(p)', Begun(o)', p # o,
               Works(req[p])' \cap Works(req[o])' # {}
        PROVE  ~Alone(req[p])'
    <3>1. Works(req[p]) \cap Works(req[o]) # {} /\ req'[p] = req[p] /\ Begun(p) /\ Begun(o)
      BY <1>7, <2>3 DEF Works
    <3> QED BY <1>1, <2>3, <3>1 DEF OverlapOK, Alone
  <2> QED BY <2>2, <2>3 DEF OverlapOK
<1>9. AccountsOK'
  <2> SUFFICES ASSUME NEW d \in Device, d \notin overlapped, ~misled
               PROVE  /\ (\A o \in Car : row'[o] # None => row'[o].dev # d) => Unusable(d)'
                      /\ \A p \in Req : Begun(p)' /\ req'[p].dev = d /\ Removed(req[p])' => Unusable(d)'
    BY <1>1 DEF AccountsOK
  <2>1. Unusable(d) => Unusable(d)'
    BY <1>1 DEF Unusable, broker, wire
  <2>2. ASSUME \A o \in Car : row'[o] # None => row'[o].dev # d
        PROVE  Unusable(d)
    <3>1. CASE row[c] # None /\ row[c].dev = d
      <4>1. d = req[r].dev
        BY <1>1, <3>1 DEF OverlapOK
      <4> QED BY <1>1, <4>1 DEF AccountsOK
    <3>2. CASE ~(row[c] # None /\ row[c].dev = d)
      BY <1>2, <2>2, <3>2 DEF AccountsOK
    <3> QED BY <3>1, <3>2
  <2>3. ASSUME NEW p \in Req, Begun(p)', req'[p].dev = d, Removed(req[p])'
        PROVE  Unusable(d)
    <3>1. Begun(p) /\ req[p].dev = d /\ Removed(req[p])
      BY <1>7, <2>3 DEF Removed, Removing
    <3> QED BY <3>1 DEF AccountsOK
  <2> QED BY <2>1, <2>2, <2>3
<1>10. BrokerIdle /\ Grown
  BY <1>1 DEF BrokerIdle, Grown, broker, wire
<1>11. IssueOK'
  <2>1. ASSUME NEW p \in Req, Begun(p)', Progress(req[p])
        PROVE  Progress(req[p])'
    <3>1. req'[p] = req[p] /\ req[p].dev \in Device
      BY <1>7, <2>1 DEF TypeOK, Begun, RequestsOK, RequestOK, CarRequest
    <3> QED BY <1>10, <2>1, <3>1, ProgressStays
  <2>2. \A p \in Req : SameWork(p)
    BY <1>7 DEF SameWork
  <2> QED BY <1>10, <2>1, <2>2, IssueFrame
<1>12. ProvisionedOK'
  <2> SUFFICES ASSUME NEW o \in Car, row'[o] # None, row'[o].prov, o \notin halfway,
                      {o, row'[o].dev} \cap overlapped = {}, ~misled,
                      \A p \in Req : Begun(p)' /\ Removing(req[p])' => req'[p].car # o
               PROVE  Sound(row[o].dev)'
    BY <1>1 DEF ProvisionedOK
  <2>1. o # c /\ row'[o] = row[o]
    BY <1>2
  <2>2. \A p \in Req : Begun(p) /\ Removing(req[p]) => req[p].car # o
    BY <1>2, <2>1 DEF Begun, Removing
  <2>3. Sound(row[o].dev)
    BY <2>1, <2>2 DEF ProvisionedOK
  <2> QED BY <1>1, <2>1, <2>3 DEF Sound, Spared, Working, broker, wire
<1> QED BY <1>3, <1>4, <1>5, <1>6, <1>8, <1>9, <1>11, <1>12

LEMMA DeleteRowStep ==
  ASSUME AdminInv, NEW r \in Req, DeleteRow(r)
  PROVE  AdminInv'
<1>1. At(r, "delete") /\ req[r].car \in Car
  BY DEF DeleteRow, AdminInv, TypeOK, RequestsOK, RequestOK, At
<1>2. /\ row' = [row EXCEPT ![req[r].car] = None] /\ req' = [req EXCEPT ![r] = None]
      /\ UNCHANGED <<born, halfway, faults>> /\ Quiet
  BY DEF DeleteRow, End
<1> QED BY <1>1, <1>2, RowLeaves

LEMMA RenameStep ==
  ASSUME AdminInv, NEW r \in Req, Rename(r)
  PROVE  AdminInv'
<1>1. At(r, "rename") /\ req[r].car \in Car /\ req[r].new \in Device
  BY DEF Rename, AdminInv, TypeOK, RequestsOK, RequestOK, At, CarRequest
<1> DEFINE c == req[r].car
           x == Renamed(row[c], req[r].new)
<1>2. CASE row[c] # None /\ ~Taken(req[r].new, c) /\ row' = [row EXCEPT ![c] = x] /\ End(r)
  <2>1. row[c] \in Row
    BY <1>1, <1>2 DEF AdminInv, TypeOK
  <2>2. x \in Row /\ x.dev = req[r].new /\ ~x.prov
    BY <1>1, <2>1 DEF Row, Renamed
  <2>3. req' = [req EXCEPT ![r] = None] /\ UNCHANGED <<born, halfway, faults>> /\ Quiet
    BY <1>2 DEF Rename, End
  <2> HIDE DEF c, x
  <2> QED BY <1>1, <1>2, <2>2, <2>3, RowLeaves DEF c
<1>3. CASE req' = [req EXCEPT ![r].pc = "unprovision"] /\ UNCHANGED row
  BY <1>1, <1>3, RenameCaughtStep DEF Rename
<1> QED BY <1>2, <1>3 DEF Rename

(* A request begins on the row it has read, or made. *)
LEMMA BeginStep ==
  ASSUME AdminInv, NEW r \in Req, At(r, "insert") \/ At(r, "read"),
         NEW q \in CarRequest, Begin(r, q), q.pc = "queued", RequestOK(q)', TodoOK(q), ~Removed(q),
         q.kind = "issue" => q.todo = IssuePassword(q.dev),
         born \subseteq born', born' \subseteq Car, row' \in [Car -> Row \cup {None}], RowsOK',
         row'[q.car] # None, row'[q.car].dev = q.dev,
         \A o \in Car : row'[o] = row[o] \/ (o \notin born /\ (row'[o] # None => ~row'[o].prov))
  PROVE  AdminInv'
<1> USE DEF AdminInv
<1>1. /\ req' = [req EXCEPT ![r] = q] /\ queue' = Append(queue, r) /\ overlapped' = Overlaps(r, q)
      /\ UNCHANGED <<inFlight, connected, cmdq, respq, broker, halfway, misled, asks, faults, late>>
      /\ ~Begun(r) /\ ~At(r, "queued") /\ ~At(r, "sent")
  BY DEF Begin, At, Begun
<1>2. /\ req'[r] = q /\ (\A p \in Req \ {r} : req'[p] = req[p]) /\ q # None /\ Begun(r)'
  BY <1>1, NoneAssumption DEF TypeOK, Begun
<1>3. \A p \in Req : Begun(p) => p # r /\ req'[p] = req[p] /\ Begun(p)' /\ req[p] \in CarRequest
  BY <1>1, <1>2 DEF Begun, TypeOK
<1>4. \A p \in Req : Begun(p)' => p = r \/ (p # r /\ Begun(p) /\ req'[p] = req[p])
  BY <1>2 DEF Begun
<1>5. q.car \in Car /\ q.dev \in Device /\ q.todo # <<>>
  BY DEF RequestOK, CarRequest
<1>6. overlapped \subseteq overlapped'
      /\ \A p \in Req \ {r} : Meets(q, p) => Works(q) \subseteq overlapped' /\ Works(req[p]) \subseteq overlapped'
  BY <1>1 DEF Overlaps
<1>7. \A o \in Car : row[o] # None => row'[o] = row[o]
  BY DEF RowsOK
<1>8. TypeOK'
  <2>1. \A p \in CarRequest : Works(p) \subseteq Car \cup Device
    BY DEF Works, CarRequest
  <2>2. overlapped' \subseteq Car \cup Device
    BY <1>1, <1>3, <2>1 DEF Overlaps, Meets, TypeOK
  <2> QED BY <1>1, <2>2 DEF TypeOK, broker
<1>9. RequestsOK'
  BY <1>2, RequestsFrame DEF RequestOK, TodoOK
<1>10. queue \in Seq(Req) /\ \A i \in DOMAIN queue : queue[i] \in Req \ {r}
  BY <1>1 DEF QueueOK, TypeOK
<1>11. QueueOK'
  <2>1. /\ DOMAIN queue' = 1 .. Len(queue) + 1 /\ DOMAIN queue = 1 .. Len(queue) /\ Len(queue) \in Nat
        /\ queue'[Len(queue) + 1] = r /\ \A i \in DOMAIN queue : queue'[i] = queue[i]
    BY <1>1, <1>10
  <2>2. At(r, "queued")'
    BY <1>2 DEF At
  <2>3. \A p \in Req \ {r} : (At(p, "queued")' <=> At(p, "queued")) /\ (At(p, "sent")' <=> At(p, "sent"))
    BY <1>2 DEF At
  <2>4. \A i \in DOMAIN queue' : At(queue[i], "queued")'
    BY <1>10, <2>1, <2>2, <2>3 DEF QueueOK
  <2>5. ASSUME NEW i \in DOMAIN queue', NEW j \in DOMAIN queue', queue'[i] = queue'[j]
        PROVE  i = j
    BY <1>10, <2>1, <2>5 DEF QueueOK
  <2>6. ASSUME NEW p \in Req, At(p, "queued")'
        PROVE  \E i \in DOMAIN queue' : queue'[i] = p
    <3>1. CASE p = r
      <4>1. Len(queue) + 1 \in DOMAIN queue'
        BY <2>1
      <4> QED BY <2>1, <3>1, <4>1
    <3>2. CASE p # r
      BY <2>1, <2>3, <2>6, <3>2 DEF QueueOK
    <3> QED BY <3>1, <3>2
  <2>7. ASSUME NEW p \in Req
        PROVE  At(p, "sent")' <=> inFlight' # None /\ inFlight'.req = p
    BY <1>1, <1>2, <2>3 DEF QueueOK, At
  <2> QED BY <2>4, <2>5, <2>6, <2>7 DEF QueueOK
<1>12. InFlightOK' /\ CmdsOK'
  <2>1. CmdsOK'
    BY <1>1, SMTT(60) DEF CmdsOK
  <2>2. ASSUME inFlight # None
        PROVE  InFlightOK'
    <3>1. inFlight.req \in Req /\ At(inFlight.req, "sent")
      BY <2>2 DEF TypeOK, QueueOK
    <3>2. req'[inFlight.req] = req[inFlight.req]
      BY <1>1, <1>2, <3>1
    <3> QED BY <1>1, <3>2 DEF InFlightOK, Achieved, broker
  <2> QED BY <1>1, <2>1, <2>2 DEF InFlightOK
<1>13. OverlapOK'
  <2>1. \A p \in Req : Begun(p) /\ ~Alone(req[p]) => ~Alone(req[p])'
    BY <1>3, <1>6 DEF Alone, Works
  <2>2. ASSUME NEW p \in Req, NEW o \in Req, Begun(p)', Begun(o)', p # o,
               Works(req[p])' \cap Works(req[o])' # {}
        PROVE  ~Alone(req[p])'
    <3>1. CASE p # r /\ o # r
      BY <1>4, <2>1, <2>2, <3>1 DEF OverlapOK, Works
    <3>2. CASE p = r
      <4>1. Meets(q, o)
        BY <1>2, <1>4, <2>2, <3>2 DEF Meets, Works
      <4> QED BY <1>2, <1>6, <2>2, <3>2, <4>1 DEF Alone, Works
    <3>3. CASE o = r
      <4>1. Meets(q, p)
        BY <1>2, <1>4, <2>2, <3>3 DEF Meets, Works
      <4> QED BY <1>4, <1>6, <2>2, <3>3, <4>1 DEF Alone, Works
    <3> QED BY <3>1, <3>2, <3>3
  <2>3. ASSUME NEW p \in Req, Begun(p)'
        PROVE  /\ Alone(req[p])' => row'[req'[p].car] # None /\ row'[req'[p].car].dev = req'[p].dev
               /\ row'[req'[p].car] # None => row'[req'[p].car].dev \in overlapped' \cup {req'[p].dev}
    <3>1. CASE p = r
      BY <1>2, <3>1
    <3>2. CASE p # r
      <4>1. Begun(p) /\ req'[p] = req[p] /\ req[p].car \in born /\ req[p].car \in Car
        BY <1>4, <2>3, <3>2 DEF RequestsOK, RequestOK, Begun, TypeOK
      <4>2. row'[req[p].car] = row[req[p].car]
        BY <4>1
      <4> QED BY <1>6, <2>1, <4>1, <4>2 DEF OverlapOK
    <3> QED BY <3>1, <3>2
  <2> QED BY <2>2, <2>3 DEF OverlapOK
<1>14. \A d \in Device : /\ Unusable(d)' <=> Unusable(d)
                         /\ Sound(d)' <=> Sound(d)
  BY <1>1 DEF Unusable, Sound, Spared, Working, broker
<1>15. AccountsOK'
  <2> SUFFICES ASSUME NEW d \in Device, d \notin overlapped', ~misled'
               PROVE  /\ (\A o \in Car : row'[o] # None => row'[o].dev # d) => Unusable(d)
                      /\ \A p \in Req : Begun(p)' /\ req'[p].dev = d /\ Removed(req[p])' => Unusable(d)
    BY <1>14 DEF AccountsOK
  <2>1. d \notin overlapped /\ ~misled
    BY <1>1, <1>6
  <2>2. ASSUME \A o \in Car : row'[o] # None => row'[o].dev # d
        PROVE  Unusable(d)
    BY <1>7, <2>1, <2>2 DEF AccountsOK
  <2>3. ASSUME NEW p \in Req, Begun(p)', req'[p].dev = d, Removed(req[p])'
        PROVE  Unusable(d)
    <3>1. p # r
      BY <1>2, <2>3 DEF Removed, Removing
    <3>2. Begun(p) /\ req[p].dev = d /\ Removed(req[p])
      BY <1>4, <2>3, <3>1 DEF Removed, Removing
    <3> QED BY <2>1, <3>2 DEF AccountsOK
  <2> QED BY <2>2, <2>3
<1>16. IssueOK'
  <2> SUFFICES ASSUME NEW p \in Req, Begun(p)', req'[p].kind = "issue", req'[p].dev \notin overlapped', ~misled'
               PROVE  Progress(req[p])'
    BY DEF IssueOK
  <2>1. CASE p = r
    <3>1. q.todo = IssuePassword(q.dev)
      BY <1>2, <2>1
    <3>2. (q.todo = IssuePassword(q.dev))'
      BY <3>1 DEF IssuePassword, EnsureCar, Cmd
    <3> QED BY <1>2, <2>1, <3>2 DEF Progress
  <2>2. CASE p # r
    <3>1. Begun(p) /\ req'[p] = req[p] /\ req[p].dev \in Device
      BY <1>4, <2>2 DEF Begun, RequestsOK, RequestOK, TypeOK, CarRequest
    <3>2. Progress(req[p])
      BY <1>1, <1>6, <3>1 DEF IssueOK
    <3>3. BrokerIdle
      BY <1>1 DEF BrokerIdle, broker
    <3> QED BY <3>1, <3>2, <3>3, ProgressStays
  <2> QED BY <2>1, <2>2
<1>17. ProvisionedOK'
  <2> SUFFICES ASSUME NEW o \in Car, row'[o] # None, row'[o].prov, o \notin halfway,
                      {o, row'[o].dev} \cap overlapped' = {}, ~misled,
                      \A p \in Req : Begun(p)' /\ Removing(req[p])' => req'[p].car # o
               PROVE  Sound(row[o].dev)'
    BY <1>1 DEF ProvisionedOK
  <2>1. row'[o] = row[o]
    OBVIOUS
  <2>2. \A p \in Req : Begun(p) /\ Removing(req[p]) => req[p].car # o
    BY <1>3 DEF Removing
  <2>3. Sound(row[o].dev)
    BY <1>6, <2>1, <2>2 DEF ProvisionedOK
  <2> QED BY <1>1, <2>1, <2>3 DEF Sound, Spared, Working, broker
<1> QED BY <1>8, <1>9, <1>11, <1>12, <1>13, <1>15, <1>16, <1>17

LEMMA InsertStep ==
  ASSUME AdminInv, NEW r \in Req, Insert(r)
  PROVE  AdminInv'
<1> USE DEF AdminInv
<1> DEFINE k == CHOOSE c \in Car : c \notin born
<1>1. CASE Taken(req[r].dev, None)
  BY <1>1, InsertTakenStep
<1>2. CASE ~Taken(req[r].dev, None)
  <2>1. PICK c \in Car \ born : c = k
    BY IdLeft DEF Insert
  <2>2. PICK d \in Device : d = req[r].dev
    BY DEF Insert, At, RequestsOK, RequestOK, TypeOK, CarRequest
  <2>3. /\ At(r, "insert") /\ req[r] \in CarRequest /\ req[r].kind = "create" /\ req[r].new = None
    BY DEF Insert, At, RequestsOK, RequestOK, TypeOK
  <2>4. EnsureCar(d) \in Seq(Command) /\ EnsureCar(d) # <<>>
    BY EnsureTodo
  <2>5. PICK q \in CarRequest :
          /\ q = [req[r] EXCEPT !.car = c, !.pc = "queued", !.todo = EnsureCar(d)]
          /\ q.car = c /\ q.pc = "queued" /\ q.dev = d /\ q.kind = "create"
          /\ q.new = None /\ q.todo = EnsureCar(d)
    <3> DEFINE x == [req[r] EXCEPT !.car = c, !.pc = "queued", !.todo = EnsureCar(d)]
    <3>1. /\ x \in CarRequest /\ x.car = c /\ x.pc = "queued" /\ x.dev = d /\ x.kind = "create"
          /\ x.new = None /\ x.todo = EnsureCar(d)
      BY <2>2, <2>3, <2>4 DEF CarRequest
    <3> HIDE DEF x
    <3>2. PICK q \in CarRequest : q = x
      BY <3>1
    <3> QED BY <3>1, <3>2 DEF x
  <2>6. /\ row' = [row EXCEPT ![c] = [dev |-> d, prov |-> FALSE]] /\ born' = born \cup {c} /\ Begin(r, q)
    BY <1>2, <2>1, <2>2, <2>5 DEF Insert
  <2> HIDE DEF k
  <2>7. RequestOK(q)' /\ TodoOK(q) /\ ~Removed(q)
    <3>1. RequestOK(q)'
      BY <2>6, <2>4, <2>5, NoneAssumption DEF RequestOK
    <3>2. TodoOK(q)
      BY <2>5, EnsureTodoOK
    <3> QED BY <2>5, <3>1, <3>2 DEF Removed, Removing
  <2>8. [dev |-> d, prov |-> FALSE] \in Row /\ [dev |-> d, prov |-> FALSE] # None
    <3>1. [dev |-> d, prov |-> FALSE] \in Row
      BY DEF Row
    <3> QED BY <3>1, NoneAssumption
  <2>9. /\ row' \in [Car -> Row \cup {None}] /\ row'[c] = [dev |-> d, prov |-> FALSE]
        /\ \A o \in Car \ {c} : row'[o] = row[o]
    BY <2>1, <2>6, <2>8 DEF TypeOK
  <2>10. born \subseteq born' /\ born' \subseteq Car
    BY <2>6 DEF TypeOK
  <2>11. RowsOK'
    <3>1. req'[r] = q /\ \A p \in Req \ {r} : req'[p] = req[p]
      BY <2>6, <2>5 DEF Begin, TypeOK
    <3>2. Creating' = Creating \ {r} /\ r \in Creating
      BY <2>3, <2>5, <3>1, ZenonT(120) DEF Creating, At
    <3>3. born \in SUBSET Car /\ IsFiniteSet(Car)
      BY AdminAssumption DEF AdminAssumption, TypeOK
    <3>4. IsFiniteSet(born) /\ IsFiniteSet(Creating)
      BY <3>3, FS_Subset, CreatingFinite
    <3>5. Cardinality(born') = Cardinality(born) + 1 /\ Cardinality(Creating') = Cardinality(Creating) - 1
      BY <2>1, <2>6, <3>2, <3>4, FS_AddElement, FS_RemoveElement
    <3>6. Cardinality(born) \in Nat /\ Cardinality(Creating) \in Nat /\ Cardinality(Car) \in Nat
      BY <3>3, <3>4, FS_CardinalityType
    <3>7. (Cardinality(born) + Cardinality(Creating) <= Cardinality(Car))'
      BY <3>5, <3>6 DEF RowsOK
    <3>8. \A o \in Car : row[o] # None => row[o].dev # d
      BY <1>2, <2>2, NoneAssumption DEF Taken
    <3>9. \A o \in Car : row'[o] # None => o \in born' /\ ~Taken(row[o].dev, o)'
      BY <2>6, <2>8, <2>9, <3>8 DEF RowsOK, Taken
    <3> QED BY <3>7, <3>9 DEF RowsOK
  <2> QED BY <2>1, <2>3, <2>6, <2>5, <2>7, <2>8, <2>9, <2>10, <2>11, BeginStep, ZenonT(120)
<1> QED BY <1>1, <1>2

LEMMA ReadStep ==
  ASSUME AdminInv, NEW r \in Req, Read(r)
  PROVE  AdminInv'
<1> USE DEF AdminInv
<1> DEFINE x == row[req[r].car].dev
           todo == CASE req[r].kind = "issue"  -> IssuePassword(x)
                     [] req[r].kind = "remove" -> RemoveCar(x)
                     [] req[r].kind = "rename" -> RemoveCar(x) \o EnsureCar(req[r].new)
<1>1. /\ At(r, "read") /\ req[r] \in CarRequest /\ RequestOK(req[r]) /\ req[r].kind # "create"
      /\ req[r].car \in Car /\ req[r].car \in born
  BY DEF Read, At, RequestsOK, RequestOK, TypeOK
<1>2. CASE End(r) /\ UNCHANGED <<row, born, halfway, faults>> /\ Quiet
  BY <1>1, <1>2, ReadNothingStep
<1>3. CASE /\ row[req[r].car] # None /\ x # req[r].new
           /\ Begin(r, [req[r] EXCEPT !.pc = "queued", !.dev = x, !.todo = todo])
           /\ UNCHANGED <<row, born>>
  <2>1. PICK d \in Device : d = x
    BY <1>1, <1>3 DEF TypeOK, Row
  <2>2. IssuePassword(d) \in Seq(Command) /\ RemoveCar(d) \in Seq(Command)
        /\ IssuePassword(d) # <<>> /\ RemoveCar(d) # <<>>
    BY IssueTodo, RemoveTodo
  <2>3. req[r].kind = "rename" => req[r].new \in Device
    BY <1>1 DEF RequestOK, CarRequest
  <2>4. req[r].kind = "rename" => EnsureCar(req[r].new) \in Seq(Command) /\ EnsureCar(req[r].new) # <<>>
    BY <2>3, EnsureTodo
  <2>5. /\ req[r].kind = "issue" => todo = IssuePassword(d)
        /\ req[r].kind = "remove" => todo = RemoveCar(d)
        /\ req[r].kind = "rename" => todo = RemoveCar(d) \o EnsureCar(req[r].new)
    BY <2>1
  <2>6. req[r].kind \in {"issue", "remove", "rename"}
    BY <1>1 DEF CarRequest
  <2> HIDE DEF todo, x
  <2>7. todo \in Seq(Command)
    <3>1. req[r].kind = "rename" => RemoveCar(d) \o EnsureCar(req[r].new) \in Seq(Command)
      BY <2>2, <2>4, Concat
    <3> QED BY <2>2, <2>5, <2>6, <3>1
  <2>8. PICK q \in CarRequest :
          /\ q = [req[r] EXCEPT !.pc = "queued", !.dev = d, !.todo = todo]
          /\ q.kind = req[r].kind /\ q.car = req[r].car /\ q.dev = d
          /\ q.new = req[r].new /\ q.todo = todo /\ q.pc = "queued"
    <3> DEFINE y == [req[r] EXCEPT !.pc = "queued", !.dev = d, !.todo = todo]
    <3>1. /\ y \in CarRequest /\ y.kind = req[r].kind /\ y.car = req[r].car /\ y.dev = d
          /\ y.new = req[r].new /\ y.todo = todo /\ y.pc = "queued"
      BY <1>1, <2>7 DEF CarRequest
    <3> HIDE DEF y
    <3>2. PICK q \in CarRequest : q = y
      BY <3>1
    <3> QED BY <3>1, <3>2 DEF y
  <2>9. Begin(r, q) /\ UNCHANGED <<row, born>>
    BY <1>3, <2>1, <2>8
  <2>10. TodoOK(q) /\ q.todo # <<>> /\ (Removing(q) => Head(q.todo).name = "deleteClient")
    <3>1. CASE q.kind = "issue"
      BY <2>2, <2>5, <2>8, <3>1, IssueTodoOK DEF Removing
    <3>2. CASE q.kind = "remove"
      BY <2>2, <2>5, <2>8, <3>2, RemoveTodoOK
    <3>3. CASE q.kind = "rename"
      BY <2>3, <2>5, <2>8, <3>3, RenameTodoOK
    <3> QED BY <2>6, <2>8, <3>1, <3>2, <3>3
  <2>11. ~Removed(q)
    BY <2>8, <2>10 DEF Removed
  <2>12. RequestOK(q)'
    BY <1>1, <2>9, <2>8, <2>10, NoneAssumption DEF RequestOK
  <2>13. RowsOK'
    <3>1. RowsStay
      BY <2>9 DEF RowsStay
    <3>2. \A p \in Req : At(p, "insert")' => At(p, "insert")
      BY <2>9, <2>8 DEF At, Begin, TypeOK
    <3> QED BY <2>9, <3>1, <3>2, RowsFrame
  <2>14. row'[q.car] # None /\ row'[q.car].dev = q.dev
    BY <1>3, <2>1, <2>9, <2>8 DEF x
  <2>15. /\ row' \in [Car -> Row \cup {None}] /\ born \subseteq born' /\ born' \subseteq Car
         /\ \A o \in Car : row'[o] = row[o]
    BY <2>9 DEF TypeOK
  <2> QED BY <1>1, <2>9, <2>5, <2>8, <2>10, <2>11, <2>12, <2>13, <2>14, <2>15, BeginStep
<1> QED BY <1>2, <1>3 DEF Read

-----------------------------------------------------------------------------
(* A command comes to something. *)

LEMMA DownIsFailure ==
  ASSUME NEW name
  PROVE  ~Tolerated(name, "down")
BY DEF Tolerated

(* What is left to send once the first command is done. *)
Rest(q, holds) ==
  IF Head(q.todo).name = "getClient" /\ ~holds
  THEN <<Cmd("addClientRole", Head(q.todo).dev)>> \o Tail(q.todo) ELSE Tail(q.todo)

LEMMA RestCommands ==
  ASSUME NEW q \in CarRequest, q.todo # <<>>, NEW holds, q.dev \in Device
  PROVE  LET rest == Rest(q, holds)
             new == Head(q.todo).name = "getClient" /\ ~holds
         IN  /\ rest \in Seq(Command)
             /\ Head(q.todo) = q.todo[1] /\ 1 \in DOMAIN q.todo
             /\ \A i \in DOMAIN q.todo : i # 1 => \E j \in DOMAIN rest : rest[j] = q.todo[i]
             /\ \A j \in DOMAIN rest : \/ new /\ j = 1
                                       \/ \E i \in DOMAIN q.todo : i # 1 /\ rest[j] = q.todo[i]
             /\ new => 1 \in DOMAIN rest /\ rest[1] = Cmd("addClientRole", q.todo[1].dev)
<1> DEFINE t == q.todo
           a == Cmd("addClientRole", t[1].dev)
<1>1. /\ t \in Seq(Command) /\ t # <<>> /\ Head(t) = t[1] /\ 1 \in DOMAIN t /\ t[1] \in Command
      /\ Tail(t) \in Seq(Command) /\ DOMAIN Tail(t) = 1 .. Len(t) - 1 /\ DOMAIN t = 1 .. Len(t)
      /\ Len(t) \in Nat /\ Len(Tail(t)) = Len(t) - 1
      /\ \A j \in DOMAIN Tail(t) : Tail(t)[j] = t[j + 1]
  BY DEF CarRequest
<1>2. a \in Command
  BY <1>1 DEF Cmd, Command, Name
<1>3. CASE Head(t).name = "getClient" /\ ~holds
  <2> DEFINE rest == <<a>> \o Tail(t)
  <2>1. Rest(q, holds) = rest
    BY <1>1, <1>3 DEF Rest
  <2>2. <<a>> \in Seq(Command) /\ Len(<<a>>) = 1 /\ <<a>>[1] = a
    BY <1>2
  <2> HIDE DEF a
  <2>3. /\ rest \in Seq(Command) /\ Len(rest) = Len(t)
        /\ \A i \in 1 .. Len(t) : rest[i] = IF i <= 1 THEN <<a>>[i] ELSE Tail(t)[i - 1]
    BY <1>1, <2>2, Concat
  <2> HIDE DEF rest
  <2>4. /\ DOMAIN rest = DOMAIN t /\ rest[1] = a
        /\ \A i \in DOMAIN t : i # 1 => rest[i] = t[i]
    BY <1>1, <2>2, <2>3
  <2> QED BY <1>1, <1>3, <2>1, <2>3, <2>4 DEF a
<1>4. CASE ~(Head(t).name = "getClient" /\ ~holds)
  <2>1. Rest(q, holds) = Tail(t)
    BY <1>4 DEF Rest
  <2>2. ASSUME NEW i \in DOMAIN t, i # 1
        PROVE  \E j \in DOMAIN Tail(t) : Tail(t)[j] = t[i]
    <3>1. i - 1 \in DOMAIN Tail(t) /\ (i - 1) + 1 = i
      BY <1>1, <2>2
    <3> QED BY <1>1, <3>1
  <2>3. ASSUME NEW j \in DOMAIN Tail(t)
        PROVE  \E i \in DOMAIN t : i # 1 /\ Tail(t)[j] = t[i]
    <3>1. j + 1 \in DOMAIN t /\ j + 1 # 1
      BY <1>1
    <3> QED BY <1>1, <3>1
  <2>4. Tail(t) \in Seq(Command) /\ Head(t) = t[1] /\ 1 \in DOMAIN t
    BY <1>1
  <2> DEFINE rest == Rest(q, holds)
  <2>5. rest = Tail(t)
    BY <2>1
  <2> HIDE DEF a, rest
  <2> QED BY <1>4, <2>2, <2>3, <2>4, <2>5 DEF rest
<1> QED BY <1>3, <1>4

LEMMA RestOK ==
  ASSUME NEW q \in CarRequest, q.todo # <<>>, NEW holds, q.dev \in Device, TodoOK(q),
         NEW x \in CarRequest, x.kind = q.kind, x.dev = q.dev, x.new = q.new,
         x.todo = Rest(q, holds)
  PROVE  TodoOK(x)
<1>1. ASSUME NEW j \in DOMAIN x.todo, NEW i \in DOMAIN q.todo, i # 1, x.todo[j] = q.todo[i]
      PROVE  LET c == x.todo[j] IN
             /\ c.dev \in {x.dev, x.new}
             /\ x.kind = "issue" => c.dev = x.dev
             /\ x.kind = "remove" => Destroys(c)
             /\ c.name = "addRoleACL" => c.topic \in Topic
             /\ Destroys(c) => Removing(x) /\ c.dev = x.dev
             /\ c.name # "deleteClient"
             /\ c.name = "setClientPassword" => x.kind = "issue" /\ c.dev = x.dev
  BY <1>1 DEF TodoOK, Removing
<1>2. ASSUME NEW j \in DOMAIN x.todo, j = 1, q.todo[1].name = "getClient", 1 \in DOMAIN q.todo,
             x.todo[1] = Cmd("addClientRole", q.todo[1].dev)
      PROVE  LET c == x.todo[j] IN
             /\ c.dev \in {x.dev, x.new}
             /\ x.kind = "issue" => c.dev = x.dev
             /\ x.kind = "remove" => Destroys(c)
             /\ c.name = "addClientRole" /\ ~Destroys(c)
  <2>1. x.todo[j] = [name |-> "addClientRole", dev |-> q.todo[1].dev, topic |-> None]
    BY <1>2 DEF Cmd
  <2> QED BY <1>2, <2>1 DEF TodoOK, Destroys
<1> QED BY <1>1, <1>2, RestCommands, SMTT(60) DEF TodoOK

(* An issue starts with the role, and goes through all the rest. *)
LEMMA IssueHasAll ==
  ASSUME NEW q \in CarRequest, q.dev \in Device, q.todo = IssuePassword(q.dev)
  PROVE  LET Has(name) == \E i \in DOMAIN q.todo : q.todo[i].name = name IN
         /\ q.todo[1].name = "createRole"
         /\ \A t \in Topic : \E i \in DOMAIN q.todo : q.todo[i].name = "addRoleACL" /\ q.todo[i].topic = t
         /\ Has("createClient") /\ Has("getClient") /\ Has("setClientPassword")
<1> DEFINE d == q.dev
           n == Len(SetToSeq(Acl(d)))
           e == EnsureCar(d)
<1>1. /\ n \in Nat /\ e \in Seq(Command) /\ Len(e) = n + 3 /\ DOMAIN e = 1 .. n + 3
      /\ DOMAIN q.todo = 1 .. n + 4 /\ \A i \in DOMAIN e : q.todo[i] = e[i]
  <2>1. e \in Seq(Command) /\ q.todo \in Seq(Command) /\ Len(q.todo) = Len(e) + 1 /\ Len(e) = n + 3 /\ n \in Nat
    BY EnsureTodo, IssueTodo
  <2>2. \A i \in DOMAIN e : q.todo[i] = e[i]
    BY IssueTodo
  <2> HIDE DEF e, n
  <2> QED BY <2>1, <2>2
<1>2. /\ e[1] = Cmd("createRole", d) /\ e[Len(e) - 1] = Cmd("createClient", d)
      /\ e[Len(e)] = Cmd("getClient", d) /\ q.todo[Len(e) + 1] = Cmd("setClientPassword", d)
  BY EnsureTodo, IssueTodo
<1>3. ASSUME NEW t \in Topic
      PROVE  \E i \in DOMAIN q.todo : q.todo[i].name = "addRoleACL" /\ q.todo[i].topic = t
  <2>1. [name |-> "addRoleACL", dev |-> d, topic |-> t] \in Acl(d)
    BY DEF Acl
  <2>2. PICK j \in DOMAIN SetToSeq(Acl(d)) : SetToSeq(Acl(d))[j] = [name |-> "addRoleACL", dev |-> d, topic |-> t]
    BY <2>1, AclsListed
  <2>3. SetToSeq(Acl(d)) \in Seq(Acl(d))
    BY AclsListed
  <2>4. j \in 1 .. n
    BY <2>2, <2>3
  <2>5. e[j + 1] = [name |-> "addRoleACL", dev |-> d, topic |-> t]
    BY <2>2, <2>4, EnsureTodo
  <2> HIDE DEF e, n
  <2>6. j + 1 \in DOMAIN q.todo /\ q.todo[j + 1] = e[j + 1]
    BY <1>1, <2>4
  <2> QED BY <2>5, <2>6
<1> HIDE DEF e, n
<1>4. /\ q.todo[1] = Cmd("createRole", d) /\ q.todo[n + 2] = Cmd("createClient", d)
      /\ q.todo[n + 3] = Cmd("getClient", d) /\ q.todo[n + 4] = Cmd("setClientPassword", d)
      /\ n + 2 \in DOMAIN q.todo /\ n + 3 \in DOMAIN q.todo /\ n + 4 \in DOMAIN q.todo
  BY <1>1, <1>2
<1>5. \A name \in Name : Cmd(name, d).name = name
  BY DEF Cmd
<1> QED BY <1>3, <1>4, <1>5 DEF Name

(* The ways a command leaves its request: with more to send, with a query next, at its end,
   in its catch block, or broken off. *)
LEMMA CompletedCases ==
  ASSUME TypeOK, RequestsOK, NEW r \in Req, At(r, "queued") \/ At(r, "sent"), NEW q0, NEW result,
         NEW holds, Completed(r, q0, result, holds)
  PROVE  LET q == req[r]
             ok == Tolerated(Head(q.todo).name, result)
             Becomes(pc, todo) == /\ req' = [req EXCEPT ![r] = [q EXCEPT !.pc = pc, !.todo = todo]]
             Ends == req' = [req EXCEPT ![r] = None]
         IN \/ ok /\ Rest(q, holds) # <<>> /\ Becomes("queued", Rest(q, holds))
               /\ queue' = Append(q0, r) /\ UNCHANGED halfway
            \/ ok /\ Rest(q, holds) = <<>> /\ q.kind # "create" /\ Becomes(Finish(q.kind), <<>>)
               /\ queue' = q0 /\ UNCHANGED halfway
            \/ ok /\ q.kind = "create" /\ Ends /\ queue' = q0 /\ UNCHANGED halfway
            \/ ~ok /\ q.kind = "rename" /\ ~Destroys(Head(q.todo)) /\ Becomes("unprovision", <<>>)
               /\ queue' = q0 /\ UNCHANGED halfway
            \/ ~ok /\ (q.kind = "rename" => Destroys(Head(q.todo))) /\ Ends /\ queue' = q0
               /\ halfway' = IF Destroys(Head(q.todo)) THEN halfway \cup {q.car} ELSE halfway
<1> DEFINE q == req[r]
<1>1. q \in CarRequest /\ (Finish(q.kind) = "done" <=> q.kind = "create")
  BY DEF At, TypeOK, CarRequest, Finish
<1>2. CASE Tolerated(Head(q.todo).name, result)
  <2>1. /\ queue' = IF Rest(q, holds) = <<>> THEN q0 ELSE Append(q0, r)
        /\ req' = [req EXCEPT ![r] =
             IF Rest(q, holds) # <<>> THEN [q EXCEPT !.pc = "queued", !.todo = Rest(q, holds)]
             ELSE IF Finish(q.kind) = "done" THEN None
             ELSE [q EXCEPT !.pc = Finish(q.kind), !.todo = <<>>]]
        /\ UNCHANGED halfway
    BY <1>2 DEF Completed, Rest
  <2> HIDE DEF q
  <2>2. CASE Rest(q, holds) # <<>>
    BY <1>2, <2>1, <2>2 DEF q
  <2>3. CASE Rest(q, holds) = <<>> /\ q.kind = "create"
    BY <1>1, <1>2, <2>1, <2>3 DEF q
  <2>4. CASE Rest(q, holds) = <<>> /\ q.kind # "create"
    BY <1>1, <1>2, <2>1, <2>4 DEF q
  <2> QED BY <2>2, <2>3, <2>4
<1>3. CASE ~Tolerated(Head(q.todo).name, result)
  <2>1. /\ req' = [req EXCEPT ![r] =
             IF q.kind = "rename" /\ ~Destroys(Head(q.todo))
             THEN [q EXCEPT !.pc = "unprovision", !.todo = <<>>] ELSE None]
        /\ halfway' = IF Destroys(Head(q.todo)) THEN halfway \cup {q.car} ELSE halfway
        /\ queue' = q0
    BY <1>3 DEF Completed, Destroys
  <2> HIDE DEF q
  <2>2. CASE q.kind = "rename" /\ ~Destroys(Head(q.todo))
    BY <1>3, <2>1, <2>2 DEF q
  <2>3. CASE ~(q.kind = "rename" /\ ~Destroys(Head(q.todo)))
    BY <1>3, <2>1, <2>3 DEF q
  <2> QED BY <2>2, <2>3
<1> QED BY <1>2, <1>3

(* A command that achieved what it was for takes the issue of a password on. *)
LEMMA ProgressOn ==
  ASSUME TypeOK, NEW q \in CarRequest, q.todo # <<>>, q.kind = "issue", q.dev \in Device, TodoOK(q),
         Progress(q), NEW holds, Achieved(Head(q.todo), holds), cmdq = <<>>, BrokerIdle,
         NEW x \in CarRequest, x.dev = q.dev, x.todo = Rest(q, holds)
  PROVE  Progress(x)'
<1> DEFINE d == q.dev
           c == q.todo[1]
           Has(t, name) == \E i \in DOMAIN t : t[i].name = name
           HasAcl(t, v) == \E i \in DOMAIN t : t[i].name = "addRoleACL" /\ t[i].topic = v
<1>1. /\ Head(q.todo) = c /\ 1 \in DOMAIN q.todo
      /\ \A i \in DOMAIN q.todo : i # 1 => \E j \in DOMAIN x.todo : x.todo[j] = q.todo[i]
      /\ c.name = "getClient" /\ ~holds => 1 \in DOMAIN x.todo /\ x.todo[1] = Cmd("addClientRole", c.dev)
  BY RestCommands
<1>2. c.dev = d
  BY <1>1 DEF TodoOK
<1>3. /\ c.name = "createRole" \/ role[d] # None
      /\ \A v \in Topic : HasAcl(q.todo, v) \/ v \in role[d]
      /\ account[d] # None \/ Has(q.todo, "createClient")
      /\ (account[d] # None /\ account[d].role) \/ Has(q.todo, "getClient") \/ Has(q.todo, "addClientRole")
      /\ (account[d] # None /\ account[d].usable) \/ Has(q.todo, "setClientPassword")
  <2>1. CASE q.todo = IssuePassword(d)
    BY <2>1, IssueHasAll
  <2>2. CASE q.todo # IssuePassword(d)
    BY <2>2 DEF Progress
  <2> QED BY <2>1, <2>2
<1>4. \A name : Has(q.todo, name) => c.name = name \/ Has(x.todo, name)
  BY <1>1
<1>5. \A v \in Topic : HasAcl(q.todo, v) => (c.name = "addRoleACL" /\ c.topic = v) \/ HasAcl(x.todo, v)
  BY <1>1
<1>6. /\ c.name = "createRole" => role[d] # None
      /\ c.name = "addRoleACL" => c.topic \in role[d]
      /\ c.name = "createClient" => account[d] # None
      /\ c.name = "addClientRole" \/ (c.name = "getClient" /\ holds) => account[d] # None /\ account[d].role
      /\ c.name = "setClientPassword" => account[d] # None /\ account[d].usable
  BY <1>1, <1>2 DEF Achieved
<1>7. c.name = "getClient" /\ ~holds => Has(x.todo, "addClientRole")
  BY <1>1 DEF Cmd
<1>8. role' = role /\ account' = account /\ cmdq' = <<>>
  BY DEF BrokerIdle
<1>9. Spared(d)'
  BY <1>8 DEF Spared
<1> HIDE DEF c, Has, HasAcl
<1>10. /\ role[d] # None
       /\ \A v \in Topic : v \in role[d] \/ HasAcl(x.todo, v)
       /\ account[d] # None \/ Has(x.todo, "createClient")
       /\ (account[d] # None /\ account[d].role) \/ Has(x.todo, "getClient") \/ Has(x.todo, "addClientRole")
       /\ (account[d] # None /\ account[d].usable) \/ Has(x.todo, "setClientPassword")
  <2>1. role[d] # None
    BY <1>3, <1>6
  <2>2. ASSUME NEW v \in Topic
        PROVE  v \in role[d] \/ HasAcl(x.todo, v)
    BY <1>3, <1>5, <1>6
  <2>3. account[d] # None \/ Has(x.todo, "createClient")
    BY <1>3, <1>4, <1>6
  <2>4. (account[d] # None /\ account[d].role) \/ Has(x.todo, "getClient") \/ Has(x.todo, "addClientRole")
    BY <1>3, <1>4, <1>6, <1>7
  <2>5. (account[d] # None /\ account[d].usable) \/ Has(x.todo, "setClientPassword")
    BY <1>3, <1>4, <1>6
  <2> QED BY <2>1, <2>2, <2>3, <2>4, <2>5
<1> QED BY <1>8, <1>9, <1>10 DEF Progress, Has, HasAcl

(* q0 is the queue without request r. *)
QueueWithout(r, q0) ==
  /\ q0 \in Seq(Req)
  /\ \A i \in DOMAIN q0 : At(q0[i], "queued") /\ q0[i] # r
  /\ \A i, j \in DOMAIN q0 : q0[i] = q0[j] => i = j
  /\ \A p \in Req \ {r} : At(p, "queued") => \E i \in DOMAIN q0 : q0[i] = p

LEMMA QueueAgain ==
  ASSUME NEW r \in Req, NEW q0, QueueWithout(r, q0), inFlight' = None,
         \A p \in Req \ {r} : req'[p] = req[p] /\ ~At(p, "sent"), ~At(r, "sent")',
         \/ At(r, "queued")' /\ queue' = Append(q0, r)
         \/ ~At(r, "queued")' /\ queue' = q0
  PROVE  QueueOK' /\ queue' \in Seq(Req)
<1>1. \A p \in Req \ {r} : (At(p, "queued")' <=> At(p, "queued")) /\ ~At(p, "sent")'
  BY DEF At
<1>2. \A p \in Req : ~At(p, "sent")'
  BY <1>1
<1>3. q0 \in Seq(Req) /\ \A i \in DOMAIN q0 : q0[i] \in Req \ {r}
  BY DEF QueueWithout
<1>4. CASE ~At(r, "queued")' /\ queue' = q0
  <2>1. \A i \in DOMAIN queue' : At(queue[i], "queued")'
    BY <1>1, <1>3, <1>4 DEF QueueWithout
  <2>2. \A p \in Req : At(p, "queued")' => \E i \in DOMAIN queue' : queue'[i] = p
    BY <1>1, <1>4 DEF QueueWithout
  <2> QED BY <1>2, <1>3, <1>4, <2>1, <2>2 DEF QueueOK, QueueWithout
<1>5. CASE At(r, "queued")' /\ queue' = Append(q0, r)
  <2>1. /\ DOMAIN queue' = 1 .. Len(q0) + 1 /\ DOMAIN q0 = 1 .. Len(q0) /\ Len(q0) \in Nat
        /\ queue'[Len(q0) + 1] = r /\ (\A i \in DOMAIN q0 : queue'[i] = q0[i]) /\ queue' \in Seq(Req)
    BY <1>3, <1>5
  <2>2. ASSUME NEW i \in DOMAIN queue'
        PROVE  At(queue[i], "queued")'
    <3>1. CASE i \in DOMAIN q0
      <4>1. queue'[i] = q0[i] /\ q0[i] \in Req \ {r} /\ At(q0[i], "queued")
        BY <1>3, <2>1, <3>1 DEF QueueWithout
      <4>2. At(q0[i], "queued")'
        BY <1>1, <4>1, SMTT(60)
      <4> QED BY <4>1, <4>2 DEF At
    <3>2. CASE i = Len(q0) + 1
      BY <1>5, <2>1, <3>2 DEF At
    <3> QED BY <2>1, <3>1, <3>2
  <2>3. ASSUME NEW i \in DOMAIN queue', NEW j \in DOMAIN queue', queue'[i] = queue'[j]
        PROVE  i = j
    BY <1>3, <2>1, <2>3 DEF QueueWithout
  <2>4. ASSUME NEW p \in Req, At(p, "queued")'
        PROVE  \E i \in DOMAIN queue' : queue'[i] = p
    <3>1. CASE p = r
      <4>1. Len(q0) + 1 \in DOMAIN queue'
        BY <2>1
      <4> QED BY <2>1, <3>1, <4>1
    <3>2. CASE p # r
      BY <1>1, <2>1, <2>4, <3>2 DEF QueueWithout
    <3> QED BY <3>1, <3>2
  <2> QED BY <1>2, <2>1, <2>2, <2>3, <2>4 DEF QueueOK
<1> QED BY <1>4, <1>5

LEMMA CompletedStep ==
  ASSUME AdminInv, NEW r \in Req, At(r, "queued") \/ At(r, "sent"), NEW q0, QueueWithout(r, q0),
         NEW result, NEW holds, Completed(r, q0, result, holds), inFlight' = None,
         \A p \in Req \ {r} : ~At(p, "sent"),
         UNCHANGED <<row, born, overlapped>>, BrokerIdle, respq' \in Seq(Response),
         connected' \in BOOLEAN, misled' \in BOOLEAN, misled => misled',
         asks' \in Nat, faults' \in Nat, late' \in Nat,
         ~misled' /\ Tolerated(Head(req[r].todo).name, result) =>
           cmdq = <<>> /\ Achieved(Head(req[r].todo), holds)
  PROVE  AdminInv'
<1> USE DEF AdminInv
<1> DEFINE q == req[r]
           ok == Tolerated(Head(q.todo).name, result)
<1>1. /\ q \in CarRequest /\ q # None /\ RequestOK(q) /\ TodoOK(q) /\ q.todo # <<>> /\ Begun(r)
      /\ q.dev \in Device /\ q.car \in Car
  BY DEF At, TypeOK, RequestsOK, RequestOK, Begun, CarRequest
<1>2. Rest(q, holds) \in Seq(Command) /\ Head(q.todo) = q.todo[1] /\ 1 \in DOMAIN q.todo
  BY <1>1, RestCommands
<1>3. \/ /\ req' = [req EXCEPT ![r] = None]
         /\ queue' = q0
         /\ \/ ok /\ q.kind = "create" /\ UNCHANGED halfway
            \/ /\ q.kind = "rename" => Destroys(Head(q.todo))
               /\ halfway' = IF Destroys(Head(q.todo)) THEN halfway \cup {q.car} ELSE halfway
      \/ \E x \in CarRequest :
         /\ req' = [req EXCEPT ![r] = x]
         /\ x.kind = q.kind /\ x.car = q.car /\ x.dev = q.dev /\ x.new = q.new
         /\ UNCHANGED halfway
         /\ \/ ok /\ x.pc = "queued" /\ x.todo = Rest(q, holds) /\ x.todo # <<>> /\ queue' = Append(q0, r)
            \/ /\ ok /\ x.pc = Finish(q.kind) /\ x.todo = <<>> /\ Rest(q, holds) = <<>>
               /\ q.kind # "create" /\ queue' = q0
            \/ /\ q.kind = "rename" /\ ~Destroys(Head(q.todo))
               /\ x.pc = "unprovision" /\ x.todo = <<>> /\ queue' = q0
  <2> DEFINE X(pc, todo) == [q EXCEPT !.pc = pc, !.todo = todo]
  <2>1. ASSUME NEW pc \in {"queued", "stamp", "delete", "rename", "unprovision"}, NEW todo \in Seq(Command)
        PROVE  \E x \in CarRequest :
                 /\ x = X(pc, todo) /\ x.pc = pc /\ x.todo = todo
                 /\ x.kind = q.kind /\ x.car = q.car /\ x.dev = q.dev /\ x.new = q.new
    <3>1. /\ X(pc, todo) \in CarRequest /\ X(pc, todo).pc = pc /\ X(pc, todo).todo = todo
          /\ X(pc, todo).kind = q.kind /\ X(pc, todo).car = q.car /\ X(pc, todo).dev = q.dev
          /\ X(pc, todo).new = q.new
      BY <1>1 DEF CarRequest
    <3> HIDE DEF X
    <3> QED BY <3>1
  <2>2. q.kind # "create" => Finish(q.kind) \in {"stamp", "delete", "rename"}
    BY <1>1 DEF Finish, CarRequest
  <2>3. <<>> \in Seq(Command)
    OBVIOUS
  <2>4. \/ ok /\ Rest(q, holds) # <<>> /\ req' = [req EXCEPT ![r] = X("queued", Rest(q, holds))]
           /\ queue' = Append(q0, r) /\ UNCHANGED halfway
        \/ ok /\ Rest(q, holds) = <<>> /\ q.kind # "create"
           /\ req' = [req EXCEPT ![r] = X(Finish(q.kind), <<>>)] /\ queue' = q0 /\ UNCHANGED halfway
        \/ ok /\ q.kind = "create" /\ req' = [req EXCEPT ![r] = None] /\ queue' = q0 /\ UNCHANGED halfway
        \/ ~ok /\ q.kind = "rename" /\ ~Destroys(Head(q.todo))
           /\ req' = [req EXCEPT ![r] = X("unprovision", <<>>)] /\ queue' = q0 /\ UNCHANGED halfway
        \/ ~ok /\ (q.kind = "rename" => Destroys(Head(q.todo))) /\ req' = [req EXCEPT ![r] = None]
           /\ queue' = q0
           /\ halfway' = IF Destroys(Head(q.todo)) THEN halfway \cup {q.car} ELSE halfway
    BY CompletedCases
  <2> HIDE DEF X, q, ok
  <2>5. CASE ok /\ Rest(q, holds) # <<>> /\ req' = [req EXCEPT ![r] = X("queued", Rest(q, holds))]
             /\ queue' = Append(q0, r) /\ UNCHANGED halfway
    <3>1. PICK x \in CarRequest :
            /\ x = X("queued", Rest(q, holds)) /\ x.pc = "queued" /\ x.todo = Rest(q, holds)
            /\ x.kind = q.kind /\ x.car = q.car /\ x.dev = q.dev /\ x.new = q.new
      BY <1>2, <2>1
    <3> QED BY <2>5, <3>1
  <2>6. CASE ok /\ Rest(q, holds) = <<>> /\ q.kind # "create"
             /\ req' = [req EXCEPT ![r] = X(Finish(q.kind), <<>>)] /\ queue' = q0 /\ UNCHANGED halfway
    <3>1. PICK pc \in {"stamp", "delete", "rename"} : pc = Finish(q.kind)
      BY <2>2, <2>6
    <3>2. PICK to \in {"queued", "stamp", "delete", "rename", "unprovision"}, e \in Seq(Command) :
            to = pc /\ e = <<>>
      BY <2>3
    <3>3. PICK x \in CarRequest :
            /\ x = X(to, e) /\ x.pc = to /\ x.todo = e
            /\ x.kind = q.kind /\ x.car = q.car /\ x.dev = q.dev /\ x.new = q.new
      BY <2>1
    <3> QED BY <2>6, <3>1, <3>2, <3>3
  <2>7. CASE q.kind = "rename" /\ ~Destroys(Head(q.todo))
             /\ req' = [req EXCEPT ![r] = X("unprovision", <<>>)] /\ queue' = q0 /\ UNCHANGED halfway
    BY <2>1, <2>3, <2>7, ZenonT(120)
  <2> QED BY <2>4, <2>5, <2>6, <2>7
<1> HIDE DEF ok
<1>4. \A p \in Req \ {r} : req'[p] = req[p]
  BY <1>3 DEF TypeOK
<1> DEFINE Goes ==
      /\ req'[r] = None \/ (RequestOK(req[r])' /\ TodoOK(req[r])')
      /\ SameWork(r)
      /\ ~At(r, "sent")' /\ ~At(r, "insert")'
      /\ (At(r, "queued")' /\ queue' = Append(q0, r)) \/ (~At(r, "queued")' /\ queue' = q0)
      /\ Begun(r)' /\ Removed(req[r])' /\ ~misled' => Removed(req[r]) \/ Unusable(req[r].dev)'
      /\ Begun(r)' /\ req'[r].kind = "issue" /\ ~misled' => (Progress(req[r]) => Progress(req[r])')
      /\ Answered(r)
      /\ req' \in [Req -> CarRequest \cup {None}] /\ halfway \subseteq halfway' /\ halfway' \subseteq Car
<1>5. ASSUME req' = [req EXCEPT ![r] = None]
      PROVE  Goes
  <2>1. req'[r] = None /\ req' \in [Req -> CarRequest \cup {None}] /\ ~Begun(r)'
    BY <1>5 DEF TypeOK, Begun
  <2>2. q # None /\ \A x \in CarRequest : x # None
    BY <1>1, NoneAssumption
  <2>3. /\ queue' = q0
        /\ \/ q.kind = "create" /\ UNCHANGED halfway
           \/ /\ q.kind = "rename" => Destroys(Head(q.todo))
              /\ halfway' = IF Destroys(Head(q.todo)) THEN halfway \cup {q.car} ELSE halfway
    <3>1. ASSUME NEW x \in CarRequest, req' = [req EXCEPT ![r] = x]
          PROVE  FALSE
      BY <2>1, <2>2, <3>1 DEF TypeOK
    <3> QED BY <1>3, <3>1
  <2>4. q.kind = "remove" => Destroys(Head(q.todo))
    BY <1>1, <1>2 DEF TodoOK
  <2>5. Answered(r)
    BY <2>3, <2>4 DEF Answered, Removing
  <2>6. halfway \subseteq halfway' /\ halfway' \subseteq Car
    BY <1>1, <2>3 DEF TypeOK
  <2>7. ~At(r, "sent")' /\ ~At(r, "insert")' /\ ~At(r, "queued")'
    BY <2>1 DEF At
  <2>8. SameWork(r)
    BY <2>1 DEF SameWork
  <2> QED BY <2>1, <2>3, <2>5, <2>6, <2>7, <2>8
<1>6. ASSUME NEW x \in CarRequest, req' = [req EXCEPT ![r] = x],
             x.kind = q.kind, x.car = q.car, x.dev = q.dev, x.new = q.new, UNCHANGED halfway,
             \/ ok /\ x.pc = "queued" /\ x.todo = Rest(q, holds) /\ x.todo # <<>> /\ queue' = Append(q0, r)
             \/ /\ ok /\ x.pc = Finish(q.kind) /\ x.todo = <<>> /\ Rest(q, holds) = <<>>
                /\ q.kind # "create" /\ queue' = q0
             \/ /\ q.kind = "rename" /\ ~Destroys(Head(q.todo))
                /\ x.pc = "unprovision" /\ x.todo = <<>> /\ queue' = q0
      PROVE  Goes
  <2>1. req'[r] = x /\ x # None /\ req' \in [Req -> CarRequest \cup {None}]
    BY <1>6, NoneAssumption DEF TypeOK
  <2>2. q.kind # "create" => /\ Finish(q.kind) \in {"stamp", "delete", "rename"}
                             /\ Finish(q.kind) = "stamp" <=> q.kind = "issue"
                             /\ Finish(q.kind) = "delete" <=> q.kind = "remove"
                             /\ Finish(q.kind) = "rename" <=> q.kind = "rename"
    BY <1>1 DEF Finish, CarRequest
  <2>3. x.pc \in {"queued", "stamp", "delete", "rename", "unprovision"}
    BY <1>6, <2>2
  <2>4. Begun(r)' /\ SameWork(r)
    BY <1>1, <1>6, <2>1, <2>3 DEF Begun, SameWork
  <2>5. RequestOK(req[r])'
    <3>1. /\ x.pc \in {"queued", "sent"} <=> x.todo # <<>>
          /\ x.pc = "stamp" => x.kind = "issue"
          /\ x.pc = "delete" => x.kind = "remove"
          /\ x.pc \in {"rename", "unprovision"} => x.kind = "rename"
      BY <1>6, <2>2
    <3>2. x.car \in born' /\ x.dev # None /\ (x.new # None <=> x.kind = "rename")
      BY <1>1, <1>6 DEF RequestOK, At
    <3> QED BY <2>1, <2>3, <3>1, <3>2 DEF RequestOK
  <2>6. TodoOK(req[r])'
    <3>1. TodoOK(x)
      <4>1. CASE x.todo = Rest(q, holds)
        BY <1>1, <1>6, <4>1, RestOK
      <4>2. CASE x.todo = <<>>
        BY <4>2 DEF TodoOK
      <4> QED BY <1>6, <4>1, <4>2
    <3> QED BY <2>1, <3>1 DEF TodoOK
  <2>7. ~At(r, "sent")' /\ ~At(r, "insert")' /\ (At(r, "queued")' <=> x.pc = "queued")
    BY <2>1, <2>3 DEF At
  <2>8. (At(r, "queued")' /\ queue' = Append(q0, r)) \/ (~At(r, "queued")' /\ queue' = q0)
    BY <1>6, <2>2, <2>7
  <2>9. ASSUME Removed(req[r])', ~misled'
        PROVE  Removed(req[r]) \/ Unusable(req[r].dev)'
    <3>1. Removing(q) /\ x.pc # "unprovision"
      BY <1>6, <2>1, <2>9 DEF Removed, Removing
    <3>2. CASE Head(q.todo).name # "deleteClient"
      BY <1>1, <3>1, <3>2 DEF Removed
    <3>3. CASE Head(q.todo).name = "deleteClient"
      <4>1. ok
        BY <1>6, <3>1
      <4>2. cmdq = <<>> /\ Achieved(Head(q.todo), holds)
        BY <2>9, <4>1 DEF ok
      <4>3. Head(q.todo).dev = q.dev
        BY <1>1, <1>2, <3>3 DEF TodoOK, Destroys
      <4>4. account[q.dev] = None
        BY <3>3, <4>2, <4>3 DEF Achieved
      <4>5. Unusable(q.dev)
        BY <4>2, <4>4 DEF Unusable
      <4>6. \A d \in Device : Unusable(d) => Unusable(d)'
        BY DevicesStay
      <4>7. PICK d \in Device : d = q.dev
        BY <1>1
      <4>8. Unusable(d)' /\ req'[r].dev = d
        BY <1>6, <2>1, <4>5, <4>6, <4>7
      <4> QED BY <4>8 DEF Unusable
    <3> QED BY <3>2, <3>3
  <2>10. ASSUME req'[r].kind = "issue", ~misled', Progress(q)
         PROVE  Progress(req[r])'
    <3>1. ok /\ x.todo = Rest(q, holds)
      BY <1>6, <2>1, <2>10
    <3>2. cmdq = <<>> /\ Achieved(Head(q.todo), holds)
      BY <2>10, <3>1 DEF ok
    <3>3. Progress(x)'
      BY <1>1, <1>6, <2>1, <2>10, <3>1, <3>2, ProgressOn
    <3> QED BY <2>1, <3>3, ZenonT(120) DEF Progress, Spared, IssuePassword, EnsureCar, Cmd
  <2>11. Answered(r)
    BY <1>6, <2>1, <2>4 DEF Answered, Removing
  <2>12. halfway \subseteq halfway' /\ halfway' \subseteq Car
    BY <1>6 DEF TypeOK
  <2> QED BY <2>1, <2>4, <2>5, <2>6, <2>7, <2>8, <2>9, <2>10, <2>11, <2>12
<1>7. Goes
  <2>1. CASE req' = [req EXCEPT ![r] = None]
    BY <1>5, <2>1
  <2>2. CASE req' # [req EXCEPT ![r] = None]
    <3> HIDE DEF Goes
    <3> QED BY <1>3, <1>6, <2>2
  <2> QED BY <2>1, <2>2
<1> HIDE DEF q
<1>8. RowsStay /\ Grown /\ \A p \in Req : SameWork(p)
  BY <1>4, <1>7 DEF RowsStay, Grown, SameWork, Begun
<1>9. QueueOK' /\ queue' \in Seq(Req)
  BY <1>4, <1>7, QueueAgain
<1>10. TypeOK'
  <2>1. role' = role /\ account' = account /\ cmdq' \in Seq([tok : Token, cmd : Command])
    <3>1. cmdq \in Seq([tok : Token, cmd : Command]) /\ <<>> \in Seq([tok : Token, cmd : Command])
      BY DEF TypeOK
    <3> QED BY <3>1 DEF BrokerIdle
  <2>2. req' \in [Req -> CarRequest \cup {None}] /\ halfway' \subseteq Car
    BY <1>7
  <2> HIDE DEF Goes
  <2> QED BY <1>9, <2>1, <2>2 DEF TypeOK
<1>11. RequestsOK'
  BY <1>4, <1>7, RequestsFrame
<1>12. RowsOK'
  BY <1>4, <1>7, <1>8, RowsFrame DEF At
<1>13. InFlightOK' /\ CmdsOK'
  BY DEF InFlightOK, CmdsOK, BrokerIdle
<1>14. OverlapOK'
  BY <1>8, OverlapFrame
<1>15. AccountsOK'
  <2>1. ASSUME NEW p \in Req, Begun(p)', Removed(req[p])', ~misled'
        PROVE  Removed(req[p]) \/ Unusable(req[p].dev)'
    BY <1>4, <1>7, <2>1 DEF Removed, Removing
  <2> QED BY <1>8, <2>1, AccountsFrame, DevicesStay
<1>16. IssueOK'
  <2>1. ASSUME NEW p \in Req, Begun(p)', req'[p].kind = "issue", ~misled', Progress(req[p])
        PROVE  Progress(req[p])'
    <3>1. CASE p = r
      BY <1>7, <2>1, <3>1
    <3>2. CASE p # r
      <4>1. req'[p] = req[p] /\ req[p].dev \in Device
        BY <1>4, <2>1, <3>2 DEF Begun, RequestsOK, RequestOK, TypeOK, CarRequest
      <4> QED BY <2>1, <4>1, ProgressStays
    <3> QED BY <3>1, <3>2
  <2> QED BY <1>8, <2>1, IssueFrame
<1>17. ProvisionedOK'
  <2>1. \A p \in Req : Answered(p)
    <3>1. \A p \in Req \ {r} : Answered(p)
      BY <1>4 DEF Answered, Removing, Begun
    <3> QED BY <1>7, <3>1
  <2>2. row \in [Car -> Row \cup {None}] /\ \A c \in Car : row'[c] # None /\ row'[c].prov => row[c].prov
    BY DEF TypeOK
  <2> QED BY <1>7, <1>8, <2>1, <2>2, ProvisionedFrame, DevicesStay
<1> QED BY <1>9, <1>10, <1>11, <1>12, <1>13, <1>14, <1>15, <1>16, <1>17

LEMMA QueueHead ==
  ASSUME TypeOK, QueueOK, queue # <<>>
  PROVE  /\ Head(queue) \in Req /\ At(Head(queue), "queued") /\ QueueWithout(Head(queue), Tail(queue))
<1>1. /\ queue \in Seq(Req) /\ Head(queue) = queue[1] /\ 1 \in DOMAIN queue /\ Tail(queue) \in Seq(Req)
      /\ DOMAIN Tail(queue) = 1 .. Len(queue) - 1 /\ DOMAIN queue = 1 .. Len(queue) /\ Len(queue) \in Nat
      /\ \A i \in DOMAIN Tail(queue) : Tail(queue)[i] = queue[i + 1] /\ i + 1 \in DOMAIN queue /\ i + 1 # 1
  BY DEF TypeOK
<1>2. \A i \in DOMAIN Tail(queue) : At(Tail(queue)[i], "queued") /\ Tail(queue)[i] # queue[1]
  BY <1>1 DEF QueueOK
<1>3. ASSUME NEW i \in DOMAIN Tail(queue), NEW j \in DOMAIN Tail(queue), Tail(queue)[i] = Tail(queue)[j]
      PROVE  i = j
  <2>1. i + 1 = j + 1
    BY <1>1, <1>3 DEF QueueOK
  <2> QED BY <1>1, <2>1
<1>4. ASSUME NEW p \in Req \ {queue[1]}, At(p, "queued")
      PROVE  \E i \in DOMAIN Tail(queue) : Tail(queue)[i] = p
  <2>1. PICK i \in DOMAIN queue : queue[i] = p
    BY <1>4 DEF QueueOK
  <2>2. i # 1 /\ i \in Nat /\ i <= Len(queue) /\ i >= 1
    BY <1>1, <2>1
  <2>3. i - 1 \in DOMAIN Tail(queue) /\ (i - 1) + 1 = i
    BY <1>1, <2>2
  <2> QED BY <1>1, <2>1, <2>3
<1>5. queue[1] \in Req /\ At(queue[1], "queued")
  BY <1>1 DEF QueueOK
<1> QED BY <1>1, <1>2, <1>3, <1>4, <1>5 DEF QueueWithout

LEMMA InFlightSent ==
  ASSUME TypeOK, QueueOK, inFlight # None
  PROVE  /\ inFlight.req \in Req /\ inFlight.tok \in Token /\ At(inFlight.req, "sent")
         /\ QueueWithout(inFlight.req, queue)
         /\ \A p \in Req \ {inFlight.req} : ~At(p, "sent")
<1>1. inFlight.req \in Req /\ inFlight.tok \in Token /\ At(inFlight.req, "sent")
  BY DEF TypeOK, QueueOK
<1>2. \A p \in Req \ {inFlight.req} : ~At(p, "sent")
  BY DEF QueueOK
<1>3. queue \in Seq(Req) /\ \A i \in DOMAIN queue : At(queue[i], "queued") /\ queue[i] # inFlight.req
  BY <1>1 DEF QueueOK, TypeOK, At
<1> QED BY <1>1, <1>2, <1>3 DEF QueueOK, QueueWithout

LEMMA SendRefusedStep ==
  ASSUME AdminInv, SendRefused
  PROVE  AdminInv'
<1>1. /\ inFlight = None /\ queue # <<>> /\ Completed(Head(queue), Tail(queue), "down", FALSE)
      /\ UNCHANGED <<row, born, inFlight, connected, cmdq, respq, broker, overlapped, misled, asks, faults, late>>
  BY DEF SendRefused
<1>2. TypeOK /\ QueueOK
  BY DEF AdminInv
<1>3. Head(queue) \in Req /\ At(Head(queue), "queued") /\ QueueWithout(Head(queue), Tail(queue))
  BY <1>1, <1>2, QueueHead
<1>4. \A p \in Req : ~At(p, "sent")
  BY <1>1, <1>2 DEF QueueOK
<1>5. /\ BrokerIdle /\ respq' \in Seq(Response) /\ connected' \in BOOLEAN /\ misled' \in BOOLEAN
      /\ asks' \in Nat /\ faults' \in Nat /\ late' \in Nat
  BY <1>1, <1>2 DEF BrokerIdle, broker, TypeOK
<1>6. ~Tolerated(Head(req[Head(queue)].todo).name, "down")
  BY DownIsFailure
<1> QED BY <1>1, <1>3, <1>4, <1>5, <1>6, CompletedStep

LEMMA TimeoutStep ==
  ASSUME AdminInv, Timeout
  PROVE  AdminInv'
<1>1. /\ inFlight # None /\ Completed(inFlight.req, queue, "down", FALSE) /\ inFlight' = None
      /\ UNCHANGED <<row, born, connected, cmdq, respq, broker, overlapped, misled, asks, faults>>
  BY DEF Timeout
<1>2. TypeOK /\ QueueOK
  BY DEF AdminInv
<1>3. /\ inFlight.req \in Req /\ At(inFlight.req, "sent") /\ QueueWithout(inFlight.req, queue)
      /\ \A p \in Req \ {inFlight.req} : ~At(p, "sent")
  BY <1>1, <1>2, InFlightSent
<1>4. late' \in Nat
  BY <1>2 DEF Timeout, TypeOK
<1>5. /\ BrokerIdle /\ respq' \in Seq(Response) /\ connected' \in BOOLEAN /\ misled' \in BOOLEAN
      /\ asks' \in Nat /\ faults' \in Nat
  BY <1>1, <1>2 DEF BrokerIdle, broker, TypeOK
<1>6. ~Tolerated(Head(req[inFlight.req].todo).name, "down")
  BY DownIsFailure
<1> QED BY <1>1, <1>3, <1>4, <1>5, <1>6, CompletedStep

(* Only the wire changes, and nothing is added to it. *)
LEMMA WireStep ==
  ASSUME AdminInv, UNCHANGED <<row, born, req, queue, inFlight, overlapped, halfway, misled>>,
         BrokerIdle, connected' \in BOOLEAN, respq' \in Seq(Response),
         \A i \in DOMAIN respq' : \E j \in DOMAIN respq : respq'[i] = respq[j],
         asks' \in Nat, faults' \in Nat, late' \in Nat
  PROVE  AdminInv'
<1> USE DEF AdminInv
<1>1. TypeOK'
  <2>1. cmdq \in Seq([tok : Token, cmd : Command]) /\ <<>> \in Seq([tok : Token, cmd : Command])
    BY DEF TypeOK
  <2>2. role' = role /\ account' = account /\ cmdq' \in Seq([tok : Token, cmd : Command])
    BY <2>1 DEF BrokerIdle
  <2> QED BY <2>2 DEF TypeOK
<1>2. RowsStay /\ Grown /\ \A p \in Req : SameWork(p)
  BY DEF RowsStay, Grown, SameWork, Begun
<1>3. RequestsOK'
  BY RequestsFrame
<1>4. RowsOK'
  BY <1>2, RowsFrame DEF At
<1>5. QueueOK'
  BY DEF QueueOK, At
<1>6. InFlightOK'
  <2> SUFFICES ASSUME inFlight # None
               PROVE  InFlightOK'
    BY DEF InFlightOK
  <2> DEFINE c == Head(req[inFlight.req].todo)
  <2>1. /\ \A i \in DOMAIN cmdq : cmdq[i].tok = inFlight.tok => i = Len(cmdq) /\ cmdq[i].cmd = c
        /\ \A i \in DOMAIN respq : respq[i].tok = inFlight.tok =>
             /\ cmdq = <<>> /\ respq[i].name = c.name
             /\ Tolerated(c.name, respq[i].result) => Achieved(c, respq[i].holds)
    BY SMTT(60) DEF InFlightOK
  <2>2. \A holds : Achieved(c, holds) => Achieved(c, holds)'
    BY DEF Achieved, BrokerIdle
  <2>3. \A i \in DOMAIN cmdq' : cmdq'[i].tok = inFlight.tok => i = Len(cmdq') /\ cmdq'[i].cmd = c
    BY <2>1, SMTT(60) DEF BrokerIdle
  <2>4. ASSUME NEW i \in DOMAIN respq', respq'[i].tok = inFlight.tok
        PROVE  /\ cmdq' = <<>> /\ respq'[i].name = c.name
               /\ Tolerated(c.name, respq'[i].result) => Achieved(c, respq[i].holds)'
    <3>1. PICK j \in DOMAIN respq : respq'[i] = respq[j]
      OBVIOUS
    <3>2. /\ cmdq = <<>> /\ respq[j].name = c.name
          /\ Tolerated(c.name, respq[j].result) => Achieved(c, respq[j].holds)
      BY <2>1, <2>4, <3>1
    <3> QED BY <3>1, <3>2 DEF Achieved, BrokerIdle
  <2> QED BY <2>3, <2>4 DEF InFlightOK
<1>7. CmdsOK'
  BY DEF CmdsOK, BrokerIdle
<1>8. OverlapOK'
  BY <1>2, OverlapFrame
<1>9. AccountsOK'
  <2>1. \A p \in Req : Removed(req[p])' => Removed(req[p])
    BY DEF Removed, Removing
  <2> QED BY <1>2, <2>1, AccountsFrame, DevicesStay
<1>10. IssueOK'
  <2>1. ASSUME NEW p \in Req, Begun(p)', Progress(req[p])
        PROVE  Progress(req[p])'
    <3>1. req'[p] = req[p] /\ req[p].dev \in Device
      BY <2>1 DEF Begun, RequestsOK, RequestOK, TypeOK, CarRequest
    <3> QED BY <2>1, <3>1, ProgressStays
  <2> QED BY <1>2, <2>1, IssueFrame
<1>11. ProvisionedOK'
  <2>1. \A p \in Req : Answered(p)
    BY DEF Answered, Removing, Begun
  <2>2. row \in [Car -> Row \cup {None}] /\ halfway \subseteq halfway'
        /\ \A c \in Car : row'[c] # None /\ row'[c].prov => row[c].prov
    BY DEF TypeOK
  <2> QED BY <1>2, <2>1, <2>2, ProvisionedFrame, DevicesStay
<1> QED BY <1>1, <1>3, <1>4, <1>5, <1>6, <1>7, <1>8, <1>9, <1>10, <1>11

LEMMA ReconnectStep ==
  ASSUME AdminInv, Reconnect
  PROVE  AdminInv'
<1>1. /\ connected' = TRUE /\ BrokerIdle
      /\ UNCHANGED <<row, born, req, queue, inFlight, respq, overlapped, halfway, misled, asks, faults, late>>
  BY DEF Reconnect, BrokerIdle, broker, history
<1>2. respq' \in Seq(Response) /\ asks' \in Nat /\ faults' \in Nat /\ late' \in Nat
  BY <1>1 DEF AdminInv, TypeOK
<1> QED BY <1>1, <1>2, WireStep

LEMMA OnResponseStep ==
  ASSUME AdminInv, OnResponse
  PROVE  AdminInv'
<1> DEFINE m == Head(respq)
<1>1. TypeOK /\ QueueOK /\ InFlightOK
  BY DEF AdminInv
<1>2. /\ respq # <<>> /\ respq' = Tail(respq) /\ BrokerIdle
      /\ UNCHANGED <<row, born, connected, overlapped, asks, faults, late>>
  BY DEF OnResponse, BrokerIdle, broker
<1>3. /\ respq \in Seq(Response) /\ m = respq[1] /\ 1 \in DOMAIN respq /\ respq' \in Seq(Response)
      /\ \A i \in DOMAIN respq' : i + 1 \in DOMAIN respq /\ respq'[i] = respq[i + 1]
  BY <1>1, <1>2 DEF TypeOK
<1>4. /\ connected' \in BOOLEAN /\ asks' \in Nat /\ faults' \in Nat /\ late' \in Nat
  BY <1>1, <1>2 DEF TypeOK
<1>5. CASE /\ Answers(m) /\ Completed(inFlight.req, queue, m.result, m.holds)
           /\ inFlight' = None /\ misled' = (misled \/ m.tok # inFlight.tok)
  <2>1. inFlight # None
    BY <1>5 DEF Answers
  <2>2. /\ inFlight.req \in Req /\ At(inFlight.req, "sent") /\ QueueWithout(inFlight.req, queue)
        /\ \A p \in Req \ {inFlight.req} : ~At(p, "sent")
    BY <1>1, <2>1, InFlightSent
  <2>3. misled' \in BOOLEAN /\ (misled => misled')
    BY <1>1, <1>5 DEF TypeOK
  <2>4. ASSUME ~misled', Tolerated(Head(req[inFlight.req].todo).name, m.result)
        PROVE  cmdq = <<>> /\ Achieved(Head(req[inFlight.req].todo), m.holds)
    BY <1>1, <1>3, <1>5, <2>1, <2>4 DEF InFlightOK
  <2> HIDE DEF m
  <2> QED BY <1>2, <1>3, <1>4, <1>5, <2>2, <2>3, <2>4, CompletedStep
<1>6. CASE UNCHANGED <<queue, req, inFlight, halfway, misled>>
  BY <1>2, <1>3, <1>4, <1>6, WireStep
<1> QED BY <1>5, <1>6 DEF OnResponse

LEMMA DisconnectStep ==
  ASSUME AdminInv, Disconnect
  PROVE  AdminInv'
<1>1. TypeOK /\ QueueOK
  BY DEF AdminInv
<1>2. /\ connected' = FALSE /\ respq' = <<>> /\ BrokerIdle /\ faults' = faults + 1
      /\ UNCHANGED <<row, born, overlapped, misled, asks, late>>
  BY DEF Disconnect, Fault, BrokerIdle, broker
<1>3. /\ connected' \in BOOLEAN /\ asks' \in Nat /\ faults' \in Nat /\ late' \in Nat
      /\ misled' \in BOOLEAN /\ respq' \in Seq(Response)
  <2>1. connected' \in BOOLEAN /\ respq' \in Seq(Response)
    <3>1. <<>> \in Seq(Response) /\ FALSE \in BOOLEAN
      OBVIOUS
    <3>2. respq' = <<>> /\ connected' = FALSE
      BY <1>2
    <3> QED BY <3>1, <3>2
  <2>2. asks' \in Nat /\ faults' \in Nat /\ late' \in Nat /\ misled' \in BOOLEAN
    BY <1>1, <1>2 DEF TypeOK
  <2> QED BY <2>1, <2>2
<1>4. \/ inFlight # None /\ Completed(inFlight.req, queue, "down", FALSE) /\ inFlight' = None
      \/ UNCHANGED <<queue, req, inFlight, halfway>>
  BY DEF Disconnect, Settling
<1>5. CASE inFlight # None /\ Completed(inFlight.req, queue, "down", FALSE) /\ inFlight' = None
  <2>1. /\ inFlight.req \in Req /\ At(inFlight.req, "sent") /\ QueueWithout(inFlight.req, queue)
        /\ \A p \in Req \ {inFlight.req} : ~At(p, "sent")
    BY <1>1, <1>5, InFlightSent
  <2>2. ~Tolerated(Head(req[inFlight.req].todo).name, "down")
    BY DownIsFailure
  <2> QED BY <1>2, <1>3, <1>5, <2>1, <2>2, CompletedStep
<1>6. CASE UNCHANGED <<queue, req, inFlight, halfway>>
  BY <1>2, <1>3, <1>6, WireStep
<1> QED BY <1>4, <1>5, <1>6

-----------------------------------------------------------------------------
(* A command is sent. *)

(* Whoever works on device d besides request r has met it. *)
LEMMA Undisturbed ==
  ASSUME OverlapOK, NEW r \in Req, Begun(r), req[r].dev # None, req[r].dev \notin overlapped
  PROVE  /\ Alone(req[r]) /\ row[req[r].car] # None /\ row[req[r].car].dev = req[r].dev
         /\ \A p \in Req \ {r} : Begun(p) => req[r].dev \notin Works(req[p])
<1>1. req[r].dev \in Works(req[r])
  BY DEF Works
<1>2. Alone(req[r])
  BY <1>1 DEF Alone
<1>3. ASSUME NEW p \in Req \ {r}, Begun(p), req[r].dev \in Works(req[p])
      PROVE  FALSE
  <2>1. Works(req[r]) \cap Works(req[p]) # {}
    BY <1>1, <1>3
  <2> QED BY <1>2, <1>3, <2>1 DEF OverlapOK
<1> QED BY <1>2, <1>3 DEF OverlapOK

LEMMA SendNowStep ==
  ASSUME AdminInv, SendNow
  PROVE  AdminInv'
<1> USE DEF AdminInv
<1>1. PICK r \in Req : r = Head(queue) /\ At(r, "queued") /\ QueueWithout(r, Tail(queue))
  BY QueueHead DEF SendNow
<1>2. PICK t \in Token : /\ t = CHOOSE s \in FreshTokens : \A u \in FreshTokens : s <= u
                         /\ \A i \in DOMAIN cmdq : cmdq[i].tok # t
                         /\ \A i \in DOMAIN respq : respq[i].tok # t
  BY FreshTokenIsFresh DEF SendNow
<1>3. /\ req[r] \in CarRequest /\ req[r] # None /\ RequestOK(req[r]) /\ TodoOK(req[r]) /\ Begun(r)
      /\ req[r].todo # <<>> /\ req[r].dev \in Device /\ req[r].car \in Car /\ req[r].pc = "queued"
  BY <1>1 DEF At, TypeOK, RequestsOK, RequestOK, Begun, CarRequest
<1>4. PICK c \in Command : c = Head(req[r].todo) /\ c = req[r].todo[1] /\ 1 \in DOMAIN req[r].todo
  BY <1>3 DEF CarRequest
<1>5. PICK x \in CarRequest : /\ x = [req[r] EXCEPT !.pc = "sent"] /\ x.pc = "sent" /\ x.todo = req[r].todo
                              /\ x.kind = req[r].kind /\ x.car = req[r].car /\ x.dev = req[r].dev
                              /\ x.new = req[r].new /\ x # None
  <2> DEFINE y == [req[r] EXCEPT !.pc = "sent"]
  <2>1. /\ y \in CarRequest /\ y.pc = "sent" /\ y.todo = req[r].todo /\ y.kind = req[r].kind
        /\ y.car = req[r].car /\ y.dev = req[r].dev /\ y.new = req[r].new
    BY <1>3 DEF CarRequest
  <2>2. y # None
    BY <2>1, NoneAssumption
  <2> HIDE DEF y
  <2> QED BY <2>1, <2>2 DEF y
<1>6. /\ inFlight = None /\ queue # <<>> /\ queue' = Tail(queue) /\ req' = [req EXCEPT ![r] = x]
      /\ inFlight' = [tok |-> t, req |-> r] /\ cmdq' = Append(cmdq, [tok |-> t, cmd |-> c])
      /\ UNCHANGED <<row, born, connected, respq, role, account, overlapped, halfway, misled, asks, faults, late>>
  BY <1>1, <1>2, <1>4, <1>5 DEF SendNow, broker, history
<1>7. req'[r] = x /\ \A p \in Req \ {r} : req'[p] = req[p]
  BY <1>6 DEF TypeOK
<1>8. /\ cmdq \in Seq([tok : Token, cmd : Command]) /\ [tok |-> t, cmd |-> c] \in [tok : Token, cmd : Command]
      /\ cmdq' \in Seq([tok : Token, cmd : Command]) /\ cmdq' # <<>>
      /\ Len(cmdq') = Len(cmdq) + 1 /\ DOMAIN cmdq = 1 .. Len(cmdq) /\ DOMAIN cmdq' = 1 .. Len(cmdq) + 1
      /\ Len(cmdq) \in Nat
      /\ cmdq'[Len(cmdq) + 1].cmd = c /\ cmdq'[Len(cmdq) + 1].tok = t
      /\ \A i \in DOMAIN cmdq : cmdq'[i] = cmdq[i]
  <2>1. cmdq \in Seq([tok : Token, cmd : Command]) /\ [tok |-> t, cmd |-> c] \in [tok : Token, cmd : Command]
    BY DEF TypeOK
  <2> QED BY <1>6, <2>1, SMTT(60)
<1>9. /\ inFlight' \in [tok : Token, req : Req] /\ inFlight' # None
      /\ inFlight'.tok = t /\ inFlight'.req = r
  <2>1. inFlight' \in [tok : Token, req : Req] /\ inFlight'.tok = t /\ inFlight'.req = r
    BY <1>6
  <2> QED BY <2>1, NoneAssumption
<1>10. TypeOK'
  BY <1>1, <1>6, <1>8, <1>9 DEF TypeOK, QueueWithout
<1>11. RowsStay /\ Grown /\ \A p \in Req : SameWork(p)
  BY <1>3, <1>5, <1>6, <1>7 DEF RowsStay, Grown, SameWork, Begun
<1>12. RequestsOK'
  <2>1. RequestOK(req[r])' /\ TodoOK(req[r])'
    BY <1>3, <1>5, <1>6, <1>7 DEF RequestOK, TodoOK, Removing
  <2> QED BY <1>6, <1>7, <2>1, RequestsFrame
<1>13. RowsOK'
  BY <1>5, <1>6, <1>7, <1>11, RowsFrame DEF At
<1>14. QueueOK'
  <2>1. ~At(r, "queued")' /\ At(r, "sent")'
    BY <1>5, <1>7 DEF At
  <2>2. \A p \in Req \ {r} : (At(p, "queued")' <=> At(p, "queued")) /\ ~At(p, "sent")'
    BY <1>6, <1>7 DEF At, QueueOK
  <2>3. \A i \in DOMAIN queue' : queue'[i] \in Req \ {r} /\ At(queue[i], "queued")'
    <3>1. \A i \in DOMAIN queue' : queue'[i] \in Req \ {r} /\ At(queue'[i], "queued")
      BY <1>1, <1>6 DEF QueueWithout
    <3> QED BY <2>2, <3>1 DEF At
  <2>4. \A i, j \in DOMAIN queue' : queue'[i] = queue'[j] => i = j
    BY <1>1, <1>6 DEF QueueWithout
  <2>5. \A p \in Req : At(p, "queued")' => \E i \in DOMAIN queue' : queue'[i] = p
    BY <1>1, <1>6, <2>1, <2>2 DEF QueueWithout
  <2>6. \A p \in Req : At(p, "sent")' <=> inFlight' # None /\ inFlight'.req = p
    BY <1>9, <2>1, <2>2
  <2> QED BY <2>3, <2>4, <2>5, <2>6 DEF QueueOK
<1>15. InFlightOK'
  <2>1. Head(req'[inFlight'.req].todo) = c
    BY <1>4, <1>5, <1>7, <1>9
  <2>2. \A i \in DOMAIN cmdq' : cmdq'[i].tok = t => i = Len(cmdq') /\ cmdq'[i].cmd = c
    BY <1>2, <1>8
  <2>3. \A i \in DOMAIN respq' : respq'[i].tok # t
    BY <1>2, <1>6
  <2> QED BY <1>9, <2>1, <2>2, <2>3 DEF InFlightOK
<1>16. CmdsOK'
  <2>1. c.name = "addRoleACL" => c.topic \in Topic
    BY <1>3, <1>4 DEF TodoOK
  <2> QED BY <1>8, <2>1 DEF CmdsOK
<1>17. OverlapOK'
  BY <1>6, <1>11, OverlapFrame
<1>18. ASSUME NEW d \in Device, c.dev # d \/ c.name # "setClientPassword", Unusable(d)
       PROVE  Unusable(d)'
  BY <1>6, <1>8, <1>18 DEF Unusable
<1>19. ASSUME NEW d \in Device, c.dev # d \/ ~Destroys(c), Spared(d)
       PROVE  Spared(d)'
  BY <1>8, <1>19 DEF Spared
<1>20. AccountsOK'
  <2> SUFFICES ASSUME NEW d \in Device, d \notin overlapped, ~misled
               PROVE  /\ (\A o \in Car : row'[o] # None => row'[o].dev # d) => Unusable(d)'
                      /\ \A p \in Req : Begun(p)' /\ req'[p].dev = d /\ Removed(req[p])' => Unusable(d)'
    BY <1>6 DEF AccountsOK
  <2>1. \A p \in Req : Begun(p)' /\ req'[p].dev = d /\ Removed(req[p])' =>
          Begun(p) /\ req[p].dev = d /\ Removed(req[p])
    <3>1. Removed(req[r])' => Removed(req[r])
      BY <1>3, <1>5, <1>7 DEF Removed, Removing
    <3>2. \A p \in Req \ {r} : (Removed(req[p])' <=> Removed(req[p])) /\ (Begun(p)' <=> Begun(p))
      BY <1>7 DEF Removed, Removing, Begun
    <3> QED BY <1>3, <1>5, <1>7, <3>1, <3>2, ZenonT(120)
  <2>2. CASE c.dev # d \/ c.name # "setClientPassword"
    BY <1>6, <1>18, <2>1, <2>2 DEF AccountsOK
  <2>3. CASE c.dev = d /\ c.name = "setClientPassword"
    <3>1. req[r].kind = "issue" /\ req[r].dev = d /\ d # None
      BY <1>3, <1>4, <2>3, NoneAssumption DEF TodoOK
    <3>2. /\ row[req[r].car] # None /\ row[req[r].car].dev = d
          /\ \A p \in Req \ {r} : Begun(p) => d \notin Works(req[p])
      BY <1>3, <3>1, Undisturbed
    <3>3. ~Removed(req[r])
      BY <3>1 DEF Removed, Removing
    <3>4. \A p \in Req : Begun(p) /\ req[p].dev = d => p = r
      BY <3>1, <3>2 DEF Works
    <3> QED BY <1>3, <1>6, <2>1, <3>2, <3>3, <3>4
  <2> QED BY <2>2, <2>3
<1>21. IssueOK'
  <2>1. ASSUME NEW p \in Req, Begun(p)', req'[p].kind = "issue", req'[p].dev \notin overlapped', Progress(req[p])
        PROVE  Progress(req[p])'
    <3>1. /\ Begun(p) /\ req[p].kind = "issue" /\ req[p].dev \notin overlapped /\ req'[p].todo = req[p].todo
          /\ req'[p].dev = req[p].dev
      BY <1>3, <1>5, <1>6, <1>7, <2>1 DEF Begun
    <3>2. PICK d \in Device : d = req[p].dev
      BY <3>1 DEF Begun, RequestsOK, RequestOK, TypeOK, CarRequest
    <3>3. Spared(d) => Spared(d)'
      <4>1. CASE p = r
        BY <1>3, <1>4, <1>19, <3>1, <4>1 DEF TodoOK, Removing
      <4>2. CASE p # r
        <5>1. d \notin Works(req[r])
          BY <1>3, <3>1, <3>2, <4>2, NoneAssumption, Undisturbed
        <5>2. ~Destroys(c) \/ c.dev # d
          BY <1>3, <1>4, <5>1, NoneAssumption DEF TodoOK, Works
        <5> QED BY <1>19, <5>2
      <4> QED BY <4>1, <4>2
    <3>4. CASE req[p].todo = IssuePassword(d)
      BY <3>1, <3>2, <3>4, SMTT(60) DEF Progress, IssuePassword, EnsureCar, Cmd
    <3>5. CASE req[p].todo # IssuePassword(d)
      <4>1. Spared(d) /\ Spared(d)'
        BY <2>1, <3>2, <3>3, <3>5 DEF Progress
      <4>2. role' = role /\ account' = account
        BY <1>6
      <4>3. req'[p].todo = req[p].todo /\ req'[p].dev = d /\ req[p].dev = d /\ req[p].todo # IssuePassword(d)
        BY <3>1, <3>2, <3>5
      <4> QED BY <2>1, <4>1, <4>2, <4>3, SMTT(60) DEF Progress
    <3> QED BY <3>4, <3>5
  <2> QED BY <1>11, <2>1, IssueFrame
<1>22. ProvisionedOK'
  <2> SUFFICES ASSUME NEW o \in Car, row[o] # None, row[o].prov, o \notin halfway,
                      {o, row[o].dev} \cap overlapped = {}, ~misled,
                      \A p \in Req : Begun(p)' /\ Removing(req[p])' => req'[p].car # o
               PROVE  Sound(row[o].dev)'
    BY <1>6 DEF ProvisionedOK
  <2>1. ASSUME NEW p \in Req, Begun(p), Removing(req[p])
        PROVE  req[p].car # o
    <3>1. CASE p = r
      BY <1>5, <1>7, <2>1, <3>1, ZenonT(120) DEF Removing, Begun
    <3>2. CASE p # r
      BY <1>7, <2>1, <3>2 DEF Removing, Begun
    <3> QED BY <3>1, <3>2
  <2>2. PICK d \in Device : d = row[o].dev
    BY NoneAssumption DEF TypeOK, Row
  <2>3. Sound(d)
    BY <2>1, <2>2 DEF ProvisionedOK
  <2>4. c.dev # d \/ ~Destroys(c)
    <3> SUFFICES ASSUME c.dev = d, Destroys(c)
                 PROVE  FALSE
      OBVIOUS
    <3>1. Removing(req[r]) /\ req[r].dev = d /\ d # None
      BY <1>3, <1>4, NoneAssumption DEF TodoOK
    <3>2. row[req[r].car] # None /\ row[req[r].car].dev = d
      BY <1>3, <2>2, <3>1, Undisturbed
    <3>3. req[r].car = o
      BY <1>3, <2>2, <3>2 DEF RowsOK, Taken
    <3> QED BY <1>3, <2>1, <3>1, <3>3
  <2>5. Spared(d)' /\ Working(d)'
    BY <1>6, <1>19, <2>3, <2>4 DEF Sound, Working
  <2> QED BY <1>6, <2>2, <2>5 DEF Sound, Working, Spared
<1> QED BY <1>10, <1>12, <1>13, <1>14, <1>15, <1>16, <1>17, <1>20, <1>21, <1>22

-----------------------------------------------------------------------------
(* The broker takes a command. *)

LEMMA BrokerTypes ==
  ASSUME TypeOK, NEW c \in Command, c.name = "addRoleACL" => c.topic \in Topic, Outcome(c) = "ok"
  PROVE  RoleAfter(c) \in {None} \cup SUBSET Topic /\ AccountAfter(c) \in Account \cup {None}
<1>1. c.dev \in Device /\ c.name \in Name
  BY DEF Command
<1>2. role[c.dev] \in {None} \cup SUBSET Topic /\ account[c.dev] \in Account \cup {None}
  BY <1>1 DEF TypeOK
<1>3. RoleAfter(c) \in {None} \cup SUBSET Topic
  BY <1>1, <1>2 DEF RoleAfter, Outcome
<1>4. AccountAfter(c) \in Account \cup {None}
  <2>1. \A a \in Account : [a EXCEPT !.role = TRUE] \in Account /\ [a EXCEPT !.usable = TRUE] \in Account
                           /\ [a EXCEPT !.role = FALSE] \in Account
    BY DEF Account
  <2>2. [role |-> FALSE, usable |-> FALSE] \in Account
    BY DEF Account
  <2>3. c.name \in {"addClientRole", "setClientPassword"} => account[c.dev] # None
    BY DEF Outcome
  <2> QED BY <1>2, <2>1, <2>2, <2>3 DEF AccountAfter
<1> QED BY <1>3, <1>4

(* What a command other than a removal leaves of the account it is about. *)
LEMMA BrokerKeeps ==
  ASSUME TypeOK, NEW c \in Command, c.name = "addRoleACL" => c.topic \in Topic, Outcome(c) = "ok",
         ~Destroys(c)
  PROVE  /\ role[c.dev] # None => RoleAfter(c) # None /\ role[c.dev] \subseteq RoleAfter(c)
         /\ account[c.dev] # None =>
              /\ AccountAfter(c) # None
              /\ account[c.dev].role => AccountAfter(c).role
              /\ account[c.dev].usable => AccountAfter(c).usable
<1>1. c.dev \in Device /\ c.name \in Name
  BY DEF Command
<1>2. role[c.dev] \in {None} \cup SUBSET Topic /\ account[c.dev] \in Account \cup {None}
  BY <1>1 DEF TypeOK
<1>3. RoleAfter(c) \in {None} \cup SUBSET Topic /\ AccountAfter(c) \in Account \cup {None}
  BY BrokerTypes
<1>4. ASSUME role[c.dev] # None
      PROVE  RoleAfter(c) # None /\ role[c.dev] \subseteq RoleAfter(c)
  <2>1. CASE c.name = "addRoleACL"
    <3>1. RoleAfter(c) = role[c.dev] \cup {c.topic}
      BY <2>1 DEF RoleAfter
    <3>2. role[c.dev] \cup {c.topic} \in SUBSET Topic
      BY <1>2, <1>4, <2>1
    <3> QED BY <3>1, <3>2, NoneAssumption
  <2>2. CASE c.name # "addRoleACL"
    <3>1. RoleAfter(c) = role[c.dev]
      BY <1>4, <2>2 DEF RoleAfter, Outcome, Destroys
    <3> QED BY <1>4, <3>1
  <2> QED BY <2>1, <2>2
<1>5. ASSUME account[c.dev] # None
      PROVE  /\ AccountAfter(c) # None
             /\ account[c.dev].role => AccountAfter(c).role
             /\ account[c.dev].usable => AccountAfter(c).usable
  <2>1. PICK a \in Account : a = account[c.dev]
    BY <1>2, <1>5
  <2>2. c.name # "createClient"
    BY <1>5 DEF Outcome
  <2>3. AccountAfter(c) \in {a, [a EXCEPT !.role = TRUE], [a EXCEPT !.usable = TRUE]}
    BY <2>1, <2>2 DEF AccountAfter, Destroys
  <2>4. \A b \in {a, [a EXCEPT !.role = TRUE], [a EXCEPT !.usable = TRUE]} :
          b \in Account /\ (a.role => b.role) /\ (a.usable => b.usable)
    BY <2>1 DEF Account
  <2> QED BY <2>1, <2>3, <2>4, NoneAssumption
<1> QED BY <1>4, <1>5

LEMMA BrokerAchieves ==
  ASSUME TypeOK, NEW c \in Command, c.name = "addRoleACL" => c.topic \in Topic,
         Tolerated(c.name, Outcome(c)), NEW holds,
         holds = (account[c.dev] # None /\ account[c.dev].role),
         role'[c.dev] = IF Outcome(c) = "ok" THEN RoleAfter(c) ELSE role[c.dev],
         account'[c.dev] = IF Outcome(c) = "ok" THEN AccountAfter(c) ELSE account[c.dev]
  PROVE  Achieved(c, holds)'
<1>1. c.dev \in Device /\ c.name \in Name
  BY DEF Command
<1>2. role[c.dev] \in {None} \cup SUBSET Topic /\ account[c.dev] \in Account \cup {None}
  BY <1>1 DEF TypeOK
<1>3. Outcome(c) = "ok" => RoleAfter(c) \in {None} \cup SUBSET Topic /\ AccountAfter(c) \in Account \cup {None}
  BY BrokerTypes
<1>4. c.name = "deleteClient" => account'[c.dev] = None
  BY DEF AccountAfter, Outcome, Tolerated
<1>5. c.name = "createRole" => role'[c.dev] # None
  <2>1. {} # None
    BY NoneAssumption
  <2> QED BY <2>1 DEF RoleAfter, Outcome, Tolerated
<1>6. ASSUME c.name = "addRoleACL"
      PROVE  role'[c.dev] # None /\ c.topic \in role'[c.dev]
  <2>1. role[c.dev] # None /\ Outcome(c) = IF c.topic \in role[c.dev] THEN "exists" ELSE "ok"
    BY <1>6 DEF Outcome, Tolerated
  <2>2. CASE c.topic \in role[c.dev]
    BY <2>1, <2>2
  <2>3. CASE c.topic \notin role[c.dev]
    <3>1. role'[c.dev] = role[c.dev] \cup {c.topic} /\ role[c.dev] \cup {c.topic} \in SUBSET Topic
      BY <1>2, <1>6, <2>1, <2>3 DEF RoleAfter
    <3> QED BY <3>1, NoneAssumption
  <2> QED BY <2>2, <2>3
<1>7. c.name = "createClient" => account'[c.dev] # None
  <2>1. [role |-> FALSE, usable |-> FALSE] \in Account
    BY DEF Account
  <2> QED BY <2>1, NoneAssumption DEF AccountAfter, Outcome, Tolerated
<1>8. ASSUME c.name = "addClientRole" \/ (c.name = "getClient" /\ holds)
      PROVE  account'[c.dev] # None /\ account'[c.dev].role
  <2>1. CASE c.name = "addClientRole"
    <3>1. Outcome(c) = "ok" /\ account[c.dev] # None
      BY <2>1 DEF Outcome, Tolerated
    <3>2. PICK a \in Account : a = account[c.dev]
      BY <1>2, <3>1
    <3>3. [a EXCEPT !.role = TRUE] \in Account /\ [a EXCEPT !.role = TRUE].role
      BY DEF Account
    <3>4. account'[c.dev] = [a EXCEPT !.role = TRUE]
      BY <2>1, <3>1, <3>2 DEF AccountAfter
    <3> QED BY <3>3, <3>4, NoneAssumption
  <2>2. CASE c.name = "getClient" /\ holds
    <3>1. account'[c.dev] = account[c.dev]
      BY <2>2 DEF AccountAfter
    <3> QED BY <2>2, <3>1
  <2> QED BY <1>8, <2>1, <2>2
<1>9. ASSUME c.name = "setClientPassword"
      PROVE  account'[c.dev] # None /\ account'[c.dev].usable
  <2>1. Outcome(c) = "ok" /\ account[c.dev] # None
    BY <1>9 DEF Outcome, Tolerated
  <2>2. PICK a \in Account : a = account[c.dev]
    BY <1>2, <2>1
  <2>3. [a EXCEPT !.usable = TRUE] \in Account /\ [a EXCEPT !.usable = TRUE].usable
    BY DEF Account
  <2>4. account'[c.dev] = [a EXCEPT !.usable = TRUE]
    BY <1>9, <2>1, <2>2 DEF AccountAfter
  <2> QED BY <2>3, <2>4, NoneAssumption
<1> QED BY <1>4, <1>5, <1>6, <1>7, <1>8, <1>9 DEF Achieved

(* Nothing but setting a password makes an account usable. *)
LEMMA BrokerUnusable ==
  ASSUME TypeOK, NEW c \in Command, c.name # "setClientPassword", Outcome(c) = "ok",
         account[c.dev] # None => ~account[c.dev].usable
  PROVE  AccountAfter(c) # None => ~AccountAfter(c).usable
<1>1. c.dev \in Device
  BY DEF Command
<1>2. account[c.dev] \in Account \cup {None}
  BY <1>1 DEF TypeOK
<1>3. CASE account[c.dev] = None
  BY <1>3 DEF AccountAfter, Outcome
<1>4. CASE account[c.dev] # None
  <2>1. PICK a \in Account : a = account[c.dev]
    BY <1>2, <1>4
  <2>2. \A b \in {a, [a EXCEPT !.role = TRUE], [a EXCEPT !.role = FALSE]} : ~b.usable
    BY <1>4, <2>1 DEF Account
  <2>3. AccountAfter(c) \in {None, a, [a EXCEPT !.role = TRUE], [a EXCEPT !.role = FALSE]}
    BY <1>4, <2>1 DEF AccountAfter, Outcome
  <2> QED BY <2>2, <2>3
<1> QED BY <1>3, <1>4

LEMMA HeadAndTail ==
  ASSUME NEW S, NEW s \in Seq(S), s # <<>>
  PROVE  /\ Tail(s) \in Seq(S) /\ 1 \in DOMAIN s /\ Head(s) = s[1] /\ s[1] \in S
         /\ DOMAIN s = 1 .. Len(s) /\ Len(s) \in Nat /\ Len(Tail(s)) = Len(s) - 1
         /\ DOMAIN Tail(s) = 1 .. Len(s) - 1
         /\ \A i \in DOMAIN Tail(s) : i + 1 \in DOMAIN s /\ Tail(s)[i] = s[i + 1]
OBVIOUS

LEMMA BrokerStep ==
  ASSUME AdminInv, Broker
  PROVE  AdminInv'
<1> USE DEF AdminInv
<1>1. /\ cmdq \in Seq([tok : Token, cmd : Command]) /\ cmdq # <<>>
      /\ cmdq' = Tail(cmdq) /\ cmdq' \in Seq([tok : Token, cmd : Command])
      /\ 1 \in DOMAIN cmdq /\ Head(cmdq) = cmdq[1] /\ cmdq[1] \in [tok : Token, cmd : Command]
      /\ DOMAIN cmdq = 1 .. Len(cmdq) /\ Len(cmdq) \in Nat /\ Len(cmdq') = Len(cmdq) - 1
      /\ DOMAIN cmdq' = 1 .. Len(cmdq) - 1
      /\ \A i \in DOMAIN cmdq' : i + 1 \in DOMAIN cmdq /\ cmdq'[i] = cmdq[i + 1]
  <2>1. cmdq \in Seq([tok : Token, cmd : Command]) /\ cmdq # <<>> /\ cmdq' = Tail(cmdq)
    BY DEF Broker, TypeOK
  <2> QED BY <2>1, HeadAndTail
<1>2. PICK c \in Command, t \in Token : c = Head(cmdq).cmd /\ t = Head(cmdq).tok
  BY <1>1
<1>3. PICK holds \in BOOLEAN : holds = (account[c.dev] # None /\ account[c.dev].role)
  OBVIOUS
<1> DEFINE m == [tok |-> t, name |-> c.name, result |-> Outcome(c), holds |-> holds]
<1>4. /\ role' = IF Outcome(c) = "ok" THEN [role EXCEPT ![c.dev] = RoleAfter(c)] ELSE role
      /\ account' = IF Outcome(c) = "ok" THEN [account EXCEPT ![c.dev] = AccountAfter(c)] ELSE account
      /\ respq' = IF connected THEN Append(respq, m) ELSE respq
      /\ UNCHANGED <<row, born, req, queue, inFlight, connected, overlapped, halfway, misled, asks, faults, late>>
  BY <1>2, <1>3 DEF Broker, history
<1>5. /\ c.dev \in Device /\ c.name \in Name /\ (c.name = "addRoleACL" => c.topic \in Topic)
      /\ Outcome(c) \in {"ok", "exists", "missing", "error"}
  BY <1>1, <1>2 DEF CmdsOK, Command, Outcome
<1>6. Outcome(c) = "ok" => RoleAfter(c) \in {None} \cup SUBSET Topic /\ AccountAfter(c) \in Account \cup {None}
  BY <1>5, BrokerTypes
<1>7. /\ role' \in [Device -> {None} \cup SUBSET Topic] /\ account' \in [Device -> Account \cup {None}]
      /\ role'[c.dev] = IF Outcome(c) = "ok" THEN RoleAfter(c) ELSE role[c.dev]
      /\ account'[c.dev] = IF Outcome(c) = "ok" THEN AccountAfter(c) ELSE account[c.dev]
      /\ \A d \in Device \ {c.dev} : role'[d] = role[d] /\ account'[d] = account[d]
  BY <1>4, <1>5, <1>6 DEF TypeOK
<1>8. m \in Response /\ m.tok = t /\ m.name = c.name /\ m.result = Outcome(c) /\ m.holds = holds
  BY <1>5 DEF Response
<1> HIDE DEF m
<1>9. /\ respq' \in Seq(Response)
      /\ \A i \in DOMAIN respq' : (i \in DOMAIN respq /\ respq'[i] = respq[i]) \/ respq'[i] = m
  BY <1>4, <1>8 DEF TypeOK
<1>10. TypeOK'
  BY <1>1, <1>4, <1>7, <1>9 DEF TypeOK
<1>11. RowsStay /\ Grown /\ \A p \in Req : SameWork(p)
  BY <1>4 DEF RowsStay, Grown, SameWork, Begun
<1>12. RequestsOK' /\ QueueOK'
  BY <1>4, RequestsFrame DEF QueueOK, At
<1>13. RowsOK'
  BY <1>4, <1>11, RowsFrame DEF At
<1>14. CmdsOK'
  BY <1>1 DEF CmdsOK
<1>15. OverlapOK'
  BY <1>4, <1>11, OverlapFrame, SMTT(60)
<1>16. InFlightOK'
  <2> SUFFICES ASSUME inFlight # None
               PROVE  InFlightOK'
    BY <1>4 DEF InFlightOK
  <2>1. PICK k : k = Head(req[inFlight.req].todo)
    OBVIOUS
  <2>2. /\ \A i \in DOMAIN cmdq : cmdq[i].tok = inFlight.tok => i = Len(cmdq) /\ cmdq[i].cmd = k
        /\ \A i \in DOMAIN respq : respq[i].tok = inFlight.tok => cmdq = <<>>
    BY <2>1 DEF InFlightOK
  <2>3. \A i \in DOMAIN cmdq' : cmdq'[i].tok = inFlight.tok => i = Len(cmdq') /\ cmdq'[i].cmd = k
    BY <1>1, <2>2
  <2>4. ASSUME NEW i \in DOMAIN respq', respq'[i].tok = inFlight.tok
        PROVE  /\ cmdq' = <<>> /\ respq'[i].name = k.name
               /\ Tolerated(k.name, respq'[i].result) => Achieved(k, respq[i].holds)'
    <3>1. respq'[i] = m
      BY <1>1, <1>9, <2>2, <2>4
    <3>2. 1 = Len(cmdq) /\ k = c
      BY <1>1, <1>2, <1>8, <2>2, <2>4, <3>1
    <3>3. cmdq' = <<>>
      BY <1>1, <3>2
    <3>4. Tolerated(c.name, Outcome(c)) => Achieved(c, holds)'
      BY <1>3, <1>5, <1>7, BrokerAchieves
    <3> QED BY <1>8, <3>1, <3>2, <3>3, <3>4 DEF Achieved
  <2>5. inFlight' = inFlight /\ k = Head(req'[inFlight'.req].todo)
    BY <1>4, <2>1
  <2> QED BY <2>3, <2>4, <2>5 DEF InFlightOK, Achieved
<1>17. \A d \in Device : Spared(d) => Spared(d)' /\ (d = c.dev => ~Destroys(c))
  BY <1>1, <1>2 DEF Spared
<1>18. ASSUME NEW d \in Device, Spared(d)
       PROVE  /\ role[d] # None => role'[d] # None /\ role[d] \subseteq role'[d]
              /\ account[d] # None => /\ account'[d] # None
                                      /\ account[d].role => account'[d].role
                                      /\ account[d].usable => account'[d].usable
  <2>1. CASE d # c.dev \/ Outcome(c) # "ok"
    BY <1>7, <2>1
  <2>2. CASE d = c.dev /\ Outcome(c) = "ok"
    BY <1>5, <1>7, <1>17, <1>18, <2>2, BrokerKeeps
  <2> QED BY <2>1, <2>2
<1>19. AccountsOK'
  <2>1. ASSUME NEW d \in Device, Unusable(d)
        PROVE  Unusable(d)'
    <3>1. \A i \in DOMAIN cmdq' : cmdq'[i].cmd.dev = d => cmdq'[i].cmd.name # "setClientPassword"
      BY <1>1, <2>1 DEF Unusable
    <3>2. c.dev = d => c.name # "setClientPassword"
      BY <1>1, <1>2, <2>1 DEF Unusable
    <3>3. account'[d] # None => ~account'[d].usable
      <4>1. CASE d # c.dev \/ Outcome(c) # "ok"
        BY <1>7, <2>1, <4>1 DEF Unusable
      <4>2. CASE d = c.dev /\ Outcome(c) = "ok"
        BY <1>7, <2>1, <3>2, <4>2, BrokerUnusable DEF Unusable
      <4> QED BY <4>1, <4>2
    <3> QED BY <3>1, <3>3 DEF Unusable
  <2>2. \A p \in Req : Removed(req[p])' => Removed(req[p])
    BY <1>4 DEF Removed, Removing
  <2> QED BY <1>11, <2>1, <2>2, AccountsFrame
<1>20. IssueOK'
  <2>1. ASSUME NEW p \in Req, Begun(p)', Progress(req[p])
        PROVE  Progress(req[p])'
    <3>1. req'[p] = req[p] /\ req[p].dev \in Device
      BY <1>4, <2>1 DEF Begun, RequestsOK, RequestOK, TypeOK, CarRequest
    <3>2. PICK d \in Device : d = req[p].dev
      BY <3>1
    <3>3. CASE req[p].todo = IssuePassword(d)
      BY <3>1, <3>2, <3>3 DEF Progress, IssuePassword, EnsureCar, Cmd
    <3>4. CASE req[p].todo # IssuePassword(d)
      <4>1. Spared(d)
        BY <2>1, <3>2, <3>4 DEF Progress
      <4>2. Spared(d)'
        BY <1>17, <4>1
      <4>3. /\ role[d] # None => role'[d] # None /\ role[d] \subseteq role'[d]
            /\ account[d] # None => /\ account'[d] # None
                                    /\ account[d].role => account'[d].role
                                    /\ account[d].usable => account'[d].usable
        BY <1>18, <4>1
      <4> QED BY <2>1, <3>1, <3>2, <3>4, <4>2, <4>3 DEF Progress, Spared
    <3> QED BY <3>3, <3>4
  <2> QED BY <1>11, <2>1, IssueFrame
<1>21. ProvisionedOK'
  <2>1. ASSUME NEW d \in Device, Sound(d)
        PROVE  Sound(d)'
    <3>1. Spared(d) /\ role[d] = Topic /\ account[d] = [role |-> TRUE, usable |-> TRUE] /\ account[d] # None
      BY <2>1 DEF Sound, Working
    <3>2. role[d] # None
      BY <3>1, NoneAssumption
    <3>3. role'[d] # None /\ Topic \subseteq role'[d]
      BY <1>18, <3>1, <3>2
    <3>4. role'[d] = Topic
      BY <1>7, <3>3
    <3>5. account'[d] # None /\ account'[d].role /\ account'[d].usable
      BY <1>18, <3>1
    <3>6. account'[d] = [role |-> TRUE, usable |-> TRUE]
      <4>1. account'[d] \in Account
        BY <1>7, <3>5
      <4> QED BY <3>5, <4>1 DEF Account
    <3> QED BY <1>17, <3>1, <3>4, <3>5, <3>6 DEF Sound, Working
  <2>2. \A p \in Req : Answered(p)
    BY <1>4 DEF Answered, Removing, Begun
  <2>3. /\ row \in [Car -> Row \cup {None}] /\ halfway \subseteq halfway'
        /\ \A o \in Car : row'[o] # None /\ row'[o].prov => row[o].prov
    BY <1>4 DEF TypeOK
  <2> QED BY <1>4, <1>11, <2>1, <2>2, <2>3, ProvisionedFrame
<1> QED BY <1>10, <1>12, <1>13, <1>14, <1>15, <1>16, <1>19, <1>20, <1>21

-----------------------------------------------------------------------------
(* The theorems. *)

LEMMA AdminInit ==
  Init => AdminInv
<1> SUFFICES ASSUME Init
             PROVE  AdminInv
  OBVIOUS
<1>1. TypeOK
  <2>1. /\ row \in [Car -> Row \cup {None}] /\ req \in [Req -> CarRequest \cup {None}]
        /\ role \in [Device -> {None} \cup SUBSET Topic] /\ account \in [Device -> Account \cup {None}]
    BY DEF Init
  <2>2. queue \in Seq(Req) /\ cmdq \in Seq([tok : Token, cmd : Command]) /\ respq \in Seq(Response)
    BY DEF Init
  <2> QED BY <2>1, <2>2 DEF Init, TypeOK
<1>2. RequestsOK /\ QueueOK /\ InFlightOK /\ CmdsOK /\ OverlapOK /\ IssueOK /\ ProvisionedOK
  BY DEF Init, RequestsOK, QueueOK, InFlightOK, CmdsOK, OverlapOK, IssueOK, ProvisionedOK, At, Begun
<1>3. AccountsOK
  BY DEF Init, AccountsOK, Unusable, Begun
<1>4. RowsOK
  <2>1. Creating = {} /\ born = {}
    BY DEF Init, Creating
  <2>2. Cardinality(Creating) = 0 /\ Cardinality(born) = 0
    BY <2>1, FS_EmptySet
  <2>3. Cardinality(Car) \in Nat
    BY AdminAssumption, FS_CardinalityType DEF AdminAssumption
  <2> QED BY <2>2, <2>3 DEF Init, RowsOK
<1> QED BY <1>1, <1>2, <1>3, <1>4 DEF AdminInv

LEMMA AdminNext ==
  ASSUME AdminInv, [Next]_vars
  PROVE  AdminInv'
<1>1. CASE UNCHANGED vars
  <2>1. /\ UNCHANGED <<row, born, req, queue, inFlight, overlapped, halfway, misled, connected, respq>>
        /\ UNCHANGED <<asks, faults, late>> /\ BrokerIdle
    BY <1>1 DEF vars, wire, broker, history, BrokerIdle
  <2>2. /\ connected' \in BOOLEAN /\ respq' \in Seq(Response)
        /\ asks' \in Nat /\ faults' \in Nat /\ late' \in Nat
    BY <2>1 DEF AdminInv, TypeOK
  <2> QED BY <2>1, <2>2, WireStep
<1>2. CASE Send
  BY <1>2, SendNowStep, SendRefusedStep DEF Send
<1>3. ASSUME NEW r \in Req, Query(r) \/ QueryFails(r)
      PROVE  AdminInv'
  BY <1>3, InsertStep, ReadStep, StampStep, DeleteRowStep, RenameStep, MarkStep, QueryFailsStep DEF Query
<1>4. CASE Create
  <2>1. PICK d \in Device : Ask("create", None, d)
    BY <1>4 DEF Create
  <2> QED BY <2>1, NoneAssumption, AskStep
<1>5. ASSUME NEW c \in Car, Request(c)
      PROVE  AdminInv'
  <2>1. CASE \E d \in Device : Ask("rename", c, d)
    <3>1. PICK d \in Device : Ask("rename", c, d)
      BY <2>1
    <3> QED BY <3>1, NoneAssumption, AskStep
  <2>2. CASE Ask("issue", c, None)
    BY <2>2, AskStep
  <2>3. CASE Ask("remove", c, None)
    BY <2>3, AskStep
  <2> QED BY <1>5, <2>1, <2>2, <2>3 DEF Request
<1>6. CASE OnResponse \/ Timeout \/ Disconnect \/ Reconnect \/ Broker
  BY <1>6, OnResponseStep, TimeoutStep, DisconnectStep, ReconnectStep, BrokerStep
<1> QED BY <1>1, <1>2, <1>3, <1>4, <1>5, <1>6 DEF Next

(* In every reachable state, whatever the broker answers and however late, each request is where
   its commands say, its broker commands are about its own devices, and what the broker holds
   follows from the commands it has taken. *)
THEOREM AdminInvariant == Spec => []AdminInv
BY AdminInit, AdminNext, PTL DEF Spec

(* MqttAdminService's queue: whoever awaits the broker is in flight, or once in the queue. *)
THEOREM NoneStrandedAlways == Spec => []NoneStranded
<1>1. AdminInv => NoneStranded
  BY DEF AdminInv, QueueOK, NoneStranded, At
<1> QED BY <1>1, AdminInvariant, PTL

(* CarsService.remove and update: no account that somebody could use outlives its car's row, or
   the row's old deviceId. *)
THEOREM NoOrphanAccountAlways == Spec => []NoOrphanAccount
<1>1. AdminInv => NoOrphanAccount
  BY DEF AdminInv, AccountsOK, NoOrphanAccount, Unusable
<1> QED BY <1>1, AdminInvariant, PTL

(* CarsService: a row that claims to be provisioned has an account that can publish. *)
THEOREM ProvisionedWorksAlways == Spec => []ProvisionedWorks
<1>1. AdminInv => ProvisionedWorks
  BY DEF AdminInv, ProvisionedOK, ProvisionedWorks, Sound
<1> QED BY <1>1, AdminInvariant, PTL

=============================================================================
