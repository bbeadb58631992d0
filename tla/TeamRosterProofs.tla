--------------------------- MODULE TeamRosterProofs ---------------------------
(***************************************************************************)
(* RosterInv is an invariant of TeamRoster, and with it that roles are     *)
(* conferred by those who may, that an owner stays unless requests race,   *)
(* and that accepted invites go.                                           *)
(***************************************************************************)
EXTENDS TeamRoster, FiniteSetTheorems, TLAPS

LEMMA InitInv == Init => RosterInv
<1> SUFFICES ASSUME Init PROVE RosterInv
  OBVIOUS
<1> USE RosterAssumption DEF Init
<1>1. TypeOK /\ RolesAreGranted /\ OwnerKept
  BY DEF TypeOK, RolesAreGranted, OwnerKept
<1>2. RowsAreOnes /\ StepsOf /\ RowsAreTheirs /\ OffersAreGranted /\ WritesKeepOwner
  BY DEF RowsAreOnes, StepsOf, RowsAreTheirs, OffersAreGranted, WritesKeepOwner
<1>3. AdmittedArePending /\ InviteIsUnaccepted
  BY DEF AdmittedArePending, InviteIsUnaccepted
<1> QED BY <1>1, <1>2, <1>3 DEF RosterInv

(* Two owners, if the count of them is more than one. *)
LEMMA AnotherOwner ==
  ASSUME ~LastOwner
  PROVE  \A v \in Owners : \E o \in Owners : o # v
<1>1. Owners \subseteq User /\ IsFiniteSet(Owners)
  BY RosterAssumption, FS_Subset DEF Owners
<1>2. ASSUME NEW v \in Owners PROVE \E o \in Owners : o # v
  <2>1. CASE Owners = {v}
    <3>1. Cardinality(Owners) = 1
      BY <2>1, FS_Singleton
    <3> QED BY <3>1 DEF LastOwner
  <2> QED BY <1>2, <2>1
<1> QED BY <1>2

(* A request that is authorized may confer what it asks for. *)
LEMMA AuthorizedMayConfer ==
  ASSUME NEW q \in Request, q.kind \in {"setRole", "invite"}, HasTeamRole(q), MayMint(q)
  PROVE  MayConfer(q)
BY DEF HasTeamRole, MayMint, MayConfer, RolesFor, HasRole, Managing, Request, Role

-----------------------------------------------------------------------------
(* Steps that only move a request on, or end it. *)

LEMMA RequestMoves ==
  ASSUME RosterInv,
         NEW r \in Req, req[r] # None, req[r].pc \notin {"write", "drop"},
         NEW q \in Request \cup {None}, req' = [req EXCEPT ![r] = q],
         granted \subseteq granted', granted' \subseteq User \X Role,
         UNCHANGED <<team, member, invite, overtaken, raced, admitted, asks, faults>>,
         q # None => StepOf(q) /\ RowIsTheirs(q) /\ OfferIsGranted(q)' /\ KeepsOwner(q)
  PROVE  RosterInv'
<1> USE DEF RosterInv, TypeOK
<1>1. /\ req[r] \in Request /\ req'[r] = q
      /\ \A s \in Req \ {r} : req'[s] = req[s]
  OBVIOUS
<1>2. TypeOK'
  BY <1>1 DEF Pending
<1>3. RowsAreOnes'
  BY <1>1 DEF RowsAreOnes
<1>4. StepsOf'
  BY <1>1 DEF StepsOf, StepOf
<1>5. RowsAreTheirs'
  BY <1>1 DEF RowsAreTheirs, RowIsTheirs
<1>6. OffersAreGranted' /\ RolesAreGranted'
  BY <1>1 DEF OffersAreGranted, OfferIsGranted, RolesAreGranted
<1>7. WritesKeepOwner' /\ OwnerKept'
  BY <1>1 DEF WritesKeepOwner, KeepsOwner, OwnerKept, Owners, HasRole
<1>8. AdmittedArePending' /\ InviteIsUnaccepted'
  BY <1>1 DEF AdmittedArePending, InviteIsUnaccepted, Pending
<1> HIDE DEF TypeOK
<1> QED BY <1>2, <1>3, <1>4, <1>5, <1>6, <1>7, <1>8

(* The membership a request has found is its user's. *)
LEMMA ResolvedKeeps ==
  ASSUME RosterInv, NEW q \in Request, q.kind \in {"setRole", "remove"}, member[q.to] # None
  PROVE  \E p \in Request :
           /\ p = Resolved(q, member[q.to])
           /\ p.kind = q.kind /\ p.to = q.to /\ p.role = q.role /\ p.pc \in {"count", "write"}
           /\ StepOf(p) /\ RowIsTheirs(p) /\ KeepsOwner(p)
<1> DEFINE m == member[q.to]
<1>1. q.to \in User /\ m \in RowRecord
  BY DEF RosterInv, TypeOK, Request
<1>2. PICK p \in Request :
      /\ p = Resolved(q, m)
      /\ p.kind = q.kind /\ p.to = q.to /\ p.role = q.role /\ p.row = m.id
      /\ p.pc \in {"count", "write"}
      /\ p.pc = "write" => m.role # "OWNER" \/ (q.kind # "remove" /\ q.role = "OWNER")
  <2> DEFINE x == Resolved(q, m)
  <2>1. /\ x \in Request
        /\ x.kind = q.kind /\ x.to = q.to /\ x.role = q.role /\ x.row = m.id
        /\ x.pc = IF m.role = "OWNER" /\ (q.kind = "remove" \/ q.role # "OWNER")
                  THEN "count" ELSE "write"
    BY <1>1 DEF Resolved, Request, RowRecord, Step
  <2> HIDE DEF x
  <2>2. /\ x.pc \in {"count", "write"}
        /\ x.pc = "write" => m.role # "OWNER" \/ (q.kind # "remove" /\ q.role = "OWNER")
    BY <2>1
  <2> QED BY <2>1, <2>2 DEF x
<1>3. StepOf(p)
  BY <1>2 DEF StepOf
<1>4. RowIsTheirs(p)
  BY <1>1, <1>2 DEF RowIsTheirs, RosterInv, RowsAreOnes
<1>5. KeepsOwner(p)
  BY <1>1, <1>2, <1>4 DEF KeepsOwner, RowIsTheirs, Owners, HasRole
<1> QED BY <1>2, <1>3, <1>4, <1>5

LEMMA AuthorizeInv ==
  ASSUME RosterInv, NEW r \in Req, Authorize(r)
  PROVE  RosterInv'
<1> DEFINE q == req[r]
<1>1. q \in Request /\ q # None /\ q.pc = "authorize"
  BY DEF Authorize, Pending, RosterInv, TypeOK
<1>2. StepOf(q) /\ granted \subseteq User \X Role
  BY <1>1 DEF RosterInv, StepsOf, TypeOK
<1>3. CASE ~(HasTeamRole(q) /\ MayMint(q))
  BY <1>1, <1>2, <1>3, RequestMoves DEF Authorize, End
<1>4. CASE HasTeamRole(q) /\ MayMint(q)
  <2>1. /\ req' = [req EXCEPT ![r] = After(q)]
        /\ granted' = IF q.kind \in {"setRole", "invite"} /\ MayConfer(q)
                      THEN granted \cup {<<q.to, q.role>>} ELSE granted
        /\ UNCHANGED <<team, member, invite, overtaken, raced, admitted, asks, faults>>
    BY <1>4 DEF Authorize
  <2>2. /\ granted \subseteq granted' /\ granted' \subseteq User \X Role
        /\ q.kind \in {"setRole", "invite"} => <<q.to, q.role>> \in granted'
    BY <1>1, <1>2, <1>4, <2>1, AuthorizedMayConfer DEF Request
  <2>3. CASE q.kind \in {"setRole", "remove"} /\ q.to = q.by /\ member[q.by] # None
    <3>1. After(q) = Resolved(q, member[q.to])
      BY <2>3 DEF After
    <3>2. PICK p \in Request :
            /\ p = After(q)
            /\ p.kind = q.kind /\ p.to = q.to /\ p.role = q.role /\ p.pc \in {"count", "write"}
            /\ StepOf(p) /\ RowIsTheirs(p) /\ KeepsOwner(p)
      BY <1>1, <2>3, <3>1, ResolvedKeeps
    <3>3. OfferIsGranted(p)'
      BY <2>2, <3>2 DEF OfferIsGranted
    <3> QED BY <1>1, <2>1, <2>2, <3>2, <3>3, RequestMoves
  <2>4. CASE ~(q.kind \in {"setRole", "remove"} /\ q.to = q.by /\ member[q.by] # None)
    <3>1. PICK p \in Request :
            /\ p = After(q)
            /\ p.kind = q.kind /\ p.to = q.to /\ p.role = q.role
            /\ \/ q.kind \in {"setRole", "remove"} /\ p.pc = "resolve"
               \/ q.kind = "invite" /\ p.pc = "probe"
               \/ q.kind = "revoke" /\ p.pc = "drop"
               \/ q.kind = "delete" /\ p.pc = "delete"
      <4>1. q.kind \in {"setRole", "remove", "invite", "revoke", "delete"}
        BY <1>1, <1>2 DEF StepOf, Request, Kind
      <4>2. \A s \in Step : /\ [q EXCEPT !.pc = s] \in Request
                            /\ [q EXCEPT !.pc = s].kind = q.kind /\ [q EXCEPT !.pc = s].pc = s
                            /\ [q EXCEPT !.pc = s].to = q.to /\ [q EXCEPT !.pc = s].role = q.role
        BY <1>1 DEF Request
      <4>3. CASE q.kind \in {"setRole", "remove"}
        BY <2>4, <4>2, <4>3 DEF After, Step
      <4>4. CASE q.kind \in {"invite", "revoke", "delete"}
        BY <4>2, <4>4 DEF After, Step
      <4> QED BY <4>1, <4>3, <4>4
    <3>2. StepOf(p) /\ RowIsTheirs(p) /\ KeepsOwner(p) /\ OfferIsGranted(p)'
      BY <2>2, <3>1 DEF StepOf, RowIsTheirs, KeepsOwner, OfferIsGranted
    <3> QED BY <1>1, <2>1, <2>2, <3>1, <3>2, RequestMoves
  <2> QED BY <2>3, <2>4
<1> QED BY <1>3, <1>4

LEMMA ResolveInv ==
  ASSUME RosterInv, NEW r \in Req, Resolve(r)
  PROVE  RosterInv'
<1> DEFINE q == req[r]
<1>1. /\ q \in Request /\ q # None /\ q.pc = "resolve"
      /\ q.kind \in {"setRole", "remove"}
      /\ q.kind = "setRole" => <<q.to, q.role>> \in granted
      /\ granted \subseteq User \X Role
  BY DEF Resolve, Pending, RosterInv, TypeOK, StepsOf, StepOf, OffersAreGranted, OfferIsGranted
<1>2. UNCHANGED <<team, member, invite, overtaken, raced, granted, admitted, asks, faults>>
  BY DEF Resolve, history
<1>3. CASE member[q.to] = None
  BY <1>1, <1>2, <1>3, RequestMoves DEF Resolve, End
<1>4. CASE member[q.to] # None
  <2>1. req' = [req EXCEPT ![r] = Resolved(q, member[q.to])]
    BY <1>4 DEF Resolve
  <2>2. PICK p \in Request :
          /\ p = Resolved(q, member[q.to])
          /\ p.kind = q.kind /\ p.to = q.to /\ p.role = q.role /\ p.pc \in {"count", "write"}
          /\ StepOf(p) /\ RowIsTheirs(p) /\ KeepsOwner(p)
    BY <1>1, <1>4, ResolvedKeeps
  <2>3. OfferIsGranted(p)'
    BY <1>1, <1>2, <2>2 DEF OfferIsGranted
  <2> QED BY <1>1, <1>2, <2>1, <2>2, <2>3, RequestMoves
<1> QED BY <1>3, <1>4

LEMMA CountOwnersInv ==
  ASSUME RosterInv, NEW r \in Req, CountOwners(r)
  PROVE  RosterInv'
<1> DEFINE q == req[r]
<1>1. /\ q \in Request /\ q # None /\ q.pc = "count" /\ granted \subseteq User \X Role
      /\ StepOf(q) /\ RowIsTheirs(q) /\ OfferIsGranted(q)
  BY DEF CountOwners, Pending, RosterInv, TypeOK, StepsOf, RowsAreTheirs, OffersAreGranted
<1>2. UNCHANGED <<team, member, invite, overtaken, raced, granted, admitted, asks, faults>>
  BY DEF CountOwners, history
<1>3. CASE LastOwner
  BY <1>1, <1>2, <1>3, RequestMoves DEF CountOwners, End
<1>4. CASE ~LastOwner
  <2>1. PICK p \in Request : p = [q EXCEPT !.pc = "write"]
    BY <1>1 DEF Request, Step
  <2>2. req' = [req EXCEPT ![r] = p]
    BY <1>4, <2>1 DEF CountOwners, Goto
  <2>3. StepOf(p) /\ RowIsTheirs(p) /\ OfferIsGranted(p)'
    BY <1>1, <1>2, <2>1 DEF StepOf, RowIsTheirs, OfferIsGranted, Request
  <2>4. KeepsOwner(p)
    BY <1>4, AnotherOwner DEF KeepsOwner
  <2> QED BY <1>1, <1>2, <2>2, <2>3, <2>4, RequestMoves
<1> QED BY <1>3, <1>4

LEMMA ProbeInv ==
  ASSUME RosterInv, NEW r \in Req, Probe(r)
  PROVE  RosterInv'
<1> DEFINE q == req[r]
           i == invite[q.to]
<1>1. /\ q \in Request /\ q # None /\ q.pc = "probe" /\ granted \subseteq User \X Role
      /\ q.kind = "invite" /\ OfferIsGranted(q)
      /\ q.to \in User /\ i \in RowRecord \cup {None}
  BY DEF Probe, Pending, RosterInv, TypeOK, StepsOf, StepOf, OffersAreGranted, Request
<1>2. UNCHANGED <<team, member, invite, overtaken, raced, granted, admitted, asks, faults>>
  BY DEF Probe, history
<1>3. PICK p \in Request :
        /\ req' = [req EXCEPT ![r] = p]
        /\ p.kind = q.kind /\ p.to = q.to /\ p.role = q.role
        /\ p.pc = "createInvite" \/ (i # None /\ p.pc = "updateInvite" /\ p.row = i.id)
  <2>1. CASE i = None
    <3>1. [q EXCEPT !.pc = "createInvite"] \in Request
      BY <1>1 DEF Request, Step
    <3>2. req' = [req EXCEPT ![r] = [q EXCEPT !.pc = "createInvite"]]
      BY <2>1 DEF Probe, Goto
    <3> QED BY <1>1, <3>1, <3>2 DEF Request
  <2>2. CASE i # None
    <3>1. [q EXCEPT !.pc = "updateInvite", !.row = i.id] \in Request
      BY <1>1, <2>2 DEF Request, Step, RowRecord
    <3>2. req' = [req EXCEPT ![r] = [q EXCEPT !.pc = "updateInvite", !.row = i.id]]
      BY <1>1, <2>2 DEF Probe, RosterInv, TypeOK
    <3> QED BY <1>1, <2>2, <3>1, <3>2 DEF Request
  <2> QED BY <2>1, <2>2
<1>4. StepOf(p) /\ KeepsOwner(p) /\ OfferIsGranted(p)'
  BY <1>1, <1>2, <1>3 DEF StepOf, KeepsOwner, OfferIsGranted
<1>5. RowIsTheirs(p)
  BY <1>1, <1>3 DEF RowIsTheirs, RosterInv, RowsAreOnes
<1> QED BY <1>1, <1>2, <1>3, <1>4, <1>5, RequestMoves

LEMMA FindInviteInv ==
  ASSUME RosterInv, NEW r \in Req, FindInvite(r)
  PROVE  RosterInv'
<1> DEFINE q == req[r]
<1>1. /\ q \in Request /\ q # None /\ q.pc = "find" /\ granted \subseteq User \X Role
      /\ q.kind \in {"accept", "decline"} /\ q.by \in User
  BY DEF FindInvite, Pending, RosterInv, TypeOK, StepsOf, StepOf, Request
<1>2. UNCHANGED <<team, member, invite, overtaken, raced, granted, admitted, asks, faults>>
  BY DEF FindInvite, history
<1>3. CASE End(r)
  BY <1>1, <1>2, <1>3, RequestMoves DEF End
<1>4. CASE ~End(r)
  <2>1. /\ invite[q.by] # None
        /\ req' = [req EXCEPT ![r].role = invite[q.by].role,
                              ![r].pc = IF q.kind = "accept" THEN "membership" ELSE "drop"]
    BY <1>4 DEF FindInvite, OwnInvite
  <2>2. invite[q.by] \in RowRecord /\ <<q.by, invite[q.by].role>> \in granted
    BY <1>1, <2>1 DEF RosterInv, TypeOK, OffersAreGranted
  <2>3. PICK p \in Request :
          /\ p = [q EXCEPT !.role = invite[q.by].role,
                           !.pc = IF q.kind = "accept" THEN "membership" ELSE "drop"]
          /\ p.kind = q.kind /\ p.by = q.by /\ p.role = invite[q.by].role
          /\ p.pc = IF q.kind = "accept" THEN "membership" ELSE "drop"
    <3> DEFINE x == [q EXCEPT !.role = invite[q.by].role,
                              !.pc = IF q.kind = "accept" THEN "membership" ELSE "drop"]
    <3>1. /\ x \in Request /\ x.kind = q.kind /\ x.by = q.by /\ x.role = invite[q.by].role
          /\ x.pc = IF q.kind = "accept" THEN "membership" ELSE "drop"
      BY <1>1, <2>2 DEF Request, RowRecord, Step
    <3> QED BY <3>1
  <2>4. req' = [req EXCEPT ![r] = p]
    BY <1>1, <2>1, <2>3 DEF RosterInv, TypeOK
  <2>5. StepOf(p) /\ RowIsTheirs(p) /\ KeepsOwner(p) /\ OfferIsGranted(p)'
    BY <1>1, <1>2, <2>2, <2>3 DEF StepOf, RowIsTheirs, KeepsOwner, OfferIsGranted
  <2> QED BY <1>1, <1>2, <2>4, <2>5, RequestMoves
<1> QED BY <1>3, <1>4

LEMMA FindMembershipInv ==
  ASSUME RosterInv, NEW r \in Req, FindMembership(r)
  PROVE  RosterInv'
<1> DEFINE q == req[r]
<1>1. /\ q \in Request /\ q # None /\ q.pc = "membership" /\ granted \subseteq User \X Role
      /\ q.kind = "accept" /\ OfferIsGranted(q)
  BY DEF FindMembership, Pending, RosterInv, TypeOK, StepsOf, StepOf, OffersAreGranted
<1>2. UNCHANGED <<team, member, invite, overtaken, raced, granted, admitted, asks, faults>>
  BY DEF FindMembership, history
<1>3. PICK p \in Request : p = [q EXCEPT !.pc = IF member[q.by] = None THEN "join" ELSE "drop"]
  BY <1>1 DEF Request, Step
<1>4. req' = [req EXCEPT ![r] = p]
  BY <1>3 DEF FindMembership, Goto
<1>5. /\ p.kind = q.kind /\ p.by = q.by /\ p.role = q.role
      /\ p.pc \in {"join", "drop"}
  BY <1>1, <1>3 DEF Request
<1>6. StepOf(p) /\ RowIsTheirs(p) /\ KeepsOwner(p) /\ OfferIsGranted(p)'
  BY <1>1, <1>2, <1>5 DEF StepOf, RowIsTheirs, KeepsOwner, OfferIsGranted
<1> QED BY <1>1, <1>2, <1>4, <1>6, RequestMoves

-----------------------------------------------------------------------------
(* Steps that change the roster or the invites: one step per conjunct. *)

LEMMA CreateInv ==
  ASSUME RosterInv, NEW u \in User, Create(u)
  PROVE  RosterInv'
<1> USE RosterAssumption DEF RosterInv, Create, TypeOK, RowRecord, Role
<1>1. \A r \in Req : req[r] = None /\ req'[r] = None
  BY DEF RowsAreOnes
<1>2. PICK i \in Fresh : member' = [member EXCEPT ![u] = [id |-> i, role |-> "OWNER"]]
  OBVIOUS
<1>3. /\ [id |-> i, role |-> "OWNER"] \in RowRecord
      /\ member' \in [User -> RowRecord \cup {None}]
      /\ member'[u] # None /\ member'[u].role = "OWNER" /\ member'[u].id = i
      /\ \A v \in User \ {u} : member'[v] = member[v]
  BY <1>2 DEF Fresh
<1>4. TypeOK'
  BY <1>1, <1>3 DEF Pending
<1>5. RowsAreOnes' /\ StepsOf' /\ RowsAreTheirs'
  BY <1>1, <1>3 DEF RowsAreOnes, StepsOf, RowsAreTheirs, Fresh
<1>6. OffersAreGranted' /\ RolesAreGranted'
  BY <1>1, <1>3 DEF OffersAreGranted, RolesAreGranted
<1>7. WritesKeepOwner' /\ OwnerKept'
  BY <1>1, <1>3 DEF WritesKeepOwner, OwnerKept, Owners, HasRole
<1>8. AdmittedArePending' /\ InviteIsUnaccepted'
  BY <1>1 DEF AdmittedArePending, InviteIsUnaccepted, Pending
<1> HIDE DEF TypeOK
<1> QED BY <1>4, <1>5, <1>6, <1>7, <1>8

LEMMA AskInv ==
  ASSUME RosterInv, NEW q \in Request, Ask(q), StepOf(q), q.pc \in {"authorize", "find", "drop"}
  PROVE  RosterInv'
<1> USE RosterAssumption DEF RosterInv, Ask, TypeOK, history
<1>1. PICK r \in Req : req[r] = None /\ req' = [req EXCEPT ![r] = q]
  OBVIOUS
<1>2. TypeOK'
  BY <1>1 DEF Pending
<1>3. RowsAreOnes' /\ StepsOf'
  BY <1>1 DEF RowsAreOnes, StepsOf, StepOf
<1>4. RowsAreTheirs'
  BY <1>1 DEF RowsAreTheirs, RowIsTheirs
<1>5. OffersAreGranted' /\ RolesAreGranted'
  BY <1>1 DEF OffersAreGranted, OfferIsGranted, RolesAreGranted, StepOf
<1>6. WritesKeepOwner' /\ OwnerKept'
  BY <1>1 DEF WritesKeepOwner, KeepsOwner, OwnerKept, Owners, HasRole
<1>7. AdmittedArePending' /\ InviteIsUnaccepted'
  BY <1>1 DEF AdmittedArePending, InviteIsUnaccepted, Pending
<1> HIDE DEF TypeOK
<1> QED BY <1>2, <1>3, <1>4, <1>5, <1>6, <1>7

LEMMA ArrivesInv ==
  ASSUME RosterInv, NEW u \in User, Arrives(u)
  PROVE  RosterInv'
<1>1. ASSUME NEW v \in User, NEW role \in Role, NEW k \in {"setRole", "invite", "remove", "delete"},
             AskTeam(k, u, v, role)
      PROVE  RosterInv'
  <2> DEFINE q == [kind |-> k, by |-> u, to |-> v, role |-> role, row |-> None, pc |-> "authorize"]
  <2>1. q \in Request /\ StepOf(q) /\ Ask(q)
    BY <1>1 DEF Request, Kind, Step, StepOf, AskTeam
  <2> QED BY <2>1, AskInv
<1>2. ASSUME NEW v \in User, NEW k \in {"accept", "decline", "revoke"}, AskInvite(k, u, v)
      PROVE  RosterInv'
  <2> DEFINE q == [ kind |-> k, by |-> u, to |-> v, role |-> invite[v].role, row |-> invite[v].id,
                    pc |-> IF k = "revoke" THEN "authorize" ELSE "find" ]
  <2>1. invite[v] \in RowRecord
    BY <1>2 DEF AskInvite, RosterInv, TypeOK
  <2>2. PICK p \in Request : p = q /\ p.pc \in {"authorize", "find"} /\ StepOf(p)
    <3>1. q \in Request
      BY <2>1 DEF Request, Kind, Step, RowRecord
    <3>2. StepOf(q)
      BY DEF StepOf
    <3> QED BY <3>1, <3>2
  <2>3. Ask(p)
    BY <1>2, <2>2 DEF AskInvite
  <2> QED BY <2>2, <2>3, AskInv
<1>3. "DRIVER" \in Role
  BY DEF Role
<1> QED BY <1>1, <1>2, <1>3, CreateInv DEF Arrives

LEMMA WriteInv ==
  ASSUME RosterInv, NEW r \in Req, Write(r)
  PROVE  RosterInv'
<1> USE RosterAssumption DEF RosterInv, TypeOK
<1> DEFINE q == req[r]
<1>1. /\ q \in Request /\ q # None /\ q.pc = "write"
      /\ q.role \in Role /\ q.to \in User
      /\ q.kind \in {"setRole", "remove"} /\ RowIsTheirs(q) /\ OfferIsGranted(q)
  BY DEF Write, Pending, StepsOf, StepOf, RowsAreTheirs, OffersAreGranted, Request
<1>2. /\ req' = [req EXCEPT ![r] = None] /\ team # "none"
      /\ UNCHANGED <<team, invite, granted, admitted, asks, faults>>
  BY <1>1 DEF Write, End, RowsAreOnes
<1>3. CASE \E v \in User : member[v] # None /\ member[v].id = q.row
  <2>1. PICK v \in User :
          /\ member[v] # None /\ member[v].id = q.row
          /\ member' = IF q.kind = "remove" THEN [member EXCEPT ![v] = None]
                       ELSE [member EXCEPT ![v].role = q.role]
          /\ overtaken' = (overtaken \cup {p \in Req : Pending(p, "write")}) \ {r}
          /\ raced' = (raced \/ r \in overtaken)
    BY <1>3 DEF Write, Overtake
  <2>2. v = q.to
    BY <1>1, <2>1 DEF RowIsTheirs
  <2>3. /\ member' \in [User -> RowRecord \cup {None}]
        /\ \A u \in User \ {v} : member'[u] = member[u]
        /\ \/ q.kind = "remove" /\ member'[v] = None
           \/ /\ q.kind = "setRole" /\ member'[v] # None
              /\ member'[v].id = member[v].id /\ member'[v].role = q.role
    <3>1. CASE q.kind = "remove"
      BY <2>1, <3>1
    <3>2. CASE q.kind = "setRole"
      <4>1. [member[v] EXCEPT !.role = q.role] \in RowRecord
        BY <1>1, <2>1 DEF RowRecord
      <4>2. member' = [member EXCEPT ![v] = [member[v] EXCEPT !.role = q.role]]
        BY <2>1, <3>2
      <4> QED BY <2>1, <3>2, <4>1, <4>2 DEF RowRecord
    <3> QED BY <1>1, <3>1, <3>2
  <2>4. TypeOK'
    BY <1>1, <1>2, <2>1, <2>3 DEF Pending
  <2>5. RowsAreOnes'
    BY <1>1, <1>2, <2>1, <2>3 DEF RowsAreOnes
  <2>6. StepsOf' /\ RowsAreTheirs'
    BY <1>2, <2>1, <2>3 DEF StepsOf, StepOf, RowsAreTheirs, RowIsTheirs
  <2>7. OffersAreGranted'
    BY <1>2 DEF OffersAreGranted, OfferIsGranted
  <2>8. RolesAreGranted'
    BY <1>1, <1>2, <2>2, <2>3 DEF RolesAreGranted, OfferIsGranted
  <2>9. WritesKeepOwner'
    BY <1>2, <2>1 DEF WritesKeepOwner, KeepsOwner, Pending
  <2>10. OwnerKept'
    <3>1. SUFFICES ASSUME team = "live", ~raced, r \notin overtaken
                   PROVE  Owners' # {}
      BY <1>2, <2>1 DEF OwnerKept
    <3>2. \A u \in Owners \ {v} : u \in Owners'
      BY <2>3 DEF Owners, HasRole
    <3>3. CASE v \notin Owners
      BY <3>1, <3>2, <3>3 DEF OwnerKept
    <3>4. CASE v \in Owners /\ q.kind = "setRole" /\ q.role = "OWNER"
      BY <2>3, <3>4 DEF Owners, HasRole
    <3>5. CASE v \in Owners /\ (q.kind = "remove" \/ q.role # "OWNER")
      BY <1>1, <2>1, <3>1, <3>2, <3>5 DEF WritesKeepOwner, KeepsOwner
    <3> QED BY <1>1, <3>3, <3>4, <3>5
  <2>11. AdmittedArePending' /\ InviteIsUnaccepted'
    BY <1>1, <1>2 DEF AdmittedArePending, InviteIsUnaccepted, Pending
  <2> HIDE DEF TypeOK
  <2> QED BY <2>4, <2>5, <2>6, <2>7, <2>8, <2>9, <2>10, <2>11
<1>4. CASE ~\E v \in User : member[v] # None /\ member[v].id = q.row
  <2>1. overtaken' = overtaken \ {r} /\ UNCHANGED <<member, raced>>
    BY <1>4 DEF Write
  <2>2. TypeOK'
    BY <1>1, <1>2, <2>1 DEF Pending
  <2>3. RowsAreOnes' /\ StepsOf' /\ RowsAreTheirs'
    BY <1>2, <2>1 DEF RowsAreOnes, StepsOf, StepOf, RowsAreTheirs, RowIsTheirs
  <2>4. OffersAreGranted' /\ RolesAreGranted'
    BY <1>2, <2>1 DEF OffersAreGranted, OfferIsGranted, RolesAreGranted
  <2>5. WritesKeepOwner' /\ OwnerKept'
    BY <1>2, <2>1 DEF WritesKeepOwner, KeepsOwner, OwnerKept, Owners, HasRole
  <2>6. AdmittedArePending' /\ InviteIsUnaccepted'
    BY <1>1, <1>2 DEF AdmittedArePending, InviteIsUnaccepted, Pending
  <2> HIDE DEF TypeOK
  <2> QED BY <2>2, <2>3, <2>4, <2>5, <2>6
<1> QED BY <1>3, <1>4

LEMMA DeleteTeamInv ==
  ASSUME RosterInv, NEW r \in Req, DeleteTeam(r)
  PROVE  RosterInv'
<1> USE RosterAssumption DEF RosterInv, TypeOK, DeleteTeam, End, Pending
<1>1. TypeOK'
  OBVIOUS
<1>2. RowsAreOnes' /\ StepsOf' /\ RowsAreTheirs'
  BY DEF RowsAreOnes, StepsOf, StepOf, RowsAreTheirs, RowIsTheirs
<1>3. OffersAreGranted' /\ RolesAreGranted'
  BY DEF OffersAreGranted, OfferIsGranted, RolesAreGranted
<1>4. WritesKeepOwner' /\ OwnerKept'
  BY DEF WritesKeepOwner, KeepsOwner, OwnerKept, Owners, HasRole
<1>5. AdmittedArePending' /\ InviteIsUnaccepted'
  BY DEF AdmittedArePending, InviteIsUnaccepted
<1> HIDE DEF TypeOK, Pending, DeleteTeam
<1> QED BY <1>1, <1>2, <1>3, <1>4, <1>5

LEMMA UpdateInviteInv ==
  ASSUME RosterInv, NEW r \in Req, UpdateInvite(r)
  PROVE  RosterInv'
<1> USE RosterAssumption DEF RosterInv, TypeOK
<1> DEFINE q == req[r]
<1>1. /\ q \in Request /\ q # None /\ q.pc = "updateInvite" /\ q.role \in Role
      /\ RowIsTheirs(q) /\ <<q.to, q.role>> \in granted
  BY DEF UpdateInvite, Pending, StepsOf, StepOf, RowsAreTheirs, OffersAreGranted, OfferIsGranted, Request
<1>2. /\ req' = [req EXCEPT ![r] = None]
      /\ UNCHANGED <<team, member, overtaken, raced, granted, admitted, asks, faults>>
  BY DEF UpdateInvite, End, history
<1>3. /\ invite' \in [User -> RowRecord \cup {None}]
      /\ \A u \in User : /\ invite'[u] # None <=> invite[u] # None
                         /\ invite[u] # None =>
                              /\ invite'[u].id = invite[u].id
                              /\ \/ invite'[u].role = invite[u].role
                                 \/ u = q.to /\ invite'[u].role = q.role
  <2> DEFINE x(u) == IF invite[u] # None /\ invite[u].id = q.row
                     THEN [invite[u] EXCEPT !.role = q.role] ELSE invite[u]
  <2>1. invite' = [u \in User |-> x(u)]
    BY DEF UpdateInvite
  <2>2. ASSUME NEW u \in User
        PROVE  /\ x(u) \in RowRecord \cup {None}
               /\ x(u) # None <=> invite[u] # None
               /\ invite[u] # None => /\ x(u).id = invite[u].id
                                      /\ \/ x(u).role = invite[u].role
                                         \/ u = q.to /\ x(u).role = q.role
    <3>1. CASE invite[u] # None /\ invite[u].id = q.row
      <4>1. u = q.to
        BY <1>1, <3>1 DEF RowIsTheirs
      <4> QED BY <1>1, <3>1, <4>1 DEF RowRecord
    <3>2. CASE ~(invite[u] # None /\ invite[u].id = q.row)
      BY <3>2
    <3> QED BY <3>1, <3>2
  <2> HIDE DEF x
  <2> QED BY <2>1, <2>2
<1>4. TypeOK'
  BY <1>1, <1>2, <1>3 DEF Pending
<1>5. RowsAreOnes'
  BY <1>1, <1>2, <1>3 DEF RowsAreOnes
<1>6. StepsOf' /\ RowsAreTheirs'
  BY <1>2, <1>3 DEF StepsOf, StepOf, RowsAreTheirs, RowIsTheirs
<1>7. OffersAreGranted' /\ RolesAreGranted'
  BY <1>1, <1>2, <1>3 DEF OffersAreGranted, OfferIsGranted, RolesAreGranted
<1>8. WritesKeepOwner' /\ OwnerKept'
  BY <1>2 DEF WritesKeepOwner, KeepsOwner, OwnerKept, Owners, HasRole
<1>9. AdmittedArePending'
  BY <1>2, <1>3 DEF AdmittedArePending
<1>10. InviteIsUnaccepted'
  BY <1>1, <1>2, <1>3 DEF InviteIsUnaccepted, Pending
<1> HIDE DEF TypeOK
<1> QED BY <1>4, <1>5, <1>6, <1>7, <1>8, <1>9, <1>10

LEMMA CreateInviteInv ==
  ASSUME RosterInv, NEW r \in Req, CreateInvite(r)
  PROVE  RosterInv'
<1> USE RosterAssumption DEF RosterInv, TypeOK
<1> DEFINE q == req[r]
<1>1. /\ q \in Request /\ q # None /\ q.pc = "createInvite" /\ q.role \in Role /\ q.to \in User
      /\ <<q.to, q.role>> \in granted
  BY DEF CreateInvite, Pending, StepsOf, StepOf, OffersAreGranted, OfferIsGranted, Request
<1>2. /\ req' = [req EXCEPT ![r] = None] /\ team # "none"
      /\ UNCHANGED <<team, member, overtaken, raced, granted, admitted, asks, faults>>
  BY <1>1 DEF CreateInvite, End, history, RowsAreOnes
<1>3. \/ UNCHANGED invite
      \/ \E i \in Fresh : /\ invite[q.to] = None /\ invite' \in [User -> RowRecord \cup {None}]
                          /\ invite'[q.to] # None
                          /\ invite'[q.to].id = i /\ invite'[q.to].role = q.role
                          /\ \A u \in User \ {q.to} : invite'[u] = invite[u]
  <2>1. CASE invite[q.to] = None /\ \E i \in Fresh :
               invite' = [invite EXCEPT ![q.to] = [id |-> i, role |-> q.role]]
    <3>1. PICK i \in Fresh : invite' = [invite EXCEPT ![q.to] = [id |-> i, role |-> q.role]]
      BY <2>1
    <3>2. [id |-> i, role |-> q.role] \in RowRecord
      BY <1>1 DEF RowRecord, Fresh
    <3> QED BY <1>1, <2>1, <3>1, <3>2
  <2> QED BY <2>1 DEF CreateInvite
<1>4. TypeOK'
  BY <1>1, <1>2, <1>3 DEF Pending
<1>5. RowsAreOnes'
  BY <1>1, <1>2, <1>3 DEF RowsAreOnes, Fresh
<1>6. StepsOf'
  BY <1>2 DEF StepsOf, StepOf
<1>7. RowsAreTheirs'
  BY <1>1, <1>2, <1>3 DEF RowsAreTheirs, RowIsTheirs, Fresh
<1>8. OffersAreGranted' /\ RolesAreGranted'
  BY <1>1, <1>2, <1>3 DEF OffersAreGranted, OfferIsGranted, RolesAreGranted
<1>9. WritesKeepOwner' /\ OwnerKept'
  BY <1>2 DEF WritesKeepOwner, KeepsOwner, OwnerKept, Owners, HasRole
<1>10. AdmittedArePending'
  BY <1>1, <1>2, <1>3 DEF AdmittedArePending
<1>11. InviteIsUnaccepted'
  <2>1. \A i \in Fresh : i \notin admitted
    BY DEF AdmittedArePending, Fresh
  <2> QED BY <1>1, <1>2, <1>3, <2>1 DEF InviteIsUnaccepted, Pending
<1> HIDE DEF TypeOK
<1> QED BY <1>4, <1>5, <1>6, <1>7, <1>8, <1>9, <1>10, <1>11

LEMMA JoinInv ==
  ASSUME RosterInv, NEW r \in Req, Join(r)
  PROVE  RosterInv'
<1> USE RosterAssumption DEF RosterInv, TypeOK
<1> DEFINE q == req[r]
           u == q.by
           Met == {v \in User : invite[v] # None /\ invite[v].id = q.row}
<1>1. /\ q \in Request /\ q # None /\ q.pc = "join" /\ q.kind = "accept"
      /\ q.role \in Role /\ u \in User /\ <<u, q.role>> \in granted
      /\ granted \subseteq User \X Role /\ team # "none"
  BY DEF Join, Pending, StepsOf, StepOf, OffersAreGranted, OfferIsGranted, Request, RowsAreOnes
<1>2. UNCHANGED <<team, invite, raced, granted, asks, faults>>
  BY DEF Join
<1>3. CASE End(r) /\ UNCHANGED <<member, overtaken, admitted>>
  BY <1>1, <1>2, <1>3, RequestMoves DEF End
<1>4. CASE /\ member[u] = None
           /\ \E i \in Fresh : member' = [member EXCEPT ![u] = [id |-> i, role |-> q.role]]
           /\ AfterJoin(r) /\ Overtake(r)
           /\ admitted' = admitted \cup {invite[v].id : v \in Met}
  <2>1. PICK i \in Fresh : member' = [member EXCEPT ![u] = [id |-> i, role |-> q.role]]
    BY <1>4
  <2>2. /\ member' \in [User -> RowRecord \cup {None}]
        /\ member'[u] # None /\ member'[u].id = i /\ member'[u].role = q.role
        /\ \A v \in User \ {u} : member'[v] = member[v]
    <3>1. [id |-> i, role |-> q.role] \in RowRecord
      BY <1>1 DEF RowRecord, Fresh
    <3> QED BY <1>1, <2>1, <3>1
  <2>3. PICK p \in Request : p = [q EXCEPT !.pc = "drop"]
    BY <1>1 DEF Request, Step
  <2>4. /\ req' = [req EXCEPT ![r] = p] /\ p # None
        /\ p.pc = "drop" /\ p.kind = "accept" /\ p.row = q.row /\ p.to = q.to
    BY <1>1, <1>4, <2>3 DEF AfterJoin, Goto, Request
  <2>5. overtaken' = (overtaken \cup {s \in Req : Pending(s, "write")}) \ {r}
    BY <1>4 DEF Overtake
  <2>6. TypeOK'
    <3>1. admitted' \subseteq Row
      BY <1>4 DEF RowRecord
    <3> QED BY <1>1, <1>2, <2>2, <2>4, <2>5, <3>1 DEF Pending
  <2>7. RowsAreOnes'
    BY <1>1, <1>2, <1>4, <2>2, <2>4 DEF RowsAreOnes, Fresh
  <2>8. StepsOf'
    BY <2>4 DEF StepsOf, StepOf
  <2>9. RowsAreTheirs'
    BY <1>1, <1>2, <1>4, <2>2, <2>4 DEF RowsAreTheirs, RowIsTheirs, Fresh
  <2>10. OffersAreGranted' /\ RolesAreGranted'
    BY <1>1, <1>2, <2>2, <2>4 DEF OffersAreGranted, OfferIsGranted, RolesAreGranted
  <2>11. WritesKeepOwner'
    BY <2>4, <2>5 DEF WritesKeepOwner, KeepsOwner, Pending
  <2>12. OwnerKept'
    BY <1>1, <1>2, <1>4, <2>2 DEF OwnerKept, Owners, HasRole
  <2>13. AdmittedArePending'
    BY <1>2, <1>4 DEF AdmittedArePending
  <2>14. InviteIsUnaccepted'
    BY <1>1, <1>2, <1>4, <2>4 DEF InviteIsUnaccepted, Pending
  <2> HIDE DEF TypeOK
  <2> QED BY <2>6, <2>7, <2>8, <2>9, <2>10, <2>11, <2>12, <2>13, <2>14
<1> QED BY <1>3, <1>4 DEF Join

LEMMA DropInviteInv ==
  ASSUME RosterInv, NEW r \in Req, DropInvite(r)
  PROVE  RosterInv'
<1> USE RosterAssumption DEF RosterInv, TypeOK
<1> DEFINE q == req[r]
<1>1. q \in Request /\ q # None /\ q.pc = "drop"
  BY DEF DropInvite, Pending
<1>2. /\ req' = [req EXCEPT ![r] = None] /\ admitted' = admitted \ {q.row}
      /\ UNCHANGED <<team, member, overtaken, raced, granted, asks, faults>>
  BY DEF DropInvite, End
<1>3. /\ invite' \in [User -> RowRecord \cup {None}]
      /\ \A u \in User : invite'[u] = IF invite[u] # None /\ invite[u].id = q.row
                                     THEN None ELSE invite[u]
  BY DEF DropInvite
<1>4. TypeOK'
  BY <1>1, <1>2, <1>3 DEF Pending
<1>5. RowsAreOnes' /\ StepsOf' /\ RowsAreTheirs'
  BY <1>2, <1>3 DEF RowsAreOnes, StepsOf, StepOf, RowsAreTheirs, RowIsTheirs
<1>6. OffersAreGranted' /\ RolesAreGranted'
  BY <1>2, <1>3 DEF OffersAreGranted, OfferIsGranted, RolesAreGranted
<1>7. WritesKeepOwner' /\ OwnerKept'
  BY <1>2 DEF WritesKeepOwner, KeepsOwner, OwnerKept, Owners, HasRole
<1>8. AdmittedArePending'
  BY <1>2, <1>3 DEF AdmittedArePending
<1>9. InviteIsUnaccepted'
  BY <1>1, <1>2, <1>3 DEF InviteIsUnaccepted, Pending
<1> HIDE DEF TypeOK
<1> QED BY <1>4, <1>5, <1>6, <1>7, <1>8, <1>9

LEMMA FailsInv ==
  ASSUME RosterInv, NEW r \in Req, Fails(r)
  PROVE  RosterInv'
<1> USE RosterAssumption DEF RosterInv, TypeOK
<1>1. /\ req' = [req EXCEPT ![r] = None] /\ overtaken' = overtaken \ {r} /\ faults' = faults + 1
      /\ UNCHANGED <<team, member, invite, raced, granted, admitted, asks>>
  BY DEF Fails, End
<1>2. TypeOK'
  BY <1>1 DEF Pending
<1>3. RowsAreOnes' /\ StepsOf' /\ RowsAreTheirs'
  BY <1>1 DEF RowsAreOnes, StepsOf, StepOf, RowsAreTheirs, RowIsTheirs
<1>4. OffersAreGranted' /\ RolesAreGranted'
  BY <1>1 DEF OffersAreGranted, OfferIsGranted, RolesAreGranted
<1>5. WritesKeepOwner' /\ OwnerKept'
  BY <1>1 DEF WritesKeepOwner, KeepsOwner, OwnerKept, Owners, HasRole
<1>6. AdmittedArePending' /\ InviteIsUnaccepted'
  BY <1>1 DEF AdmittedArePending, InviteIsUnaccepted
<1> HIDE DEF TypeOK
<1> QED BY <1>2, <1>3, <1>4, <1>5, <1>6

-----------------------------------------------------------------------------
(* The invariant: the roster, its invites and the requests on them agree, whatever requests
   of TeamsService run and however their queries interleave or fail. *)
THEOREM RosterInvariant == Spec => []RosterInv
<1>1. Init => RosterInv
  BY InitInv
<1>2. RosterInv /\ [Next]_vars => RosterInv'
  <2> SUFFICES ASSUME RosterInv, [Next]_vars PROVE RosterInv'
    OBVIOUS
  <2>1. ASSUME NEW r \in Req, Handler(r) PROVE RosterInv'
    BY <2>1, AuthorizeInv, ResolveInv, CountOwnersInv, WriteInv, DeleteTeamInv, ProbeInv,
       UpdateInviteInv, CreateInviteInv, FindInviteInv, FindMembershipInv, JoinInv, DropInviteInv,
       FailsInv DEF Handler
  <2>2. CASE UNCHANGED vars
    BY <2>2 DEF vars, history, RosterInv, TypeOK, RowsAreOnes, StepsOf, StepOf, RowsAreTheirs,
       RowIsTheirs, OffersAreGranted, OfferIsGranted, RolesAreGranted, WritesKeepOwner, KeepsOwner,
       OwnerKept, Owners, HasRole, AdmittedArePending, InviteIsUnaccepted, Pending
  <2> QED BY <2>1, <2>2, ArrivesInv DEF Next
<1> QED BY <1>1, <1>2, PTL DEF Spec

(* Nobody holds a role on a team that someone entitled to confer it did not confer on them:
   the checks of requireTeamRole and of inviteMember are made once, and the role is written
   queries later. *)
THEOREM RolesAreGrantedAlways == Spec => []RolesAreGranted
<1>1. RosterInv => RolesAreGranted
  BY DEF RosterInv
<1> QED BY <1>1, RosterInvariant, PTL

(* assertNotLastOwner keeps an owner, for every number of users, requests and rows, unless a
   request has written after another changed the roster it counted. *)
THEOREM OwnerKeptAlways == Spec => []OwnerKept
<1>1. RosterInv => OwnerKept
  BY DEF RosterInv
<1> QED BY <1>1, RosterInvariant, PTL

(* acceptInvite takes the invite away with the membership it makes, unless a query fails in
   between. *)
THEOREM InviteIsUnacceptedAlways == Spec => []InviteIsUnaccepted
<1>1. RosterInv => InviteIsUnaccepted
  BY DEF RosterInv
<1> QED BY <1>1, RosterInvariant, PTL

=============================================================================
