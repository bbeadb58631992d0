----------------------------- MODULE TeamRoster -----------------------------
(***************************************************************************)
(* One team: its roster, its pending invites, and the API requests on      *)
(* them. A request is a handler of TeamsService; each of its queries is a  *)
(* step, and other requests run in between. Teams share no state.          *)
(*                                                                         *)
(* An address is its user: invites are matched on the lowercased address.  *)
(***************************************************************************)
EXTENDS Integers, FiniteSets

CONSTANTS
  User, Admin,          \* users; those with the ADMIN role of the platform
  Req,                  \* requests that can run at once
  Row,                  \* ids of membership and invite rows
  None,
  MaxAsks,              \* bound on requests
  MaxFaults             \* bound on failed queries

Role == {"OWNER", "MANAGER", "DRIVER"}
Managing == {"OWNER", "MANAGER"}

RowRecord == [id : Row, role : Role]
Kind == {"setRole", "invite", "remove", "delete", "accept", "decline", "revoke"}
Step == { "authorize", "resolve", "count", "write", "delete", "probe", "createInvite",
          "updateInvite", "find", "membership", "join", "drop" }
Request == [kind : Kind, by : User, to : User, role : Role, row : Row \cup {None}, pc : Step]

ASSUME RosterAssumption ==
  /\ Admin \subseteq User /\ IsFiniteSet(User)
  /\ None \notin Row \cup RowRecord \cup Request

VARIABLES
  team,         \* "none", "live" or "deleted"
  member,       \* [User -> the membership row, or None]
  invite,       \* [User -> the pending invite's row, or None]
  req,          \* [Req -> a request, or None]
  overtaken,    \* history: requests about to write, whose reads another's write overtook
  raced,        \* history: such a request has written
  granted,      \* history: roles conferred by someone who may confer them
  admitted,     \* history: ids of the pending invites that made a membership
  asks, faults

history == <<overtaken, raced, granted, admitted>>
vars == <<team, member, invite, req, history, asks, faults>>

HasRole(u, roles) == member[u] # None /\ member[u].role \in roles
Owners == {u \in User : HasRole(u, {"OWNER"})}

Pending(r, step) == req[r] # None /\ req[r].pc = step
Goto(r, step) == req' = [req EXCEPT ![r].pc = step]
End(r) == req' = [req EXCEPT ![r] = None]

Fresh == {i \in Row :
  /\ \A u \in User : /\ member[u] # None => member[u].id # i
                     /\ invite[u] # None => invite[u].id # i
  /\ \A r \in Req : req[r] # None => req[r].row # i}

-----------------------------------------------------------------------------
(* A request arrives. *)

(* createWithOwner: the team and its founder are one transaction. *)
Create(u) ==
  /\ team = "none"
  /\ team' = "live"
  /\ \E i \in Fresh : member' = [member EXCEPT ![u] = [id |-> i, role |-> "OWNER"]]
  /\ granted' = granted \cup {<<u, "OWNER">>}
  /\ UNCHANGED <<invite, req, overtaken, raced, admitted, asks, faults>>

Ask(q) ==
  /\ team # "none" /\ asks < MaxAsks
  /\ asks' = asks + 1
  /\ \E r \in Req : req[r] = None /\ req' = [req EXCEPT ![r] = q]
  /\ UNCHANGED <<team, member, invite, history, faults>>

AskTeam(k, u, v, role) ==
  Ask([kind |-> k, by |-> u, to |-> v, role |-> role, row |-> None, pc |-> "authorize"])

(* The id is one the client has seen: its own, or another's. *)
AskInvite(k, u, v) ==
  /\ invite[v] # None
  /\ Ask([ kind |-> k, by |-> u, to |-> v, role |-> invite[v].role, row |-> invite[v].id,
           pc |-> IF k = "revoke" THEN "authorize" ELSE "find" ])

-----------------------------------------------------------------------------
(* requireTeamRole. *)

RolesFor(q) ==
  IF q.kind = "remove" /\ q.to = q.by THEN Role
  ELSE IF q.kind \in {"invite", "revoke"} THEN Managing ELSE {"OWNER"}

(* An admin's second query finds the team; its members went with it, so it is one step. *)
HasTeamRole(q) == HasRole(q.by, RolesFor(q)) \/ (q.by \in Admin /\ team = "live")

(* Only an owner, or an admin, may invite an owner. *)
MayMint(q) ==
  (q.kind = "invite" /\ q.role = "OWNER") => (HasRole(q.by, {"OWNER"}) \/ q.by \in Admin)

(* What u may confer, by rule; what the code lets it confer is the guards above. *)
MayConfer(q) ==
  \/ HasRole(q.by, {"OWNER"})
  \/ q.by \in Admin
  \/ q.kind = "invite" /\ q.role # "OWNER" /\ HasRole(q.by, Managing)

(* The membership acted on is m: an owner who would stop being one is counted first. *)
Resolved(q, m) ==
  [q EXCEPT !.row = m.id,
            !.pc = IF m.role = "OWNER" /\ (q.kind = "remove" \/ q.role # "OWNER")
                   THEN "count" ELSE "write"]

(* Where an authorized request goes on; a caller acting on itself was just loaded. *)
After(q) ==
  IF q.kind \in {"setRole", "remove"}
  THEN IF q.to = q.by /\ member[q.by] # None THEN Resolved(q, member[q.by])
       ELSE [q EXCEPT !.pc = "resolve"]
  ELSE [q EXCEPT !.pc = CASE q.kind = "invite" -> "probe"
                          [] q.kind = "revoke" -> "drop"
                          [] q.kind = "delete" -> "delete"]

Authorize(r) ==
  /\ Pending(r, "authorize")
  /\ IF HasTeamRole(req[r]) /\ MayMint(req[r])
     THEN /\ req' = [req EXCEPT ![r] = After(req[r])]
          /\ granted' = IF req[r].kind \in {"setRole", "invite"} /\ MayConfer(req[r])
                        THEN granted \cup {<<req[r].to, req[r].role>>} ELSE granted
     ELSE End(r) /\ UNCHANGED granted
  /\ UNCHANGED <<team, member, invite, overtaken, raced, admitted, asks, faults>>

-----------------------------------------------------------------------------
(* updateMemberRole, removeMember, remove. *)

Resolve(r) ==
  /\ Pending(r, "resolve")
  /\ LET m == member[req[r].to] IN
     IF m = None THEN End(r) ELSE req' = [req EXCEPT ![r] = Resolved(req[r], m)]
  /\ UNCHANGED <<team, member, invite, history, asks, faults>>

(* Mutated form: the last owner is let go. *)
LastMayGo == Cardinality(Owners) < 1

LastOwner == Cardinality(Owners) <= 1

CountOwners(r) ==
  /\ Pending(r, "count")
  /\ IF LastOwner THEN End(r) ELSE Goto(r, "write")
  /\ UNCHANGED <<team, member, invite, history, asks, faults>>

(* The roster changes: requests about to write have read an older one. *)
Overtake(r) ==
  overtaken' = (overtaken \cup {q \in Req : Pending(q, "write")}) \ {r}

(* The row is found by its id: one that has gone, or come back as another row, is a 404. *)
Write(r) ==
  /\ Pending(r, "write")
  /\ \/ \E v \in User :
          /\ member[v] # None /\ member[v].id = req[r].row
          /\ member' = IF req[r].kind = "remove" THEN [member EXCEPT ![v] = None]
                       ELSE [member EXCEPT ![v].role = req[r].role]
          /\ Overtake(r)
          /\ raced' = (raced \/ r \in overtaken)
     \/ /\ \A v \in User : member[v] # None => member[v].id # req[r].row
        /\ overtaken' = overtaken \ {r}
        /\ UNCHANGED <<member, raced>>
  /\ End(r)
  /\ UNCHANGED <<team, invite, granted, admitted, asks, faults>>

(* The foreign keys take the roster and the invites with the team. *)
DeleteTeam(r) ==
  /\ Pending(r, "delete")
  /\ team' = "deleted"
  /\ member' = [u \in User |-> None] /\ invite' = [u \in User |-> None]
  /\ admitted' = {}
  /\ End(r)
  /\ UNCHANGED <<overtaken, raced, granted, asks, faults>>

-----------------------------------------------------------------------------
(* inviteMember: one row per address, refreshed when there is one. *)

Probe(r) ==
  /\ Pending(r, "probe")
  /\ LET i == invite[req[r].to] IN
     IF i = None THEN Goto(r, "createInvite")
     ELSE req' = [req EXCEPT ![r].pc = "updateInvite", ![r].row = i.id]
  /\ UNCHANGED <<team, member, invite, history, asks, faults>>

UpdateInvite(r) ==
  /\ Pending(r, "updateInvite")
  /\ invite' = [u \in User |-> IF invite[u] # None /\ invite[u].id = req[r].row
                               THEN [invite[u] EXCEPT !.role = req[r].role] ELSE invite[u]]
  /\ End(r)
  /\ UNCHANGED <<team, member, history, asks, faults>>

(* A second row for the address, or one for a team that is gone, is refused. *)
CreateInvite(r) ==
  /\ Pending(r, "createInvite")
  /\ \/ /\ team = "live" /\ invite[req[r].to] = None
        /\ \E i \in Fresh :
             invite' = [invite EXCEPT ![req[r].to] = [id |-> i, role |-> req[r].role]]
     \/ (team # "live" \/ invite[req[r].to] # None) /\ UNCHANGED invite
  /\ End(r)
  /\ UNCHANGED <<team, member, history, asks, faults>>

-----------------------------------------------------------------------------
(* acceptInvite, declineInvite, revokeInvite. *)

(* Mutated form: whoever knows the id may accept. *)
AnyInvite(q) == {v \in User : invite[v] # None /\ invite[v].id = q.row}

(* requireOwnInvite: the caller whose invite the id is, if it is still there. *)
OwnInvite(q) == {v \in {q.by} : invite[v] # None /\ invite[v].id = q.row}

FindInvite(r) ==
  /\ Pending(r, "find")
  /\ \/ OwnInvite(req[r]) = {} /\ End(r)
     \/ \E v \in OwnInvite(req[r]) :
          req' = [req EXCEPT ![r].role = invite[v].role,
                             ![r].pc = IF req[r].kind = "accept" THEN "membership" ELSE "drop"]
  /\ UNCHANGED <<team, member, invite, history, asks, faults>>

FindMembership(r) ==
  /\ Pending(r, "membership")
  /\ Goto(r, IF member[req[r].by] = None THEN "join" ELSE "drop")
  /\ UNCHANGED <<team, member, invite, history, asks, faults>>

(* Mutated form: the handler ends with the membership. *)
Joined(r) == End(r)

AfterJoin(r) == Goto(r, "drop")

Join(r) ==
  /\ Pending(r, "join")
  /\ LET u == req[r].by IN
     \/ /\ team = "live" /\ member[u] = None
        /\ \E i \in Fresh : member' = [member EXCEPT ![u] = [id |-> i, role |-> req[r].role]]
        /\ AfterJoin(r)
        /\ Overtake(r)
        /\ admitted' = admitted \cup
             {invite[v].id : v \in {w \in User : invite[w] # None /\ invite[w].id = req[r].row}}
     \/ /\ team # "live" \/ member[u] # None
        /\ End(r)
        /\ UNCHANGED <<member, overtaken, admitted>>
  /\ UNCHANGED <<team, invite, raced, granted, asks, faults>>

DropInvite(r) ==
  /\ Pending(r, "drop")
  /\ invite' = [u \in User |-> IF invite[u] # None /\ invite[u].id = req[r].row
                               THEN None ELSE invite[u]]
  /\ admitted' = admitted \ {req[r].row}
  /\ End(r)
  /\ UNCHANGED <<team, member, overtaken, raced, granted, asks, faults>>

(* A query fails, and the request with it; what it wrote stays. *)
Fails(r) ==
  /\ req[r] # None /\ faults < MaxFaults
  /\ faults' = faults + 1
  /\ overtaken' = overtaken \ {r}
  /\ End(r)
  /\ UNCHANGED <<team, member, invite, raced, granted, admitted, asks>>

-----------------------------------------------------------------------------
Init ==
  /\ team = "none"
  /\ member = [u \in User |-> None]
  /\ invite = [u \in User |-> None]
  /\ req = [r \in Req |-> None]
  /\ overtaken = {} /\ raced = FALSE /\ granted = {} /\ admitted = {}
  /\ asks = 0 /\ faults = 0

Handler(r) ==
  \/ Authorize(r) \/ Resolve(r) \/ CountOwners(r) \/ Write(r) \/ DeleteTeam(r)
  \/ Probe(r) \/ UpdateInvite(r) \/ CreateInvite(r)
  \/ FindInvite(r) \/ FindMembership(r) \/ Join(r) \/ DropInvite(r) \/ Fails(r)

Arrives(u) ==
  \/ Create(u)
  \/ \E v \in User, role \in Role : AskTeam("setRole", u, v, role) \/ AskTeam("invite", u, v, role)
  \/ \E v \in User : AskTeam("remove", u, v, "DRIVER")
  \/ AskTeam("delete", u, u, "DRIVER")
  \/ \E v \in User, k \in {"accept", "decline", "revoke"} : AskInvite(k, u, v)

Next == (\E r \in Req : Handler(r)) \/ (\E u \in User : Arrives(u))

Spec == Init /\ [][Next]_vars

-----------------------------------------------------------------------------
TypeOK ==
  /\ team \in {"none", "live", "deleted"}
  /\ member \in [User -> RowRecord \cup {None}] /\ invite \in [User -> RowRecord \cup {None}]
  /\ req \in [Req -> Request \cup {None}]
  /\ overtaken \subseteq {r \in Req : Pending(r, "write")}
  /\ raced \in BOOLEAN /\ granted \subseteq User \X Role /\ admitted \subseteq Row
  /\ asks \in Nat /\ faults \in Nat

(* Every role on the roster was conferred on that user by someone entitled to confer it,
   and every member was invited: through invites refreshed, revoked, accepted twice and
   accepted late, no manager makes an owner and nobody joins on another's invite. *)
RolesAreGranted == \A u \in User : member[u] # None => <<u, member[u].role>> \in granted

(* assertNotLastOwner keeps an owner on the roster, as long as no request writes after
   another has changed the roster it read. *)
OwnerKept == team = "live" /\ ~raced => Owners # {}

(* The comment on TeamInvite: an invite still pending is one not accepted, unless its
   acceptance is about to delete it, or failed half way. *)
InviteIsUnaccepted ==
  \A u \in User : invite[u] # None /\ invite[u].id \in admitted =>
    \/ faults > 0
    \/ \E r \in Req : Pending(r, "drop") /\ req[r].row = invite[u].id

-----------------------------------------------------------------------------
(* What the three rest on. *)

(* A row belongs to one user, and nobody asks anything of a team that is not there yet. *)
RowsAreOnes ==
  /\ \A u, v \in User : member[u] # None /\ member[v] # None /\ member[u].id = member[v].id => u = v
  /\ \A u, v \in User : invite[u] # None /\ invite[v] # None /\ invite[u].id = invite[v].id => u = v
  /\ team = "none" => \A r \in Req : req[r] = None

(* Where the handlers of a kind are. *)
StepOf(q) ==
  /\ q.pc \in {"resolve", "count", "write"} => q.kind \in {"setRole", "remove"}
  /\ q.pc \in {"probe", "createInvite", "updateInvite"} => q.kind = "invite"
  /\ q.pc \in {"membership", "join"} => q.kind = "accept"
  /\ q.pc = "authorize" => q.kind \notin {"accept", "decline"}
  /\ q.pc = "find" => q.kind \in {"accept", "decline"}
  /\ q.pc = "drop" => q.kind \in {"accept", "decline", "revoke"}
  /\ q.pc = "delete" => q.kind = "delete"

(* A request about to write has found the row of the user it is about. *)
RowIsTheirs(q) ==
  \A v \in User :
    /\ q.pc \in {"count", "write"} /\ member[v] # None /\ member[v].id = q.row => v = q.to
    /\ q.pc = "updateInvite" /\ invite[v] # None /\ invite[v].id = q.row => v = q.to

(* What a request is about to confer has been granted. *)
OfferIsGranted(q) ==
  /\ q.kind \in {"setRole", "invite"} /\ q.pc # "authorize" => <<q.to, q.role>> \in granted
  /\ q.pc \in {"membership", "join"} => <<q.by, q.role>> \in granted

(* A write that takes an owner away leaves another. *)
KeepsOwner(q) ==
  q.pc = "write" /\ (q.kind = "remove" \/ q.role # "OWNER") =>
    \A v \in Owners : member[v].id = q.row => \E o \in Owners : o # v

StepsOf == \A r \in Req : req[r] # None => StepOf(req[r])
RowsAreTheirs == \A r \in Req : req[r] # None => RowIsTheirs(req[r])
OffersAreGranted ==
  /\ \A u \in User : invite[u] # None => <<u, invite[u].role>> \in granted
  /\ \A r \in Req : req[r] # None => OfferIsGranted(req[r])
WritesKeepOwner == \A r \in Req \ overtaken : req[r] # None => KeepsOwner(req[r])
AdmittedArePending == \A i \in admitted : \E u \in User : invite[u] # None /\ invite[u].id = i

RosterInv ==
  /\ TypeOK /\ RowsAreOnes /\ StepsOf /\ RowsAreTheirs
  /\ OffersAreGranted /\ RolesAreGranted
  /\ WritesKeepOwner /\ OwnerKept
  /\ AdmittedArePending /\ InviteIsUnaccepted

(* The error of assertNotLastOwner: a team must keep at least one owner. *)
AlwaysOwned == team = "live" => Owners # {}

=============================================================================
