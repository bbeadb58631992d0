----------------------------- MODULE SessionToken -----------------------------
(***************************************************************************)
(* One browser's sign-in: the auth cookie its tabs share, the API that     *)
(* verifies, refreshes and revokes the token in it, and the denylist in    *)
(* Redis. Answers reach the browser in any order.                          *)
(*                                                                         *)
(* `now` counts half seconds, the API's clock in `iat`, `exp` and TTLs     *)
(* whole ones.                                                             *)
(***************************************************************************)
EXTENDS Integers, Sequences, FiniteSets

CONSTANTS
  Tab,            \* requests that can be under way at once
  None,
  Expiration,     \* JWT_EXPIRATION, in seconds
  RefreshAfter,   \* JWT_REFRESH_AFTER, in seconds
  MaxNow, MaxTokens, MaxFaults

Kind == {"login", "use", "logout"}
Token == [jti : Nat, iat : Nat]
Request == [kind : Kind, token : Token \cup {None}, set : Seq(Token \cup {None}),
            pc : {"verify", "check", "handle", "answered"}]

TokenAssumption ==
  /\ Expiration \in Nat \ {0} /\ RefreshAfter \in 0 .. Expiration
  /\ None \notin Token \cup Request

VARIABLES
  now,
  minted,       \* tokens signed so far; a token's jti is its number
  cookie,       \* the token in the browser's cookie jar, or None
  denied,       \* entries of the denylist: [jti, until]
  req,          \* [Tab -> a request, or None]
  out,          \* history: jtis a logout has put on the denylist
  refused,      \* history: jtis refused because of the denylist
  readmitted,   \* history: jtis accepted although on it by right
  faults

histories == <<out, refused, readmitted>>
vars == <<now, minted, cookie, denied, req, histories, faults>>

Seconds(t) == t \div 2
At(t, pc) == req[t] # None /\ req[t].pc = pc
Fault == faults < MaxFaults /\ faults' = faults + 1

Exp(token) == token.iat + Expiration
Expired(token) == Seconds(now) >= Exp(token)
Denied(jti) == \E e \in denied : e.jti = jti /\ now < e.until

(* issueCookie *)
NewToken == [jti |-> minted + 1, iat |-> Seconds(now)]

-----------------------------------------------------------------------------
Send(t, kind) ==
  /\ req[t] = None
  /\ kind # "login" => cookie # None
  /\ req' = [req EXCEPT ![t] =
       [ kind |-> kind, token |-> IF kind = "login" THEN None ELSE cookie, set |-> <<>>,
         pc |-> IF kind = "login" THEN "handle" ELSE "verify" ]]
  /\ UNCHANGED <<now, minted, cookie, denied, out, refused, readmitted, faults>>

(* passport verifies signature and expiry. *)
Verify(t) ==
  /\ At(t, "verify")
  /\ req' = IF Expired(req[t].token) THEN [req EXCEPT ![t] = None] ELSE [req EXCEPT ![t].pc = "check"]
  /\ UNCHANGED <<now, minted, cookie, denied, histories, faults>>

(* JwtStrategy.validate: isRevoked. *)
Check(t) ==
  /\ At(t, "check")
  /\ LET jti == req[t].token.jti IN
     IF Denied(jti)
     THEN /\ req' = [req EXCEPT ![t] = None]
          /\ refused' = refused \cup {jti}
          /\ UNCHANGED readmitted
     ELSE /\ req' = [req EXCEPT ![t].pc = "handle"]
          /\ readmitted' = IF jti \in out /\ ~Expired(req[t].token) THEN readmitted \cup {jti}
                           ELSE readmitted
          /\ UNCHANGED refused
  /\ UNCHANGED <<now, minted, cookie, denied, out, faults>>

(* A failed check lets the request through. *)
CheckFails(t) ==
  /\ At(t, "check") /\ Fault
  /\ req' = [req EXCEPT ![t].pc = "handle"]
  /\ UNCHANGED <<now, minted, cookie, denied, histories>>

(* SlidingSessionInterceptor: a token of some age is replaced once the handler is done. *)
Stale(q) == q.token # None /\ Seconds(now) - q.token.iat >= RefreshAfter

(* The answer sets the cookies the handler set, and then the interceptor's. *)
Answer(t, own) ==
  LET again == IF Stale(req[t]) THEN <<NewToken>> ELSE <<>>
  IN  /\ req' = [req EXCEPT ![t].set = own \o again, ![t].pc = "answered"]
      /\ minted' = minted + Len(again)

(* Mutated form: the token that was replaced is revoked. *)
HandleRevoking(t) ==
  /\ At(t, "handle") /\ req[t].kind = "use" /\ minted < MaxTokens
  /\ Answer(t, <<>>)
  /\ denied' = IF Stale(req[t]) THEN denied \cup {[jti |-> req[t].token.jti, until |-> 2 * Exp(req[t].token)]}
               ELSE denied
  /\ UNCHANGED <<now, cookie, histories, faults>>

(* A handler of an authenticated route. *)
Handle(t) ==
  /\ At(t, "handle") /\ req[t].kind = "use" /\ minted < MaxTokens
  /\ Answer(t, <<>>)
  /\ UNCHANGED <<now, cookie, denied, histories, faults>>

(* A handler that throws refreshes nothing. *)
HandlerThrows(t) ==
  /\ At(t, "handle") /\ req[t].kind = "use" /\ Fault
  /\ req' = [req EXCEPT ![t].pc = "answered"]
  /\ UNCHANGED <<now, minted, cookie, denied, histories>>

Login(t) ==
  /\ At(t, "handle") /\ req[t].kind = "login" /\ minted < MaxTokens
  /\ req' = [req EXCEPT ![t].set = <<NewToken>>, ![t].pc = "answered"]
  /\ minted' = minted + 1
  /\ UNCHANGED <<now, cookie, denied, histories, faults>>

(* Mutated form: the seconds left are counted from the next full one. *)
TtlRounded(token) == Exp(token) - (now + 1) \div 2

(* The seconds left of a token, counted from the last full one. *)
Ttl(token) == Exp(token) - Seconds(now)

(* logout: the token goes on the denylist for as long as it would be valid, then the
   cookie is cleared. *)
Logout(t) ==
  /\ At(t, "handle") /\ req[t].kind = "logout" /\ minted < MaxTokens
  /\ Answer(t, <<None>>)
  /\ LET q == req[t] IN
     IF Ttl(q.token) <= 0 THEN UNCHANGED <<denied, out>>
     ELSE /\ denied' = denied \cup {[jti |-> q.token.jti, until |-> now + 2 * Ttl(q.token)]}
          /\ out' = out \cup {q.token.jti}
  /\ UNCHANGED <<now, cookie, refused, readmitted, faults>>

(* Redis does not take the entry: the cookie is cleared all the same. *)
LogoutUnrecorded(t) ==
  /\ At(t, "handle") /\ req[t].kind = "logout" /\ minted < MaxTokens /\ Fault
  /\ Answer(t, <<None>>)
  /\ UNCHANGED <<now, cookie, denied, histories>>

(* The browser applies the Set-Cookie headers of an answer in their order. *)
Deliver(t) ==
  /\ At(t, "answered")
  /\ LET set == req[t].set IN
     cookie' = IF set = <<>> THEN cookie ELSE set[Len(set)]
  /\ req' = [req EXCEPT ![t] = None]
  /\ UNCHANGED <<now, minted, denied, out, refused, readmitted, faults>>

(* Redis restarts empty. *)
DenylistLost ==
  /\ denied # {} /\ Fault
  /\ denied' = {} /\ out' = {} /\ refused' = {}
  /\ UNCHANGED <<now, minted, cookie, req, readmitted>>

Tick ==
  /\ now < MaxNow
  /\ now' = now + 1
  /\ denied' = {e \in denied : e.until > now + 1}
  /\ UNCHANGED <<minted, cookie, req, histories, faults>>

-----------------------------------------------------------------------------
Init ==
  /\ now = 0 /\ minted = 0 /\ cookie = None /\ denied = {}
  /\ req = [t \in Tab |-> None]
  /\ out = {} /\ refused = {} /\ readmitted = {}
  /\ faults = 0

Next ==
  \/ \E t \in Tab :
       \/ \E kind \in Kind : Send(t, kind)
       \/ Verify(t) \/ Check(t) \/ CheckFails(t) \/ Handle(t) \/ HandlerThrows(t)
       \/ Login(t) \/ Logout(t) \/ LogoutUnrecorded(t) \/ Deliver(t)
  \/ DenylistLost \/ Tick

Spec == Init /\ [][Next]_vars

-----------------------------------------------------------------------------
(* Properties. *)

(* A token a logout has revoked is not accepted again before it expires: the entry never
   ends before the token does, whatever part of a second the logout fell in
   (TokenRevocationService.revoke, isRevoked). *)
RevokedStaysOut == readmitted = {}

(* A request is refused by the denylist only when its own token was signed out: a refresh
   in one tab never refuses what another has sent with the old cookie
   (SlidingSessionInterceptor). *)
TabsSurvive == refused \subseteq out

(* Both: the denylist refuses what was signed out, as long as it is valid, and nothing else. *)
DenylistIsExact == RevokedStaysOut /\ TabsSurvive

-----------------------------------------------------------------------------
(* Why they hold. *)

TypeOK ==
  /\ now \in Nat /\ minted \in Nat
  /\ cookie \in Token \cup {None}
  /\ \A e \in denied : e.jti \in Nat /\ e.until \in Nat
  /\ req \in [Tab -> Request \cup {None}]
  /\ out \subseteq Nat

(* The tokens of a request, those its answer will set among them, and all that are about. *)
TokensOf(q) == ({q.token} \cup {q.set[i] : i \in DOMAIN q.set}) \ {None}
Held == ({cookie} \ {None}) \cup UNION {TokensOf(req[t]) : t \in {u \in Tab : req[u] # None}}

(* Whatever is no login has a token to be checked. *)
SignedIn(q) == q.kind # "login" \/ q.pc \in {"verify", "check"} => q.token # None
OthersSignedIn == \A t \in Tab : req[t] # None => SignedIn(req[t])

JtisAreOnes ==
  /\ \A a \in Held : a.jti <= minted
  /\ \A a, b \in Held : a.jti = b.jti => a = b

(* The entry of a token that was signed out lasts as long as the token does. *)
Lasts(a) == Expired(a) \/ \E e \in denied : e.jti = a.jti /\ e.until >= 2 * Exp(a)

OutIsDenied ==
  /\ \A jti \in out : jti <= minted
  /\ \A a \in Held : a.jti \in out => Lasts(a)

DeniedIsOut == \A e \in denied : e.jti \in out

TokenInv ==
  TypeOK /\ OthersSignedIn /\ JtisAreOnes /\ OutIsDenied /\ DeniedIsOut /\ DenylistIsExact
=============================================================================
