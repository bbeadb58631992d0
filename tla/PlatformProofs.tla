--------------------------- MODULE PlatformProofs ----------------------------
(***************************************************************************)
(* The parts side by side. Each of them goes on as it would alone, since   *)
(* no step of another touches its variables; so what is proved of a part   *)
(* holds of the platform. The proofs of the sign-in, of the two pages and  *)
(* of the canvas, which have no module of their own, come first.           *)
(***************************************************************************)
EXTENDS Platform, AnalysisProofs

-----------------------------------------------------------------------------
(* The sign-in. For every lifetime of a token, every time a logout falls in and any number of
   requests: the denylist refuses a token that was signed out for as long as the token would be
   valid, and refuses nothing else. *)

(* Where a request goes on or ends, what is about is what was, and what that request holds. *)
LEMMA HeldWith ==
  ASSUME Tokens!TypeOK, NEW t \in Tab, NEW q, tokenReq' = [tokenReq EXCEPT ![t] = q], NEW S,
         cookie' \in {cookie, None} \cup Tokens!Held \cup S, q # None => Tokens!TokensOf(q) \subseteq Tokens!Held \cup S
  PROVE  Tokens!Held' \subseteq Tokens!Held \cup S
<1> SUFFICES ASSUME NEW a \in Tokens!Held' PROVE a \in Tokens!Held \cup S
  OBVIOUS
<1>1. CASE a = cookie' /\ a # None
  BY <1>1 DEF Tokens!Held
<1>2. CASE \E u \in Tab : tokenReq'[u] # None /\ a \in Tokens!TokensOf(tokenReq'[u])
  <2> PICK u \in Tab : tokenReq'[u] # None /\ a \in Tokens!TokensOf(tokenReq'[u])
    BY <1>2
  <2>1. CASE u = t
    BY <2>1 DEF Tokens!TypeOK
  <2>2. CASE u # t
    <3>1. tokenReq'[u] = tokenReq[u]
      BY <2>2 DEF Tokens!TypeOK
    <3> QED BY <3>1 DEF Tokens!Held
  <2> QED BY <2>1, <2>2
<1> QED BY <1>1, <1>2 DEF Tokens!Held, Tokens!TokensOf

(* What is about are tokens. *)
LEMMA HeldAreTokens ==
  ASSUME Tokens!TypeOK PROVE Tokens!Held \subseteq Tokens!Token
<1> SUFFICES ASSUME NEW a \in Tokens!Held PROVE a \in Tokens!Token
  OBVIOUS
<1>1. CASE a = cookie /\ a # None
  BY <1>1 DEF Tokens!TypeOK
<1>2. CASE \E t \in Tab : tokenReq[t] # None /\ a \in Tokens!TokensOf(tokenReq[t])
  <2> PICK t \in Tab : tokenReq[t] # None /\ a \in Tokens!TokensOf(tokenReq[t])
    BY <1>2
  <2>1. tokenReq[t] \in Tokens!Request
    BY DEF Tokens!TypeOK
  <2> QED BY <2>1 DEF Tokens!Request, Tokens!TokensOf
<1> QED BY <1>1, <1>2 DEF Tokens!Held

LEMMA RequestHeld ==
  ASSUME NEW t \in Tab, tokenReq[t] # None PROVE Tokens!TokensOf(tokenReq[t]) \subseteq Tokens!Held
BY DEF Tokens!Held

(* The parts of the invariant about tokens survive a step that adds at most a new one, and
   signs out only tokens whose entries last. *)
LEMMA TokensKept ==
  ASSUME Tokens!TokenInv, now' = now, denied \subseteq denied', out' \subseteq Nat,
         \/ Tokens!Held' \subseteq Tokens!Held /\ minted' = minted
         \/ Tokens!Held' \subseteq Tokens!Held \cup {Tokens!NewToken} /\ minted' = minted + 1,
         \A jti \in out' : \/ jti \in out
                           \/ jti <= minted /\ \A a \in Tokens!Held : a.jti = jti => Tokens!Lasts(a)'
  PROVE  Tokens!JtisAreOnes' /\ Tokens!OutIsDenied'
<1>1. now \in Nat /\ minted \in Nat /\ Tokens!Held \subseteq Tokens!Token /\ Tokens!Seconds(now) \in Int
  BY HeldAreTokens DEF Tokens!TokenInv, Tokens!TypeOK, Tokens!Seconds
<1>2. Tokens!NewToken.jti = minted + 1
  BY DEF Tokens!NewToken
<1>3. \A a \in Tokens!Held : a.jti \in Nat /\ a.jti <= minted
  BY <1>1 DEF Tokens!TokenInv, Tokens!JtisAreOnes, Tokens!Token
<1>4. \A jti \in out : jti <= minted
  BY DEF Tokens!TokenInv, Tokens!OutIsDenied
<1>5. Tokens!JtisAreOnes'
  BY <1>1, <1>2, <1>3 DEF Tokens!TokenInv, Tokens!JtisAreOnes
<1>6. \A a \in Tokens!Held : Tokens!Lasts(a) => Tokens!Lasts(a)'
  BY DEF Tokens!Lasts, Tokens!Expired
<1>7. \A jti \in out' : jti <= minted
  BY <1>4
<1>8. \A a \in Tokens!Held' : a.jti \in out' => Tokens!Lasts(a)'
  <2> SUFFICES ASSUME NEW a \in Tokens!Held', a.jti \in out' PROVE Tokens!Lasts(a)'
    OBVIOUS
  <2>1. CASE a \in Tokens!Held
    BY <2>1, <1>6 DEF Tokens!TokenInv, Tokens!OutIsDenied
  <2>2. CASE a = Tokens!NewToken
    BY <2>2, <1>1, <1>2, <1>7
  <2> QED BY <2>1, <2>2
<1>9. (\A jti \in out : jti <= minted)'
  <2> SUFFICES ASSUME NEW jti \in out' PROVE jti <= minted'
    OBVIOUS
  <2>1. CASE minted' = minted
    BY <2>1, <1>7
  <2>2. CASE minted' = minted + 1
    BY <2>2, <1>7, <1>1
  <2> QED BY <2>1, <2>2
<1> QED BY <1>5, <1>8, <1>9 DEF Tokens!OutIsDenied

(* The steps, one by one. *)

(* A step that makes no token, signs nothing out and leaves the clock alone. *)
LEMMA QuietStep ==
  ASSUME Tokens!TokenInv, UNCHANGED <<now, minted, denied, out>>, Tokens!Held' \subseteq Tokens!Held,
         Tokens!TypeOK', Tokens!OthersSignedIn', Tokens!DenylistIsExact'
  PROVE  Tokens!TokenInv'
<1>1. out \subseteq Nat
  BY DEF Tokens!TokenInv, Tokens!TypeOK
<1>2. Tokens!JtisAreOnes' /\ Tokens!OutIsDenied'
  BY <1>1, TokensKept
<1>3. Tokens!DeniedIsOut'
  BY DEF Tokens!TokenInv, Tokens!DeniedIsOut
<1> QED BY <1>2, <1>3 DEF Tokens!TokenInv

LEMMA SendStep ==
  ASSUME Tokens!TokenAssumption, Tokens!TokenInv, NEW t \in Tab, NEW kind \in Tokens!Kind, Tokens!Send(t, kind)
  PROVE  Tokens!TokenInv'
<1> DEFINE q == [ kind |-> kind, token |-> IF kind = "login" THEN None ELSE cookie, set |-> <<>>,
                  pc |-> IF kind = "login" THEN "handle" ELSE "verify" ]
<1>1. q \in Tokens!Request /\ Tokens!SignedIn(q) /\ q.set = <<>>
  <2>1. <<>> \in Seq(Tokens!Token \cup {None})
    OBVIOUS
  <2> QED BY <2>1 DEF Tokens!Send, Tokens!SignedIn, Tokens!Request, Tokens!TokenInv, Tokens!TypeOK,
             Tokens!Kind
<1>2. tokenReq' = [tokenReq EXCEPT ![t] = q]
  BY DEF Tokens!Send
<1>3. Tokens!TokensOf(q) \subseteq Tokens!Held
  BY <1>1 DEF Tokens!TokensOf, Tokens!Held
<1> HIDE DEF q
<1>4. Tokens!Held' \subseteq Tokens!Held
  BY <1>2, <1>3, HeldWith DEF Tokens!Send, Tokens!TokenInv
<1>5. Tokens!TypeOK'
  BY <1>1, <1>2 DEF Tokens!Send, Tokens!TokenInv, Tokens!TypeOK
<1>6. Tokens!OthersSignedIn'
  BY <1>1, <1>2 DEF Tokens!TokenInv, Tokens!TypeOK, Tokens!OthersSignedIn
<1>7. Tokens!DenylistIsExact'
  BY DEF Tokens!Send, Tokens!TokenInv, Tokens!DenylistIsExact, Tokens!RevokedStaysOut,
     Tokens!TabsSurvive
<1> QED BY <1>4, <1>5, <1>6, <1>7, QuietStep DEF Tokens!Send

(* A request that is answered, or goes on as it is, holds nothing new. *)
LEMMA MovesOn ==
  ASSUME Tokens!TokenAssumption, Tokens!TokenInv, NEW t \in Tab, tokenReq[t] # None,
         NEW pc \in {"check", "handle", "answered"}, pc = "check" => tokenReq[t].pc = "verify",
         tokenReq' = [tokenReq EXCEPT ![t].pc = pc] \/ tokenReq' = [tokenReq EXCEPT ![t] = None],
         UNCHANGED <<now, minted, denied, out>>,
         cookie' \in {cookie, None} \cup {tokenReq[t].set[i] : i \in DOMAIN tokenReq[t].set},
         Tokens!DenylistIsExact'
  PROVE  Tokens!TokenInv'
<1>1. tokenReq[t] \in Tokens!Request
  BY DEF Tokens!TokenInv, Tokens!TypeOK
<1> DEFINE q == IF tokenReq' = [tokenReq EXCEPT ![t] = None] THEN None ELSE [tokenReq[t] EXCEPT !.pc = pc]
<1>2. tokenReq' = [tokenReq EXCEPT ![t] = q] /\ q \in Tokens!Request \cup {None}
  BY <1>1 DEF Tokens!Request, Tokens!TokenInv, Tokens!TypeOK
<1>3. q # None => q.kind = tokenReq[t].kind /\ q.token = tokenReq[t].token /\ q.set = tokenReq[t].set /\ q.pc = pc
  BY <1>1 DEF Tokens!Request
<1> HIDE DEF q
<1>4. Tokens!TokensOf(tokenReq[t]) \subseteq Tokens!Held
  BY RequestHeld
<1>5. q # None => Tokens!TokensOf(q) \subseteq Tokens!Held
  BY <1>3, <1>4 DEF Tokens!TokensOf
<1>6. cookie' \in {cookie, None} \cup Tokens!Held
  BY <1>4 DEF Tokens!TokensOf
<1>7. Tokens!Held' \subseteq Tokens!Held
  BY <1>2, <1>5, <1>6, HeldWith DEF Tokens!TokenInv
<1>8. cookie' \in Tokens!Token \cup {None}
  BY <1>6, HeldAreTokens DEF Tokens!TokenInv, Tokens!TypeOK
<1>9. Tokens!TypeOK'
  BY <1>2, <1>8 DEF Tokens!TokenInv, Tokens!TypeOK
<1>10. Tokens!OthersSignedIn'
  BY <1>2, <1>3 DEF Tokens!TokenInv, Tokens!TypeOK, Tokens!OthersSignedIn, Tokens!SignedIn
<1> QED BY <1>7, <1>9, <1>10, QuietStep

LEMMA VerifyStep ==
  ASSUME Tokens!TokenAssumption, Tokens!TokenInv, NEW t \in Tab, Tokens!Verify(t) PROVE Tokens!TokenInv'
<1>1. Tokens!DenylistIsExact'
  BY DEF Tokens!Verify, Tokens!histories, Tokens!TokenInv, Tokens!DenylistIsExact,
     Tokens!RevokedStaysOut, Tokens!TabsSurvive
<1> QED BY <1>1, MovesOn DEF Tokens!Verify, Tokens!histories, Tokens!At

(* What is refused is on the denylist, and what was signed out is refused. *)
LEMMA CheckStep ==
  ASSUME Tokens!TokenAssumption, Tokens!TokenInv, NEW t \in Tab, Tokens!Check(t) PROVE Tokens!TokenInv'
<1> DEFINE a == tokenReq[t].token
<1>1. tokenReq[t] # None /\ tokenReq[t] \in Tokens!Request
  BY DEF Tokens!Check, Tokens!At, Tokens!TokenInv, Tokens!TypeOK
<1>2. ASSUME Tokens!Denied(a.jti) PROVE Tokens!DenylistIsExact'
  BY <1>2 DEF Tokens!Check, Tokens!Denied, Tokens!TokenInv, Tokens!DeniedIsOut,
     Tokens!DenylistIsExact, Tokens!RevokedStaysOut, Tokens!TabsSurvive
<1>3. ASSUME ~Tokens!Denied(a.jti) PROVE Tokens!DenylistIsExact'
  <2>1. refused' = refused /\ out' = out
    BY <1>3 DEF Tokens!Check
  <2>2. a.jti \in out => Tokens!Expired(a)
    <3> SUFFICES ASSUME a.jti \in out, ~Tokens!Expired(a) PROVE FALSE
      OBVIOUS
    <3>1. a \in Tokens!Held
      BY <1>1, RequestHeld DEF Tokens!Check, Tokens!At, Tokens!TokenInv, Tokens!OthersSignedIn,
         Tokens!SignedIn, Tokens!TokensOf
    <3>2. Tokens!Lasts(a) /\ a.iat \in Nat
      BY <3>1, HeldAreTokens DEF Tokens!TokenInv, Tokens!OutIsDenied, Tokens!Token
    <3>3. PICK e \in denied : e.jti = a.jti /\ e.until >= 2 * Tokens!Exp(a)
      BY <3>2 DEF Tokens!Lasts
    <3>4. Tokens!Seconds(now) < Tokens!Exp(a) /\ now \in Nat /\ e.until \in Nat /\ Tokens!Exp(a) \in Int
      BY <3>2, Tokens!TokenAssumption DEF Tokens!Expired, Tokens!Seconds, Tokens!Exp,
         Tokens!TokenAssumption, Tokens!TokenInv, Tokens!TypeOK
    <3>5. now < 2 * Tokens!Exp(a)
      BY <3>4 DEF Tokens!Seconds
    <3> QED BY <3>3, <3>4, <3>5, <1>3 DEF Tokens!Denied
  <2> QED BY <2>1, <2>2, <1>3 DEF Tokens!Check, Tokens!TokenInv, Tokens!DenylistIsExact,
             Tokens!RevokedStaysOut, Tokens!TabsSurvive
<1>4. Tokens!DenylistIsExact'
  BY <1>2, <1>3
<1> QED BY <1>4, <1>1, MovesOn DEF Tokens!Check

LEMMA CheckFailsStep ==
  ASSUME Tokens!TokenAssumption, Tokens!TokenInv, NEW t \in Tab, Tokens!CheckFails(t) PROVE Tokens!TokenInv'
<1>1. Tokens!DenylistIsExact'
  BY DEF Tokens!CheckFails, Tokens!histories, Tokens!TokenInv, Tokens!DenylistIsExact,
     Tokens!RevokedStaysOut, Tokens!TabsSurvive
<1> QED BY <1>1, MovesOn DEF Tokens!CheckFails, Tokens!histories, Tokens!At

LEMMA HandlerThrowsStep ==
  ASSUME Tokens!TokenAssumption, Tokens!TokenInv, NEW t \in Tab, Tokens!HandlerThrows(t) PROVE Tokens!TokenInv'
<1>1. Tokens!DenylistIsExact'
  BY DEF Tokens!HandlerThrows, Tokens!histories, Tokens!TokenInv, Tokens!DenylistIsExact,
     Tokens!RevokedStaysOut, Tokens!TabsSurvive
<1> QED BY <1>1, MovesOn DEF Tokens!HandlerThrows, Tokens!histories, Tokens!At

LEMMA DeliverStep ==
  ASSUME Tokens!TokenAssumption, Tokens!TokenInv, NEW t \in Tab, Tokens!Deliver(t) PROVE Tokens!TokenInv'
<1>1. Tokens!DenylistIsExact'
  BY DEF Tokens!Deliver, Tokens!TokenInv, Tokens!DenylistIsExact, Tokens!RevokedStaysOut,
     Tokens!TabsSurvive
<1>2. tokenReq[t] # None /\ tokenReq[t].set \in Seq(Tokens!Token \cup {None})
  BY DEF Tokens!Deliver, Tokens!At, Tokens!TokenInv, Tokens!TypeOK, Tokens!Request
<1>3. cookie' \in {cookie, None} \cup {tokenReq[t].set[i] : i \in DOMAIN tokenReq[t].set}
  <2>1. CASE tokenReq[t].set = <<>>
    BY <2>1 DEF Tokens!Deliver
  <2>2. CASE tokenReq[t].set # <<>>
    <3>1. Len(tokenReq[t].set) \in DOMAIN tokenReq[t].set
      BY <1>2, <2>2
    <3> QED BY <3>1, <2>2 DEF Tokens!Deliver
  <2> QED BY <2>1, <2>2
<1> QED BY <1>1, <1>2, <1>3, MovesOn DEF Tokens!Deliver

(* An answer sets what the handler set, then at most one new token; nothing the handler set
   is a token. *)
LEMMA Answered ==
  ASSUME Tokens!TokenAssumption, Tokens!TokenInv, NEW t \in Tab, Tokens!At(t, "handle"), NEW own \in {<<>>, <<None>>},
         Tokens!Answer(t, own), cookie' = cookie
  PROVE  /\ tokenReq' \in [Tab -> Tokens!Request \cup {None}] /\ Tokens!OthersSignedIn'
         /\ minted' \in Nat
         /\ \/ Tokens!Held' \subseteq Tokens!Held /\ minted' = minted
            \/ Tokens!Held' \subseteq Tokens!Held \cup {Tokens!NewToken} /\ minted' = minted + 1
<1> DEFINE again == IF Tokens!Stale(tokenReq[t]) THEN <<Tokens!NewToken>> ELSE <<>>
           q == [tokenReq[t] EXCEPT !.set = own \o again, !.pc = "answered"]
<1>1. tokenReq[t] # None /\ tokenReq[t] \in Tokens!Request /\ minted \in Nat /\ Tokens!Seconds(now) \in Nat
  BY DEF Tokens!At, Tokens!TokenInv, Tokens!TypeOK, Tokens!Seconds
<1>2. Tokens!NewToken \in Tokens!Token
  BY <1>1 DEF Tokens!NewToken, Tokens!Token
<1>3. own \in Seq(Tokens!Token \cup {None}) /\ again \in Seq(Tokens!Token \cup {None})
  <2>1. <<>> \in Seq(Tokens!Token \cup {None}) /\ <<None>> \in Seq(Tokens!Token \cup {None})
        /\ <<Tokens!NewToken>> \in Seq(Tokens!Token \cup {None})
    BY <1>2
  <2> QED BY <2>1
<1>4. q \in Tokens!Request /\ q.token = tokenReq[t].token /\ q.kind = tokenReq[t].kind /\ q.set = own \o again
      /\ q.pc = "answered"
  <2>1. own \o again \in Seq(Tokens!Token \cup {None})
    BY <1>3, ConcatProperties
  <2> QED BY <2>1, <1>1 DEF Tokens!Request
<1>5. tokenReq' = [tokenReq EXCEPT ![t] = q]
  BY <1>1 DEF Tokens!Answer
<1>6. tokenReq' \in [Tab -> Tokens!Request \cup {None}]
  BY <1>4, <1>5 DEF Tokens!TokenInv, Tokens!TypeOK
<1>7. Tokens!OthersSignedIn'
  BY <1>1, <1>4, <1>5 DEF Tokens!TokenInv, Tokens!TypeOK, Tokens!OthersSignedIn, Tokens!SignedIn
<1>8. \A i \in DOMAIN (own \o again) :
        (own \o again)[i] = None \/ (Tokens!Stale(tokenReq[t]) /\ (own \o again)[i] = Tokens!NewToken)
  <2>1. /\ \A i \in DOMAIN own : own[i] = None
        /\ \A i \in DOMAIN again : Tokens!Stale(tokenReq[t]) /\ again[i] = Tokens!NewToken
    OBVIOUS
  <2> HIDE DEF again
  <2>2. /\ DOMAIN (own \o again) = 1 .. Len(own) + Len(again)
        /\ Len(own) \in Nat /\ Len(again) \in Nat
        /\ DOMAIN own = 1 .. Len(own) /\ DOMAIN again = 1 .. Len(again)
    BY <1>3
  <2>3. \A i \in 1 .. Len(own) + Len(again) :
          (own \o again)[i] = IF i <= Len(own) THEN own[i] ELSE again[i - Len(own)]
    BY <1>3, ConcatProperties
  <2> TAKE i \in DOMAIN (own \o again)
  <2>4. CASE i <= Len(own)
    <3>1. i \in DOMAIN own
      BY <2>2, <2>4
    <3>2. (own \o again)[i] = own[i]
      BY <2>2, <2>3, <2>4
    <3> QED BY <3>1, <3>2, <2>1
  <2>5. CASE ~(i <= Len(own))
    <3>1. i - Len(own) \in DOMAIN again
      BY <2>2, <2>5
    <3> QED BY <3>1, <2>1, <2>2, <2>3, <2>5
  <2> QED BY <2>4, <2>5
<1>9. Tokens!TokensOf(tokenReq[t]) \subseteq Tokens!Held
  BY <1>1, RequestHeld
<1>10. CASE Tokens!Stale(tokenReq[t])
  <2>1. Tokens!TokensOf(q) \subseteq Tokens!Held \cup {Tokens!NewToken}
    BY <1>4, <1>8, <1>9 DEF Tokens!TokensOf
  <2>2. minted' = minted + 1
    BY <1>10 DEF Tokens!Answer
  <2> HIDE DEF q
  <2>3. Tokens!Held' \subseteq Tokens!Held \cup {Tokens!NewToken}
    BY <1>5, <2>1, HeldWith DEF Tokens!TokenInv
  <2> QED BY <2>2, <2>3, <1>1, <1>6, <1>7
<1>11. CASE ~Tokens!Stale(tokenReq[t])
  <2>1. Tokens!TokensOf(q) \subseteq Tokens!Held
    BY <1>4, <1>8, <1>9, <1>11 DEF Tokens!TokensOf
  <2>2. minted' = minted
    BY <1>11, <1>1 DEF Tokens!Answer
  <2> HIDE DEF q
  <2>3. Tokens!Held' \subseteq Tokens!Held
    BY <1>5, <2>1, HeldWith DEF Tokens!TokenInv
  <2> QED BY <2>2, <2>3, <1>1, <1>6, <1>7
<1> QED BY <1>10, <1>11

(* Answers that sign nothing out. *)
LEMMA PlainAnswerStep ==
  ASSUME Tokens!TokenAssumption, Tokens!TokenInv, NEW t \in Tab, Tokens!At(t, "handle"), NEW own \in {<<>>, <<None>>},
         Tokens!Answer(t, own), UNCHANGED <<now, cookie, denied, Tokens!histories>>
  PROVE  Tokens!TokenInv'
<1>1. /\ tokenReq' \in [Tab -> Tokens!Request \cup {None}] /\ Tokens!OthersSignedIn' /\ minted' \in Nat
      /\ \/ Tokens!Held' \subseteq Tokens!Held /\ minted' = minted
         \/ Tokens!Held' \subseteq Tokens!Held \cup {Tokens!NewToken} /\ minted' = minted + 1
  BY Answered DEF Tokens!histories
<1>2. Tokens!TypeOK'
  BY <1>1 DEF Tokens!TokenInv, Tokens!TypeOK, Tokens!histories
<1>3. Tokens!JtisAreOnes' /\ Tokens!OutIsDenied'
  BY <1>1, <1>2, TokensKept DEF Tokens!histories, Tokens!TypeOK
<1> QED BY <1>1, <1>2, <1>3
        DEF Tokens!histories, Tokens!TokenInv, Tokens!DeniedIsOut, Tokens!DenylistIsExact, Tokens!RevokedStaysOut, Tokens!TabsSurvive

LEMMA HandleStep ==
  ASSUME Tokens!TokenAssumption, Tokens!TokenInv, NEW t \in Tab, Tokens!Handle(t) PROVE Tokens!TokenInv'
BY PlainAnswerStep DEF Tokens!Handle, Tokens!histories

LEMMA LogoutUnrecordedStep ==
  ASSUME Tokens!TokenAssumption, Tokens!TokenInv, NEW t \in Tab, Tokens!LogoutUnrecorded(t) PROVE Tokens!TokenInv'
BY PlainAnswerStep DEF Tokens!LogoutUnrecorded, Tokens!histories

(* The entry of the token that is signed out is good until the token is not. *)
LEMMA LogoutStep ==
  ASSUME Tokens!TokenAssumption, Tokens!TokenInv, NEW t \in Tab, Tokens!Logout(t) PROVE Tokens!TokenInv'
<1> DEFINE a == tokenReq[t].token
<1>1. tokenReq[t] # None /\ a \in Tokens!Held /\ a \in Tokens!Token
  BY RequestHeld, HeldAreTokens DEF Tokens!Logout, Tokens!At, Tokens!TokenInv,
     Tokens!OthersSignedIn, Tokens!SignedIn, Tokens!TokensOf
<1>2. /\ tokenReq' \in [Tab -> Tokens!Request \cup {None}] /\ Tokens!OthersSignedIn' /\ minted' \in Nat
      /\ \/ Tokens!Held' \subseteq Tokens!Held /\ minted' = minted
         \/ Tokens!Held' \subseteq Tokens!Held \cup {Tokens!NewToken} /\ minted' = minted + 1
  BY Answered DEF Tokens!Logout
<1>3. CASE UNCHANGED <<denied, out>>
  BY <1>3, PlainAnswerStep DEF Tokens!Logout, Tokens!histories
<1>4. CASE /\ Tokens!Ttl(a) > 0
           /\ denied' = denied \cup {[jti |-> a.jti, until |-> now + 2 * Tokens!Ttl(a)]}
           /\ out' = out \cup {a.jti}
  <2>1. now \in Nat /\ Tokens!Exp(a) \in Nat /\ Tokens!Ttl(a) = Tokens!Exp(a) - Tokens!Seconds(now) /\ Tokens!Seconds(now) \in Nat
        /\ 2 * Tokens!Seconds(now) <= now
    BY <1>1 DEF Tokens!TokenInv, Tokens!TypeOK, Tokens!Token, Tokens!Exp, Tokens!TokenAssumption,
       Tokens!Ttl, Tokens!Seconds
  <2> DEFINE e == [jti |-> a.jti, until |-> now + 2 * Tokens!Ttl(a)]
  <2>2. e.jti = a.jti /\ e.until \in Nat /\ e.until >= 2 * Tokens!Exp(a)
    BY <2>1, <1>4
  <2>3. e \in denied'
    BY <1>4
  <2> HIDE DEF e
  <2>4. \A b \in Tokens!Held : b.jti = a.jti => Tokens!Lasts(b)'
    <3> SUFFICES ASSUME NEW b \in Tokens!Held, b.jti = a.jti PROVE Tokens!Lasts(b)'
      OBVIOUS
    <3>1. b = a
      BY <1>1 DEF Tokens!TokenInv, Tokens!JtisAreOnes
    <3> QED BY <3>1, <2>2, <2>3 DEF Tokens!Lasts
  <2>5. a.jti <= minted /\ a.jti \in Nat
    BY <1>1 DEF Tokens!TokenInv, Tokens!JtisAreOnes, Tokens!Token
  <2>6. Tokens!TypeOK'
    BY <1>2, <1>4, <2>2, <2>5 DEF e, Tokens!Logout, Tokens!TokenInv, Tokens!TypeOK
  <2>7. Tokens!JtisAreOnes' /\ Tokens!OutIsDenied'
    <3>1. now' = now /\ denied \subseteq denied' /\ out' \subseteq Nat
      BY <1>4, <2>6 DEF Tokens!Logout, Tokens!TypeOK
    <3>2. \A jti \in out' : \/ jti \in out
                            \/ jti <= minted /\ \A b \in Tokens!Held : b.jti = jti => Tokens!Lasts(b)'
      BY <1>4, <2>4, <2>5
    <3> QED BY <1>2, <3>1, <3>2, TokensKept
  <2>8. Tokens!DeniedIsOut'
    BY <1>4 DEF Tokens!TokenInv, Tokens!DeniedIsOut
  <2>9. Tokens!DenylistIsExact'
    BY <1>4 DEF Tokens!Logout, Tokens!TokenInv, Tokens!DenylistIsExact, Tokens!RevokedStaysOut,
       Tokens!TabsSurvive
  <2> QED BY <1>2, <2>6, <2>7, <2>8, <2>9 DEF Tokens!TokenInv
<1>5. Tokens!Ttl(a) > 0 \/ Tokens!Ttl(a) <= 0
  BY <1>1 DEF Tokens!Token, Tokens!Ttl, Tokens!Exp, Tokens!TokenAssumption, Tokens!Seconds,
     Tokens!TokenInv, Tokens!TypeOK
<1> QED BY <1>3, <1>4, <1>5 DEF Tokens!Logout

LEMMA LoginStep ==
  ASSUME Tokens!TokenAssumption, Tokens!TokenInv, NEW t \in Tab, Tokens!Login(t) PROVE Tokens!TokenInv'
<1>1. tokenReq[t] # None /\ tokenReq[t] \in Tokens!Request /\ minted \in Nat /\ Tokens!Seconds(now) \in Nat
  BY DEF Tokens!Login, Tokens!At, Tokens!TokenInv, Tokens!TypeOK, Tokens!Seconds
<1>2. Tokens!NewToken \in Tokens!Token
  BY <1>1 DEF Tokens!NewToken, Tokens!Token
<1> DEFINE q == [tokenReq[t] EXCEPT !.set = <<Tokens!NewToken>>, !.pc = "answered"]
<1>3. q \in Tokens!Request /\ Tokens!SignedIn(q) /\ Tokens!TokensOf(q) \subseteq Tokens!TokensOf(tokenReq[t]) \cup {Tokens!NewToken}
  <2>1. <<Tokens!NewToken>> \in Seq(Tokens!Token \cup {None})
    BY <1>2
  <2>2. q \in Tokens!Request /\ q.token = tokenReq[t].token /\ q.kind = tokenReq[t].kind /\ q.pc = "answered"
        /\ q.set = <<Tokens!NewToken>>
    BY <1>1, <2>1 DEF Tokens!Request
  <2>3. Tokens!SignedIn(q)
    BY <1>1, <2>2 DEF Tokens!TokenInv, Tokens!OthersSignedIn, Tokens!SignedIn
  <2> QED BY <2>2, <2>3 DEF Tokens!TokensOf
<1>4. tokenReq' = [tokenReq EXCEPT ![t] = q]
  BY <1>1 DEF Tokens!Login
<1> HIDE DEF q
<1>5. Tokens!Held' \subseteq Tokens!Held \cup {Tokens!NewToken}
  BY <1>1, <1>3, <1>4, HeldWith, RequestHeld DEF Tokens!Login, Tokens!TokenInv
<1>6. Tokens!TypeOK'
  <2>1. tokenReq' \in [Tab -> Tokens!Request \cup {None}]
    BY <1>3, <1>4 DEF Tokens!TokenInv, Tokens!TypeOK
  <2>2. minted' \in Nat /\ UNCHANGED <<now, cookie, denied, out>>
    BY <1>1 DEF Tokens!Login, Tokens!histories
  <2> QED BY <2>1, <2>2 DEF Tokens!TokenInv, Tokens!TypeOK
<1>7. Tokens!JtisAreOnes' /\ Tokens!OutIsDenied'
  BY <1>5, <1>6, TokensKept DEF Tokens!Login, Tokens!histories, Tokens!TypeOK
<1>8. Tokens!OthersSignedIn'
  BY <1>3, <1>4 DEF Tokens!TokenInv, Tokens!TypeOK, Tokens!OthersSignedIn
<1> QED BY <1>6, <1>7, <1>8
        DEF Tokens!Login, Tokens!histories, Tokens!TokenInv, Tokens!DeniedIsOut, Tokens!DenylistIsExact, Tokens!RevokedStaysOut, Tokens!TabsSurvive

LEMMA DenylistLostStep ==
  ASSUME Tokens!TokenInv, Tokens!DenylistLost PROVE Tokens!TokenInv'
<1>1. Tokens!Held' = Tokens!Held
  BY DEF Tokens!DenylistLost, Tokens!Held, Tokens!TokensOf
<1> QED BY <1>1 DEF Tokens!DenylistLost, Tokens!TokenInv, Tokens!TypeOK, Tokens!OthersSignedIn,
           Tokens!SignedIn, Tokens!JtisAreOnes,
                    Tokens!OutIsDenied, Tokens!DeniedIsOut, Tokens!DenylistIsExact, Tokens!RevokedStaysOut, Tokens!TabsSurvive

(* Entries expire when their tokens have. *)
LEMMA TickStep ==
  ASSUME Tokens!TokenAssumption, Tokens!TokenInv, Tokens!Tick PROVE Tokens!TokenInv'
<1>1. Tokens!Held' = Tokens!Held /\ Tokens!Held \subseteq Tokens!Token
  BY HeldAreTokens DEF Tokens!Tick, Tokens!histories, Tokens!Held, Tokens!TokensOf, Tokens!TokenInv
<1>2. \A a \in Tokens!Held : Tokens!Lasts(a) => Tokens!Lasts(a)'
  <2> SUFFICES ASSUME NEW a \in Tokens!Held, Tokens!Lasts(a) PROVE Tokens!Lasts(a)'
    OBVIOUS
  <2>1. now \in Nat /\ now' = now + 1 /\ Tokens!Exp(a) \in Nat
    BY <1>1 DEF Tokens!Tick, Tokens!TokenInv, Tokens!TypeOK, Tokens!Exp, Tokens!Token,
       Tokens!TokenAssumption
  <2>2. CASE Tokens!Expired(a)
    BY <2>1, <2>2 DEF Tokens!Lasts, Tokens!Expired, Tokens!Seconds
  <2>3. CASE \E e \in denied : e.jti = a.jti /\ e.until >= 2 * Tokens!Exp(a)
    <3> PICK e \in denied : e.jti = a.jti /\ e.until >= 2 * Tokens!Exp(a)
      BY <2>3
    <3>1. e.until \in Nat
      BY DEF Tokens!TokenInv, Tokens!TypeOK
    <3>2. CASE e.until > now + 1
      BY <3>2 DEF Tokens!Tick, Tokens!Lasts
    <3>3. CASE now + 1 >= 2 * Tokens!Exp(a)
      BY <3>3, <2>1 DEF Tokens!Lasts, Tokens!Expired, Tokens!Seconds
    <3> QED BY <3>1, <3>2, <3>3, <2>1
  <2> QED BY <2>2, <2>3 DEF Tokens!Lasts
<1> QED BY <1>1, <1>2 DEF Tokens!Tick, Tokens!histories, Tokens!TokenInv, Tokens!TypeOK,
           Tokens!OthersSignedIn, Tokens!SignedIn, Tokens!JtisAreOnes,
                    Tokens!OutIsDenied, Tokens!DeniedIsOut, Tokens!DenylistIsExact, Tokens!RevokedStaysOut, Tokens!TabsSurvive

(* The invariant holds of every behaviour. *)
THEOREM TokenInvariant ==
  ASSUME Tokens!TokenAssumption PROVE Tokens!Spec => []Tokens!TokenInv
<1>1. Tokens!Init => Tokens!TokenInv
  <2> SUFFICES ASSUME Tokens!Init PROVE Tokens!TokenInv
    OBVIOUS
  <2>1. Tokens!Held = {}
    BY DEF Tokens!Init, Tokens!Held
  <2> QED BY <2>1 DEF Tokens!Init, Tokens!TokenInv, Tokens!TypeOK, Tokens!OthersSignedIn,
             Tokens!JtisAreOnes, Tokens!OutIsDenied, Tokens!DeniedIsOut,
                      Tokens!DenylistIsExact, Tokens!RevokedStaysOut, Tokens!TabsSurvive
<1>2. Tokens!TokenInv /\ [Tokens!Next]_(Tokens!vars) => Tokens!TokenInv'
  <2> SUFFICES ASSUME Tokens!TokenInv, [Tokens!Next]_(Tokens!vars) PROVE Tokens!TokenInv'
    OBVIOUS
  <2>1. ASSUME NEW t \in Tab, NEW kind \in Tokens!Kind, Tokens!Send(t, kind) PROVE Tokens!TokenInv'
    BY <2>1, SendStep
  <2>2. ASSUME NEW t \in Tab,
               Tokens!Verify(t) \/ Tokens!Check(t) \/ Tokens!CheckFails(t) \/ Tokens!HandlerThrows(t) \/ Tokens!Deliver(t)
        PROVE  Tokens!TokenInv'
    BY <2>2, VerifyStep, CheckStep, CheckFailsStep, HandlerThrowsStep, DeliverStep
  <2>3. ASSUME NEW t \in Tab, Tokens!Handle(t) \/ Tokens!Login(t) \/ Tokens!Logout(t) \/ Tokens!LogoutUnrecorded(t)
        PROVE  Tokens!TokenInv'
    BY <2>3, HandleStep, LoginStep, LogoutStep, LogoutUnrecordedStep
  <2>4. CASE Tokens!DenylistLost \/ Tokens!Tick
    BY <2>4, DenylistLostStep, TickStep
  <2>5. CASE UNCHANGED Tokens!vars
    <3>1. Tokens!Held' = Tokens!Held
      BY <2>5 DEF Tokens!vars, Tokens!Held, Tokens!TokensOf
    <3> QED BY <2>5, <3>1 DEF Tokens!vars, Tokens!histories, Tokens!TokenInv, Tokens!TypeOK,
               Tokens!OthersSignedIn, Tokens!SignedIn,
              Tokens!JtisAreOnes, Tokens!OutIsDenied, Tokens!Lasts, Tokens!Expired, Tokens!DeniedIsOut, Tokens!DenylistIsExact,
              Tokens!RevokedStaysOut, Tokens!TabsSurvive
  <2> QED BY <2>1, <2>2, <2>3, <2>4, <2>5 DEF Tokens!Next
<1> QED BY <1>1, <1>2, PTL DEF Tokens!Spec

(* For every lifetime of tokens: a token that was signed out is not let in again while it is
   valid, and no other is refused (TokenRevocationService, JwtStrategy.validate). *)
THEOREM DenylistIsExactAlone ==
  ASSUME Tokens!TokenAssumption PROVE Tokens!Spec => []Tokens!DenylistIsExact
<1>1. Tokens!TokenInv => Tokens!DenylistIsExact
  BY DEF Tokens!TokenInv
<1> QED BY <1>1, TokenInvariant, PTL

-----------------------------------------------------------------------------
(* The analysis page. PageIsOfOneDerivation speaks of pages at rest; PageInv says what is so while
   reads are under way: each one asks for what is shown now, and unless a derivation is still to
   be reported, what it was told or is about to be is what the API would say. *)

LEMMA WantedTyped ==
  ASSUME PlatformAssumption, NEW k \in Pages!Read,
         NEW s \in Session \cup {None}, NEW sel \in Pages!Ref \cup {None},
         NEW cmp \in Pages!Ref \cup {"none", None}, NEW resp \in Pages!Derived \cup {None}
  PROVE  LET key == Pages!Wanted(k, s, sel, cmp, resp)
         IN  key \in Pages!Key \cup {None} /\ (key # None => key.of = s)
<1> DEFINE a == Pages!ActiveLap(sel, resp)
           b == Pages!ReferenceLap(sel, cmp, resp)
<1>1. Pages!BestLap(resp) \in Pages!Ref \cup {None}
  BY DEF Pages!BestLap, Pages!Derived, Pages!Ref
<1>2. /\ Pages!Offerable(sel, resp) \in Pages!Ref \cup {None}
      /\ Pages!Offerable(cmp, resp) \in Pages!Ref \cup {None}
  BY DEF Pages!Offerable
<1>3. a \in Pages!Ref \cup {None}
  BY <1>1, <1>2 DEF Pages!ActiveLap
<1>4. b \in Pages!Ref \cup {None}
  BY <1>1, <1>2 DEF Pages!ReferenceLap
<1> HIDE DEF a, b
<1> DEFINE refs == CASE k = "laps" -> {}
                     [] k = "active" -> {a}
                     [] k = "reference" -> {b}
                     [] k = "compare" -> {a, b}
<1>5. None \notin refs => refs \subseteq Pages!Ref
  BY <1>3, <1>4 DEF Pages!Read
<1>6. Pages!Wanted(k, s, sel, cmp, resp) =
        IF s = None \/ None \in refs THEN None ELSE [of |-> s, refs |-> refs]
  BY DEF Pages!Wanted, a, b
<1> HIDE DEF refs
<1> QED BY <1>5, <1>6 DEF Pages!Key

LEMMA AskingTyped ==
  ASSUME NEW x \in Pages!Resource, NEW key \in Pages!Key \cup {None}
  PROVE  /\ Pages!Asking(x, key) \in Pages!Resource
         /\ Pages!Asking(x, key).key = key
         /\ Pages!Coherent(x) => Pages!Coherent(Pages!Asking(x, key))
         /\ Pages!Latest(x) => Pages!Latest(Pages!Asking(x, key))
<1> DEFINE fresh == [key |-> key, status |-> IF key = None THEN "idle" ELSE "loading",
                     value |-> None, sent |-> None]
<1>1. fresh \in Pages!Resource /\ fresh.key = key /\ fresh.sent = None
      /\ fresh.status = (IF key = None THEN "idle" ELSE "loading")
  BY DEF Pages!Resource
<1>2. Pages!Asking(x, key) = IF x.key = key THEN x ELSE fresh
  BY DEF Pages!Asking
<1> HIDE DEF fresh
<1>3. Pages!Coherent(fresh) /\ Pages!Latest(fresh)
  BY <1>1 DEF Pages!Coherent, Pages!Latest
<1> QED BY <1>1, <1>2, <1>3

(* The signals of the page take up a choice and the reads there are. *)
LEMMA PageFollows ==
  ASSUME PlatformAssumption,
         NEW s \in Session \cup {None}, NEW sel \in Pages!Ref \cup {None},
         NEW cmp \in Pages!Ref \cup {"none", None}, NEW r \in [Pages!Read -> Pages!Resource],
         \A k \in Pages!Read : Pages!Coherent(r[k]),
         Pages!Follow(s, sel, cmp, r)
  PROVE  /\ session' = s /\ selected' = sel /\ compareWith' = cmp
         /\ res' \in [Pages!Read -> Pages!Resource]
         /\ Pages!ReadsFollow'
         /\ \A k \in Pages!Read : Pages!Latest(r[k]) => Pages!Latest(res'[k])
<1> DEFINE lst == Pages!Asking(r["laps"], Pages!Wanted("laps", s, sel, cmp, None))
           want(k) == Pages!Wanted(k, s, sel, cmp, lst.value)
<1>1. "laps" \in Pages!Read
  BY DEF Pages!Read
<1>2. lst \in Pages!Resource
  BY <1>1, WantedTyped, AskingTyped
<1>3. lst.value \in Pages!Derived \cup {None}
  BY <1>2 DEF Pages!Resource
<1>4. \A k \in Pages!Read : want(k) \in Pages!Key \cup {None}
  BY <1>3, WantedTyped
<1>5. Pages!Wanted("laps", s, sel, cmp, None) = want("laps")
  BY DEF Pages!Wanted
<1>6. /\ session' = s /\ selected' = sel /\ compareWith' = cmp
      /\ res' = [k \in Pages!Read |-> IF k = "laps" THEN lst ELSE Pages!Asking(r[k], want(k))]
  BY DEF Pages!Follow
<1>7. \A k \in Pages!Read : res'[k] = Pages!Asking(r[k], want(k))
  BY <1>5, <1>6
<1>8. res'["laps"] = lst
  BY <1>1, <1>6
<1> HIDE DEF lst
<1>9. \A k \in Pages!Read :
        /\ res'[k] \in Pages!Resource /\ res'[k].key = want(k)
        /\ Pages!Coherent(res'[k])
        /\ Pages!Latest(r[k]) => Pages!Latest(res'[k])
  BY <1>4, <1>7, AskingTyped
<1>10. res' \in [Pages!Read -> Pages!Resource]
  BY <1>6, <1>9
<1>11. \A k \in Pages!Read : want(k) = Pages!Wanted(k, session, selected, compareWith, Pages!Response)'
  BY <1>6, <1>8 DEF Pages!Response
<1>12. Pages!ReadsFollow'
  BY <1>9, <1>11 DEF Pages!ReadsFollow, Pages!Coherent
<1> QED BY <1>6, <1>9, <1>10, <1>12

(* A choice is made, or reads have changed, and the page takes it up. *)
LEMMA PageTakesUp ==
  ASSUME PlatformAssumption, Pages!PageInv,
         NEW s \in Session \cup {None}, NEW sel \in Pages!Ref \cup {None},
         NEW cmp \in Pages!Ref \cup {"none", None}, NEW r \in [Pages!Read -> Pages!Resource],
         \A k \in Pages!Read : Pages!Coherent(r[k]),
         ~Pages!Behind => \A k \in Pages!Read : Pages!Latest(r[k]),
         Pages!Follow(s, sel, cmp, r),
         UNCHANGED <<server, post, missed>>, moves' \in Nat, lapFaults' \in Nat
  PROVE  Pages!PageInv'
<1>1. /\ session' = s /\ selected' = sel /\ compareWith' = cmp
      /\ res' \in [Pages!Read -> Pages!Resource]
      /\ Pages!ReadsFollow'
      /\ \A k \in Pages!Read : Pages!Latest(r[k]) => Pages!Latest(res'[k])
  BY PageFollows
<1>2. Pages!TypeOK'
  BY <1>1 DEF Pages!PageInv, Pages!TypeOK
<1>3. Pages!Behind' = Pages!Behind
  BY DEF Pages!Behind
<1>4. \A k \in Pages!Read : Pages!Latest(res'[k]) => Pages!Latest(res[k])'
  BY DEF Pages!Latest, Pages!Answer
<1>5. Pages!ReadsAreLatest'
  BY <1>1, <1>3, <1>4 DEF Pages!ReadsAreLatest
<1> QED BY <1>1, <1>2, <1>5 DEF Pages!PageInv

(* The reads ask for the same, and hold the same, as before. *)
LEMMA PageKeepsAsking ==
  ASSUME PlatformAssumption, Pages!PageInv, UNCHANGED <<session, selected, compareWith>>,
         res' \in [Pages!Read -> Pages!Resource],
         \A k \in Pages!Read :
           res'[k].key = res[k].key /\ res'[k].value = res[k].value /\ Pages!Coherent(res'[k])
  PROVE  Pages!ReadsFollow'
<1>1. "laps" \in Pages!Read
  BY DEF Pages!Read
<1>2. Pages!Response' = Pages!Response
  BY <1>1 DEF Pages!Response
<1>3. \A k \in Pages!Read :
        Pages!Wanted(k, session, selected, compareWith, Pages!Response)'
          = Pages!Wanted(k, session, selected, compareWith, Pages!Response)
  BY <1>2
<1> QED BY <1>3 DEF Pages!PageInv, Pages!ReadsFollow, Pages!Coherent

LEMMA OptionsAreRefs ==
  ASSUME PlatformAssumption, Pages!PageInv
  PROVE  Pages!Options \subseteq Pages!Ref /\ Pages!LapsOf(Pages!Response) \subseteq Pages!Ref
<1>1. Pages!Response \in Pages!Derived \cup {None}
  BY DEF Pages!PageInv, Pages!TypeOK, Pages!Resource, Pages!Response, Pages!Read
<1> QED BY <1>1 DEF Pages!Options, Pages!LapsOf, Pages!Derived, Pages!Ref

LEMMA PageBegins ==
  ASSUME PlatformAssumption, Pages!Init
  PROVE  Pages!PageInv
<1> USE DEF Pages!Init
<1>1. PICK o \in Outcome :
        server = [s \in Session |-> [ver |-> 0, laps |-> o.laps, best |-> o.best, optimal |-> o.optimal]]
  OBVIOUS
<1>2. o \in [laps : SUBSET Pages!Lap, best : Pages!Lap \cup {None}, optimal : BOOLEAN]
  BY PlatformAssumption DEF PlatformAssumption, Pages!PageAssumption
<1>3. server \in [Session -> Pages!Derived]
  BY <1>1, <1>2 DEF Pages!Derived
<1>4. res \in [Pages!Read -> Pages!Resource]
  BY DEF Pages!Resource
<1>5. Pages!TypeOK
  BY <1>3, <1>4 DEF Pages!TypeOK
<1>6. \A k \in Pages!Read : Pages!Wanted(k, session, selected, compareWith, Pages!Response) = None
  BY DEF Pages!Wanted
<1>7. Pages!ReadsFollow
  BY <1>6 DEF Pages!ReadsFollow, Pages!Coherent
<1>8. Pages!ReadsAreLatest
  BY DEF Pages!ReadsAreLatest, Pages!Latest
<1> QED BY <1>5, <1>7, <1>8 DEF Pages!PageInv

(* The commands. *)
LEMMA PageMoves ==
  ASSUME PlatformAssumption, Pages!PageInv,
         \/ \E s \in Session : Pages!Open(s)
         \/ \E ref \in Pages!Options : Pages!Select(ref) \/ Pages!ToggleCompare(ref)
         \/ \E ref \in Pages!Options \cup {None} : Pages!SetCompare(ref)
  PROVE  Pages!PageInv'
<1>1. PICK s \in Session \cup {None}, sel \in Pages!Ref \cup {None},
           cmp \in Pages!Ref \cup {"none", None} : Pages!Move /\ Pages!Follow(s, sel, cmp, res)
  <2>1. Pages!TypeOK
    BY DEF Pages!PageInv
  <2>2. CASE \E s \in Session : Pages!Open(s)
    BY <2>2 DEF Pages!Open
  <2>3. ASSUME NEW ref \in Pages!Options, Pages!Select(ref)
        PROVE  \E sel \in Pages!Ref \cup {None}, cmp \in Pages!Ref \cup {"none", None} :
                 Pages!Move /\ Pages!Follow(session, sel, cmp, res)
    BY <2>1, <2>3, OptionsAreRefs DEF Pages!Select, Pages!TypeOK
  <2>4. ASSUME NEW ref \in Pages!Options, Pages!ToggleCompare(ref)
        PROVE  \E cmp \in Pages!Ref \cup {"none", None} :
                 Pages!Move /\ Pages!Follow(session, selected, cmp, res)
    BY <2>1, <2>4, OptionsAreRefs DEF Pages!ToggleCompare, Pages!TypeOK
  <2>5. ASSUME NEW ref \in Pages!Options \cup {None}, Pages!SetCompare(ref)
        PROVE  \E cmp \in Pages!Ref \cup {"none", None} :
                 Pages!Move /\ Pages!Follow(session, selected, cmp, res)
    BY <2>1, <2>5, OptionsAreRefs DEF Pages!SetCompare, Pages!TypeOK
  <2> QED BY <2>1, <2>2, <2>3, <2>4, <2>5 DEF Pages!TypeOK
<1>2. UNCHANGED <<server, post, missed>> /\ moves' \in Nat /\ lapFaults' \in Nat
  BY <1>1 DEF Pages!Move, Pages!PageInv, Pages!TypeOK
<1>3. /\ res \in [Pages!Read -> Pages!Resource]
      /\ \A k \in Pages!Read : Pages!Coherent(res[k])
      /\ ~Pages!Behind => \A k \in Pages!Read : Pages!Latest(res[k])
  BY DEF Pages!PageInv, Pages!TypeOK, Pages!ReadsFollow, Pages!ReadsAreLatest
<1> QED BY <1>1, <1>2, <1>3, PageTakesUp

(* The recompute. *)
LEMMA PageRecomputes ==
  ASSUME PlatformAssumption, Pages!PageInv,
         Pages!Recompute \/ (\E o \in Outcome : Pages!PostDerives(o)) \/ Pages!PostFails
  PROVE  Pages!PageInv'
<1> USE DEF Pages!PageInv
<1>1. UNCHANGED <<session, selected, compareWith, res, moves>>
  BY DEF Pages!Recompute, Pages!PostDerives, Pages!PostFails, Pages!choice
<1>2. Pages!ReadsFollow'
  BY <1>1, PageKeepsAsking DEF Pages!TypeOK, Pages!ReadsFollow
<1>3. CASE Pages!Recompute
  <2>1. UNCHANGED <<server, missed, lapFaults>> /\ post' = [of |-> session, derived |-> FALSE]
        /\ post = None /\ session \in Session
    BY <1>3 DEF Pages!Recompute, Pages!TypeOK
  <2>2. Pages!TypeOK'
    BY <1>1, <2>1 DEF Pages!TypeOK
  <2>3. Pages!Behind' => Pages!Behind
    BY <2>1 DEF Pages!Behind
  <2>4. Pages!ReadsAreLatest'
    BY <1>1, <2>1 DEF Pages!ReadsAreLatest, Pages!Behind, Pages!Latest, Pages!Answer
  <2> QED BY <1>2, <2>2, <2>4
<1>4. ASSUME NEW o \in Outcome, Pages!PostDerives(o)
      PROVE  Pages!PageInv'
  <2>1. /\ post \in [of : Session, derived : BOOLEAN]
        /\ server' = [server EXCEPT ![post.of] = Pages!Derivation(post.of, o)]
        /\ post' = [post EXCEPT !.derived = TRUE]
        /\ UNCHANGED <<missed, lapFaults>>
    BY <1>4 DEF Pages!PostDerives, Pages!TypeOK
  <2>2. o \in [laps : SUBSET Pages!Lap, best : Pages!Lap \cup {None}, optimal : BOOLEAN]
    BY PlatformAssumption DEF PlatformAssumption, Pages!PageAssumption
  <2>3. server[post.of].ver \in Nat
    BY <2>1 DEF Pages!TypeOK, Pages!Derived
  <2>4. Pages!Derivation(post.of, o) \in Pages!Derived
    BY <2>2, <2>3 DEF Pages!Derivation, Pages!Derived
  <2>5. post' \in [of : Session, derived : BOOLEAN] /\ post'.derived
    BY <2>1
  <2>6. post' # None
    BY <2>5, PlatformAssumption DEF PlatformAssumption, Pages!PageAssumption
  <2>7. Pages!TypeOK'
    BY <1>1, <2>1, <2>4, <2>5 DEF Pages!TypeOK
  <2>8. Pages!ReadsAreLatest'
    BY <2>5, <2>6 DEF Pages!ReadsAreLatest, Pages!Behind
  <2> QED BY <1>2, <2>7, <2>8
<1>5. CASE Pages!PostFails
  <2>1. /\ UNCHANGED server /\ post # None /\ post' = None /\ missed' = (missed \/ post.derived)
        /\ lapFaults' = lapFaults + 1
    BY <1>5 DEF Pages!PostFails
  <2>2. Pages!TypeOK'
    BY <1>1, <2>1 DEF Pages!TypeOK
  <2>3. Pages!ReadsAreLatest'
    BY <1>1, <2>1 DEF Pages!ReadsAreLatest, Pages!Behind, Pages!Latest, Pages!Answer
  <2> QED BY <1>2, <2>2, <2>3
<1> QED BY <1>3, <1>4, <1>5

(* The answer of a recompute: whoever had its first answer reads again; whoever is idle has
   nothing to be told. *)
LEMMA PageReloads ==
  ASSUME PlatformAssumption, Pages!PageInv, Pages!PostAnswered
  PROVE  Pages!PageInv'
<1> USE DEF Pages!PageInv
<1>1. /\ UNCHANGED <<server, session, selected, compareWith, moves, lapFaults>>
      /\ post' = None /\ res' = Pages!Reloaded(res)
      /\ missed' = (missed \/ \E k \in Pages!Read : res[k].status = "loading")
  BY DEF Pages!PostAnswered, Pages!choice
<1>2. ASSUME NEW k \in Pages!Read
      PROVE  /\ res'[k] \in Pages!Resource
             /\ res'[k].key = res[k].key /\ res'[k].value = res[k].value
             /\ Pages!Coherent(res'[k])
             /\ res[k].status # "loading" => Pages!Latest(res'[k])
  <2>1. res[k] \in Pages!Resource /\ Pages!Coherent(res[k])
    BY DEF Pages!TypeOK, Pages!ReadsFollow
  <2>2. CASE res[k].status \in {"idle", "loading"}
    BY <1>1, <2>1, <2>2 DEF Pages!Reloaded, Pages!Coherent, Pages!Latest
  <2>3. CASE res[k].status \notin {"idle", "loading"}
    <3>1. res'[k] = [res[k] EXCEPT !.status = "reloading", !.sent = None]
      BY <1>1, <2>3 DEF Pages!Reloaded
    <3>2. /\ res'[k] \in Pages!Resource /\ res'[k].key = res[k].key /\ res'[k].value = res[k].value
          /\ res'[k].status = "reloading" /\ res'[k].sent = None
      BY <2>1, <3>1 DEF Pages!Resource
    <3> QED BY <2>1, <2>3, <3>2 DEF Pages!Coherent, Pages!Latest
  <2> QED BY <2>2, <2>3
<1>3. res' \in [Pages!Read -> Pages!Resource]
  BY <1>1, <1>2 DEF Pages!Reloaded
<1>4. Pages!ReadsFollow'
  BY <1>1, <1>2, <1>3, PageKeepsAsking
<1>5. Pages!TypeOK'
  BY <1>1, <1>3 DEF Pages!TypeOK
<1>6. Pages!ReadsAreLatest'
  BY <1>1, <1>2 DEF Pages!ReadsAreLatest, Pages!Behind, Pages!Latest, Pages!Answer
<1> QED BY <1>4, <1>5, <1>6

LEMMA AnswerTyped ==
  ASSUME Pages!PageInv, NEW key \in Pages!Key
  PROVE  /\ Pages!Answer(key) \in Pages!Derived \cup {Pages!NotFound}
         /\ Pages!Answer(key) # Pages!NotFound => Pages!Answer(key) = server[key.of]
<1>1. server[key.of] \in Pages!Derived
  BY DEF Pages!PageInv, Pages!TypeOK, Pages!Key
<1> QED BY <1>1 DEF Pages!Answer

LEMMA PageIsServed ==
  ASSUME PlatformAssumption, Pages!PageInv, NEW k \in Pages!Read, Pages!Serve(k)
  PROVE  Pages!PageInv'
<1> USE DEF Pages!PageInv
<1>1. /\ UNCHANGED <<server, session, selected, compareWith, post, missed, moves, lapFaults>>
      /\ res' = [res EXCEPT ![k].sent = Pages!Answer(res[k].key)]
      /\ res[k].status \in {"loading", "reloading"}
  BY DEF Pages!Serve, Pages!choice, Pages!UnderWay
<1>2. res \in [Pages!Read -> Pages!Resource] /\ Pages!Coherent(res[k])
  BY DEF Pages!TypeOK, Pages!ReadsFollow
<1>3. res[k].key \in Pages!Key
  BY <1>1, <1>2 DEF Pages!Coherent, Pages!Resource
<1>4. PICK a \in Pages!Derived \cup {Pages!NotFound} : a = Pages!Answer(res[k].key)
  BY <1>3, AnswerTyped
<1>5. /\ res'[k] = [res[k] EXCEPT !.sent = a]
      /\ \A j \in Pages!Read : j # k => res'[j] = res[j]
  BY <1>1, <1>2, <1>4
<1>6. /\ res'[k] \in Pages!Resource /\ res'[k].key = res[k].key /\ res'[k].value = res[k].value
      /\ res'[k].status = res[k].status /\ res'[k].sent = a
  BY <1>2, <1>5 DEF Pages!Resource
<1>7. res' \in [Pages!Read -> Pages!Resource]
  BY <1>1, <1>2, <1>5, <1>6
<1>8. Pages!Coherent(res'[k])
  BY <1>1, <1>2, <1>6 DEF Pages!Coherent
<1>9. Pages!ReadsFollow'
  BY <1>1, <1>5, <1>6, <1>7, <1>8, PageKeepsAsking DEF Pages!ReadsFollow
<1>10. Pages!TypeOK'
  BY <1>1, <1>7 DEF Pages!TypeOK
<1>11. Pages!Behind' = Pages!Behind
  BY <1>1 DEF Pages!Behind
<1>12. ASSUME ~Pages!Behind, NEW j \in Pages!Read
       PROVE  Pages!Latest(res[j])'
  <2>1. CASE j = k
    <3>1. res'[k].status # "resolved" /\ res'[k].sent = Pages!Answer(res[k].key)
      BY <1>1, <1>4, <1>6
    <3>2. PICK key : key = res[k].key /\ key = res'[k].key
      BY <1>6
    <3>3. Pages!Answer(key)' = Pages!Answer(key)
      BY <1>1 DEF Pages!Answer
    <3>4. Pages!Answer(res[k].key)' = Pages!Answer(key)'
      BY <3>2
    <3> QED BY <2>1, <3>1, <3>2, <3>3, <3>4 DEF Pages!Latest
  <2>2. CASE j # k
    BY <1>1, <1>5, <1>12, <2>2 DEF Pages!ReadsAreLatest, Pages!Latest, Pages!Answer
  <2> QED BY <2>1, <2>2
<1>13. Pages!ReadsAreLatest'
  BY <1>11, <1>12 DEF Pages!ReadsAreLatest
<1> QED BY <1>9, <1>10, <1>13

(* An answer arrives, or the read fails. *)
LEMMA PageIsAnswered ==
  ASSUME PlatformAssumption, Pages!PageInv, NEW k \in Pages!Read,
         Pages!Arrive(k) \/ Pages!ReadFails(k)
  PROVE  Pages!PageInv'
<1> USE DEF Pages!PageInv
<1>1. /\ res \in [Pages!Read -> Pages!Resource] /\ \A j \in Pages!Read : Pages!Coherent(res[j])
      /\ res[k].status \in {"loading", "reloading"}
  BY DEF Pages!TypeOK, Pages!ReadsFollow, Pages!Arrive, Pages!ReadFails, Pages!UnderWay
<1>2. res[k].key \in Pages!Key
  BY <1>1 DEF Pages!Coherent, Pages!Resource
<1>3. PICK v \in Pages!Derived \cup {None} :
        /\ Pages!Follow(session, selected, compareWith, [res EXCEPT ![k] = Pages!Settled(@, v)])
        /\ v # None => res[k].sent # None /\ res[k].sent # Pages!NotFound /\ v = res[k].sent
  <2>1. CASE Pages!Arrive(k)
    BY <1>1, <2>1 DEF Pages!Arrive, Pages!Resource
  <2>2. CASE Pages!ReadFails(k)
    BY <2>2 DEF Pages!ReadFails
  <2> QED BY <2>1, <2>2
<1> DEFINE r == [res EXCEPT ![k] = Pages!Settled(@, v)]
<1>4. /\ r[k] = Pages!Settled(res[k], v)
      /\ \A j \in Pages!Read : j # k => r[j] = res[j]
      /\ r = [j \in Pages!Read |-> r[j]]
  BY <1>1
<1>5. Pages!Follow(session, selected, compareWith, r)
  BY <1>3
<1> HIDE DEF r
<1>6. /\ r[k] \in Pages!Resource /\ r[k].key = res[k].key /\ r[k].value = v /\ r[k].sent = None
      /\ r[k].status = (IF v = None THEN "error" ELSE "resolved")
  BY <1>1, <1>4 DEF Pages!Settled, Pages!Resource
<1>7. r \in [Pages!Read -> Pages!Resource]
  BY <1>1, <1>4, <1>6
<1>8. \A j \in Pages!Read : Pages!Coherent(r[j])
  <2>1. Pages!Coherent(r[k])
    BY <1>1, <1>6 DEF Pages!Coherent
  <2> QED BY <1>1, <1>4, <2>1
<1>9. ASSUME ~Pages!Behind, NEW j \in Pages!Read
      PROVE  Pages!Latest(r[j])
  <2>1. Pages!Latest(res[j])
    BY <1>9 DEF Pages!ReadsAreLatest
  <2>2. CASE j = k
    <3>1. v # None => v = server[res[k].key.of]
      BY <1>2, <1>3, <2>1, <2>2, AnswerTyped DEF Pages!Latest
    <3> QED BY <1>6, <2>2, <3>1 DEF Pages!Latest
  <2> QED BY <1>4, <2>1, <2>2
<1>10. UNCHANGED <<server, post, missed>> /\ moves' \in Nat /\ lapFaults' \in Nat
  BY DEF Pages!Arrive, Pages!ReadFails, Pages!TypeOK
<1>11. session \in Session \cup {None} /\ selected \in Pages!Ref \cup {None}
       /\ compareWith \in Pages!Ref \cup {"none", None}
  BY DEF Pages!TypeOK
<1> QED BY <1>5, <1>7, <1>8, <1>9, <1>10, <1>11, PageTakesUp

LEMMA PageRests ==
  ASSUME Pages!PageInv, UNCHANGED Pages!vars
  PROVE  Pages!PageInv'
<1> USE DEF Pages!vars, Pages!choice
<1>1. Pages!TypeOK'
  BY DEF Pages!PageInv, Pages!TypeOK
<1>2. Pages!ReadsFollow'
  BY DEF Pages!PageInv, Pages!ReadsFollow, Pages!Coherent, Pages!Response
<1>3. Pages!ReadsAreLatest'
  BY DEF Pages!PageInv, Pages!ReadsAreLatest, Pages!Behind, Pages!Latest, Pages!Answer
<1> QED BY <1>1, <1>2, <1>3 DEF Pages!PageInv

(* PageInv holds in every reachable state of the page, for any sessions, laps and outcomes. *)
THEOREM PageInvariant == Pages!Spec => []Pages!PageInv
<1>1. Pages!Init => Pages!PageInv
  BY PlatformAssumption, PageBegins
<1>2. ASSUME Pages!PageInv, [Pages!Next]_(Pages!vars)
      PROVE  Pages!PageInv'
  <2>1. CASE UNCHANGED Pages!vars
    BY <1>2, <2>1, PageRests
  <2>2. CASE Pages!Next
    BY PlatformAssumption, <1>2, <2>2, PageMoves, PageRecomputes, PageReloads, PageIsServed,
       PageIsAnswered DEF Pages!Next
  <2> QED BY <1>2, <2>1, <2>2
<1> QED BY <1>1, <1>2, PTL DEF Pages!Spec

-----------------------------------------------------------------------------
(* The live page. That what it shows is of the car in the address rests on what its sockets carry
   (WiresAreOwn) and on none but the current one being heard (OnlyCurrentIsHeard). *)

LEMMA OwnAppended ==
  ASSUME NEW x \in Live!SocketRecord, Live!OwnMessages(x),
         NEW m \in Message \cup {[kind |-> "error"]}, m.kind # "error" => CarOf[m.sess] = x.car,
         NEW y \in Live!SocketRecord, y.car = x.car, y.wire = Append(x.wire, m)
  PROVE  Live!OwnMessages(y)
<1>1. x.wire \in Seq(Message \cup {[kind |-> "error"]})
  BY DEF Live!SocketRecord, Live!Wire
<1>2. ASSUME NEW i \in DOMAIN y.wire, y.wire[i].kind # "error"
      PROVE  CarOf[y.wire[i].sess] = y.car
  <2>1. CASE i \in DOMAIN x.wire
    BY <1>1, <1>2, <2>1 DEF Live!OwnMessages
  <2>2. CASE i \notin DOMAIN x.wire
    <3>1. i = Len(x.wire) + 1 /\ y.wire[i] = m
      BY <1>1, <1>2, <2>2
    <3> QED BY <1>2, <3>1
  <2> QED BY <2>1, <2>2
<1> QED BY <1>2 DEF Live!OwnMessages

(* A step that moves messages and states of links, and shows nothing new. *)
LEMMA LiveKeeps ==
  ASSUME Live!OwnInv, open' = open, sock' \in Seq(Live!SocketRecord), Len(sock') = Len(sock),
         \A k \in DOMAIN sock :
           /\ sock'[k].car = sock[k].car /\ sock'[k].heard = sock[k].heard
           /\ Live!OwnMessages(sock'[k]),
         view' \in Live!ViewRecord, view'.session = view.session, view'.holds = view.holds,
         view'.points = view.points, view'.startT = view.startT,
         log' \in Seq(Message), published' \in Nat, liveFaults' \in Nat
  PROVE  Live!OwnInv'
<1> USE DEF Live!OwnInv
<1>1. sock \in Seq(Live!SocketRecord) /\ (open => Len(sock) > 0)
  BY DEF Live!TypeOK, Live!Top
<1>2. DOMAIN sock' = DOMAIN sock
  BY <1>1
<1>3. Live!TypeOK'
  BY DEF Live!TypeOK, Live!Top
<1>4. Live!OnlyCurrentIsHeard'
  BY <1>2 DEF Live!OnlyCurrentIsHeard, Live!Current, Live!Top
<1>5. Live!WiresAreOwn'
  BY <1>2 DEF Live!WiresAreOwn, Live!OwnMessages
<1>6. open => sock'[Len(sock)].car = sock[Len(sock)].car
  BY <1>1
<1>7. Live!OwnCar'
  BY <1>6 DEF Live!OwnCar, Live!Top
<1> QED BY <1>3, <1>4, <1>5, <1>7

(* One socket goes on as x. *)
LEMMA OneSocket ==
  ASSUME Live!OwnInv, NEW k \in DOMAIN sock, NEW x \in Live!SocketRecord,
         x.car = sock[k].car, x.heard = sock[k].heard, Live!OwnMessages(x),
         sock' = [sock EXCEPT ![k] = x]
  PROVE  /\ sock' \in Seq(Live!SocketRecord) /\ Len(sock') = Len(sock)
         /\ \A j \in DOMAIN sock :
              /\ sock'[j].car = sock[j].car /\ sock'[j].heard = sock[j].heard
              /\ Live!OwnMessages(sock'[j])
<1>1. sock \in Seq(Live!SocketRecord) /\ \A j \in DOMAIN sock : Live!OwnMessages(sock[j])
  BY DEF Live!OwnInv, Live!TypeOK, Live!WiresAreOwn
<1>2. \A j \in DOMAIN sock : sock'[j] = IF j = k THEN x ELSE sock[j]
  BY <1>1
<1> QED BY <1>1, <1>2

LEMMA SocketIs ==
  ASSUME Live!OwnInv, NEW k \in DOMAIN sock
  PROVE  sock[k] \in Live!SocketRecord /\ Live!OwnMessages(sock[k])
BY DEF Live!OwnInv, Live!TypeOK, Live!WiresAreOwn

LEMMA EmptyIsSeq ==
  ASSUME NEW S
  PROVE  <<>> \in Seq(S)
OBVIOUS

LEMMA DisconnectedTyped ==
  ASSUME NEW s \in Live!SocketRecord
  PROVE  LET x == Live!Disconnected(s)
         IN  x \in Live!SocketRecord /\ ~x.heard /\ x.car = s.car /\ x.wire = s.wire
BY DEF Live!Disconnected, Live!SocketRecord

LEMMA ClearedView ==
  /\ Live!Cleared \in Live!ViewRecord
  /\ [Live!Cleared EXCEPT !.status = "connecting"] \in Live!ViewRecord
  /\ <<>> \in Seq(Message)
<1>1. PICK p \in Seq(Message), q \in Seq(Int) : p = <<>> /\ q = <<>>
  BY EmptyIsSeq
<1>2. Live!Cleared = [ frame |-> None, points |-> p, channels |-> q, startT |-> None,
                       holds |-> None, session |-> None, status |-> "idle" ]
  BY <1>1 DEF Live!Cleared
<1> QED BY <1>1, <1>2 DEF Live!ViewRecord

LEMMA LiveConnects ==
  ASSUME PlatformAssumption, Live!OwnInv, NEW c \in Car, Live!Connect(c)
  PROVE  Live!OwnInv'
<1> USE DEF Live!OwnInv
<1>1. sock \in Seq(Live!SocketRecord) /\ (open => Len(sock) > 0)
  BY DEF Live!TypeOK, Live!Top
<1>2. PICK old : /\ old = IF open THEN [sock EXCEPT ![Live!Top] = Live!Disconnected(@)] ELSE sock
                 /\ sock' = old \o <<Live!Socket(c)>>
  BY DEF Live!Connect
<1>3. /\ old \in Seq(Live!SocketRecord) /\ Len(old) = Len(sock)
      /\ \A k \in DOMAIN sock : ~old[k].heard /\ Live!OwnMessages(old[k])
  <2>1. CASE ~open
    BY <1>1, <1>2, <2>1 DEF Live!OnlyCurrentIsHeard, Live!Current, Live!WiresAreOwn
  <2>2. CASE open
    <3>1. Len(sock) \in DOMAIN sock /\ Live!Top = Len(sock)
      BY <1>1, <2>2 DEF Live!Top
    <3>2. sock[Len(sock)] \in Live!SocketRecord
      BY <1>1, <3>1
    <3>3. PICK x : /\ x = Live!Disconnected(sock[Len(sock)])
                   /\ x \in Live!SocketRecord /\ ~x.heard /\ x.car = sock[Len(sock)].car
                   /\ x.wire = sock[Len(sock)].wire
      BY <3>2, DisconnectedTyped
    <3>4. Live!OwnMessages(x)
      BY <3>1, <3>3 DEF Live!WiresAreOwn, Live!OwnMessages
    <3>5. old = [sock EXCEPT ![Len(sock)] = x]
      BY <1>2, <2>2, <3>1, <3>3
    <3>6. \A k \in DOMAIN sock : k # Len(sock) => ~sock[k].heard
      BY <3>1 DEF Live!OnlyCurrentIsHeard, Live!Current
    <3> QED BY <1>1, <3>1, <3>3, <3>4, <3>5, <3>6 DEF Live!WiresAreOwn
  <2> QED BY <2>1, <2>2
<1>4. PICK e \in Live!SocketRecord :
        e = Live!Socket(c) /\ e.car = c /\ e.heard /\ Live!OwnMessages(e)
  <2>1. PICK none \in Live!Wire : none = <<>> /\ DOMAIN none = {}
    <3>1. <<>> \in Live!Wire
      BY EmptyIsSeq DEF Live!Wire
    <3>2. DOMAIN <<>> = {}
      OBVIOUS
    <3> QED BY <3>1, <3>2
  <2>2. /\ Live!Socket(c) = [car |-> c, link |-> "connecting", joined |-> FALSE, heard |-> TRUE,
                              wire |-> none]
        /\ Live!Socket(c) \in Live!SocketRecord
    BY <2>1 DEF Live!Socket, Live!SocketRecord
  <2>3. PICK e \in Live!SocketRecord : e = Live!Socket(c) /\ e.car = c /\ e.heard /\ e.wire = none
    BY <2>2
  <2> QED BY <2>1, <2>3 DEF Live!OwnMessages
<1>5. /\ sock' \in Seq(Live!SocketRecord) /\ Len(sock') = Len(sock) + 1
      /\ \A k \in DOMAIN sock : sock'[k] = old[k]
      /\ sock'[Len(sock) + 1] = e
      /\ \A k \in DOMAIN sock' : k \in DOMAIN sock \/ k = Len(sock) + 1
  BY <1>1, <1>2, <1>3, <1>4
<1>6. /\ open' = TRUE /\ log' = <<>> /\ UNCHANGED <<published, liveFaults>>
      /\ view' = [Live!Cleared EXCEPT !.status = "connecting"]
  BY DEF Live!Connect
<1>7. /\ view' \in Live!ViewRecord /\ view'.session = None /\ view'.holds = None
      /\ view'.points = <<>>
  BY <1>6, ClearedView DEF Live!Cleared
<1>8. Live!TypeOK'
  <2>1. Len(sock') > 0
    BY <1>1, <1>5
  <2>2. log' \in Seq(Message)
    BY <1>6, ClearedView
  <2> QED BY <1>5, <1>6, <1>7, <2>1, <2>2 DEF Live!TypeOK, Live!Top
<1>9. Live!OnlyCurrentIsHeard'
  BY <1>1, <1>3, <1>4, <1>5, <1>6 DEF Live!OnlyCurrentIsHeard, Live!Current, Live!Top
<1>10. Live!WiresAreOwn'
  BY <1>3, <1>4, <1>5 DEF Live!WiresAreOwn, Live!OwnMessages
<1>11. Live!OwnCar'
  BY <1>7 DEF Live!OwnCar, Live!ToSet
<1> QED BY <1>8, <1>9, <1>10, <1>11

LEMMA LiveLeaves ==
  ASSUME PlatformAssumption, Live!OwnInv, Live!Leave
  PROVE  Live!OwnInv'
<1> USE DEF Live!OwnInv
<1>1. /\ sock \in Seq(Live!SocketRecord) /\ open /\ Len(sock) > 0 /\ Live!Top = Len(sock)
      /\ Len(sock) \in DOMAIN sock
  BY DEF Live!TypeOK, Live!Top, Live!Leave
<1>2. sock[Len(sock)] \in Live!SocketRecord
  BY <1>1
<1>3. PICK x : /\ x = Live!Disconnected(sock[Len(sock)])
               /\ x \in Live!SocketRecord /\ ~x.heard /\ x.car = sock[Len(sock)].car
               /\ x.wire = sock[Len(sock)].wire
  BY <1>2, DisconnectedTyped
<1>4. Live!OwnMessages(x)
  BY <1>1, <1>3 DEF Live!WiresAreOwn, Live!OwnMessages
<1>5. /\ sock' = [sock EXCEPT ![Len(sock)] = x] /\ open' = FALSE
      /\ view' = Live!Cleared /\ log' = <<>> /\ UNCHANGED <<published, liveFaults>>
  BY <1>1, <1>3 DEF Live!Leave
<1>6. /\ sock' \in Seq(Live!SocketRecord) /\ DOMAIN sock' = DOMAIN sock
      /\ \A k \in DOMAIN sock : sock'[k] = IF k = Len(sock) THEN x ELSE sock[k]
  BY <1>1, <1>3, <1>5
<1>7. /\ view' \in Live!ViewRecord /\ view'.session = None /\ view'.holds = None
      /\ view'.points = <<>>
  BY <1>5, ClearedView DEF Live!Cleared
<1>8. Live!TypeOK'
  <2>1. log' \in Seq(Message)
    BY <1>5, ClearedView
  <2> QED BY <1>5, <1>6, <1>7, <2>1 DEF Live!TypeOK
<1>9. Live!OnlyCurrentIsHeard'
  BY <1>1, <1>3, <1>5, <1>6 DEF Live!OnlyCurrentIsHeard, Live!Current
<1>10. Live!WiresAreOwn'
  BY <1>4, <1>6 DEF Live!WiresAreOwn, Live!OwnMessages
<1>11. Live!OwnCar'
  BY <1>7 DEF Live!OwnCar, Live!ToSet
<1> QED BY <1>8, <1>9, <1>10, <1>11

(* A link goes up or down, or a subscription is settled. *)
LEMMA LiveLinks ==
  ASSUME PlatformAssumption, Live!OwnInv, NEW k \in DOMAIN sock,
         \/ Live!LinkUp(k) \/ Live!Joined(k) \/ Live!Refused(k)
         \/ Live!LinkDown(k) \/ Live!LinkRefused(k) \/ Live!Expire(k)
  PROVE  Live!OwnInv'
<1>1. /\ open' = open /\ log' = log /\ published' = published /\ liveFaults' \in Nat
      /\ log \in Seq(Message) /\ published \in Nat
  <2>1. log \in Seq(Message) /\ published \in Nat /\ liveFaults \in Nat
    BY DEF Live!OwnInv, Live!TypeOK
  <2>2. UNCHANGED <<open, log, published>> /\ liveFaults' \in {liveFaults, liveFaults + 1}
    BY DEF Live!LinkUp, Live!Joined, Live!Refused, Live!LinkDown, Live!LinkRefused, Live!Expire
  <2> QED BY <2>1, <2>2
<1>2. PICK st \in {view.status, "connected", "disconnected", "error"} :
        view' = [view EXCEPT !.status = st]
  BY ZenonT(120) DEF Live!OwnInv, Live!TypeOK, Live!ViewRecord, Live!LinkUp, Live!Joined, Live!Refused,
         Live!LinkDown, Live!LinkRefused, Live!Expire
<1>3. /\ view' \in Live!ViewRecord /\ view'.session = view.session /\ view'.holds = view.holds
      /\ view'.points = view.points /\ view'.startT = view.startT
  BY <1>2 DEF Live!OwnInv, Live!TypeOK, Live!ViewRecord
<1>4. sock[k] \in Live!SocketRecord /\ Live!OwnMessages(sock[k])
  BY SocketIs
<1>5. \E x \in Live!SocketRecord :
        /\ x.car = sock[k].car /\ x.heard = sock[k].heard /\ Live!OwnMessages(x)
        /\ sock' = [sock EXCEPT ![k] = x]
  <2>1. CASE Live!LinkUp(k)
    <3>1. PICK x : x = [sock[k] EXCEPT !.link = "up"]
      OBVIOUS
    <3>2. x \in Live!SocketRecord /\ x.car = sock[k].car /\ x.heard = sock[k].heard
          /\ x.wire = sock[k].wire
      BY <1>4, <3>1 DEF Live!SocketRecord
    <3>3. sock' = [sock EXCEPT ![k] = x]
      BY <2>1, <3>1 DEF Live!LinkUp
    <3> QED BY <1>4, <3>2, <3>3 DEF Live!OwnMessages
  <2>2. CASE Live!Joined(k)
    <3>1. PICK seed \in {<<>>} \cup {<<m>> : m \in {y \in Message : /\ y.kind = "frame"
                                                                /\ CarOf[y.sess] = sock[k].car}} :
            sock' = [sock EXCEPT ![k].joined = TRUE, ![k].wire = @ \o seed]
      BY <2>2 DEF Live!Joined
    <3>2. PICK w : w = sock[k].wire \o seed
      OBVIOUS
    <3>3. PICK x : x = [sock[k] EXCEPT !.joined = TRUE, !.wire = w]
      OBVIOUS
    <3>4. sock' = [sock EXCEPT ![k] = x]
      BY <3>1, <3>2, <3>3
    <3>5. CASE seed = <<>>
      <4>1. w = sock[k].wire
        BY <1>4, <3>2, <3>5 DEF Live!SocketRecord, Live!Wire
      <4>2. x \in Live!SocketRecord /\ x.car = sock[k].car /\ x.heard = sock[k].heard
            /\ x.wire = sock[k].wire
        BY <1>4, <3>3, <4>1 DEF Live!SocketRecord
      <4> QED BY <1>4, <3>4, <4>2 DEF Live!OwnMessages
    <3>6. CASE seed # <<>>
      <4>1. PICK m \in Message : seed = <<m>> /\ CarOf[m.sess] = sock[k].car
        BY <3>1, <3>6
      <4>2. w = Append(sock[k].wire, m) /\ w \in Live!Wire
        BY <1>4, <3>2, <4>1 DEF Live!SocketRecord, Live!Wire
      <4>3. x \in Live!SocketRecord /\ x.car = sock[k].car /\ x.heard = sock[k].heard /\ x.wire = w
        BY <1>4, <3>3, <4>2 DEF Live!SocketRecord
      <4>4. Live!OwnMessages(x)
        BY <1>4, <4>1, <4>2, <4>3, OwnAppended
      <4> QED BY <3>4, <4>3, <4>4
    <3> QED BY <3>5, <3>6
  <2>3. CASE Live!Refused(k) \/ Live!Expire(k)
    <3>1. PICK w : w = Append(sock[k].wire, [kind |-> "error"])
      OBVIOUS
    <3>2. PICK x : /\ \/ x = [sock[k] EXCEPT !.wire = w]
                      \/ x = [sock[k] EXCEPT !.link = "closed", !.joined = FALSE, !.wire = w]
                   /\ sock' = [sock EXCEPT ![k] = x]
      <4>1. CASE Live!Refused(k)
        BY <3>1, <4>1 DEF Live!Refused
      <4>2. CASE Live!Expire(k)
        BY <3>1, <4>2 DEF Live!Expire
      <4> QED BY <2>3, <4>1, <4>2
    <3>3. w \in Live!Wire
      BY <1>4, <3>1 DEF Live!SocketRecord, Live!Wire
    <3>4. x \in Live!SocketRecord /\ x.car = sock[k].car /\ x.heard = sock[k].heard /\ x.wire = w
      BY <1>4, <3>2, <3>3 DEF Live!SocketRecord
    <3>5. Live!OwnMessages(x)
      BY <1>4, <3>1, <3>4, OwnAppended
    <3> QED BY <3>2, <3>4, <3>5
  <2>4. CASE Live!LinkDown(k)
    <3>1. PICK none : none = <<>> /\ none \in Live!Wire /\ DOMAIN none = {}
      <4>1. <<>> \in Live!Wire
        BY EmptyIsSeq DEF Live!Wire
      <4>2. DOMAIN <<>> = {}
        OBVIOUS
      <4> QED BY <4>1, <4>2
    <3>2. PICK x : x = [sock[k] EXCEPT !.link = "connecting", !.joined = FALSE, !.wire = none]
      OBVIOUS
    <3>3. sock' = [sock EXCEPT ![k] = x]
      BY <2>4, <3>1, <3>2 DEF Live!LinkDown
    <3>4. x \in Live!SocketRecord /\ x.car = sock[k].car /\ x.heard = sock[k].heard /\ x.wire = none
      BY <1>4, <3>1, <3>2 DEF Live!SocketRecord
    <3> QED BY <3>1, <3>3, <3>4 DEF Live!OwnMessages
  <2>5. CASE Live!LinkRefused(k)
    <3>1. sock' = [sock EXCEPT ![k] = sock[k]]
      BY <2>5 DEF Live!LinkRefused, Live!OwnInv, Live!TypeOK
    <3> QED BY <1>4, <3>1
  <2> QED BY <2>1, <2>2, <2>3, <2>4, <2>5
<1> QED BY <1>1, <1>3, <1>5, OneSocket, LiveKeeps

(* Ingest publishes a message, which goes to the sockets in the room of its car. *)
LEMMA LivePublishes ==
  ASSUME PlatformAssumption, Live!OwnInv, NEW m \in Message, Live!Publish(m)
  PROVE  Live!OwnInv'
<1> DEFINE next(k) == IF sock[k].joined /\ sock[k].car = CarOf[m.sess]
                      THEN [sock[k] EXCEPT !.wire = Append(@, m)] ELSE sock[k]
<1>1. /\ open' = open /\ log' = log /\ published' \in Nat /\ liveFaults' = liveFaults
      /\ log \in Seq(Message) /\ liveFaults \in Nat /\ view' = view /\ view \in Live!ViewRecord
      /\ sock \in Seq(Live!SocketRecord) /\ sock' = [k \in DOMAIN sock |-> next(k)]
  BY DEF Live!OwnInv, Live!TypeOK, Live!Publish
<1>2. ASSUME NEW k \in DOMAIN sock
      PROVE  /\ next(k) \in Live!SocketRecord
             /\ next(k).car = sock[k].car /\ next(k).heard = sock[k].heard
             /\ Live!OwnMessages(next(k))
  <2>1. sock[k] \in Live!SocketRecord /\ Live!OwnMessages(sock[k])
    BY SocketIs
  <2>2. CASE ~(sock[k].joined /\ sock[k].car = CarOf[m.sess])
    BY <2>1, <2>2
  <2>3. CASE sock[k].joined /\ sock[k].car = CarOf[m.sess]
    <3>1. PICK w : w = Append(sock[k].wire, m)
      OBVIOUS
    <3>2. PICK x : x = [sock[k] EXCEPT !.wire = w]
      OBVIOUS
    <3>3. next(k) = x
      BY <2>3, <3>1, <3>2
    <3>4. w \in Live!Wire
      BY <2>1, <3>1 DEF Live!SocketRecord, Live!Wire
    <3>5. x \in Live!SocketRecord /\ x.car = sock[k].car /\ x.heard = sock[k].heard /\ x.wire = w
      BY <2>1, <3>2, <3>4 DEF Live!SocketRecord
    <3>6. Live!OwnMessages(x)
      BY <2>1, <2>3, <3>1, <3>5, OwnAppended
    <3> QED BY <3>3, <3>5, <3>6
  <2> QED BY <2>2, <2>3
<1> HIDE DEF next
<1>3. sock' \in Seq(Live!SocketRecord) /\ Len(sock') = Len(sock)
  BY <1>1, <1>2
<1>4. \A k \in DOMAIN sock : sock'[k] = next(k)
  BY <1>1
<1> QED BY <1>1, <1>2, <1>3, <1>4, LiveKeeps

LEMMA AppendedTyped ==
  ASSUME PlatformAssumption, NEW S, NEW b \in Seq(S), NEW e \in S
  PROVE  /\ Live!Appended(b, e) \in Seq(S)
         /\ \A i \in DOMAIN Live!Appended(b, e) :
              Live!Appended(b, e)[i] = e \/ \E j \in DOMAIN b : Live!Appended(b, e)[i] = b[j]
<1> DEFINE lo == IF Len(b) >= MaxLivePoints THEN Len(b) - MaxLivePoints + 2 ELSE 1
           kept == SubSeq(b, lo, Len(b))
<1>1. MaxLivePoints \in Nat \ {0}
  BY PlatformAssumption DEF PlatformAssumption, Live!ViewAssumption
<1>2. lo \in Nat \ {0} /\ Len(b) \in Nat
  BY <1>1
<1> HIDE DEF lo
<1>3. kept \in Seq(S) /\ \A i \in DOMAIN kept : \E j \in DOMAIN b : kept[i] = b[j]
  BY <1>2
<1>4. Live!Appended(b, e) = Append(kept, e)
  BY DEF Live!Appended, lo
<1> HIDE DEF kept
<1>5. ASSUME NEW i \in DOMAIN Append(kept, e), i \notin DOMAIN kept
      PROVE  Append(kept, e)[i] = e
  BY <1>3, <1>5
<1>6. \A i \in DOMAIN kept : Append(kept, e)[i] = kept[i]
  BY <1>3
<1>7. Append(kept, e) \in Seq(S)
  BY <1>3
<1> QED BY <1>3, <1>4, <1>5, <1>6, <1>7

(* What a message of the socket puts on the page: its own session, and itself. *)
LEMMA ShownTyped ==
  ASSUME PlatformAssumption, Live!TypeOK, NEW m \in Message
  PROVE  LET v == Live!Shown(view, m)
         IN  /\ v \in Live!ViewRecord /\ (v.holds # None => v.startT \in Nat)
             /\ v.session \in {m.sess, None, view.session} /\ v.holds \in {m.sess, view.holds}
             /\ \A i \in DOMAIN v.points :
                  v.points[i] = m \/ \E j \in DOMAIN view.points : v.points[i] = view.points[j]
<1>1. /\ None \notin Run /\ m.sess \in Run /\ m.t \in Nat /\ m.kind \in {"frame", "start", "stop"}
      /\ view \in Live!ViewRecord /\ (view.holds # None => view.startT \in Nat)
  BY PlatformAssumption DEF PlatformAssumption, Live!ViewAssumption, Live!TypeOK
<1>2. PICK b : b = Live!Begun(view, m)
  OBVIOUS
<1>3. /\ b \in Live!ViewRecord /\ b.holds = m.sess /\ b.startT \in Nat /\ b.session = view.session
      /\ b.frame = view.frame /\ b.points \in Seq(Message) /\ b.channels \in Seq(Int)
      /\ \A i \in DOMAIN b.points : \E j \in DOMAIN view.points : b.points[i] = view.points[j]
  <2>1. CASE m.sess = view.holds
    BY <1>1, <1>2, <2>1 DEF Live!Begun, Live!ViewRecord
  <2>2. CASE m.sess # view.holds
    <3>1. PICK p \in Seq(Message), q \in Seq(Int) : p = <<>> /\ q = <<>> /\ DOMAIN p = {}
      <4>1. <<>> \in Seq(Message) /\ <<>> \in Seq(Int)
        BY EmptyIsSeq
      <4>2. DOMAIN <<>> = {}
        OBVIOUS
      <4> QED BY <4>1, <4>2
    <3>2. b = [view EXCEPT !.holds = m.sess, !.startT = m.t, !.points = p, !.channels = q]
      BY <1>2, <2>2, <3>1 DEF Live!Begun
    <3>3. /\ b \in Live!ViewRecord /\ b.holds = m.sess /\ b.startT = m.t /\ b.points = p
          /\ b.session = view.session /\ b.frame = view.frame /\ b.channels = q
      BY <1>1, <3>2 DEF Live!ViewRecord
    <3> QED BY <1>1, <3>1, <3>3
  <2> QED BY <2>1, <2>2
<1>4. CASE m.kind = "frame"
  <2>1. PICK c, p : c = Live!Appended(b.channels, m.t - b.startT) /\ p = Live!Appended(b.points, m)
    OBVIOUS
  <2>2. m.t - b.startT \in Int
    BY <1>1, <1>3
  <2>3. c \in Seq(Int)
    BY <1>3, <2>1, <2>2, AppendedTyped
  <2>4. /\ p \in Seq(Message)
        /\ \A i \in DOMAIN p : p[i] = m \/ \E j \in DOMAIN b.points : p[i] = b.points[j]
    BY <1>3, <2>1, AppendedTyped
  <2>5. PICK ps : ps = IF m.fix THEN p ELSE b.points
    OBVIOUS
  <2>6. /\ ps \in Seq(Message)
        /\ \A i \in DOMAIN ps : ps[i] = m \/ \E j \in DOMAIN b.points : ps[i] = b.points[j]
    BY <1>3, <2>4, <2>5
  <2>7. PICK v : v = [b EXCEPT !.frame = m, !.session = m.sess, !.channels = c, !.points = ps]
    OBVIOUS
  <2>8. Live!Shown(view, m) = v
    BY <1>2, <1>4, <2>1, <2>5, <2>7 DEF Live!Shown, Live!OnFrame
  <2>9. /\ v \in Live!ViewRecord /\ v.holds = m.sess /\ v.startT = b.startT /\ v.session = m.sess
        /\ v.points = ps
    BY <1>1, <1>3, <2>3, <2>6, <2>7 DEF Live!ViewRecord
  <2> QED BY <1>3, <2>6, <2>8, <2>9
<1>5. CASE m.kind = "start"
  <2>1. Live!Shown(view, m) = [b EXCEPT !.session = m.sess]
    BY <1>2, <1>5 DEF Live!Shown, Live!OnStart
  <2>2. PICK v : v = [b EXCEPT !.session = m.sess]
    OBVIOUS
  <2>3. /\ v \in Live!ViewRecord /\ v.holds = m.sess /\ v.startT = b.startT /\ v.session = m.sess
        /\ v.points = b.points
    BY <1>1, <1>3, <2>2 DEF Live!ViewRecord
  <2> QED BY <1>3, <2>1, <2>2, <2>3
<1>6. CASE m.kind = "stop"
  <2>1. Live!Shown(view, m) = [view EXCEPT !.session = None]
    BY <1>6 DEF Live!Shown, Live!OnStop
  <2>2. PICK v : v = [view EXCEPT !.session = None]
    OBVIOUS
  <2>3. /\ v \in Live!ViewRecord /\ v.holds = view.holds /\ v.startT = view.startT /\ v.session = None
        /\ v.points = view.points
    BY <1>1, <2>2 DEF Live!ViewRecord
  <2> QED BY <1>1, <2>1, <2>2, <2>3
<1> QED BY <1>1, <1>4, <1>5, <1>6

LEMMA LiveDelivers ==
  ASSUME PlatformAssumption, Live!OwnInv, NEW k \in DOMAIN sock, Live!Deliver(k)
  PROVE  Live!OwnInv'
<1>1. sock[k] \in Live!SocketRecord /\ Live!OwnMessages(sock[k])
  BY SocketIs
<1>2. PICK w \in Live!Wire : w = sock[k].wire /\ w # <<>>
  BY <1>1 DEF Live!SocketRecord, Live!Deliver
<1>3. PICK m, u : m = Head(w) /\ u = Tail(w)
  OBVIOUS
<1>4. /\ m \in Message \cup {[kind |-> "error"]} /\ u \in Live!Wire /\ 1 \in DOMAIN w /\ m = w[1]
      /\ \A i \in DOMAIN u : i + 1 \in DOMAIN w /\ u[i] = w[i + 1]
  BY <1>2, <1>3 DEF Live!Wire
<1>5. m.kind # "error" => CarOf[m.sess] = sock[k].car /\ m \in Message
  <2>1. m.kind # "error" => m # [kind |-> "error"]
    OBVIOUS
  <2> QED BY <1>1, <1>2, <1>4, <2>1 DEF Live!OwnMessages
<1>6. PICK x : x = [sock[k] EXCEPT !.wire = u]
  OBVIOUS
<1>7. /\ x \in Live!SocketRecord /\ x.car = sock[k].car /\ x.heard = sock[k].heard /\ x.wire = u
  BY <1>1, <1>4, <1>6 DEF Live!SocketRecord
<1>8. Live!OwnMessages(x)
  BY <1>1, <1>2, <1>4, <1>7 DEF Live!OwnMessages
<1>9. sock' = [sock EXCEPT ![k] = x]
  BY <1>2, <1>3, <1>6 DEF Live!Deliver
<1>10. /\ sock' \in Seq(Live!SocketRecord) /\ Len(sock') = Len(sock)
       /\ \A j \in DOMAIN sock :
            /\ sock'[j].car = sock[j].car /\ sock'[j].heard = sock[j].heard
            /\ Live!OwnMessages(sock'[j])
  BY <1>7, <1>8, <1>9, OneSocket
<1>11. /\ open' = open /\ published' = published /\ liveFaults' = liveFaults
       /\ view' = (IF sock[k].heard THEN Live!Shown(view, m) ELSE view)
       /\ log' = (IF Live!Current(k) /\ m.kind # "error" THEN Append(log, m) ELSE log)
  BY <1>2, <1>3 DEF Live!Deliver
<1>12. /\ Live!TypeOK /\ view \in Live!ViewRecord /\ log \in Seq(Message)
       /\ published \in Nat /\ liveFaults \in Nat
  BY DEF Live!OwnInv, Live!TypeOK
<1>13. log' \in Seq(Message)
  BY <1>5, <1>11, <1>12
<1>14. CASE ~sock[k].heard
  BY <1>10, <1>11, <1>12, <1>13, <1>14, LiveKeeps
<1>15. CASE sock[k].heard /\ m.kind = "error"
  <2>1. m \notin Message
    BY <1>15, PlatformAssumption DEF PlatformAssumption, Live!ViewAssumption
  <2>2. view' = [view EXCEPT !.status = "error"]
    BY <1>11, <1>15 DEF Live!Shown
  <2>3. /\ view' \in Live!ViewRecord /\ view'.session = view.session /\ view'.holds = view.holds
        /\ view'.points = view.points /\ view'.startT = view.startT
    BY <1>12, <2>2 DEF Live!ViewRecord
  <2> QED BY <1>10, <1>11, <1>12, <1>13, <2>3, LiveKeeps
<1>16. CASE sock[k].heard /\ m.kind # "error"
  <2>1. open /\ k = Len(sock) /\ DOMAIN sock' = DOMAIN sock
    BY <1>10, <1>12, <1>16 DEF Live!OwnInv, Live!OnlyCurrentIsHeard, Live!Current, Live!Top, Live!TypeOK
  <2>2. /\ view' \in Live!ViewRecord /\ (view'.holds # None => view'.startT \in Nat)
        /\ view'.session \in {m.sess, None, view.session} /\ view'.holds \in {m.sess, view.holds}
        /\ \A i \in DOMAIN view'.points :
             view'.points[i] = m \/ \E j \in DOMAIN view.points : view'.points[i] = view.points[j]
    BY <1>5, <1>11, <1>12, <1>16, PlatformAssumption, ShownTyped
  <2>3. Live!TypeOK'
    BY <1>10, <1>11, <1>12, <1>13, <2>2 DEF Live!TypeOK, Live!Top
  <2>4. Live!OnlyCurrentIsHeard'
    BY <1>10, <1>11, <2>1 DEF Live!OwnInv, Live!OnlyCurrentIsHeard, Live!Current, Live!Top
  <2>5. Live!WiresAreOwn'
    BY <1>10, <2>1 DEF Live!WiresAreOwn, Live!OwnMessages
  <2>6. /\ CarOf[m.sess] = sock[k].car /\ sock'[Len(sock')].car = sock[k].car
        /\ sock[Live!Top].car = sock[k].car
    BY <1>5, <1>10, <1>16, <2>1 DEF Live!Top
  <2>7. /\ \A z \in {view.session, view.holds} \ {None} : CarOf[z] = sock[k].car
        /\ \A j \in DOMAIN view.points : CarOf[view.points[j].sess] = sock[k].car
    BY <2>6 DEF Live!OwnInv, Live!OwnCar, Live!ToSet
  <2>8. /\ \A z \in {view'.session, view'.holds} \ {None} : CarOf[z] = sock[k].car
        /\ \A j \in DOMAIN view'.points : CarOf[view'.points[j].sess] = sock[k].car
    BY <2>2, <2>6, <2>7
  <2>9. Live!OwnCar'
    BY <1>11, <2>1, <2>6, <2>8 DEF Live!OwnCar, Live!ToSet, Live!Top
  <2> QED BY <2>3, <2>4, <2>5, <2>9 DEF Live!OwnInv
<1> QED BY <1>14, <1>15, <1>16

(* OwnInv holds in every reachable state of the page, for any cars, sessions, sockets and messages. *)
THEOREM OwnInvariant == Live!Spec => []Live!OwnInv
<1>1. Live!Init => Live!OwnInv
  <2>1. ASSUME Live!Init PROVE Live!OwnInv
    <3>1. /\ sock = <<>> /\ open = FALSE /\ view = Live!Cleared /\ log = <<>>
          /\ published = 0 /\ liveFaults = 0
      BY <2>1 DEF Live!Init
    <3>2. /\ sock \in Seq(Live!SocketRecord) /\ log \in Seq(Message) /\ view \in Live!ViewRecord
          /\ DOMAIN sock = {}
      BY <3>1, ClearedView, EmptyIsSeq
    <3>3. view.session = None /\ view.holds = None /\ view.points = <<>>
      BY <3>1 DEF Live!Cleared
    <3>4. Live!TypeOK
      BY <3>1, <3>2, <3>3 DEF Live!TypeOK
    <3>5. Live!OwnCar
      BY <3>3 DEF Live!OwnCar, Live!ToSet
    <3> QED BY <3>2, <3>4, <3>5 DEF Live!OwnInv, Live!OnlyCurrentIsHeard, Live!WiresAreOwn
  <2> QED BY <2>1
<1>2. ASSUME Live!OwnInv, [Live!Next]_(Live!vars)
      PROVE  Live!OwnInv'
  <2>1. CASE UNCHANGED Live!vars
    <3>1. UNCHANGED <<sock, open, view, log, published, liveFaults>>
      BY <2>1 DEF Live!vars
    <3>2. Live!TypeOK'
      BY <1>2, <3>1 DEF Live!OwnInv, Live!TypeOK, Live!Top
    <3>3. Live!OnlyCurrentIsHeard' /\ Live!WiresAreOwn' /\ Live!OwnCar'
      BY <1>2, <3>1 DEF Live!OwnInv, Live!OnlyCurrentIsHeard, Live!Current, Live!Top,
                        Live!WiresAreOwn, Live!OwnMessages, Live!OwnCar
    <3> QED BY <3>2, <3>3 DEF Live!OwnInv
  <2>2. CASE Live!Next
    BY PlatformAssumption, <1>2, <2>2, LiveConnects, LiveLeaves, LiveLinks, LiveDelivers, LivePublishes
       DEF Live!Next
  <2> QED BY <1>2, <2>1, <2>2
<1> QED BY <1>1, <1>2, PTL DEF Live!Spec

-----------------------------------------------------------------------------
(* The trace of the live page. *)

(* What a capped buffer holds once an element is appended: the d oldest are given up. *)
LEMMA AppendedIs ==
  ASSUME PlatformAssumption, NEW S, NEW b \in Seq(S), NEW e \in S,
         NEW d, d = IF Len(b) >= MaxLivePoints THEN Len(b) - MaxLivePoints + 1 ELSE 0
  PROVE  /\ Live!Appended(b, e) \in Seq(S)
         /\ Len(Live!Appended(b, e)) = Len(b) - d + 1
         /\ \A i \in 1 .. Len(b) - d : Live!Appended(b, e)[i] = b[i + d]
         /\ Live!Appended(b, e)[Len(b) - d + 1] = e
<1>1. MaxLivePoints \in Nat \ {0} /\ Len(b) \in Nat
  BY PlatformAssumption DEF PlatformAssumption, Live!ViewAssumption
<1>2. d \in 0 .. Len(b)
  BY <1>1
<1>3. (IF Len(b) >= MaxLivePoints THEN Len(b) - MaxLivePoints + 2 ELSE 1) = d + 1
  BY <1>1
<1>4. PICK kept : kept = SubSeq(b, d + 1, Len(b))
  OBVIOUS
<1>5. Live!Appended(b, e) = Append(kept, e)
  BY <1>3, <1>4 DEF Live!Appended
<1>6. kept \in Seq(S) /\ Len(kept) = Len(b) - d /\ \A i \in 1 .. Len(b) - d : kept[i] = b[i + d]
  <2>a. d + 1 \in Nat /\ Len(b) \in Nat
    BY <1>1, <1>2
  <2>b. PICK l \in Nat : l = d + 1
    BY <2>a
  <2>c. PICK h \in Nat : h = Len(b)
    BY <2>a
  <2>1. l \in Nat /\ h \in Nat /\ l = d + 1 /\ h = Len(b)
    BY <2>b, <2>c
  <2>2. \A i \in l .. h : b[i] \in S
    BY <1>1, <1>2, <2>1
  <2>3. /\ SubSeq(b, l, h) \in Seq(S)
        /\ Len(SubSeq(b, l, h)) = IF l <= h THEN h - l + 1 ELSE 0
        /\ \A i \in 1 .. h - l + 1 : SubSeq(b, l, h)[i] = b[l + i - 1]
    BY <2>2, SubSeqProperties
  <2>4. kept = SubSeq(b, l, h)
    BY <1>4, <2>1
  <2>5. h - l + 1 = Len(b) - d /\ \A i \in Int : l + i - 1 = i + d
    BY <1>1, <1>2, <2>1
  <2>6. h - l + 1 = Len(b) - d /\ (~(l <= h) => Len(b) - d = 0)
    BY <1>1, <1>2, <2>1
  <2>7. \A i \in 1 .. Len(b) - d : i \in Int
    BY <1>1, <1>2
  <2> QED BY <2>3, <2>4, <2>5, <2>6, <2>7
<1>7. /\ Append(kept, e) \in Seq(S) /\ Len(Append(kept, e)) = Len(kept) + 1
      /\ \A i \in 1 .. Len(kept) : Append(kept, e)[i] = kept[i]
      /\ Append(kept, e)[Len(kept) + 1] = e
  BY <1>6
<1> QED BY <1>5, <1>6, <1>7

(* The buffer c shows what b showed, through f, or the message last, as e. *)
Continues(c, b, f, set, last, e) ==
  \E g \in [1 .. Len(c) -> set \cup {last}] :
    /\ Live!Newest(g, Len(c), set \cup {last})
    /\ \A i \in 1 .. Len(c) : \/ g[i] = last /\ c[i] = e
                              \/ \E j \in 1 .. Len(b) : g[i] = f[j] /\ c[i] = b[j]

LEMMA BufferGrows ==
  ASSUME PlatformAssumption, NEW S, NEW b \in Seq(S), NEW e \in S, NEW set \in SUBSET Nat,
         NEW f \in [1 .. Len(b) -> set], Live!Newest(f, Len(b), set),
         NEW last \in Nat, \A x \in set : x < last
  PROVE  Continues(Live!Appended(b, e), b, f, set, last, e)
<1>1. PICK n \in Nat : n = Len(b)
  OBVIOUS
<1>2. MaxLivePoints \in Nat \ {0}
  BY PlatformAssumption DEF PlatformAssumption, Live!ViewAssumption
<1>3. PICK d : d = IF n >= MaxLivePoints THEN n - MaxLivePoints + 1 ELSE 0
  OBVIOUS
<1>4. PICK c, k : c = Live!Appended(b, e) /\ k = n - d
  OBVIOUS
<1>5. d \in Nat /\ k \in Nat /\ k + d = n
  BY <1>2, <1>3, <1>4
<1>6. Len(c) = k + 1 /\ (\A i \in 1 .. k : c[i] = b[i + d]) /\ c[k + 1] = e
  <2>1. d = IF Len(b) >= MaxLivePoints THEN Len(b) - MaxLivePoints + 1 ELSE 0
    BY <1>1, <1>3
  <2>2. /\ Len(Live!Appended(b, e)) = Len(b) - d + 1
        /\ \A i \in 1 .. Len(b) - d : Live!Appended(b, e)[i] = b[i + d]
        /\ Live!Appended(b, e)[Len(b) - d + 1] = e
    BY ONLY <2>1, AppendedIs, PlatformAssumption, b \in Seq(S), e \in S
  <2>3. Len(b) - d = k /\ Live!Appended(b, e) = c
    BY <1>1, <1>4
  <2> QED BY <2>2, <2>3
<1>7. PICK g : g = [i \in 1 .. k + 1 |-> IF i = k + 1 THEN last ELSE f[i + d]]
  OBVIOUS
<1>8. /\ n <= MaxLivePoints
      /\ \A i, j \in 1 .. n : i < j => f[i] < f[j]
      /\ \A x \in set : \/ \E i \in 1 .. n : f[i] = x
                        \/ n = MaxLivePoints /\ \A i \in 1 .. n : x < f[i]
  BY <1>1 DEF Live!Newest
<1>9. \A i \in 1 .. k : i + d \in 1 .. n /\ i # k + 1 /\ i \in 1 .. k + 1
  BY <1>5
<1>10. \A i \in 1 .. k : f[i + d] \in set /\ f[i + d] \in Nat /\ f[i + d] < last
  BY <1>1, <1>9
<1>11. (\A i \in 1 .. k : g[i] = f[i + d]) /\ g[k + 1] = last
  BY <1>5, <1>7, <1>9
<1>12. \A i \in 1 .. k + 1 : i \in 1 .. k \/ i = k + 1
  BY <1>5
<1>13. g \in [1 .. k + 1 -> set \cup {last}]
  BY <1>7, <1>10, <1>12
<1>14. ASSUME NEW i \in 1 .. k + 1
       PROVE  \/ g[i] = last /\ c[i] = e
              \/ \E j \in 1 .. n : g[i] = f[j] /\ c[i] = b[j]
  BY <1>6, <1>9, <1>11, <1>12
<1>15. k + 1 <= MaxLivePoints /\ (d > 0 => k + 1 = MaxLivePoints)
  BY <1>2, <1>3, <1>5, <1>8
<1>16. ASSUME NEW i \in 1 .. k + 1, NEW j \in 1 .. k + 1, i < j
       PROVE  g[i] < g[j]
  <2>1. i \in 1 .. k
    BY <1>5, <1>16
  <2>2. CASE j \in 1 .. k
    <3>1. i + d < j + d
      BY <1>5, <1>16, <2>2
    <3> QED BY <1>8, <1>9, <1>11, <2>1, <2>2, <3>1
  <2>3. CASE j = k + 1
    BY <1>10, <1>11, <2>1, <2>3
  <2> QED BY <1>12, <2>2, <2>3
<1>17. ASSUME NEW x \in set, d > 0, \A i \in 1 .. k : x < f[i + d]
       PROVE  k + 1 = MaxLivePoints /\ \A i \in 1 .. k + 1 : x < g[i]
  BY <1>11, <1>12, <1>15, <1>17
<1>18. ASSUME NEW x \in set \cup {last}
       PROVE  \/ \E i \in 1 .. k + 1 : g[i] = x
              \/ k + 1 = MaxLivePoints /\ \A i \in 1 .. k + 1 : x < g[i]
  <2>1. CASE x = last
    BY <1>5, <1>11, <2>1
  <2>2. CASE x \in set /\ \E j \in 1 .. n : f[j] = x
    <3>1. PICK j \in 1 .. n : f[j] = x
      BY <2>2
    <3>2. CASE j > d
      <4>1. j - d \in 1 .. k /\ (j - d) + d = j
        BY <1>5, <3>2
      <4> QED BY <1>9, <1>11, <3>1, <4>1
    <3>3. CASE ~(j > d)
      <4>1. d > 0 /\ \A i \in 1 .. k : j < i + d
        BY <1>5, <3>3
      <4>2. \A i \in 1 .. k : x < f[i + d]
        BY <1>8, <1>9, <3>1, <4>1
      <4> QED BY <1>17, <2>2, <4>1, <4>2
    <3> QED BY <3>2, <3>3
  <2>3. CASE x \in set /\ n = MaxLivePoints /\ \A i \in 1 .. n : x < f[i]
    <3>1. d > 0
      BY <1>2, <1>3, <2>3
    <3> QED BY <1>9, <1>17, <2>3, <3>1
  <2> QED BY <1>8, <2>1, <2>2, <2>3
<1>19. Live!Newest(g, k + 1, set \cup {last})
  BY <1>15, <1>16, <1>18 DEF Live!Newest
<1>20. Continues(c, b, f, set, last, e)
  BY <1>1, <1>6, <1>13, <1>14, <1>19 DEF Continues
<1> QED BY <1>4, <1>20

(* A message is appended to the log. *)
LEMMA LogGrows ==
  ASSUME Live!TypeOK, NEW m \in Message, log' = Append(log, m)
  PROVE  /\ Len(log) \in Nat /\ Len(log') = Len(log) + 1
         /\ DOMAIN log = 1 .. Len(log) /\ DOMAIN log' = 1 .. Len(log) + 1
         /\ \A i \in 1 .. Len(log) : log'[i] = log[i] /\ log[i] \in Message
         /\ log'[Len(log) + 1] = m
<1>1. log \in Seq(Message)
  BY DEF Live!TypeOK
<1> QED BY <1>1

LEMMA RunGoesOn ==
  ASSUME Live!TypeOK, NEW m \in Message, log' = Append(log, m), NEW o \in DOMAIN log,
         Live!StartsRun(o), m.kind # "stop" => m.sess = log[o].sess
  PROVE  Live!StartsRun(o)'
<1>1. PICK n \in Nat :
        /\ n = Len(log) /\ Len(log') = n + 1 /\ o \in 1 .. n
        /\ \A i \in 1 .. n : log'[i] = log[i]
        /\ log'[n + 1] = m
  BY LogGrows
<1>2. /\ log[o].kind # "stop"
      /\ \A j \in o .. n : log[j].kind # "stop" => log[j].sess = log[o].sess
      /\ \A h \in 1 .. o - 1 : ~Live!OneRun(h)
  BY <1>1 DEF Live!StartsRun, Live!OneRun, Live!IsData
<1>3. \A j \in o .. n + 1 : (j \in o .. n /\ j \in 1 .. n) \/ j = n + 1
  BY <1>1
<1>4. Live!OneRun(o)'
  BY <1>1, <1>2, <1>3 DEF Live!OneRun, Live!IsData
<1>5. ASSUME NEW h \in 1 .. o - 1, Live!OneRun(h)'
      PROVE  FALSE
  <2>1. /\ h \in 1 .. n /\ log[h].kind # "stop"
        /\ \A j \in h .. n + 1 : log'[j].kind # "stop" => log'[j].sess = log[h].sess
    BY <1>1, <1>5 DEF Live!OneRun, Live!IsData
  <2>2. \A j \in h .. n : j \in h .. n + 1 /\ j \in 1 .. n
    BY <1>1, <2>1
  <2>3. Live!OneRun(h)
    BY <1>1, <2>1, <2>2 DEF Live!OneRun, Live!IsData
  <2> QED BY <1>2, <2>3
<1> QED BY <1>4, <1>5 DEF Live!StartsRun

LEMMA RunStarts ==
  ASSUME Live!TypeOK, NEW m \in Message, log' = Append(log, m), m.kind # "stop",
         \/ \A i \in DOMAIN log : ~Live!IsData(i)
         \/ \E o \in DOMAIN log : Live!StartsRun(o) /\ log[o].sess # m.sess,
         NEW n \in Nat, n = Len(log)
  PROVE  Live!StartsRun(n + 1)'
<1>1. /\ Len(log') = n + 1 /\ DOMAIN log = 1 .. n
      /\ \A i \in 1 .. n : log'[i] = log[i]
      /\ log'[n + 1] = m
  BY LogGrows
<1>2. Live!OneRun(n + 1)'
  <2>1. \A j \in n + 1 .. n + 1 : j = n + 1
    BY <1>1
  <2> QED BY <1>1, <2>1 DEF Live!OneRun, Live!IsData
<1>3. ASSUME NEW h \in 1 .. n, Live!OneRun(h)'
      PROVE  FALSE
  <2>1. /\ log[h].kind # "stop" /\ m.sess = log[h].sess
        /\ \A j \in h .. n + 1 : log'[j].kind # "stop" => log'[j].sess = log[h].sess
    <3>1. n + 1 \in h .. n + 1
      BY <1>1
    <3> QED BY <1>1, <1>3, <3>1 DEF Live!OneRun, Live!IsData
  <2>2. \A j \in h .. n : j \in h .. n + 1 /\ j \in 1 .. n
    BY <1>1
  <2>3. Live!OneRun(h)
    BY <1>1, <2>1, <2>2 DEF Live!OneRun, Live!IsData
  <2>4. PICK o \in 1 .. n : Live!StartsRun(o) /\ log[o].sess # m.sess
    BY <1>1, <2>1 DEF Live!IsData
  <2>5. /\ log[o].kind # "stop" /\ \A x \in 1 .. o - 1 : ~Live!OneRun(x)
        /\ \A j \in o .. n : log[j].kind # "stop" => log[j].sess = log[o].sess
    BY <1>1, <2>4 DEF Live!StartsRun, Live!OneRun, Live!IsData
  <2>6. h \in o .. n
    BY <1>1, <2>3, <2>5
  <2> QED BY <2>1, <2>4, <2>5, <2>6
<1>4. (1 .. (n + 1) - 1) = 1 .. n
  BY <1>1
<1> QED BY <1>1, <1>2, <1>3, <1>4 DEF Live!StartsRun

(* The frames and the fixes of the run from o on, or of one that starts with this message. *)
LEMMA FramesGrow ==
  ASSUME Live!TypeOK, NEW m \in Message, log' = Append(log, m), NEW o \in 1 .. Len(log) + 1
  PROVE  /\ Live!Frames(o) \in SUBSET (1 .. Len(log)) /\ Live!Fixes(o) \in SUBSET (1 .. Len(log))
         /\ Live!Frames(o)' = Live!Frames(o) \cup (IF m.kind = "frame" THEN {Len(log) + 1} ELSE {})
         /\ Live!Fixes(o)' =
              Live!Fixes(o) \cup (IF m.kind = "frame" /\ m.fix THEN {Len(log) + 1} ELSE {})
         /\ o = Len(log) + 1 => Live!Frames(o) = {} /\ Live!Fixes(o) = {}
<1>1. PICK n \in Nat :
        /\ n = Len(log) /\ Len(log') = n + 1
        /\ \A i \in 1 .. n : log'[i] = log[i]
        /\ log'[n + 1] = m
  BY LogGrows
<1>2. \A i : i \in o .. n + 1 <=> (i \in o .. n \/ i = n + 1)
  BY <1>1
<1>3. \A i \in o .. n : i \in 1 .. n /\ i # n + 1
  BY <1>1
<1>4. o = n + 1 => o .. n = {}
  BY <1>1
<1>5. \A i : i \in Live!Frames(o)' <=> i \in o .. n + 1 /\ log'[i].kind = "frame"
  BY <1>1 DEF Live!Frames
<1>6. \A i : i \in Live!Frames(o) <=> i \in o .. n /\ log[i].kind = "frame"
  BY <1>1 DEF Live!Frames
<1>7. \A i : i \in Live!Frames(o)' <=> i \in Live!Frames(o) \/ (i = n + 1 /\ m.kind = "frame")
  BY <1>1, <1>2, <1>3, <1>5, <1>6
<1>8. \A i : i \in Live!Fixes(o)' <=> i \in Live!Frames(o)' /\ log'[i].fix
  BY DEF Live!Fixes
<1>9. \A i : i \in Live!Fixes(o) <=> i \in Live!Frames(o) /\ log[i].fix
  BY DEF Live!Fixes
<1>10. \A i : i \in Live!Fixes(o)' <=> i \in Live!Fixes(o) \/ (i = n + 1 /\ m.kind = "frame" /\ m.fix)
  BY <1>1, <1>3, <1>6, <1>7, <1>8, <1>9
<1>11. Live!Frames(o)' = Live!Frames(o) \cup (IF m.kind = "frame" THEN {n + 1} ELSE {})
  BY <1>7
<1>12. Live!Fixes(o)' = Live!Fixes(o) \cup (IF m.kind = "frame" /\ m.fix THEN {n + 1} ELSE {})
  BY <1>10
<1>13. Live!Frames(o) \in SUBSET (1 .. n) /\ Live!Fixes(o) \in SUBSET (1 .. n)
  BY <1>3, <1>6, <1>9
<1>14. o = n + 1 => Live!Frames(o) = {} /\ Live!Fixes(o) = {}
  BY <1>4, <1>6, <1>9
<1> QED BY <1>1, <1>11, <1>12, <1>13, <1>14

(* Appending to the log changes nothing that a buffer shows; the buffer may go on with it. *)
LEMMA TimesGrow ==
  ASSUME PlatformAssumption, Live!TypeOK, NEW m \in Message, log' = Append(log, m),
         NEW c \in Seq(Int), NEW origin \in Nat, NEW set \in SUBSET (1 .. Len(log)),
         Live!ShowsTimes(c, origin, set), NEW n \in Nat, n = Len(log)
  PROVE  /\ Live!ShowsTimes(c, origin, set)'
         /\ Live!ShowsTimes(Live!Appended(c, m.t - origin), origin, set \cup {n + 1})'
<1>1. /\ \A i \in 1 .. n : log'[i] = log[i]
      /\ log'[n + 1] = m
  BY LogGrows
<1>2. PICK f \in [1 .. Len(c) -> set] :
        /\ Live!Newest(f, Len(c), set)
        /\ \A i \in 1 .. Len(c) : c[i] = log[f[i]].t - origin
  BY DEF Live!ShowsTimes
<1>3. \A i \in 1 .. Len(c) : f[i] \in 1 .. n /\ log'[f[i]] = log[f[i]]
  BY <1>1, <1>2
<1>4. Live!ShowsTimes(c, origin, set)'
  BY <1>2, <1>3 DEF Live!ShowsTimes
<1>5. PICK e, b : e = m.t - origin /\ b = Live!Appended(c, m.t - origin)
  OBVIOUS
<1>6. e \in Int
  BY <1>5, PlatformAssumption DEF PlatformAssumption, Live!ViewAssumption
<1>7. set \in SUBSET Nat /\ n + 1 \in Nat /\ \A x \in set : x < n + 1
  BY <1>1
<1>8. PICK g \in [1 .. Len(b) -> set \cup {n + 1}] :
        /\ Live!Newest(g, Len(b), set \cup {n + 1})
        /\ \A i \in 1 .. Len(b) : \/ g[i] = n + 1 /\ b[i] = e
                                  \/ \E j \in 1 .. Len(c) : g[i] = f[j] /\ b[i] = c[j]
  <2>1. Continues(Live!Appended(c, e), c, f, set, n + 1, e)
    <3>1. PICK last \in Nat : last = n + 1 /\ \A x \in set : x < last
      BY <1>7
    <3>2. Continues(Live!Appended(c, e), c, f, set, last, e)
      BY <1>2, <1>6, <1>7, <3>1, BufferGrows
    <3> QED BY <3>1, <3>2
  <2>2. Continues(b, c, f, set, n + 1, e)
    BY <1>5, <2>1
  <2> QED BY <2>2 DEF Continues
<1>9. \A i \in 1 .. Len(b) : b[i] = log'[g[i]].t - origin
  BY <1>1, <1>2, <1>3, <1>5, <1>8
<1>10. Live!ShowsTimes(b, origin, set \cup {n + 1})'
  BY <1>8, <1>9 DEF Live!ShowsTimes
<1> QED BY <1>1, <1>4, <1>5, <1>10

LEMMA FixesGrow ==
  ASSUME PlatformAssumption, Live!TypeOK, NEW m \in Message, log' = Append(log, m),
         NEW p \in Seq(Message), NEW set \in SUBSET (1 .. Len(log)), Live!ShowsFixes(p, set),
         NEW n \in Nat, n = Len(log)
  PROVE  /\ Live!ShowsFixes(p, set)'
         /\ Live!ShowsFixes(Live!Appended(p, m), set \cup {n + 1})'
<1>1. /\ \A i \in 1 .. n : log'[i] = log[i]
      /\ log'[n + 1] = m
  BY LogGrows
<1>2. PICK f \in [1 .. Len(p) -> set] :
        /\ Live!Newest(f, Len(p), set)
        /\ \A i \in 1 .. Len(p) : p[i] = log[f[i]]
  BY DEF Live!ShowsFixes
<1>3. \A i \in 1 .. Len(p) : f[i] \in 1 .. n /\ log'[f[i]] = log[f[i]]
  BY <1>1, <1>2
<1>4. Live!ShowsFixes(p, set)'
  BY <1>2, <1>3, SMTT(60) DEF Live!ShowsFixes
<1>5. PICK b : b = Live!Appended(p, m)
  OBVIOUS
<1>6. set \in SUBSET Nat /\ n + 1 \in Nat /\ \A x \in set : x < n + 1
  BY <1>1
<1>7. PICK g \in [1 .. Len(b) -> set \cup {n + 1}] :
        /\ Live!Newest(g, Len(b), set \cup {n + 1})
        /\ \A i \in 1 .. Len(b) : \/ g[i] = n + 1 /\ b[i] = m
                                  \/ \E j \in 1 .. Len(p) : g[i] = f[j] /\ b[i] = p[j]
  <2>1. Continues(Live!Appended(p, m), p, f, set, n + 1, m)
    <3>1. PICK last \in Nat : last = n + 1 /\ \A x \in set : x < last
      BY <1>6
    <3>2. Continues(Live!Appended(p, m), p, f, set, last, m)
      BY <1>2, <1>6, <1>6, <3>1, BufferGrows
    <3> QED BY <3>1, <3>2
  <2>2. Continues(b, p, f, set, n + 1, m)
    BY <1>5, <2>1
  <2> QED BY <2>2 DEF Continues
<1>8. \A i \in 1 .. Len(b) : b[i] = log'[g[i]]
  BY <1>1, <1>2, <1>3, <1>7
<1>9. Live!ShowsFixes(b, set \cup {n + 1})'
  BY <1>7, <1>8 DEF Live!ShowsFixes
<1> QED BY <1>1, <1>4, <1>5, <1>9

(* An empty buffer shows no messages. *)
LEMMA EmptyShows ==
  ASSUME PlatformAssumption, NEW origin
  PROVE  Live!ShowsTimes(<<>>, origin, {}) /\ Live!ShowsFixes(<<>>, {})
<1>1. Len(<<>>) = 0 /\ 1 .. 0 = {} /\ 0 <= MaxLivePoints
  BY PlatformAssumption DEF PlatformAssumption, Live!ViewAssumption
<1>2. PICK f : f = [i \in 1 .. 0 |-> i]
  OBVIOUS
<1>3. f \in [1 .. 0 -> {}]
  BY <1>1, <1>2
<1>4. Live!Newest(f, 0, {})
  BY <1>1 DEF Live!Newest
<1> QED BY <1>1, <1>3, <1>4 DEF Live!ShowsTimes, Live!ShowsFixes

(* A step that appends nothing to the log and leaves the buffers and whose they are. *)
LEMMA TraceStays ==
  ASSUME Live!TraceInv, Live!OwnInv', log' = log,
         view'.channels = view.channels, view'.points = view.points,
         view'.holds = view.holds, view'.startT = view.startT
  PROVE  Live!TraceInv'
<1>1. CASE Live!Untraced /\ view.holds = None
  <2>1. Live!Untraced' /\ view'.holds = None
    BY <1>1 DEF Live!Untraced, Live!IsData
  <2> QED BY <2>1 DEF Live!TraceInv
<1>2. CASE \E o \in DOMAIN log :
             Live!Traced(o) /\ view.holds = log[o].sess /\ view.startT = log[o].t
  <2>1. PICK o \in DOMAIN log :
          Live!Traced(o) /\ view.holds = log[o].sess /\ view.startT = log[o].t
    BY <1>2
  <2>2. Live!Traced(o)'
    <3>1. Live!StartsRun(o)'
      BY <2>1 DEF Live!Traced, Live!StartsRun, Live!OneRun, Live!IsData
    <3>2. Live!Frames(o)' = Live!Frames(o) /\ Live!Fixes(o)' = Live!Fixes(o)
      BY DEF Live!Frames, Live!Fixes
    <3>3. Live!ShowsTimes(view.channels, log[o].t, Live!Frames(o))'
      BY <2>1, <3>2 DEF Live!Traced, Live!ShowsTimes
    <3>4. Live!ShowsFixes(view.points, Live!Fixes(o))'
      BY <2>1, <3>2 DEF Live!Traced, Live!ShowsFixes
    <3> QED BY <3>1, <3>3, <3>4 DEF Live!Traced
  <2> QED BY <2>1, <2>2 DEF Live!TraceInv
<1> QED BY <1>1, <1>2 DEF Live!TraceInv

(* The page is cleared, with the log. *)
LEMMA TraceIsCleared ==
  ASSUME Live!OwnInv', log' = <<>>, view'.channels = <<>>, view'.points = <<>>, view'.holds = None
  PROVE  Live!TraceInv'
<1>1. DOMAIN log' = {}
  OBVIOUS
<1>2. Live!Untraced'
  BY <1>1 DEF Live!Untraced
<1> QED BY <1>2 DEF Live!TraceInv

(* What the buffers show once they are those of the session of a start or a frame: of the run it
   belongs to, all that came before. *)
LEMMA BegunShows ==
  ASSUME PlatformAssumption, Live!TraceInv, NEW m \in Message, log' = Append(log, m),
         m.kind # "stop", NEW n \in Nat, n = Len(log)
  PROVE  LET b == Live!Begun(view, m)
         IN  /\ b.channels \in Seq(Int) /\ b.points \in Seq(Message) /\ b.startT \in Nat
             /\ \E o \in 1 .. n + 1 :
                  /\ Live!StartsRun(o)' /\ b.holds = log'[o].sess /\ b.startT = log'[o].t
                  /\ Live!ShowsTimes(b.channels, b.startT, Live!Frames(o))
                  /\ Live!ShowsFixes(b.points, Live!Fixes(o))
<1>1. /\ Live!TypeOK /\ view \in Live!ViewRecord /\ (view.holds # None => view.startT \in Nat)
      /\ m.t \in Nat /\ m.sess # None
  BY PlatformAssumption DEF PlatformAssumption, Live!ViewAssumption, Live!TraceInv, Live!OwnInv,
                            Live!TypeOK
<1>2. /\ DOMAIN log = 1 .. n /\ \A i \in 1 .. n : log'[i] = log[i]
      /\ log'[n + 1] = m
  BY <1>1, LogGrows
<1>3. CASE m.sess = view.holds
  <2>1. Live!Begun(view, m) = view
    BY <1>3 DEF Live!Begun
  <2>2. PICK o \in 1 .. n : Live!Traced(o) /\ view.holds = log[o].sess /\ view.startT = log[o].t
    BY <1>1, <1>2, <1>3 DEF Live!TraceInv
  <2>3. Live!StartsRun(o)'
    BY <1>1, <1>2, <1>3, <2>2, RunGoesOn DEF Live!Traced
  <2>4. o \in 1 .. n + 1 /\ log'[o] = log[o]
    BY <1>2
  <2>5. /\ Live!ShowsTimes(view.channels, view.startT, Live!Frames(o))
        /\ Live!ShowsFixes(view.points, Live!Fixes(o))
    BY <2>2 DEF Live!Traced
  <2>6. /\ view.channels \in Seq(Int) /\ view.points \in Seq(Message) /\ view.startT \in Nat
    BY <1>1, <1>3 DEF Live!ViewRecord
  <2> QED BY <2>1, <2>2, <2>3, <2>4, <2>5, <2>6
<1>4. CASE m.sess # view.holds
  <2>1. PICK p \in Seq(Message), c \in Seq(Int) : p = <<>> /\ c = <<>>
    BY EmptyIsSeq
  <2>2. PICK b : b = Live!Begun(view, m)
    OBVIOUS
  <2>3. b = [view EXCEPT !.holds = m.sess, !.startT = m.t, !.points = p, !.channels = c]
    BY <1>4, <2>1, <2>2 DEF Live!Begun
  <2>4. b.holds = m.sess /\ b.startT = m.t /\ b.points = p /\ b.channels = c
    BY <1>1, <2>3 DEF Live!ViewRecord
  <2>5. \/ \A i \in DOMAIN log : ~Live!IsData(i)
        \/ \E o \in DOMAIN log : Live!StartsRun(o) /\ log[o].sess # m.sess
    BY <1>4 DEF Live!TraceInv, Live!Untraced, Live!Traced
  <2>6. Live!StartsRun(n + 1)'
    BY <1>1, <2>5, RunStarts
  <2>7. PICK o \in 1 .. n + 1 : o = n + 1
    OBVIOUS
  <2>8. Live!Frames(o) = {} /\ Live!Fixes(o) = {}
    BY <1>1, <2>7, FramesGrow
  <2>9. /\ Live!ShowsTimes(c, m.t, Live!Frames(o))
        /\ Live!ShowsFixes(p, Live!Fixes(o))
    BY <2>1, <2>8, EmptyShows
  <2>10. Live!StartsRun(o)'
    BY <2>6, <2>7
  <2> QED BY <1>1, <1>2, <2>2, <2>4, <2>7, <2>9, <2>10
<1> QED BY <1>3, <1>4

(* The page shows a message of its socket. *)
LEMMA TraceGoesOn ==
  ASSUME PlatformAssumption, Live!TraceInv, Live!OwnInv', NEW m \in Message,
         log' = Append(log, m), view' = Live!Shown(view, m)
  PROVE  Live!TraceInv'
<1>1. /\ Live!TypeOK /\ view \in Live!ViewRecord /\ m.kind \in {"frame", "start", "stop"}
      /\ m.fix \in BOOLEAN
  BY PlatformAssumption DEF PlatformAssumption, Live!ViewAssumption, Live!TraceInv, Live!OwnInv,
                            Live!TypeOK
<1>2. PICK n \in Nat :
        /\ n = Len(log) /\ DOMAIN log = 1 .. n /\ DOMAIN log' = 1 .. n + 1
        /\ \A i \in 1 .. n : log'[i] = log[i]
        /\ log'[n + 1] = m
  BY <1>1, LogGrows
<1>3. CASE m.kind = "stop"
  <2>1. view' = [view EXCEPT !.session = None]
    BY <1>3 DEF Live!Shown, Live!OnStop
  <2>2. /\ view'.channels = view.channels /\ view'.points = view.points
        /\ view'.holds = view.holds /\ view'.startT = view.startT
    BY <1>1, <2>1 DEF Live!ViewRecord
  <2>3. CASE Live!Untraced /\ view.holds = None
    <3>1. \A i \in 1 .. n : log[i].kind = "stop"
      BY <1>2, <2>3 DEF Live!Untraced, Live!IsData
    <3>2. \A i \in 1 .. n + 1 : log'[i].kind = "stop"
      <4>1. \A i \in 1 .. n + 1 : i \in 1 .. n \/ i = n + 1
        OBVIOUS
      <4> QED BY <1>2, <1>3, <3>1, <4>1
    <3>3. Live!Untraced'
      BY <1>2, <2>2, <2>3, <3>2 DEF Live!Untraced, Live!IsData
    <3> QED BY <2>2, <2>3, <3>3 DEF Live!TraceInv
  <2>4. CASE \E o \in DOMAIN log :
               Live!Traced(o) /\ view.holds = log[o].sess /\ view.startT = log[o].t
    <3>1. PICK o \in 1 .. n : Live!Traced(o) /\ view.holds = log[o].sess /\ view.startT = log[o].t
      BY <1>2, <2>4
    <3>2. PICK c, p, t, F, G :
            /\ c = view.channels /\ p = view.points /\ t = log[o].t
            /\ F = Live!Frames(o) /\ G = Live!Fixes(o)
      OBVIOUS
    <3>3. o \in 1 .. n + 1 /\ o \in DOMAIN log /\ log[o] \in Message
      BY <1>1, <1>2, LogGrows
    <3>4. t \in Nat /\ c \in Seq(Int) /\ p \in Seq(Message)
      BY <1>1, <3>2, <3>3, PlatformAssumption
         DEF PlatformAssumption, Live!ViewAssumption, Live!ViewRecord
    <3>5. /\ F \in SUBSET (1 .. n) /\ G \in SUBSET (1 .. n)
          /\ Live!Frames(o)' = F /\ Live!Fixes(o)' = G
      BY <1>1, <1>2, <1>3, <3>2, <3>3, FramesGrow
    <3>6. Live!ShowsTimes(c, t, F) /\ Live!ShowsFixes(p, G)
      BY <3>1, <3>2 DEF Live!Traced
    <3>7. Live!ShowsTimes(c, t, F)'
      BY <1>1, <1>2, <3>4, <3>5, <3>6, TimesGrow
    <3>8. Live!ShowsFixes(p, G)'
      BY <1>1, <1>2, <3>4, <3>5, <3>6, FixesGrow
    <3>9. Live!StartsRun(o)'
      BY <1>1, <1>3, <3>1, <3>3, RunGoesOn DEF Live!Traced
    <3>10. Live!Traced(o)'
      BY <1>2, <2>2, <3>2, <3>5, <3>7, <3>8, <3>9 DEF Live!Traced
    <3> QED BY <1>2, <2>2, <3>1, <3>3, <3>10 DEF Live!TraceInv
  <2> QED BY <2>3, <2>4 DEF Live!TraceInv
<1>4. CASE m.kind # "stop"
  <2>1. PICK b : b = Live!Begun(view, m)
    OBVIOUS
  <2>2. b.channels \in Seq(Int) /\ b.points \in Seq(Message) /\ b.startT \in Nat
    BY <1>2, <1>4, <2>1, BegunShows
  <2>3. PICK o \in 1 .. n + 1 :
          /\ Live!StartsRun(o)' /\ b.holds = log'[o].sess /\ b.startT = log'[o].t
          /\ Live!ShowsTimes(b.channels, b.startT, Live!Frames(o))
          /\ Live!ShowsFixes(b.points, Live!Fixes(o))
    BY <1>2, <1>4, <2>1, BegunShows
  <2>4. PICK F, G : F = Live!Frames(o) /\ G = Live!Fixes(o)
    OBVIOUS
  <2>5. /\ F \in SUBSET (1 .. n) /\ G \in SUBSET (1 .. n)
        /\ Live!Frames(o)' = F \cup (IF m.kind = "frame" THEN {n + 1} ELSE {})
        /\ Live!Fixes(o)' = G \cup (IF m.kind = "frame" /\ m.fix THEN {n + 1} ELSE {})
    BY <1>1, <1>2, <2>4, FramesGrow
  <2>6. /\ Live!ShowsTimes(b.channels, b.startT, F)'
        /\ Live!ShowsTimes(Live!Appended(b.channels, m.t - b.startT), b.startT, F \cup {n + 1})'
    BY <1>1, <1>2, <2>2, <2>3, <2>4, <2>5, TimesGrow
  <2>7. /\ Live!ShowsFixes(b.points, G)'
        /\ Live!ShowsFixes(Live!Appended(b.points, m), G \cup {n + 1})'
    BY <1>1, <1>2, <2>2, <2>3, <2>4, <2>5, FixesGrow
  <2>8. /\ Live!ShowsTimes(view.channels, b.startT, Live!Frames(o))'
        /\ Live!ShowsFixes(view.points, Live!Fixes(o))'
        /\ view'.holds = b.holds /\ view'.startT = b.startT
    <3>1. CASE m.kind = "start"
      <4>1. view' = [b EXCEPT !.session = m.sess]
        BY <2>1, <3>1 DEF Live!Shown, Live!OnStart
      <4>2. /\ view'.channels = b.channels /\ view'.points = b.points
            /\ view'.holds = b.holds /\ view'.startT = b.startT
        BY <1>1, <2>1, <4>1 DEF Live!Begun, Live!ViewRecord
      <4>3. Live!Frames(o)' = F /\ Live!Fixes(o)' = G
        BY <2>5, <3>1
      <4> QED BY <2>6, <2>7, <4>2, <4>3
    <3>2. CASE m.kind = "frame"
      <4>1. view' = [b EXCEPT !.frame = m, !.session = m.sess,
                              !.channels = Live!Appended(@, m.t - b.startT),
                              !.points = IF m.fix THEN Live!Appended(@, m) ELSE @]
        BY <2>1, <3>2 DEF Live!Shown, Live!OnFrame
      <4>2. /\ view'.channels = Live!Appended(b.channels, m.t - b.startT)
            /\ view'.points = (IF m.fix THEN Live!Appended(b.points, m) ELSE b.points)
            /\ view'.holds = b.holds /\ view'.startT = b.startT
        BY <1>1, <2>1, <4>1 DEF Live!Begun, Live!ViewRecord
      <4>3. Live!Frames(o)' = F \cup {n + 1} /\ Live!Fixes(o)' = G \cup (IF m.fix THEN {n + 1} ELSE {})
        BY <2>5, <3>2
      <4>4. Live!ShowsTimes(view.channels, b.startT, Live!Frames(o))'
        BY <2>6, <4>2, <4>3
      <4>5. Live!ShowsFixes(view.points, Live!Fixes(o))'
        BY <2>7, <4>2, <4>3
      <4> QED BY <4>2, <4>4, <4>5
    <3> QED BY <1>1, <1>4, <3>1, <3>2
  <2>9. Live!Traced(o)'
    BY <2>3, <2>8 DEF Live!Traced
  <2> QED BY <1>2, <2>3, <2>8, <2>9 DEF Live!TraceInv
<1> QED BY <1>3, <1>4

(* A step of the page, which keeps OwnInv. *)
LEMMA TraceSteps ==
  ASSUME PlatformAssumption, Live!TraceInv, Live!OwnInv', Live!Next
  PROVE  Live!TraceInv'
<1>1. Live!OwnInv /\ view \in Live!ViewRecord
  BY DEF Live!TraceInv, Live!OwnInv, Live!TypeOK
<1>2. CASE (\E c \in Car : Live!Connect(c)) \/ Live!Leave
  <2>1. /\ log' = <<>>
        /\ view' = Live!Cleared \/ view' = [Live!Cleared EXCEPT !.status = "connecting"]
    BY <1>2 DEF Live!Connect, Live!Leave
  <2>2. view'.channels = <<>> /\ view'.points = <<>> /\ view'.holds = None
    BY <2>1 DEF Live!Cleared
  <2> QED BY <2>1, <2>2, TraceIsCleared
<1>3. ASSUME NEW st, log' = log, view' = [view EXCEPT !.status = st]
      PROVE  Live!TraceInv'
  <2>1. /\ view'.channels = view.channels /\ view'.points = view.points
        /\ view'.holds = view.holds /\ view'.startT = view.startT
    BY <1>1, <1>3 DEF Live!ViewRecord
  <2> QED BY <1>3, <2>1, TraceStays
<1>4. ASSUME NEW k \in DOMAIN sock,
             \/ Live!LinkUp(k) \/ Live!Joined(k) \/ Live!Refused(k)
             \/ Live!LinkDown(k) \/ Live!LinkRefused(k) \/ Live!Expire(k)
      PROVE  Live!TraceInv'
  <2>1. log' = log
    BY <1>4 DEF Live!LinkUp, Live!Joined, Live!Refused, Live!LinkDown, Live!LinkRefused, Live!Expire
  <2>2. \E st : view' = [view EXCEPT !.status = st]
    <3>1. view = [view EXCEPT !.status = view.status]
      BY <1>1 DEF Live!ViewRecord
    <3> QED BY <1>4, <3>1 DEF Live!LinkUp, Live!Joined, Live!Refused, Live!LinkDown,
                              Live!LinkRefused, Live!Expire
  <2> QED BY <1>3, <2>1, <2>2
<1>5. ASSUME NEW m \in Message, Live!Publish(m)
      PROVE  Live!TraceInv'
  <2>1. view' = view /\ log' = log
    BY <1>5 DEF Live!Publish
  <2> QED BY <2>1, TraceStays
<1>6. ASSUME NEW k \in DOMAIN sock, Live!Deliver(k)
      PROVE  Live!TraceInv'
  <2>1. PICK m : m = Head(sock[k].wire)
    OBVIOUS
  <2>2. /\ sock[k].heard <=> Live!Current(k)
        /\ view' = (IF sock[k].heard THEN Live!Shown(view, m) ELSE view)
        /\ log' = (IF Live!Current(k) /\ m.kind # "error" THEN Append(log, m) ELSE log)
    BY <1>1, <1>6, <2>1 DEF Live!Deliver, Live!OwnInv, Live!OnlyCurrentIsHeard
  <2>3. CASE ~sock[k].heard
    BY <2>2, <2>3, TraceStays
  <2>4. CASE sock[k].heard /\ m.kind = "error"
    <3>1. view' = [view EXCEPT !.status = "error"]
      BY <2>2, <2>4 DEF Live!Shown
    <3> QED BY <1>3, <2>2, <2>4, <3>1
  <2>5. CASE sock[k].heard /\ m.kind # "error"
    <3>1. m \in Message
      <4>1. sock[k] \in Live!SocketRecord
        BY <1>1, <1>6, SocketIs
      <4>2. PICK w \in Live!Wire : w = sock[k].wire /\ w # <<>>
        BY <1>6, <4>1 DEF Live!SocketRecord, Live!Deliver
      <4>3. m \in Message \cup {[kind |-> "error"]}
        BY <2>1, <4>2 DEF Live!Wire
      <4>4. m # [kind |-> "error"]
        BY <2>5
      <4> QED BY <4>3, <4>4
    <3> QED BY <2>2, <2>5, <3>1, TraceGoesOn
  <2> QED BY <2>3, <2>4, <2>5
<1> QED BY <1>2, <1>4, <1>5, <1>6 DEF Live!Next

(* TraceInv holds in every reachable state of the page, however starts, stops, stragglers, seeds
   and reconnects follow each other. *)
THEOREM TraceInvariant == Live!Spec => []Live!TraceInv
<1>1. Live!Init /\ Live!OwnInv => Live!TraceInv
  <2>1. ASSUME Live!Init, Live!OwnInv
        PROVE  Live!TraceInv
    <3>1. /\ DOMAIN log = {} /\ view.channels = <<>> /\ view.points = <<>> /\ view.holds = None
      BY <2>1 DEF Live!Init, Live!Cleared
    <3> QED BY <2>1, <3>1 DEF Live!TraceInv, Live!Untraced
  <2> QED BY <2>1
<1>2. ASSUME Live!TraceInv, Live!OwnInv', [Live!Next]_(Live!vars)
      PROVE  Live!TraceInv'
  <2>1. CASE UNCHANGED Live!vars
    BY <1>2, <2>1, TraceStays DEF Live!vars
  <2>2. CASE Live!Next
    BY PlatformAssumption, <1>2, <2>2, TraceSteps
  <2> QED BY <1>2, <2>1, <2>2
<1> QED BY OwnInvariant, <1>1, <1>2, PTL DEF Live!Spec

-----------------------------------------------------------------------------
(* The canvas. A view is a fraction, so that what a zoom leaves in place is an identity between
   integers (ZoomHolds), for every width, content, zoom limit and wheel. PictureStays needs no more
   than that the view there is one (TypeOK): CursorStays holds of any. *)

(* What divides is divided out. *)
LEMMA DivideOut ==
  ASSUME NEW n \in Int, NEW d \in Nat \ {0}, n % d = 0
  PROVE  n \div d \in Int /\ d * (n \div d) = n
<1> DEFINE q == n \div d
<1>1. q \in Int /\ n % d = n - d * q
  OBVIOUS
<1> QED BY <1>1

LEMMA ProductIsInt ==
  ASSUME NEW m \in Int, NEW n \in Int
  PROVE  m * n \in Int
OBVIOUS

LEMMA ProductIsPositive ==
  ASSUME NEW m \in Nat \ {0}, NEW n \in Nat \ {0}
  PROVE  m * n \in Nat \ {0}
<1>1. m * n \in Int /\ m * n > 0
  OBVIOUS
<1> QED BY <1>1

LEMMA TimesBoth ==
  ASSUME NEW k \in Int, NEW m \in Int, NEW n \in Int, NEW d \in Int, NEW e \in Int, m * d = n * e
  PROVE  (k * m) * d = (k * n) * e /\ k * m = m * k /\ k * n = n * k
<1>1. (k * m) * d = k * (m * d) /\ (k * n) * e = k * (n * e)
  OBVIOUS
<1> QED BY <1>1

LEMMA CancelBoth ==
  ASSUME NEW m \in Int, NEW n \in Int, NEW d \in Nat \ {0}, m * d = n * d
  PROVE  m = n
<1>1. (m - n) * d = 0
  OBVIOUS
<1> QED BY <1>1

(* An identity that is linear in a fraction (a, b) / c holds of it in other terms, (m, n) / e. *)
LEMMA SameIdentity ==
  ASSUME NEW a \in Int, NEW b \in Int, NEW c \in Nat \ {0}, NEW m \in Int, NEW n \in Int, NEW e \in Int,
         m * c = a * e, n * c = b * e
  PROVE  \A w, at, k \in Int : w * a = (at * c - b) * k => w * m = (at * e - n) * k
<1> TAKE w, at, k \in Int
<1> HAVE w * a = (at * c - b) * k
<1>1. (w * m) * c = (w * a) * e
  BY TimesBoth
<1>2. (at * e - n) * c = (at * c - b) * e
  OBVIOUS
<1> DEFINE f == at * e - n
           g == at * c - b
<1>3. f \in Int /\ g \in Int /\ f * c = g * e
  BY <1>2
<1>4. w * a = g * k
  OBVIOUS
<1> HIDE DEF f, g
<1>5. (k * f) * c = (k * g) * e /\ k * f = f * k /\ k * g = g * k
  BY <1>3, TimesBoth
<1>6. (w * m) * c = (f * k) * c
  BY <1>1, <1>4, <1>5
<1>7. w * m \in Int /\ f * k \in Int
  BY <1>3
<1>8. w * m = f * k
  BY <1>6, <1>7, CancelBoth
<1> QED BY <1>8 DEF f

(* Writing a view with another denominator gives the same view. *)
LEMMA ReducedIsSame ==
  ASSUME NEW v \in Canvas!View
  PROVE  LET r == Canvas!Reduced(v)
         IN  r \in Canvas!View /\ r.scale * v.den = v.scale * r.den /\ r.x * v.den = v.x * r.den
<1> DEFINE Divides(d) == (v.scale * d) % v.den = 0 /\ (v.x * d) % v.den = 0
           den == CHOOSE d \in 1 .. v.den : Divides(d)
           r == [scale |-> (v.scale * den) \div v.den, x |-> (v.x * den) \div v.den, den |-> den]
<1>1. v.scale \in Nat \ {0} /\ v.x \in Int /\ v.den \in Nat \ {0}
  BY DEF Canvas!View
<1>2. v.den \in 1 .. v.den
  BY <1>1
<1>3. \A n \in Int : (n * v.den) % v.den = 0
  BY <1>1
<1>4. Divides(v.den)
  BY <1>1, <1>3
<1>5. den \in 1 .. v.den /\ Divides(den)
  BY <1>2, <1>4
<1> HIDE DEF den
<1>6. den \in Nat \ {0}
  BY <1>1, <1>5
<1>7. v.scale * den \in Nat \ {0} /\ v.x * den \in Int
  BY <1>1, <1>6, ProductIsPositive, ProductIsInt
<1>8. /\ r.scale \in Int /\ v.den * r.scale = v.scale * den
      /\ r.x \in Int /\ v.den * r.x = v.x * den
  <2>1. \A n \in Int : n % v.den = 0 => n \div v.den \in Int /\ v.den * (n \div v.den) = n
    BY <1>1, DivideOut
  <2> QED BY <1>5, <1>7, <2>1
<1>9. r.scale > 0
  <2>1. v.den * r.scale > 0
    BY <1>7, <1>8
  <2> QED BY <1>1, <1>8, <2>1
<1>10. r \in Canvas!View
  BY <1>6, <1>8, <1>9 DEF Canvas!View
<1>11. r.scale * v.den = v.scale * r.den /\ r.x * v.den = v.x * r.den
  BY <1>1, <1>6, <1>8
<1>12. r = Canvas!Reduced(v)
  BY DEF Canvas!Reduced, den
<1> QED BY <1>10, <1>11, <1>12

Ratio == Int \X (Nat \ {0})   \* a fraction

(* A scale between positive limits is positive. *)
LEMMA ClampedIsPositive ==
  ASSUME NEW q \in Ratio, NEW limits, limits.min \in Ratio, limits.max \in Ratio,
         limits.min[1] > 0, limits.max[1] > 0
  PROVE  LET c == Canvas!Clamped(q, limits)
         IN  c[1] \in Nat \ {0} /\ c[2] \in Nat \ {0}
<1> DEFINE low == Canvas!Greater(limits.min, q)
<1>1. low \in Ratio /\ low[1] > 0
  <2>1. CASE ~Canvas!AtMost(limits.min, q)
    BY <2>1 DEF Canvas!Greater
  <2>2. CASE Canvas!AtMost(limits.min, q)
    <3>1. limits.min[1] * q[2] <= q[1] * limits.min[2]
      BY <2>2 DEF Canvas!AtMost
    <3>2. /\ limits.min[1] \in Nat \ {0} /\ limits.min[2] \in Nat \ {0}
          /\ q[1] \in Int /\ q[2] \in Nat \ {0}
      BY DEF Ratio
    <3>3. q[1] > 0
      <4>1. limits.min[1] * q[2] > 0
        BY <3>2
      <4> QED BY <3>1, <3>2, <4>1
    <3> QED BY <2>2, <3>3 DEF Canvas!Greater
  <2> QED BY <2>1, <2>2
<1>2. Canvas!Clamped(q, limits) \in {low, limits.max}
  BY DEF Canvas!Clamped, Canvas!Lesser
<1> HIDE DEF low
<1> QED BY <1>1, <1>2 DEF Ratio

(* zoomAt: what is under `at` stays there, whatever scale is asked for. *)
LEMMA ZoomHolds ==
  ASSUME NEW t \in Canvas!View, NEW at \in Int, NEW factor \in Ratio, NEW limits,
         limits.min \in Ratio, limits.max \in Ratio, limits.min[1] > 0, limits.max[1] > 0
  PROVE  LET z == Canvas!ZoomAt(t, at, factor, limits)
         IN  /\ z \in Canvas!View
             /\ (at * t.den - t.x) * z.scale = (at * z.den - z.x) * t.scale
<1> DEFINE new == Canvas!Clamped(Canvas!Asked(t, factor), limits)
           s == new[1]
           d == new[2]
           way == at * t.den - t.x
           v == [scale |-> s * t.scale, den |-> d * t.scale,
                 x |-> at * d * t.scale - way * s]
           z == Canvas!Reduced(v)
<1>1. t.scale \in Nat \ {0} /\ t.x \in Int /\ t.den \in Nat \ {0}
  BY DEF Canvas!View
<1>2. factor[1] \in Int /\ factor[2] \in Nat \ {0}
  BY DEF Ratio
<1>3. Canvas!Asked(t, factor) \in Ratio
  BY <1>1, <1>2, ProductIsInt, ProductIsPositive DEF Canvas!Asked, Ratio
<1>4. s \in Nat \ {0} /\ d \in Nat \ {0}
  BY <1>3, ClampedIsPositive
<1> HIDE DEF new, s, d
<1>5. way \in Int
  BY <1>1
<1> HIDE DEF way
<1>6. s * t.scale \in Nat \ {0} /\ d * t.scale \in Nat \ {0} /\ at * d * t.scale - way * s \in Int
  BY <1>1, <1>4, <1>5, ProductIsPositive, ProductIsInt
<1>7. v \in Canvas!View
  BY <1>6 DEF Canvas!View
<1>8. way * v.scale = (at * v.den - v.x) * t.scale
  <2>1. at * v.den - v.x = way * s
    BY <1>1, <1>4, <1>5
  <2> QED BY <1>1, <1>4, <1>5, <2>1
<1>9. z \in Canvas!View /\ z.scale * v.den = v.scale * z.den /\ z.x * v.den = v.x * z.den
  BY <1>7, ReducedIsSame
<1> HIDE DEF z, v
<1>10. way * z.scale = (at * z.den - z.x) * t.scale
  <2>1. /\ v.scale \in Int /\ v.x \in Int /\ v.den \in Nat \ {0}
        /\ z.scale \in Int /\ z.x \in Int /\ z.den \in Int
    BY <1>7, <1>9 DEF Canvas!View
  <2>2. t.scale \in Int
    BY <1>1
  <2> DEFINE a == v.scale
             b == v.x
             c == v.den
             m == z.scale
             n == z.x
             e == z.den
             k == t.scale
  <2>3. /\ a \in Int /\ b \in Int /\ c \in Nat \ {0} /\ m \in Int /\ n \in Int /\ e \in Int
        /\ k \in Int /\ m * c = a * e /\ n * c = b * e /\ way * a = (at * c - b) * k
    BY <1>8, <1>9, <2>1, <2>2
  <2> HIDE DEF a, b, c, m, n, e, k
  <2>4. \A w, y, l \in Int : w * a = (y * c - b) * l => w * m = (y * e - n) * l
    BY <2>3, SameIdentity
  <2>5. way * m = (at * e - n) * k
    BY <1>5, <2>3, <2>4
  <2> QED BY <2>5 DEF m, n, e, k
<1>11. z = Canvas!ZoomAt(t, at, factor, limits)
  BY DEF z, v, new, s, d, way, Canvas!ZoomAt
<1> QED BY <1>9, <1>10, <1>11 DEF way

(* What is framed fits, in the width there is. *)
LEMMA FitIsView ==
  ASSUME Canvas!ViewportAssumption, Canvas!TypeOK
  PROVE  Canvas!Fit \in Canvas!View
<1>1. Canvas!Identity \in Canvas!View
  BY DEF Canvas!Identity, Canvas!View
<1>2. CASE frame # None /\ ~(containerSize <= 0)
  <2> DEFINE content == Canvas!Larger(frame.max - frame.min, frame.minSpan)
             v == [ scale |-> 2 * containerSize, den |-> 4 * content,
                    x |-> containerSize * (2 * content - (frame.min + frame.max)) ]
  <2>1. /\ frame.min \in Int /\ frame.max \in Int /\ frame.minSpan \in Nat \ {0}
        /\ containerSize \in Nat \ {0}
    BY <1>2 DEF Canvas!ViewportAssumption, Canvas!TypeOK
  <2>2. content \in Nat \ {0}
    BY <2>1 DEF Canvas!Larger
  <2> HIDE DEF content
  <2>3. v \in Canvas!View
    BY <2>1, <2>2, ProductIsInt DEF Canvas!View
  <2>4. Canvas!Fit = Canvas!Reduced(v)
    BY <1>2 DEF Canvas!Fit, Canvas!FitTransform, content, v
  <2> QED BY <2>3, <2>4, ReducedIsSame
<1> QED BY <1>1, <1>2 DEF Canvas!Fit, Canvas!FitTransform

(* The view there is can be zoomed about any place, and what is under it stays. *)
LEMMA ViewZooms ==
  ASSUME Canvas!ViewportAssumption, Canvas!TypeOK, NEW at \in Int, NEW factor \in Ratio
  PROVE  LET t == Canvas!Transform
             z == Canvas!ZoomAt(t, at, factor, Canvas!ZoomLimits)
         IN  /\ t \in Canvas!View /\ z \in Canvas!View
             /\ (at * t.den - t.x) * z.scale = (at * z.den - z.x) * t.scale
<1> DEFINE limits == Canvas!ZoomLimits
<1>1. Canvas!Fit \in Canvas!View
  BY FitIsView
<1>2. Canvas!Transform \in Canvas!View
  BY <1>1 DEF Canvas!Transform, Canvas!TypeOK
<1>3. /\ limits.min = <<Canvas!Fit.scale, Canvas!Fit.den>>
      /\ limits.max = <<Canvas!Fit.scale * MaxZoom, Canvas!Fit.den>>
  BY DEF Canvas!ZoomLimits
<1>4. /\ Canvas!Fit.scale \in Nat \ {0} /\ Canvas!Fit.den \in Nat \ {0}
      /\ Canvas!Fit.scale * MaxZoom \in Nat \ {0}
  <2>1. Canvas!Fit.scale \in Nat \ {0} /\ Canvas!Fit.den \in Nat \ {0} /\ MaxZoom \in Nat \ {0}
    BY <1>1 DEF Canvas!View, Canvas!ViewportAssumption
  <2> QED BY <2>1, ProductIsPositive
<1>5. /\ limits.min \in Ratio /\ limits.max \in Ratio
      /\ limits.min[1] > 0 /\ limits.max[1] > 0
  BY <1>3, <1>4 DEF Ratio
<1> HIDE DEF limits
<1>6. LET z == Canvas!ZoomAt(Canvas!Transform, at, factor, limits)
      IN  /\ z \in Canvas!View
          /\ (at * Canvas!Transform.den - Canvas!Transform.x) * z.scale
               = (at * z.den - z.x) * Canvas!Transform.scale
  BY <1>2, <1>5, ZoomHolds
<1> QED BY <1>2, <1>6 DEF limits

LEMMA PanIsView ==
  ASSUME NEW t \in Canvas!View, NEW d \in Int
  PROVE  Canvas!Pan(t, d) \in Canvas!View
<1>1. d * t.den \in Int /\ t.x \in Int
  BY DEF Canvas!View
<1> QED BY <1>1 DEF Canvas!Pan, Canvas!View

Finger == [id : Pointer, at : Place]
Fingers == Seq(Finger)

LEMMA FingerPlaced ==
  ASSUME Canvas!ViewportAssumption, NEW s \in Fingers
  PROVE  /\ Len(s) \in Nat /\ DOMAIN s = 1 .. Len(s)
         /\ \A i \in DOMAIN s : s[i] \in Finger /\ s[i].at \in Int
<1>1. Len(s) \in Nat /\ DOMAIN s = 1 .. Len(s) /\ s \in [1 .. Len(s) -> Finger]
  BY LenProperties DEF Fingers
<1>2. ASSUME NEW i \in DOMAIN s
      PROVE  s[i] \in Finger /\ s[i].at \in Int
  <2>1. s[i] \in Finger
    BY <1>1
  <2> QED BY <2>1 DEF Finger, Canvas!ViewportAssumption
<1> QED BY <1>1, <1>2

LEMMA PinchTyped ==
  ASSUME Canvas!ViewportAssumption, NEW s \in Fingers, Len(s) >= 2
  PROVE  LET p == Canvas!PinchState(s) IN p.distance \in Nat /\ p.mid \in Int
<1>1. s[1].at \in Int /\ s[2].at \in Int
  <2>1. 1 \in DOMAIN s /\ 2 \in DOMAIN s
    BY FingerPlaced
  <2> QED BY <2>1, FingerPlaced
<1>2. Canvas!Abs(s[2].at - s[1].at) \in Nat /\ (s[1].at + s[2].at) \div 2 \in Int
  BY <1>1 DEF Canvas!Abs
<1> QED BY <1>2 DEF Canvas!PinchState

(* A wheel leaves a view. *)
LEMMA WheelKeepsView ==
  ASSUME Canvas!ViewportAssumption, Canvas!ViewportInv,
         NEW at \in Place, NEW delta \in {-1, 0, 1}, Canvas!OnWheel(at, delta)
  PROVE  Canvas!ViewportInv'
<1>1. Canvas!WheelZoomFactor(delta) \in Ratio
  BY DEF Canvas!WheelZoomFactor, Ratio
<1>2. at \in Int
  BY DEF Canvas!ViewportAssumption
<1>3. Canvas!ZoomAt(Canvas!Transform, at, Canvas!WheelZoomFactor(delta), Canvas!ZoomLimits)
        \in Canvas!View
  BY <1>1, <1>2, ViewZooms DEF Canvas!ViewportInv
<1>4. /\ userTransform' \in Canvas!View \cup {None}
      /\ UNCHANGED <<frame, containerSize, activePointers, previousPinch>>
  BY <1>3 DEF Canvas!OnWheel, Canvas!ViewportInv, Canvas!TypeOK, Canvas!pointing
<1> QED BY <1>4 DEF Canvas!ViewportInv, Canvas!TypeOK,
              Canvas!PinchIsCurrent, Canvas!PinchState

(* The finger that is down is at its place among those that are. *)
LEMMA PlaceOfDown ==
  ASSUME NEW p \in Canvas!Down
  PROVE  Canvas!PlaceOf(p) \in DOMAIN activePointers /\ activePointers[Canvas!PlaceOf(p)].id = p
BY DEF Canvas!Down, Canvas!PlaceOf

(* A move of one finger pans, one of two pinches: the view remains one, and so does the pinch. *)
LEMMA MoveKeepsView ==
  ASSUME Canvas!ViewportAssumption, Canvas!ViewportInv,
         NEW p \in Pointer, NEW at \in Place, Canvas!OnPointerMove(p, at)
  PROVE  Canvas!ViewportInv'
<1> DEFINE n == Len(activePointers)
<1>1. activePointers \in Fingers /\ n \in Nat /\ DOMAIN activePointers = 1 .. n
  BY FingerPlaced DEF Canvas!ViewportInv, Canvas!TypeOK, Fingers, Finger
<1>2. activePointers' = Canvas!MovedTo(p, at) /\ p \in Canvas!Down
  BY DEF Canvas!OnPointerMove
<1>3. [id |-> p, at |-> at] \in Finger /\ \A i \in 1 .. n : activePointers[i] \in Finger
  BY <1>1, FingerPlaced DEF Finger
<1> HIDE DEF n
<1>4. activePointers' \in Fingers /\ Len(activePointers') = n
  <2>1. activePointers' = [i \in 1 .. n |-> IF activePointers[i].id = p THEN [id |-> p, at |-> at]
                                           ELSE activePointers[i]]
    BY <1>1, <1>2 DEF Canvas!MovedTo
  <2>2. activePointers' \in [1 .. n -> Finger]
    BY <1>3, <2>1
  <2>3. activePointers' \in Fingers
    BY <1>1, <2>2, SeqDef DEF Fingers
  <2> QED BY <1>1, <2>2, <2>3, LenProperties DEF Fingers
<1>5. UNCHANGED <<frame, containerSize>>
  BY DEF Canvas!OnPointerMove
<1>6. userTransform \in Canvas!View \cup {None} /\ Canvas!Transform \in Canvas!View
  BY FitIsView DEF Canvas!ViewportInv, Canvas!TypeOK, Canvas!Transform
<1>7. userTransform' \in Canvas!View \cup {None}
  <2>1. CASE n = 1
    <3>1. at - activePointers[Canvas!PlaceOf(p)].at \in Int
      <4>1. activePointers[Canvas!PlaceOf(p)].at \in Int /\ at \in Int
        BY <1>1, <1>2, PlaceOfDown, FingerPlaced DEF Canvas!ViewportAssumption
      <4> QED BY <4>1
    <3>2. userTransform' = Canvas!Pan(Canvas!Transform, at - activePointers[Canvas!PlaceOf(p)].at)
      BY <2>1 DEF Canvas!OnPointerMove, n
    <3> QED BY <1>6, <3>1, <3>2, PanIsView
  <2>2. CASE n = 2
    <3> DEFINE before == Canvas!PinchState(activePointers)
               after == Canvas!PinchState(activePointers')
               factor == IF before.distance > 0 THEN <<after.distance, before.distance>> ELSE <<1, 1>>
               zoomed == Canvas!ZoomAt(Canvas!Transform, after.mid, factor, Canvas!ZoomLimits)
    <3> HIDE DEF factor, zoomed
    <3>0. \A s \in Fingers : Len(s) >= 2 => LET q == Canvas!PinchState(s)
                                            IN  q.distance \in Nat /\ q.mid \in Int
      BY PinchTyped
    <3>1. before.distance \in Nat /\ before.mid \in Int
      <4>1. activePointers \in Fingers /\ Len(activePointers) >= 2
        BY <1>1, <2>2 DEF n
      <4> QED BY <3>0, <4>1
    <3>2. after.distance \in Nat /\ after.mid \in Int
      <4>1. activePointers' \in Fingers /\ Len(activePointers') >= 2
        BY <1>4, <2>2
      <4> QED BY <3>0, <4>1
    <3>3. previousPinch = before
      BY <2>2 DEF Canvas!ViewportInv, Canvas!PinchIsCurrent, n
    <3>4. \/ userTransform' = userTransform
          \/ userTransform' = Canvas!Pinched(before, after)
      BY <2>2, <3>3 DEF Canvas!OnPointerMove, n
    <3>5. Canvas!Pinched(before, after) = Canvas!Pan(zoomed, after.mid - before.mid)
      BY DEF Canvas!Pinched, zoomed, factor
    <3> HIDE DEF before, after
    <3>6. factor \in Ratio
      BY <3>1, <3>2 DEF Ratio, factor
    <3>7. zoomed \in Canvas!View
      BY <3>2, <3>6, ViewZooms DEF Canvas!ViewportInv, zoomed
    <3>8. after.mid - before.mid \in Int
      BY <3>1, <3>2
    <3> QED BY <1>6, <3>4, <3>5, <3>7, <3>8, PanIsView
  <2>3. CASE n \notin {1, 2}
    BY <1>6, <2>3 DEF Canvas!OnPointerMove, n
  <2> QED BY <2>1, <2>2, <2>3
<1>8. Canvas!PinchIsCurrent'
  BY <1>1, <1>4 DEF Canvas!OnPointerMove, Canvas!PinchIsCurrent, n
<1> QED BY <1>4, <1>5, <1>7, <1>8 DEF Canvas!ViewportInv, Canvas!TypeOK, Fingers, Finger

(* Every gesture keeps the view a view, and the pinch that of the fingers down. *)
LEMMA ViewportSteps ==
  ASSUME Canvas!ViewportAssumption, Canvas!ViewportInv, Canvas!Next
  PROVE  Canvas!ViewportInv'
<1>1. activePointers \in Fingers
  BY DEF Canvas!ViewportInv, Canvas!TypeOK, Fingers, Finger
<1>2. ASSUME NEW f \in Frame, NEW w \in Width, Canvas!Refit(f, w)
      PROVE  Canvas!ViewportInv'
  BY <1>2 DEF Canvas!Refit, Canvas!pointing, Canvas!ViewportInv, Canvas!TypeOK,
              Canvas!PinchIsCurrent, Canvas!PinchState
<1>3. ASSUME Canvas!ResetView
      PROVE  Canvas!ViewportInv'
  BY <1>3 DEF Canvas!ResetView, Canvas!pointing, Canvas!ViewportInv, Canvas!TypeOK,
              Canvas!PinchIsCurrent, Canvas!PinchState
<1>4. ASSUME NEW p \in Pointer, NEW at \in Place, Canvas!OnPointerDown(p, at)
      PROVE  Canvas!ViewportInv'
  <2>1. activePointers' \in Fingers
    BY <1>1, <1>4 DEF Canvas!OnPointerDown, Fingers, Finger
  <2> QED BY <1>4, <2>1 DEF Canvas!OnPointerDown, Canvas!ViewportInv, Canvas!TypeOK,
                      Canvas!PinchIsCurrent, Fingers, Finger
<1>5. ASSUME NEW p \in Pointer, Canvas!OnPointerUp(p)
      PROVE  Canvas!ViewportInv'
  <2> DEFINE i == Canvas!PlaceOf(p)
  <2>1. i \in 1 .. Len(activePointers)
    BY <1>1, <1>5, PlaceOfDown, FingerPlaced DEF Canvas!OnPointerUp
  <2> HIDE DEF i
  <2>2. SubSeq(activePointers, 1, i - 1) \o SubSeq(activePointers, i + 1, Len(activePointers))
          \in Fingers
    <3>1. Len(activePointers) \in Nat /\ \A k \in 1 .. Len(activePointers) : activePointers[k] \in Finger
      BY <1>1, FingerPlaced
    <3>2. SubSeq(activePointers, 1, i - 1) \in Seq(Finger)
      BY <2>1, <3>1, SubSeqProperties
    <3>3. SubSeq(activePointers, i + 1, Len(activePointers)) \in Seq(Finger)
      BY <2>1, <3>1, SubSeqProperties
    <3> QED BY <3>2, <3>3, ConcatProperties DEF Fingers
  <2>3. activePointers' \in Fingers
    BY <1>5, <2>2 DEF Canvas!OnPointerUp, i, RemoveAt, Canvas!RemoveAt
  <2> QED BY <1>5, <2>3 DEF Canvas!OnPointerUp, Canvas!ViewportInv, Canvas!TypeOK,
                      Canvas!PinchIsCurrent, Fingers, Finger
<1> QED BY <1>2, <1>3, <1>4, <1>5, WheelKeepsView, MoveKeepsView
        DEF Canvas!Next, Canvas!Refits, Canvas!Wheels

(* ViewportInv holds whatever fingers come, move and go, and whatever is measured meanwhile. *)
THEOREM CanvasInvariant == Canvas!Spec => []Canvas!ViewportInv
<1>1. Canvas!Init => Canvas!ViewportInv
  BY DEF Canvas!Init, Canvas!ViewportInv, Canvas!TypeOK, Canvas!PinchIsCurrent
<1>2. ASSUME Canvas!ViewportInv, UNCHANGED Canvas!vars
      PROVE  Canvas!ViewportInv'
  BY <1>2 DEF Canvas!vars, Canvas!pointing, Canvas!ViewportInv, Canvas!TypeOK,
              Canvas!PinchIsCurrent, Canvas!PinchState
<1>3. Canvas!ViewportInv /\ [Canvas!Next]_(Canvas!vars) => Canvas!ViewportInv'
  BY <1>2, PlatformAssumption, ViewportSteps
<1> QED BY <1>1, <1>3, PTL DEF Canvas!Spec

-----------------------------------------------------------------------------
(* The platform implements each of its parts. *)

LEMMA DerivationGoesOn == PlatformSpec => Derivation!Spec
<1>1. PlatformInit => Derivation!Init
  BY DEF PlatformInit
<1>2. UNCHANGED deriveVars => UNCHANGED Derivation!vars
  BY DEF deriveVars, Derivation!vars, Derivation!inputs, Derivation!history
<1>3. [PlatformNext]_platformVars => [Derivation!Next]_(Derivation!vars)
  BY <1>2 DEF PlatformNext, platformVars, SegmenterStep, DerivationStep, MapsStep, TokensStep,
              LiveStep, PagesStep, CanvasStep
<1> QED BY <1>1, <1>3, PTL DEF PlatformSpec, Derivation!Spec

LEMMA MapsGoOn == PlatformSpec => Maps!Spec
<1>1. PlatformInit => Maps!Init
  BY DEF PlatformInit
<1>2. UNCHANGED mapVars => UNCHANGED Maps!vars
  BY DEF mapVars, Maps!vars, Maps!server
<1>3. [PlatformNext]_platformVars => [Maps!Next]_(Maps!vars)
  BY <1>2 DEF PlatformNext, platformVars, SegmenterStep, DerivationStep, MapsStep, TokensStep,
              LiveStep, PagesStep, CanvasStep
<1> QED BY <1>1, <1>3, PTL DEF PlatformSpec, Maps!Spec

LEMMA TokensGoOn == PlatformSpec => Tokens!Spec
<1>1. PlatformInit => Tokens!Init
  BY DEF PlatformInit
<1>2. UNCHANGED tokenVars => UNCHANGED Tokens!vars
  BY DEF tokenVars, Tokens!vars, Tokens!histories
<1>3. [PlatformNext]_platformVars => [Tokens!Next]_(Tokens!vars)
  BY <1>2 DEF PlatformNext, platformVars, SegmenterStep, DerivationStep, MapsStep, TokensStep,
              LiveStep, PagesStep, CanvasStep
<1> QED BY <1>1, <1>3, PTL DEF PlatformSpec, Tokens!Spec

LEMMA LiveGoesOn == PlatformSpec => Live!Spec
<1>1. PlatformInit => Live!Init
  BY DEF PlatformInit
<1>2. UNCHANGED liveVars => UNCHANGED Live!vars
  BY DEF liveVars, Live!vars
<1>3. [PlatformNext]_platformVars => [Live!Next]_(Live!vars)
  BY <1>2 DEF PlatformNext, platformVars, SegmenterStep, DerivationStep, MapsStep, TokensStep,
              LiveStep, PagesStep, CanvasStep
<1> QED BY <1>1, <1>3, PTL DEF PlatformSpec, Live!Spec

LEMMA PagesGoOn == PlatformSpec => Pages!Spec
<1>1. PlatformInit => Pages!Init
  BY DEF PlatformInit
<1>2. UNCHANGED lapVars => UNCHANGED Pages!vars
  BY DEF lapVars, Pages!vars, Pages!choice
<1>3. [PlatformNext]_platformVars => [Pages!Next]_(Pages!vars)
  BY <1>2 DEF PlatformNext, platformVars, SegmenterStep, DerivationStep, MapsStep, TokensStep,
              LiveStep, PagesStep, CanvasStep
<1> QED BY <1>1, <1>3, PTL DEF PlatformSpec, Pages!Spec

LEMMA CanvasGoesOn == PlatformSpec => Canvas!Spec
<1>1. PlatformInit => Canvas!Init
  BY DEF PlatformInit
<1>2. UNCHANGED canvasVars => UNCHANGED Canvas!vars
  BY DEF canvasVars, Canvas!vars, Canvas!pointing
<1>3. [PlatformNext]_platformVars => [Canvas!Next]_(Canvas!vars)
  BY <1>2 DEF PlatformNext, platformVars, SegmenterStep, DerivationStep, MapsStep, TokensStep,
              LiveStep, PagesStep, CanvasStep
<1> QED BY <1>1, <1>3, PTL DEF PlatformSpec, Canvas!Spec

-----------------------------------------------------------------------------
(* What is proved of a part, of the platform. *)

(* An answer that gives no reason has laps in it, whatever crashes or is recomputed. *)
THEOREM AnswersHaveLapsAlways == PlatformSpec => AnswersHaveLaps
<1>1. Derivation!Spec => Derivation!AnswersHaveLaps
  BY PlatformAssumption, Derivation!AnswersHaveLapsAlways
<1> QED BY <1>1, DerivationGoesOn DEF AnswersHaveLaps

(* Racing first reads and recomputes leave the laps and the scheme that one of them would have
   left alone, unless what they derive from changed. *)
THEOREM DerivedOnceAlways == PlatformSpec => []DerivedOnce
<1>1. Derivation!Spec => []Derivation!DerivedOnce
  BY PlatformAssumption, Derivation!DerivedOnceAlways
<1> QED BY <1>1, DerivationGoesOn DEF DerivedOnce

(* Where a node's memo answers for the session, segmenting it would find no lap. *)
THEOREM MemoHonestAlways == PlatformSpec => []MemoHonest
<1>1. Derivation!Spec => []Derivation!MemoHonest
  BY PlatformAssumption, Derivation!MemoHonestAlways
<1> QED BY <1>1, DerivationGoesOn DEF MemoHonest

(* A page has one poll under way at most, and asks no more often than its budget allows. *)
THEOREM PollsEndAlways == PlatformSpec => []PollsEnd
<1>1. Maps!Spec => []Maps!PollsEnd
  BY PlatformAssumption, Maps!PollsEndAlways
<1> QED BY <1>1, MapsGoOn DEF PollsEnd

(* No fetch replaces a READY map unless it overlapped another fetch. *)
THEOREM ReadyStaysAlways == PlatformSpec => ReadyStays
<1>1. Maps!Spec => Maps!ReadyStays
  BY PlatformAssumption, Maps!ReadyStaysAlways
<1> QED BY <1>1, MapsGoOn DEF ReadyStays

(* A token that was signed out is refused for as long as it could be used, and no other is. *)
THEOREM DenylistIsExactAlways == PlatformSpec => []DenylistIsExact
<1>1. Tokens!Spec => []Tokens!DenylistIsExact
  BY PlatformAssumption, DenylistIsExactAlone
<1> QED BY <1>1, TokensGoOn DEF DenylistIsExact

(* The buffers of the live page hold exactly the newest samples of the run whose data came last,
   from one origin, and what is shown is of the car in the address: whatever is sent again, comes
   late or was queued on the socket of another car. *)
THEOREM TraceIsOwnNewestAlways == PlatformSpec => []TraceIsOwnNewest
<1>1. Live!TraceInv => TraceIsOwnNewest
  BY DEF Live!TraceInv, Live!OwnInv, TraceIsOwnNewest, Live!TraceIsNewest
<1> QED BY TraceInvariant, LiveGoesOn, <1>1, PTL

(* Whatever is chosen, opened or recomputed while reads are under way, once they are in, laps,
   traces and delta are of what the page shows and of the latest derivation. *)
THEOREM PageIsOfOneDerivationAlways == PlatformSpec => []PageIsOfOneDerivation
<1>1. ASSUME Pages!PageInv
      PROVE  PageIsOfOneDerivation
  <2>1. SUFFICES ASSUME post = None, ~missed, NEW k \in Pages!Read, res[k].status = "resolved"
                 PROVE  res[k].value = server[session]
    BY <1>1 DEF PageIsOfOneDerivation, Pages!PageIsOfOneDerivation, Pages!PageInv, Pages!ReadsFollow
  <2>2. res[k].value = server[res[k].key.of]
    BY <1>1, <2>1 DEF Pages!PageInv, Pages!ReadsAreLatest, Pages!Behind, Pages!Latest
  <2>3. /\ res[k].key # None
        /\ res[k].key = Pages!Wanted(k, session, selected, compareWith, Pages!Response)
    BY <1>1, <2>1 DEF Pages!PageInv, Pages!ReadsFollow, Pages!Coherent
  <2>4. /\ session \in Session \cup {None} /\ selected \in Pages!Ref \cup {None}
        /\ compareWith \in Pages!Ref \cup {"none", None}
        /\ Pages!Response \in Pages!Derived \cup {None}
    BY <1>1 DEF Pages!PageInv, Pages!TypeOK, Pages!Resource, Pages!Response, Pages!Read
  <2>5. res[k].key.of = session
    BY <2>3, <2>4, PlatformAssumption, WantedTyped
  <2> QED BY <2>2, <2>5
<1> QED BY PageInvariant, PagesGoOn, <1>1, PTL

(* While two fingers are down the next pinch is measured from where they are, and a wheel never
   moves what is under the cursor, at the zoom limits too: for every content, width and limit. *)
THEOREM PictureStaysAlways == PlatformSpec => []PictureStays
<1>1. ASSUME Canvas!ViewportInv
      PROVE  PictureStays
  <2>1. ASSUME NEW at \in Place, NEW delta \in {-1, 0, 1}
        PROVE  LET t == Canvas!Transform
                   z == Canvas!ZoomAt(t, at, Canvas!WheelZoomFactor(delta), Canvas!ZoomLimits)
               IN  (at * t.den - t.x) * z.scale = (at * z.den - z.x) * t.scale
    <3>1. Canvas!WheelZoomFactor(delta) \in Ratio
      BY DEF Canvas!WheelZoomFactor, Ratio
    <3>2. at \in Int
      BY PlatformAssumption DEF Canvas!ViewportAssumption
    <3> QED BY <1>1, <3>1, <3>2, PlatformAssumption, ViewZooms DEF Canvas!ViewportInv
  <2>2. Canvas!CursorStays
    BY <2>1 DEF Canvas!CursorStays
  <2> QED BY <1>1, <2>2 DEF Canvas!ViewportInv, PictureStays, Canvas!PictureStays
<1> QED BY CanvasInvariant, CanvasGoesOn, <1>1, PTL

=============================================================================
