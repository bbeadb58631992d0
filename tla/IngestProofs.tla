---------------------------- MODULE IngestProofs ----------------------------
(* Proofs about the ingest process: IngestInv is inductive; what follows from it, which are
   the properties that the runs check; and that the process implements RunStore. *)
EXTENDS Ingest, FiniteSetTheorems, SequenceTheorems, TLAPS

-----------------------------------------------------------------------------
(* Steps never change what a session was opened with. *)
SessKept ==
  \A x \in SessionId : sess[x] # None =>
    /\ sess'[x] # None
    /\ sess'[x].car = sess[x].car /\ sess'[x].sid = sess[x].sid
    /\ sess'[x].anchor = sess[x].anchor /\ sess'[x].mono0 = sess[x].mono0

(* The parts of the invariant about the registry. *)
RegInv == ReadyOK /\ PendingOK /\ LoadOK /\ TurnOK

(* Slot k is as it was, or forgotten. *)
SlotKept(k) ==
  /\ pending'[k] = pending[k] \/ pending'[k] = None
  /\ ready'[k] = ready[k] \/ ready'[k] = None

(* A step that keeps the sessions and only forgets slots preserves them. *)
LEMMA RegFrame ==
  ASSUME TypeOK, RegInv, SessKept, UNCHANGED <<load, turn>>, \A k \in Key : SlotKept(k)
  PROVE  RegInv'
<1> USE NoneAssumption DEF TypeOK, SlotKept, SessKept, ContextOK, Context
<1>1. ReadyOK'
  <2> SUFFICES ASSUME NEW k \in Key, ready'[k] # None
               PROVE  ContextOK(ready[k], k[1], k[2])'
    BY DEF ReadyOK
  <2>1. ready'[k] = ready[k] /\ ready[k] \in Context /\ ContextOK(ready[k], k[1], k[2])
    BY DEF RegInv, ReadyOK
  <2> QED BY <2>1
<1>2. PendingOK'
  BY DEF RegInv, PendingOK
<1>3. LoadOK'
  <2> SUFFICES ASSUME NEW l \in LoadId, load[l] # None
               PROVE  LookupOK(load[l])'
    BY DEF LoadOK
  <2>1. load[l] \in Load
    OBVIOUS
  <2>2. load[l].ctx # None => load[l].ctx \in Context
    BY <2>1 DEF Load
  <2>3. LookupOK(load[l]) /\ load'[l] = load[l]
    BY DEF RegInv, LoadOK
  <2> QED BY <2>1, <2>2, <2>3 DEF LookupOK, WaiterOK
<1>4. TurnOK'
  BY ZenonT(120) DEF RegInv, TurnOK, WaiterOK
<1> QED BY <1>1, <1>2, <1>3, <1>4 DEF RegInv

(* A sample of a session stays one. *)
LEMMA SampleKept ==
  ASSUME TypeOK, SessKept
  PROVE  \A r \in Sample : SampleOK(r) => SampleOK(r)'
BY DEF TypeOK, SessKept, Sample, SampleOK

(* A step preserves SamplesOK if all the samples it adds anywhere are the rows that
   their frames are. *)
LEMMA SamplesFrame ==
  ASSUME TypeOK, SamplesOK, SessKept,
         NEW S \in SUBSET Sample, \A r \in S : SampleOK(r),
         (rows \cup lost \cup Unwritten)' \subseteq rows \cup lost \cup Unwritten \cup S,
         \A c \in CarId : lkv'[c] = lkv[c] \/ lkv'[c] = None \/ (lkv'[c] \in S /\ lkv'[c].car = c)
  PROVE  SamplesOK'
<1>1. \A r \in Sample : SampleOK(r) => SampleOK(r)'
  BY SampleKept
<1>2. Unwritten \subseteq Sample
  BY DEF TypeOK, Unwritten
<1>3. \A r \in rows \cup lost \cup Unwritten \cup S : r \in Sample /\ SampleOK(r)'
  BY <1>1, <1>2 DEF TypeOK, SamplesOK
<1>4. \A c \in CarId, r \in Sample : lkv'[c] = r => r.car = c /\ SampleOK(r)'
  <2> TAKE c \in CarId, r \in Sample
  <2> HAVE lkv'[c] = r
  <2>1. CASE lkv'[c] = lkv[c]
    <3>1. lkv[c] = r /\ r # None
      BY <2>1, NoneAssumption
    <3>2. r.car = c /\ SampleOK(r)
      BY <3>1 DEF SamplesOK
    <3> QED BY <1>1, <3>2
  <2>2. CASE lkv'[c] \in S /\ lkv'[c].car = c
    BY <1>3, <2>2
  <2> QED BY <2>1, <2>2, NoneAssumption
<1>5. \A c \in CarId : lkv'[c] # None => lkv'[c] \in Sample
  BY DEF TypeOK, SamplesOK
<1>6. (\A r \in rows \cup lost \cup Unwritten : SampleOK(r))'
  BY <1>3
<1>7. (\A c \in CarId : lkv[c] # None => lkv[c].car = c /\ SampleOK(lkv[c]))'
  BY <1>4, <1>5
<1> QED BY <1>6, <1>7 DEF SamplesOK

(* A promise of flush() survives a step that only adds batches, rows and losses. *)
LEMMA AwaitsKept ==
  ASSUME wq \in Seq(SUBSET Sample), rows \subseteq rows', lost \subseteq lost',
         Len(wq) <= Len(wq'), \A i \in 1..Len(wq) : wq'[i] = wq[i], wq' \in Seq(SUBSET Sample),
         NEW cut \in SUBSET Sample, NEW ahead \in Nat, Awaits(cut, ahead)
  PROVE  /\ ahead <= Len(wq')
         /\ \A r \in cut : r \in rows' \/ r \in lost' \/ \E i \in 1..ahead : r \in wq'[i]
BY DEF Awaits

(* Promises of flush() survive a step that neither resolves nor adds one. *)
LEMMA PromisesFrame ==
  ASSUME TypeOK, PromisesOK, rows \subseteq rows', lost \subseteq lost',
         Len(wq) <= Len(wq'), \A i \in 1..Len(wq) : wq'[i] = wq[i],
         drain' = drain,
         \A p \in StopId : At(p, "await")' =>
           At(p, "await") /\ stop'[p].cut = stop[p].cut /\ stop'[p].ahead = stop[p].ahead
  PROVE  PromisesOK'
<1> USE DEF TypeOK, Awaits
<1>1. \A cut \in SUBSET Sample, ahead \in Nat : Awaits(cut, ahead) => Awaits(cut, ahead)'
  OBVIOUS
<1>2. (\A p \in StopId : At(p, "await") => Awaits(stop[p].cut, stop[p].ahead))'
  <2> SUFFICES ASSUME NEW p \in StopId, At(p, "await")'
               PROVE  Awaits(stop[p].cut, stop[p].ahead)'
    OBVIOUS
  <2>1. At(p, "await") /\ stop'[p].cut = stop[p].cut /\ stop'[p].ahead = stop[p].ahead
    OBVIOUS
  <2>2. stop[p].cut \in SUBSET Sample /\ stop[p].ahead \in Nat
    BY <2>1, NoneAssumption DEF At, Stop
  <2>3. Awaits(stop[p].cut, stop[p].ahead)
    BY <2>1 DEF PromisesOK
  <2> QED BY <2>1, <2>2, <2>3
<1>3. (drain # None => Awaits(drain.cut, drain.ahead))'
  <2> SUFFICES ASSUME drain # None
               PROVE  Awaits(drain.cut, drain.ahead)'
    OBVIOUS
  <2>1. drain.cut \in SUBSET Sample /\ drain.ahead \in Nat
    OBVIOUS
  <2>2. Awaits(drain.cut, drain.ahead)
    BY DEF PromisesOK
  <2> QED BY <1>1, <2>1, <2>2
<1> QED BY <1>2, <1>3 DEF PromisesOK

(* A step that leaves the writer alone, and adds no promise. *)
LEMMA WriterFrame ==
  ASSUME IngestInv, SessKept, UNCHANGED <<wrVars, rows, drain>>,
         \A c \in CarId : lkv'[c] = lkv[c] \/ lkv'[c] = None,
         \A p \in StopId : At(p, "await")' =>
           At(p, "await") /\ stop'[p].cut = stop[p].cut /\ stop'[p].ahead = stop[p].ahead
  PROVE  SamplesOK' /\ CountOK' /\ PromisesOK' /\ TimerArmed'
<1>1. SamplesOK'
  <2>1. (rows \cup lost \cup Unwritten)' \subseteq rows \cup lost \cup Unwritten \cup {}
    BY DEF wrVars, Unwritten
  <2>2. {} \in SUBSET Sample /\ \A r \in {} : SampleOK(r)
    OBVIOUS
  <2> QED BY <2>1, <2>2, SamplesFrame DEF IngestInv
<1>2. PromisesOK'
  <2>1. Len(wq) \in Nat
    BY DEF IngestInv, TypeOK
  <2> QED BY <2>1, PromisesFrame DEF IngestInv, wrVars
<1> QED BY <1>1, <1>2 DEF IngestInv, CountOK, TimerArmed, wrVars

(* Deleting or closing a session leaves the rest of its row as it was. *)
LEMMA SessionsEdited ==
  ASSUME sess \in [SessionId -> Session \cup {None}], now \in Int,
         sess' = [x \in SessionId |-> sess'[x]],
         \A x \in SessionId :
           \/ sess'[x] = sess[x]
           \/ sess[x] # None /\ sess'[x] = [sess[x] EXCEPT !.status = "deleted"]
           \/ sess[x] # None /\ sess'[x] = [sess[x] EXCEPT !.status = "COMPLETED", !.ended = now]
  PROVE  SessKept /\ sess' \in [SessionId -> Session \cup {None}]
<1>1. ASSUME NEW x \in SessionId, sess[x] # None
      PROVE  /\ sess'[x] \in Session
             /\ sess'[x].car = sess[x].car /\ sess'[x].sid = sess[x].sid
             /\ sess'[x].anchor = sess[x].anchor /\ sess'[x].mono0 = sess[x].mono0
  <2>1. sess[x] \in Session
    BY <1>1
  <2>2. CASE sess'[x] = sess[x]
    BY <2>1, <2>2
  <2>3. CASE sess'[x] = [sess[x] EXCEPT !.status = "deleted"]
    BY <2>1, <2>3 DEF Session
  <2>4. CASE sess'[x] = [sess[x] EXCEPT !.status = "COMPLETED", !.ended = now]
    BY <2>1, <2>4 DEF Session
  <2> QED BY <1>1, <2>2, <2>3, <2>4
<1> QED BY <1>1, NoneAssumption DEF SessKept

LEMMA EnvironmentStep ==
  ASSUME IngestInv, Environment
  PROVE  IngestInv'
<1> USE NoneAssumption DEF IngestInv, TypeOK, ApiUnchanged, Admin, Fault, dbVars, liveVars,
        regVars, wrVars, budgets, Present
<1>1. /\ UNCHANGED <<regVars, wrVars, rows, stop, drain>>
      /\ \A c \in CarId : lkv'[c] = lkv[c] \/ lkv'[c] = None
  BY DEF Environment, RegisterCar, DeleteCar, LkvExpires, DeleteSession, CloseUpdate, CloseCheck, Tick
<1>2. SessKept /\ sess' \in [SessionId -> Session \cup {None}]
  <2> USE DEF SessKept
  <2>1. ASSUME NEW c \in CarId, RegisterCar(c) \/ LkvExpires(c)
        PROVE  SessKept /\ sess' \in [SessionId -> Session \cup {None}]
    BY <2>1 DEF RegisterCar, LkvExpires
  <2>2. ASSUME NEW c \in CarId, DeleteCar(c)
        PROVE  SessKept /\ sess' \in [SessionId -> Session \cup {None}]
    BY <2>2, SessionsEdited DEF DeleteCar
  <2>3. ASSUME NEW x \in SessionId, DeleteSession(x)
        PROVE  SessKept /\ sess' \in [SessionId -> Session \cup {None}]
    BY <2>3, SessionsEdited DEF DeleteSession
  <2>4. ASSUME NEW q \in CloseId, CloseUpdate(q)
        PROVE  SessKept /\ sess' \in [SessionId -> Session \cup {None}]
    BY <2>4, SessionsEdited DEF CloseUpdate, Closed
  <2>5. ASSUME NEW q \in CloseId, NEW x \in SessionId, CloseCheck(q, x)
        PROVE  SessKept /\ sess' \in [SessionId -> Session \cup {None}]
    BY <2>5 DEF CloseCheck
  <2>6. CASE Tick
    BY <2>6 DEF Tick
  <2> QED BY <2>1, <2>2, <2>3, <2>4, <2>5, <2>6 DEF Environment
<1>3. TypeOK'
  <2>1. now' \in Int /\ msgs' \in Nat /\ faults' \in Nat /\ admin' \in Nat
    BY DEF Environment, RegisterCar, DeleteCar, LkvExpires, DeleteSession, CloseUpdate, CloseCheck, Tick
  <2>2. cars' \in [CarId -> {"unregistered", "registered", "deleted"}]
    BY DEF Environment, RegisterCar, DeleteCar, LkvExpires, DeleteSession, CloseUpdate, CloseCheck, Tick
  <2>3. lkv' \in [CarId -> Sample \cup {None}] /\ stops' \in [SessionId -> Nat]
    BY DEF Environment, RegisterCar, DeleteCar, LkvExpires, DeleteSession, CloseUpdate, CloseCheck, Tick
  <2>4. closing' \in [CloseId -> SessionId \cup {None}]
    BY ZenonT(120) DEF Environment, RegisterCar, DeleteCar, LkvExpires, DeleteSession,
       CloseUpdate, CloseCheck, Tick
  <2> QED BY <1>1, <1>2, <2>1, <2>2, <2>3, <2>4
<1>4. RegInv'
  <2>1. UNCHANGED <<load, turn>> /\ \A k \in Key : SlotKept(k)
    BY <1>1 DEF SlotKept
  <2> QED BY <1>2, <2>1, RegFrame DEF RegInv
<1> HIDE DEF IngestInv, TypeOK
<1>5. SamplesOK' /\ CountOK' /\ PromisesOK' /\ TimerArmed'
  BY <1>1, <1>2, WriterFrame DEF At
<1> QED BY <1>3, <1>4, <1>5 DEF IngestInv, RegInv

-----------------------------------------------------------------------------
(* The steps of a stop handler. *)

LEMMA StopQueryStep ==
  ASSUME IngestInv, NEW p \in StopId,
         StopFind(p) \/ StopClose(p) \/ StopReread(p) \/ StopFails(p)
  PROVE  IngestInv'
<1> USE NoneAssumption DEF IngestInv, TypeOK, StopUnchanged, SetStop, At, Fault
<1>1. stop[p] \in Stop /\ \A q \in StopId \ {p} : stop'[q] = stop[q]
  BY DEF StopFind, StopClose, StopReread, StopFails
<1>2. stop'[p] = None \/ (stop'[p] \in Stop /\ stop'[p].pc # "await")
  <2>1. CASE StopFind(p)
    <3>1. \/ stop'[p] = None
          \/ \E c \in CarId : stop'[p] = [stop[p] EXCEPT !.pc = "close", !.car = c]
      BY <2>1 DEF StopFind, CarsOf
    <3> HIDE DEF IngestInv, TypeOK
    <3> QED BY <1>1, <3>1, ZenonT(120) DEF Stop
  <2>2. CASE StopClose(p)
    <3>1. \E pc \in {"flush", "reread"} : stop'[p] = [stop[p] EXCEPT !.pc = pc]
      BY <2>2 DEF StopClose
    <3> HIDE DEF IngestInv, TypeOK
    <3> QED BY <1>1, <3>1 DEF Stop
  <2>3. CASE StopReread(p)
    <3>1. \/ stop'[p] = [stop[p] EXCEPT !.pc = "flush"]
          \/ \E x \in SessionId : stop'[p] = [stop[p] EXCEPT !.pc = "flush", !.sess = x]
      BY <2>3 DEF StopReread, RowsOf
    <3> HIDE DEF IngestInv, TypeOK
    <3> QED BY <1>1, <3>1, ZenonT(120) DEF Stop
  <2>4. CASE StopFails(p)
    BY <2>4 DEF StopFails
  <2> QED BY <2>1, <2>2, <2>3, <2>4
<1>3. stop' \in [StopId -> Stop \cup {None}]
  BY <1>1, <1>2 DEF StopFind, StopClose, StopReread, StopFails
<1>4. SessKept /\ sess' \in [SessionId -> Session \cup {None}]
  <2>1. CASE UNCHANGED sess
    BY <2>1 DEF SessKept
  <2>2. CASE \E x \in Closable(stop[p].sid, stop[p].car) : sess' = Closed(x)
    <3>1. PICK x \in SessionId : sess[x] # None /\ sess' = Closed(x)
      BY <2>2 DEF Closable, RowsOf, Present
    <3>2. sess \in [SessionId -> Session \cup {None}] /\ now \in Int
      OBVIOUS
    <3> HIDE DEF IngestInv, TypeOK
    <3>3. /\ sess' = [y \in SessionId |-> sess'[y]]
          /\ \A y \in SessionId : sess'[y] = sess[y] \/
               (sess[y] # None /\ sess'[y] = [sess[y] EXCEPT !.status = "COMPLETED", !.ended = now])
      BY <3>1, <3>2 DEF Closed
    <3> QED BY <3>2, <3>3, SessionsEdited
  <2> QED BY <2>1, <2>2 DEF StopFind, StopClose, StopReread, StopFails
<1>5. UNCHANGED <<now, cars, rows, liveVars, regVars, wrVars, drain, closing, msgs, admin>>
  BY DEF StopFind, StopClose, StopReread, StopFails, regVars
<1>6. faults' \in Nat
  <2>1. faults' = faults \/ faults' = faults + 1
    BY DEF StopFind, StopClose, StopReread, StopFails
  <2> QED BY <2>1
<1>7. TypeOK'
  BY <1>3, <1>4, <1>5, <1>6 DEF liveVars, regVars, wrVars
<1>8. RegInv'
  <2>1. UNCHANGED <<load, turn>> /\ \A k \in Key : SlotKept(k)
    BY <1>5 DEF SlotKept, regVars
  <2> QED BY <1>4, <2>1, RegFrame DEF RegInv
<1>9. UNCHANGED <<wrVars, rows, drain, lkv>>
  BY <1>5 DEF liveVars
<1>10. \A q \in StopId : At(q, "await")' =>
         At(q, "await") /\ stop'[q].cut = stop[q].cut /\ stop'[q].ahead = stop[q].ahead
  <2> HIDE DEF IngestInv, TypeOK
  <2> TAKE q \in StopId
  <2>1. CASE q = p
    BY <1>2, <2>1
  <2>2. CASE q # p
    BY <1>1, <2>2
  <2> QED BY <2>1, <2>2
<1>11. SamplesOK' /\ CountOK' /\ PromisesOK' /\ TimerArmed'
  <2> HIDE DEF IngestInv, TypeOK, At
  <2> QED BY <1>4, <1>9, <1>10, WriterFrame
<1> QED BY <1>7, <1>8, <1>11 DEF RegInv

LEMMA StopForgetStep ==
  ASSUME IngestInv, NEW p \in StopId, StopAnnounce(p) \/ StopForget(p)
  PROVE  IngestInv'
<1> USE NoneAssumption DEF IngestInv, TypeOK, StopUnchanged, SetStop, At, Fault, Resumed
<1>1. stop[p] \in Stop /\ \A q \in StopId \ {p} : stop'[q] = stop[q]
  BY DEF StopAnnounce, StopForget
<1>2. stop'[p] = None \/ stop'[p] = [stop[p] EXCEPT !.pc = "forget"]
  BY DEF StopAnnounce, StopForget
<1>3. stop'[p] = None \/ (stop'[p] \in Stop /\ stop'[p].pc # "await")
  <2> HIDE DEF IngestInv, TypeOK
  <2> QED BY <1>1, <1>2 DEF Stop
<1>4. stop' \in [StopId -> Stop \cup {None}]
  BY <1>1, <1>3 DEF StopAnnounce, StopForget
<1>5. SessKept
  BY DEF StopAnnounce, StopForget, SessKept
<1>6. /\ lkv' \in [CarId -> Sample \cup {None}] /\ stops' \in [SessionId -> Nat] /\ faults' \in Nat
      /\ \A c \in CarId : lkv'[c] = lkv[c] \/ lkv'[c] = None
  <2>1. faults' = faults \/ faults' = faults + 1
    BY DEF StopAnnounce, StopForget, PublishStop
  <2>2. /\ stops' = stops \/ \E x \in SessionId : stops' = [stops EXCEPT ![x] = @ + 1]
        /\ lkv' = lkv \/ \E c \in CarId \cup {None} : lkv' = [lkv EXCEPT ![c] = None]
    BY <1>1 DEF StopAnnounce, StopForget, PublishStop, Stop, liveVars
  <2>3. stops' \in [SessionId -> Nat]
    <3>1. stops \in [SessionId -> Nat]
      OBVIOUS
    <3> HIDE DEF IngestInv, TypeOK
    <3>2. CASE stops' = stops
      BY <3>1, <3>2
    <3>3. ASSUME NEW x \in SessionId, stops' = [stops EXCEPT ![x] = @ + 1]
          PROVE  stops' \in [SessionId -> Nat]
      BY <3>1, <3>3
    <3> QED BY <2>2, <3>2, <3>3
  <2>4. lkv' \in [CarId -> Sample \cup {None}] /\ \A c \in CarId : lkv'[c] = lkv[c] \/ lkv'[c] = None
    <3>1. lkv \in [CarId -> Sample \cup {None}]
      OBVIOUS
    <3> HIDE DEF IngestInv, TypeOK
    <3>2. CASE lkv' = lkv
      BY <3>1, <3>2
    <3>3. ASSUME NEW c, lkv' = [lkv EXCEPT ![c] = None]
          PROVE  /\ lkv' \in [CarId -> Sample \cup {None}]
                 /\ \A b \in CarId : lkv'[b] = lkv[b] \/ lkv'[b] = None
      BY <3>1, <3>3
    <3> QED BY <2>2, <3>2, <3>3
  <2> QED BY <2>1, <2>3, <2>4
<1>7. \A k \in Key : SlotKept(k) /\ pending'[k] \in LoadId \cup {None} /\ ready'[k] \in Context \cup {None}
  BY DEF StopAnnounce, StopForget, Forget, SlotKept
<1>8. pending' \in [Key -> LoadId \cup {None}] /\ ready' \in [Key -> Context \cup {None}]
  BY <1>7 DEF StopAnnounce, StopForget, Forget
<1>9. UNCHANGED <<now, cars, sess, rows, wrVars, load, turn, drain, closing, msgs, admin>>
  BY DEF StopAnnounce, StopForget
<1>10. TypeOK'
  BY <1>4, <1>6, <1>8, <1>9 DEF wrVars
<1>11. RegInv'
  BY <1>5, <1>7, <1>9, RegFrame DEF RegInv
<1>12. \A q \in StopId : At(q, "await")' =>
         At(q, "await") /\ stop'[q].cut = stop[q].cut /\ stop'[q].ahead = stop[q].ahead
  <2> HIDE DEF IngestInv, TypeOK
  <2> TAKE q \in StopId
  <2>1. CASE q = p
    BY <1>3, <2>1
  <2>2. CASE q # p
    BY <1>1, <2>2
  <2> QED BY <2>1, <2>2
<1>13. SamplesOK' /\ CountOK' /\ PromisesOK' /\ TimerArmed'
  <2> HIDE DEF IngestInv, TypeOK, At
  <2> QED BY <1>5, <1>6, <1>9, <1>12, WriterFrame
<1> QED BY <1>10, <1>11, <1>13 DEF RegInv

-----------------------------------------------------------------------------
(* The writer. *)

(* flush(), with samples S pushed just before it. *)
LEMMA Flushed ==
  ASSUME TypeOK, NEW S \in SUBSET Sample, NEW n \in Nat,
         count + n = 0 => buffer \cup S = {}, Flush(buffer \cup S, count + n)
  PROVE  /\ buffer' = {} /\ count' = 0 /\ timer' = FALSE /\ lost' = lost
         /\ wq' \in Seq(SUBSET Sample)
         /\ Len(wq) <= Len(wq') /\ \A i \in 1..Len(wq) : wq'[i] = wq[i]
         /\ Unwritten' \subseteq Unwritten \cup S
         /\ \A r \in Unwritten \cup S : \E i \in 1..Len(wq') : r \in wq'[i]
<1> DEFINE B == buffer \cup S
<1>1. B \in SUBSET Sample /\ wq \in Seq(SUBSET Sample) /\ Len(wq) \in Nat
  BY DEF TypeOK
<1>2. /\ buffer' = {} /\ count' = 0 /\ timer' = FALSE /\ lost' = lost
      /\ IF count + n = 0 THEN B = {} /\ wq' = wq ELSE wq' = Append(wq, B)
  BY DEF Flush
<1> HIDE DEF B
<1>3. CASE B = {} /\ wq' = wq
  BY <1>1, <1>2, <1>3 DEF Unwritten, B
<1>4. CASE wq' = Append(wq, B)
  <2>1. /\ wq' \in Seq(SUBSET Sample) /\ Len(wq') = Len(wq) + 1
        /\ \A i \in 1..Len(wq) : wq'[i] = wq[i]
        /\ wq'[Len(wq) + 1] = B
        /\ DOMAIN wq = 1..Len(wq) /\ DOMAIN wq' = 1..Len(wq')
    BY <1>1, <1>4
  <2>2. \A i \in DOMAIN wq' : wq'[i] = B \/ (i \in DOMAIN wq /\ wq'[i] = wq[i])
    BY <1>1, <2>1
  <2>3. Unwritten' \subseteq Unwritten \cup S
    BY <1>2, <2>2 DEF Unwritten, B
  <2>4. \A r \in Unwritten \cup S : \E i \in 1..Len(wq') : r \in wq'[i]
    <3> TAKE r \in Unwritten \cup S
    <3>1. CASE r \in B
      BY <1>1, <2>1, <3>1
    <3>2. CASE \E i \in DOMAIN wq : r \in wq[i]
      BY <1>1, <2>1, <3>2
    <3> QED BY <3>1, <3>2 DEF Unwritten, B
  <2> QED BY <1>1, <1>2, <2>1, <2>3, <2>4
<1> QED BY <1>2, <1>3, <1>4

(* enqueue() and enqueueAll() of samples S. *)
LEMMA Enqueued ==
  ASSUME TypeOK, CountOK, TimerArmed, IngestAssumption, NEW S \in SUBSET Sample, NEW n \in Nat, n = 0 => S = {},
         Enqueue(S, n)
  PROVE  /\ buffer' \subseteq Sample /\ count' \in Nat /\ timer' \in BOOLEAN /\ lost' = lost
         /\ wq' \in Seq(SUBSET Sample)
         /\ Len(wq) <= Len(wq') /\ \A i \in 1..Len(wq) : wq'[i] = wq[i]
         /\ Unwritten' \subseteq Unwritten \cup S
         /\ Unwritten \subseteq Unwritten'
         /\ CountOK' /\ TimerArmed'
<1>1. CASE Flush(buffer \cup S, count + n)
  <2>1. count + n = 0 => buffer \cup S = {}
    BY DEF CountOK, TypeOK
  <2>2. /\ buffer' = {} /\ count' = 0 /\ timer' = FALSE /\ lost' = lost
        /\ wq' \in Seq(SUBSET Sample)
        /\ Len(wq) <= Len(wq') /\ \A i \in 1..Len(wq) : wq'[i] = wq[i]
        /\ Unwritten' \subseteq Unwritten \cup S
        /\ \A r \in Unwritten \cup S : \E i \in 1..Len(wq') : r \in wq'[i]
    BY <1>1, <2>1, Flushed
  <2>3. Unwritten \subseteq Unwritten'
    BY <2>2 DEF Unwritten
  <2> QED BY <2>2, <2>3 DEF CountOK, TimerArmed
<1>2. CASE /\ buffer' = buffer \cup S /\ count' = count + n /\ timer' = TRUE
           /\ UNCHANGED <<wq, lost>>
  <2>1. Len(wq) \in Nat
    BY DEF TypeOK
  <2>2. Unwritten' = Unwritten \cup S
    BY <1>2 DEF Unwritten
  <2> QED BY <1>2, <2>1, <2>2 DEF TypeOK, CountOK, TimerArmed
<1> QED BY <1>1, <1>2 DEF Enqueue

(* flush() as a step of its own: by its timer, by a stop handler, or at shutdown. *)
LEMMA FlushStep ==
  ASSUME IngestInv, TimerFires \/ (\E p \in StopId : StopFlush(p)) \/ Shutdown
  PROVE  IngestInv'
<1> USE NoneAssumption DEF IngestInv, TypeOK
<1>1. /\ UNCHANGED <<dbVars, rows, liveVars, regVars, closing, msgs, admin>>
      /\ Flush(buffer, count)
  BY DEF TimerFires, StopFlush, Shutdown, StopUnchanged, budgets, regVars, dbVars
<1>2. /\ buffer' = {} /\ count' = 0 /\ timer' = FALSE /\ lost' = lost
      /\ wq' \in Seq(SUBSET Sample)
      /\ Len(wq) <= Len(wq') /\ \A i \in 1..Len(wq) : wq'[i] = wq[i]
      /\ Unwritten' \subseteq Unwritten
      /\ \A r \in Unwritten : \E i \in 1..Len(wq') : r \in wq'[i]
  <2>1. /\ count + 0 = 0 => buffer \cup {} = {}
        /\ Flush(buffer \cup {}, count + 0)
        /\ {} \in SUBSET Sample
    BY <1>1 DEF CountOK, Flush
  <2> HIDE DEF IngestInv, TypeOK
  <2>2. TypeOK
    BY DEF IngestInv
  <2> QED BY <2>1, <2>2, Flushed
<1>3. Len(wq') \in Nat /\ Unwritten \in SUBSET Sample
  BY <1>2 DEF Unwritten
<1>4. faults' \in Nat
  <2>1. faults' = faults \/ faults' = faults + 1
    BY DEF TimerFires, StopFlush, Shutdown, budgets, Fault
  <2> QED BY <2>1
<1>5. /\ stop' \in [StopId -> Stop \cup {None}]
      /\ \A q \in StopId : At(q, "await")' =>
           \/ At(q, "await") /\ stop'[q] = stop[q]
           \/ stop'[q].cut = Unwritten /\ stop'[q].ahead = Len(wq')
  <2>1. CASE UNCHANGED stop
    BY <2>1 DEF At
  <2>2. ASSUME NEW p \in StopId, StopFlush(p)
        PROVE  <1>5!1 /\ <1>5!2
    <3>1. /\ stop[p] \in Stop /\ stop \in [StopId -> Stop \cup {None}]
          /\ stop' = [stop EXCEPT ![p] =
                        [stop[p] EXCEPT !.pc = "await", !.ahead = Len(wq'), !.cut = Unwritten]]
      BY <2>2 DEF StopFlush, At, SetStop, AheadOfFlush
    <3> HIDE DEF IngestInv, TypeOK
    <3>2. /\ stop'[p] \in Stop /\ stop'[p].cut = Unwritten /\ stop'[p].ahead = Len(wq')
      BY <1>3, <3>1 DEF Stop
    <3>3. \A q \in StopId \ {p} : stop'[q] = stop[q]
      BY <3>1
    <3> QED BY <3>1, <3>2, <3>3 DEF At
  <2> QED BY <2>1, <2>2 DEF TimerFires, Shutdown
<1>6. /\ drain' \in [ahead : Nat, cut : SUBSET Sample] \cup {None}
      /\ drain' = drain \/ drain' = [ahead |-> Len(wq'), cut |-> Unwritten]
  <2>1. drain' = drain \/ drain' = [ahead |-> Len(wq'), cut |-> Unwritten]
    <3>1. CASE TimerFires
      BY <3>1 DEF TimerFires
    <3>2. CASE \E p \in StopId : StopFlush(p)
      BY <3>2 DEF StopFlush, StopUnchanged
    <3>3. CASE Shutdown
      BY <3>3 DEF Shutdown, AheadOfFlush
    <3> QED BY <3>1, <3>2, <3>3
  <2> QED BY <1>3, <2>1
<1>7. TypeOK'
  BY <1>1, <1>2, <1>4, <1>5, <1>6 DEF dbVars, liveVars, regVars
<1>8. SessKept
  BY <1>1 DEF SessKept, dbVars
<1>9. RegInv'
  <2>1. UNCHANGED <<load, turn>> /\ \A k \in Key : SlotKept(k)
    BY <1>1 DEF SlotKept, regVars
  <2> QED BY <1>8, <2>1, RegFrame DEF RegInv
<1>10. SamplesOK'
  <2>1. /\ (rows \cup lost \cup Unwritten)' \subseteq rows \cup lost \cup Unwritten \cup {}
        /\ {} \in SUBSET Sample /\ (\A r \in {} : SampleOK(r))
        /\ \A c \in CarId : lkv'[c] = lkv[c]
    BY <1>1, <1>2 DEF liveVars
  <2> HIDE DEF IngestInv, TypeOK
  <2> QED BY <1>8, <2>1, SamplesFrame DEF IngestInv
<1>11. PromisesOK'
  <2>1. ASSUME NEW cut \in SUBSET Sample, NEW ahead \in Nat,
               Awaits(cut, ahead) \/ (cut = Unwritten /\ ahead = Len(wq'))
        PROVE  /\ ahead <= Len(wq')
               /\ \A r \in cut : r \in rows' \/ r \in lost' \/ \E i \in 1..ahead : r \in wq'[i]
    <3>1. wq \in Seq(SUBSET Sample) /\ rows' = rows
      BY <1>1
    <3> HIDE DEF IngestInv, TypeOK
    <3> QED BY <1>2, <1>3, <2>1, <3>1, AwaitsKept
  <2>2. ASSUME NEW q \in StopId, At(q, "await")'
        PROVE  Awaits(stop[q].cut, stop[q].ahead)'
    <3>1. stop'[q] \in Stop /\ stop'[q].cut \in SUBSET Sample /\ stop'[q].ahead \in Nat
      BY <1>5, <2>2 DEF At, Stop
    <3>2. \/ Awaits(stop[q].cut, stop[q].ahead) /\ stop'[q] = stop[q]
          \/ stop'[q].cut = Unwritten /\ stop'[q].ahead = Len(wq')
      BY <1>5, <2>2 DEF PromisesOK
    <3> HIDE DEF IngestInv, TypeOK
    <3>3. Awaits(stop'[q].cut, stop'[q].ahead) \/ (stop'[q].cut = Unwritten /\ stop'[q].ahead = Len(wq'))
      BY <3>2
    <3> QED BY <2>1, <3>1, <3>3 DEF Awaits
  <2>3. ASSUME drain' # None
        PROVE  Awaits(drain.cut, drain.ahead)'
    <3>1. drain'.cut \in SUBSET Sample /\ drain'.ahead \in Nat
      BY <1>6, <2>3
    <3>2. Awaits(drain'.cut, drain'.ahead) \/ (drain'.cut = Unwritten /\ drain'.ahead = Len(wq'))
      BY <1>6, <2>3 DEF PromisesOK
    <3> HIDE DEF IngestInv, TypeOK
    <3> QED BY <2>1, <3>1, <3>2 DEF Awaits
  <2> QED BY <2>2, <2>3 DEF PromisesOK
<1> QED BY <1>2, <1>7, <1>9, <1>10, <1>11 DEF RegInv, CountOK, TimerArmed

(* A sample is identified by its dedup key, so ON CONFLICT DO NOTHING never drops one
   that is not stored already. *)
LEMMA SameKeySameSample ==
  ASSUME TypeOK, IngestAssumption, NEW r1 \in Sample, NEW r2 \in Sample, SampleOK(r1), SampleOK(r2),
         r1.sess = r2.sess, r1.seq = r2.seq
  PROVE  r1 = r2
<1>1. r1.frame \in Frame /\ r2.frame \in Frame
  BY DEF Sample
<1>2. r1.frame = r2.frame
  <2>1. /\ r1.frame.dev = r2.frame.dev /\ r1.frame.sid = r2.frame.sid
        /\ r1.frame.seq = r2.frame.seq
    BY DEF SampleOK
  <2>2. \A f, g \in Frame : f.dev = g.dev /\ f.sid = g.sid /\ f.seq = g.seq => f = g
    BY DEF Frame
  <2> QED BY <1>1, <2>1, <2>2
<1>3. r1.time = r2.time /\ r1.car = r2.car
  BY <1>2 DEF SampleOK
<1> QED BY <1>2, <1>3 DEF Sample

LEMMA Inserted ==
  ASSUME TypeOK, IngestAssumption, NEW T \in SUBSET Sample, NEW B \in SUBSET Sample,
         \A r \in T \cup B : SampleOK(r)
  PROVE  InsertIgnoring(T, B) = T \cup B
<1> DEFINE fresh == {DedupKey(s) : s \in B} \ {DedupKey(s) : s \in T}
           first(k) == CHOOSE s \in B : DedupKey(s) = k
<1>1. \A s \in B, r \in T \cup B : DedupKey(s) = DedupKey(r) => s = r
  <2> SUFFICES ASSUME NEW s \in B, NEW r \in T \cup B, DedupKey(s) = DedupKey(r)
               PROVE  s = r
    OBVIOUS
  <2>1. s.sess = r.sess /\ s.seq = r.seq
    BY DEF DedupKey
  <2> QED BY <2>1, SameKeySameSample
<1>2. \A s \in B : first(DedupKey(s)) = s
  BY <1>1
<1> HIDE DEF first
<1>3. \A s \in B : s \in T \/ DedupKey(s) \in fresh
  BY <1>1
<1>4. \A k \in fresh : \E s \in B : k = DedupKey(s)
  OBVIOUS
<1>5. InsertIgnoring(T, B) = T \cup {first(k) : k \in fresh}
  BY DEF InsertIgnoring, first
<1> HIDE DEF fresh
<1>6. {first(k) : k \in fresh} \subseteq B
  BY <1>2, <1>4
<1>7. B \subseteq T \cup {first(k) : k \in fresh}
  BY <1>2, <1>3
<1> QED BY <1>5, <1>6, <1>7

(* A batch leaves the writer's chain, into the table or, its insert failing, lost. *)
LEMMA WriteStep ==
  ASSUME IngestInv, IngestAssumption, WriteDone \/ WriteFails
  PROVE  IngestInv'
<1> USE NoneAssumption DEF IngestInv, TypeOK
<1>1. /\ UNCHANGED <<dbVars, liveVars, regVars, buffer, count, timer, closing, msgs, admin>>
      /\ wq # <<>> /\ wq' = Tail(wq)
      /\ stop' = [p \in StopId |-> IF stop[p] = None THEN None
                                   ELSE [stop[p] EXCEPT !.ahead = OneLess(@)]]
      /\ drain' = IF drain = None THEN None ELSE [drain EXCEPT !.ahead = OneLess(@)]
  BY DEF WriteDone, WriteFails, BatchLeaves
<1>2. /\ wq' \in Seq(SUBSET Sample) /\ Len(wq) \in Nat /\ Len(wq') = Len(wq) - 1
      /\ \A i \in 1..Len(wq') : wq'[i] = wq[i + 1]
      /\ DOMAIN wq = 1..Len(wq) /\ DOMAIN wq' = 1..Len(wq')
      /\ Head(wq) = wq[1] /\ 1 \in DOMAIN wq
      /\ Head(wq) \in SUBSET Sample
  BY <1>1
<1>3. \A r \in rows \cup Head(wq) : SampleOK(r)
  <2>1. Head(wq) \subseteq Unwritten
    BY <1>2, ZenonT(120) DEF Unwritten
  <2> QED BY <2>1 DEF SamplesOK
<1>4. /\ rows' \cup lost' = rows \cup lost \cup Head(wq)
      /\ rows \subseteq rows' /\ lost \subseteq lost'
      /\ faults' \in Nat
  <2>1. CASE WriteDone
    <3>1. rows' = InsertIgnoring(rows, Head(wq)) /\ lost' = lost /\ faults' = faults
      BY <2>1 DEF WriteDone
    <3>2. TypeOK /\ rows \in SUBSET Sample
      OBVIOUS
    <3>3. rows' = rows \cup Head(wq)
      <4> HIDE DEF IngestInv, TypeOK
      <4> QED BY <1>2, <1>3, <3>1, <3>2, Inserted
    <3> QED BY <3>1, <3>3
  <2>2. CASE WriteFails
    BY <2>2 DEF WriteFails, Fault
  <2> QED BY <2>1, <2>2
<1>5. /\ stop' \in [StopId -> Stop \cup {None}]
      /\ \A p \in StopId : At(p, "await")' =>
           At(p, "await") /\ stop'[p].cut = stop[p].cut /\ stop'[p].ahead = OneLess(stop[p].ahead)
  <2>1. ASSUME NEW p \in StopId, stop[p] # None
        PROVE  /\ stop'[p] \in Stop
               /\ stop'[p].pc = stop[p].pc /\ stop'[p].cut = stop[p].cut
               /\ stop'[p].ahead = OneLess(stop[p].ahead)
    <3>1. stop[p] \in Stop /\ stop'[p] = [stop[p] EXCEPT !.ahead = OneLess(@)]
      BY <1>1, <2>1
    <3> HIDE DEF IngestInv, TypeOK
    <3> QED BY <3>1 DEF Stop, OneLess
  <2> HIDE DEF IngestInv, TypeOK
  <2> QED BY <1>1, <2>1 DEF At
<1>6. /\ drain' \in [ahead : Nat, cut : SUBSET Sample] \cup {None}
      /\ drain' # None =>
           drain # None /\ drain'.cut = drain.cut /\ drain'.ahead = OneLess(drain.ahead)
  BY <1>1 DEF OneLess
<1>7. TypeOK'
  <2>1. rows' \subseteq Sample /\ lost' \subseteq Sample
    BY <1>2, <1>4
  <2> QED BY <1>1, <1>2, <1>4, <1>5, <1>6, <2>1 DEF dbVars, liveVars, regVars
<1>8. SessKept
  BY <1>1 DEF SessKept, dbVars
<1>9. RegInv'
  <2>1. UNCHANGED <<load, turn>> /\ \A k \in Key : SlotKept(k)
    BY <1>1 DEF SlotKept, regVars
  <2> QED BY <1>8, <2>1, RegFrame DEF RegInv
<1>10. SamplesOK'
  <2>1. /\ (rows \cup lost \cup Unwritten)' \subseteq rows \cup lost \cup Unwritten \cup {}
        /\ {} \in SUBSET Sample /\ (\A r \in {} : SampleOK(r))
        /\ \A c \in CarId : lkv'[c] = lkv[c]
    BY <1>1, <1>2, <1>4 DEF liveVars, Unwritten
  <2> HIDE DEF IngestInv, TypeOK
  <2> QED BY <1>8, <2>1, SamplesFrame DEF IngestInv
<1>11. PromisesOK'
  <2>1. ASSUME NEW cut \in SUBSET Sample, NEW n \in Nat, Awaits(cut, n)
        PROVE  /\ OneLess(n) <= Len(wq')
               /\ \A r \in cut : r \in rows' \/ r \in lost' \/ \E i \in 1..OneLess(n) : r \in wq'[i]
    <3> HIDE DEF IngestInv, TypeOK
    <3>1. OneLess(n) <= Len(wq')
      BY <1>2, <2>1 DEF Awaits, OneLess
    <3>2. ASSUME NEW r \in cut, NEW i \in 1..n, r \in wq[i]
          PROVE  r \in rows' \/ r \in lost' \/ \E j \in 1..OneLess(n) : r \in wq'[j]
      <4>1. CASE i = 1
        BY <1>2, <1>4, <3>2, <4>1
      <4>2. CASE i # 1
        <5>1. i - 1 \in 1..OneLess(n) /\ i - 1 \in 1..Len(wq') /\ wq'[i - 1] = wq[i]
          BY <1>2, <2>1, <4>2 DEF Awaits, OneLess
        <5> QED BY <3>2, <5>1
      <4> QED BY <4>1, <4>2
    <3> QED BY <1>4, <2>1, <3>1, <3>2 DEF Awaits
  <2>2. ASSUME NEW p \in StopId, At(p, "await")'
        PROVE  Awaits(stop[p].cut, stop[p].ahead)'
    <3>1. stop[p] \in Stop /\ Awaits(stop[p].cut, stop[p].ahead)
      BY <1>5, <2>2 DEF PromisesOK, At
    <3>2. stop[p].cut \in SUBSET Sample /\ stop[p].ahead \in Nat
      BY <3>1 DEF Stop
    <3>3. stop'[p].cut = stop[p].cut /\ stop'[p].ahead = OneLess(stop[p].ahead)
      BY <1>5, <2>2
    <3> HIDE DEF IngestInv, TypeOK
    <3> QED BY <2>1, <3>1, <3>2, <3>3, ZenonT(120) DEF Awaits
  <2>3. ASSUME drain' # None
        PROVE  Awaits(drain.cut, drain.ahead)'
    <3>1. drain.cut \in SUBSET Sample /\ drain.ahead \in Nat /\ Awaits(drain.cut, drain.ahead)
      BY <1>6, <2>3 DEF PromisesOK
    <3> HIDE DEF IngestInv, TypeOK
    <3> QED BY <1>6, <2>1, <2>3, <3>1 DEF Awaits
  <2> QED BY <2>2, <2>3 DEF PromisesOK
<1> QED BY <1>1, <1>7, <1>9, <1>10, <1>11 DEF RegInv, CountOK, TimerArmed

-----------------------------------------------------------------------------
(* The continuations: a context becomes samples. *)

(* The sample built from its context for a frame of its run is the frame's row. *)
LEMMA SampleBuilt ==
  ASSUME TypeOK, IngestAssumption, NEW c \in Context, NEW f \in Frame,
         ContextOK(c, CarDevice[c.car], sess[c.sess].sid),
         f.dev = CarDevice[c.car], f.sid = sess[c.sess].sid
  PROVE  ToSample(c, f) \in Sample /\ SampleOK(ToSample(c, f)) /\ ToSample(c, f).car = c.car
<1>1. Mono[f] \in Int
  BY DEF IngestAssumption
<1>2. ToSample(c, f) \in Sample
  BY <1>1 DEF ToSample, Sample, Context, Frame
<1>3. SampleOK(ToSample(c, f)) /\ ToSample(c, f).car = c.car
  BY DEF ToSample, SampleOK, ContextOK
<1> QED BY <1>2, <1>3

(* A continuation hands samples S of its context to the writer, and maybe publishes one. *)
LEMMA ContinueRule ==
  ASSUME IngestInv, IngestAssumption, turn # None,
         NEW S \in SUBSET Sample, \A r \in S : SampleOK(r),
         NEW n \in Nat, n = 0 => S = {},
         Enqueue(S, n) \/ (S = {} /\ UNCHANGED wrVars),
         NextWaiter, ContinueUnchanged, faults' \in Nat,
         lkv' = lkv \/ \E s \in S : lkv' = [lkv EXCEPT ![s.car] = s]
  PROVE  IngestInv'
<1> USE NoneAssumption DEF IngestInv, TypeOK
<1>1. UNCHANGED <<dbVars, rows, stops, pending, ready, load, stop, drain, closing, msgs, admin>>
  BY DEF ContinueUnchanged
<1>2. /\ buffer' \subseteq Sample /\ count' \in Nat /\ timer' \in BOOLEAN /\ lost' = lost
      /\ wq' \in Seq(SUBSET Sample)
      /\ Len(wq) <= Len(wq') /\ \A i \in 1..Len(wq) : wq'[i] = wq[i]
      /\ Unwritten' \subseteq Unwritten \cup S
      /\ CountOK' /\ TimerArmed'
  <2>1. CASE UNCHANGED wrVars
    BY <2>1 DEF wrVars, Unwritten, CountOK, TimerArmed
  <2>2. CASE Enqueue(S, n)
    <3>1. TypeOK /\ CountOK /\ TimerArmed
      OBVIOUS
    <3> HIDE DEF IngestInv, TypeOK
    <3> QED BY <2>2, <3>1, Enqueued
  <2> QED BY <2>1, <2>2
<1>3. \/ turn' = None
      \/ /\ turn' \in [ctx : Context, queue : Seq(Waiter) \ {<<>>}]
         /\ turn'.ctx = turn.ctx
         /\ \A i \in DOMAIN turn'.queue : i + 1 \in DOMAIN turn.queue
                                          /\ turn'.queue[i] = turn.queue[i + 1]
  <2> DEFINE q == turn.queue
  <2>1. turn \in [ctx : Context, queue : Seq(Waiter) \ {<<>>}]
    OBVIOUS
  <2>2. \/ turn' = None
        \/ Tail(q) # <<>> /\ turn' = [turn EXCEPT !.queue = Tail(q)]
    BY DEF NextWaiter
  <2> HIDE DEF IngestInv, TypeOK
  <2>3. /\ q \in Seq(Waiter) /\ q # <<>> /\ Tail(q) \in Seq(Waiter)
        /\ \A i \in DOMAIN Tail(q) : i + 1 \in DOMAIN q /\ Tail(q)[i] = q[i + 1]
    BY <2>1
  <2> HIDE DEF q
  <2>4. CASE Tail(q) # <<>> /\ turn' = [turn EXCEPT !.queue = Tail(q)]
    BY <2>1, <2>3, <2>4 DEF q
  <2> QED BY <2>2, <2>4
<1>4. turn' \in [ctx : Context, queue : Seq(Waiter) \ {<<>>}] \cup {None}
  BY <1>3
<1>5. /\ lkv' \in [CarId -> Sample \cup {None}]
      /\ \A c \in CarId : lkv'[c] = lkv[c] \/ (lkv'[c] \in S /\ lkv'[c].car = c)
  <2>1. lkv \in [CarId -> Sample \cup {None}]
    OBVIOUS
  <2> HIDE DEF IngestInv, TypeOK
  <2> QED BY <2>1
<1>6. TypeOK'
  BY <1>1, <1>2, <1>4, <1>5 DEF dbVars
<1>7. SessKept
  BY <1>1 DEF SessKept, dbVars
<1>8. RegInv'
  <2>1. ReadyOK /\ PendingOK /\ LoadOK /\ TurnOK
    BY DEF RegInv
  <2>2. sess' = sess /\ ready' = ready /\ pending' = pending /\ load' = load
    BY <1>1 DEF dbVars
  <2> HIDE DEF IngestInv, TypeOK
  <2>3. ReadyOK' /\ PendingOK' /\ LoadOK'
    <3>1. \A c, d, s : ContextOK(c, d, s)' <=> ContextOK(c, d, s)
      BY <2>2 DEF ContextOK
    <3>2. \A q : LookupOK(q)' <=> LookupOK(q)
      BY <3>1 DEF LookupOK, WaiterOK
    <3> QED BY <2>1, <2>2, <3>1, <3>2 DEF ReadyOK, PendingOK, LoadOK
  <2>4. TurnOK'
    <3>1. CASE turn' = None
      BY <3>1 DEF TurnOK
    <3>2. CASE turn' # None
      <4> PICK d, s : d = CarDevice[turn.ctx.car] /\ s = sess[turn.ctx.sess].sid
        OBVIOUS
      <4>1. ContextOK(turn.ctx, d, s) /\ \A i \in DOMAIN turn.queue : WaiterOK(turn.queue[i], d, s)
        BY <2>1 DEF TurnOK
      <4>2. turn'.ctx = turn.ctx /\ CarDevice[turn'.ctx.car] = d /\ sess'[turn'.ctx.sess].sid = s
        BY <1>3, <2>2, <3>2
      <4>3. \A i \in DOMAIN turn'.queue : i + 1 \in DOMAIN turn.queue /\ turn'.queue[i] = turn.queue[i + 1]
        BY <1>3, <3>2
      <4>4. ContextOK(turn.ctx, d, s)'
        BY <2>2, <4>1, <4>2 DEF ContextOK
      <4>5. \A i \in DOMAIN turn'.queue : WaiterOK(turn'.queue[i], d, s)
        BY <4>1, <4>3
      <4> QED BY <4>2, <4>4, <4>5 DEF TurnOK
    <3> QED BY <3>1, <3>2
  <2> QED BY <2>3, <2>4 DEF RegInv
<1>9. SamplesOK'
  <2>1. (rows \cup lost \cup Unwritten)' \subseteq rows \cup lost \cup Unwritten \cup S
    BY <1>1, <1>2
  <2> HIDE DEF IngestInv, TypeOK
  <2> QED BY <1>5, <1>7, <2>1, SamplesFrame DEF IngestInv
<1>10. PromisesOK'
  <2>1. rows \subseteq rows' /\ lost \subseteq lost' /\ drain' = drain /\ stop' = stop
    BY <1>1, <1>2
  <2> HIDE DEF IngestInv, TypeOK
  <2> QED BY <1>2, <2>1, PromisesFrame DEF IngestInv, At
<1> QED BY <1>2, <1>6, <1>8, <1>9, <1>10 DEF RegInv

(* The waiter whose turn it is, and the context it was waiting for. *)
LEMMA HeadWaiter ==
  ASSUME IngestInv, turn # None
  PROVE  /\ turn.ctx \in Context /\ Head(turn.queue) \in Waiter
         /\ ContextOK(turn.ctx, CarDevice[turn.ctx.car], sess[turn.ctx.sess].sid)
         /\ WaiterOK(Head(turn.queue), CarDevice[turn.ctx.car], sess[turn.ctx.sess].sid)
<1>1. /\ turn \in [ctx : Context, queue : Seq(Waiter) \ {<<>>}] /\ TurnOK
  BY DEF IngestInv, TypeOK
<1>2. /\ 1 \in DOMAIN turn.queue /\ Head(turn.queue) = turn.queue[1]
      /\ turn.queue[1] \in Waiter
  BY <1>1
<1> QED BY <1>1, <1>2 DEF TurnOK

LEMMA ContinueStep ==
  ASSUME IngestInv, IngestAssumption, ContinueFrame \/ ContinueBatch \/ ContinueStart
  PROVE  IngestInv'
<1> DEFINE w == Head(turn.queue)
           c == turn.ctx
<1>1. turn # None /\ NextWaiter /\ ContinueUnchanged
  BY DEF ContinueFrame, ContinueBatch, ContinueStart
<1>2. TypeOK /\ faults \in Nat
  BY DEF IngestInv, TypeOK
<1>3. /\ c \in Context /\ w \in Waiter
      /\ ContextOK(c, CarDevice[c.car], sess[c.sess].sid)
      /\ WaiterOK(w, CarDevice[c.car], sess[c.sess].sid)
  BY <1>1, HeadWaiter
<1>4. w.frames \in Seq(Frame)
  BY <1>3 DEF Waiter
<1>5. CASE ContinueFrame
  <2> DEFINE s == ToSample(c, w.frames[1])
  <2>1. PublishFrame(s) /\ Enqueue({s}, 1) /\ w.kind = "frame"
    BY <1>5 DEF ContinueFrame
  <2>2. /\ w.frames[1] \in Frame
        /\ w.frames[1].dev = CarDevice[c.car] /\ w.frames[1].sid = sess[c.sess].sid
    BY <1>3, <1>4, <2>1 DEF WaiterOK
  <2> HIDE DEF c, w
  <2>3. s \in Sample /\ SampleOK(s)
    BY <1>2, <1>3, <2>2, SampleBuilt
  <2>4. faults' \in Nat
    BY <1>2, <2>1 DEF PublishFrame, Fault
  <2>5. lkv' = lkv \/ lkv' = [lkv EXCEPT ![s.car] = s]
    BY <2>1 DEF PublishFrame
  <2> HIDE DEF s
  <2>6. {s} \in SUBSET Sample /\ (\A r \in {s} : SampleOK(r)) /\ 1 \in Nat /\ (1 = 0 => {s} = {})
    BY <2>3
  <2>7. lkv' = lkv \/ \E r \in {s} : lkv' = [lkv EXCEPT ![r.car] = r]
    BY <2>5
  <2> QED BY <1>1, <2>1, <2>4, <2>6, <2>7, ContinueRule
<1>6. CASE ContinueBatch
  <2> DEFINE own == OwnFrames(w)
             S == {ToSample(c, w.frames[i]) : i \in own}
             n == Cardinality(own)
  <2>1. Enqueue(S, n) /\ UNCHANGED <<lkv, faults>>
    BY <1>6 DEF ContinueBatch
  <2>2. /\ own \subseteq DOMAIN w.frames
        /\ \A i \in own : w.frames[i].sid = sess[c.sess].sid /\ w.frames[i].dev = CarDevice[c.car]
    BY <1>3 DEF OwnFrames, WaiterOK
  <2>3. \A i \in own : w.frames[i] \in Frame
    BY <1>4, <2>2
  <2>4. n \in Nat /\ (n = 0 => own = {})
    <3>1. IsFiniteSet(1..Len(w.frames)) /\ DOMAIN w.frames = 1..Len(w.frames)
      BY <1>4, FS_Interval
    <3>2. IsFiniteSet(own)
      BY <2>2, <3>1, FS_Subset
    <3> QED BY <3>2, FS_CardinalityType, FS_EmptySet
  <2> HIDE DEF c, w, own
  <2>5. \A i \in own : ToSample(c, w.frames[i]) \in Sample /\ SampleOK(ToSample(c, w.frames[i]))
    BY <1>2, <1>3, <2>2, <2>3, SampleBuilt
  <2>6. S \in SUBSET Sample /\ (\A r \in S : SampleOK(r)) /\ (n = 0 => S = {})
    BY <2>4, <2>5
  <2> HIDE DEF S, n
  <2> QED BY <1>1, <1>2, <2>1, <2>4, <2>6, ContinueRule
<1>7. CASE ContinueStart
  <2>1. UNCHANGED <<lkv, faults, wrVars>>
    BY <1>7 DEF ContinueStart
  <2>2. {} \in SUBSET Sample /\ (\A r \in {} : SampleOK(r)) /\ 0 \in Nat
    OBVIOUS
  <2>3. /\ Enqueue({}, 0) \/ ({} = {} /\ UNCHANGED wrVars)
        /\ lkv' = lkv \/ \E r \in {} : lkv' = [lkv EXCEPT ![r.car] = r]
    BY <2>1
  <2> QED BY <1>1, <1>2, <2>1, <2>2, <2>3, ContinueRule
<1> QED BY <1>5, <1>6, <1>7

-----------------------------------------------------------------------------
(* The registry. *)

(* A waiter of key <<d, s>> resolved: it continues, joins a lookup, or starts one. *)
LEMMA ResolveRule ==
  ASSUME IngestInv, NEW d \in Device, NEW s \in Sid, NEW mono \in Int,
         NEW w \in Waiter, WaiterOK(w, d, s), Resolve(d, s, mono, w), UNCHANGED sess, turn = None
  PROVE  /\ RegInv'
         /\ pending' \in [Key -> LoadId \cup {None}] /\ ready' \in [Key -> Context \cup {None}]
         /\ load' \in [LoadId -> Load \cup {None}]
         /\ turn' \in [ctx : Context, queue : Seq(Waiter) \ {<<>>}] \cup {None}
<1> USE NoneAssumption
<1> DEFINE k == <<d, s>>
<1>1. k \in Key /\ k[1] = d /\ k[2] = s
  BY DEF Key
<1>2. /\ pending \in [Key -> LoadId \cup {None}] /\ ready \in [Key -> Context \cup {None}]
      /\ load \in [LoadId -> Load \cup {None}] /\ turn = None
      /\ ReadyOK /\ PendingOK /\ LoadOK
  BY DEF IngestInv, TypeOK
<1>3. <<w>> \in Seq(Waiter) \ {<<>>} /\ DOMAIN <<w>> = {1} /\ <<w>>[1] = w
  OBVIOUS
<1> HIDE DEF k
<1>4. CASE /\ ready[k] # None /\ turn' = [ctx |-> ready[k], queue |-> <<w>>]
           /\ UNCHANGED <<pending, ready, load>>
  <2>1. ready[k] \in Context /\ ContextOK(ready[k], d, s)
    BY <1>1, <1>2, <1>4 DEF ReadyOK
  <2>2. /\ turn'.ctx = ready[k] /\ turn'.queue = <<w>>
        /\ turn' \in [ctx : Context, queue : Seq(Waiter) \ {<<>>}]
    BY <1>3, <1>4, <2>1
  <2>3. TurnOK'
    BY <1>3, <2>1, <2>2 DEF TurnOK, ContextOK, WaiterOK
  <2>4. ReadyOK' /\ PendingOK' /\ LoadOK'
    BY <1>2, <1>4 DEF ReadyOK, PendingOK, LoadOK, LookupOK, WaiterOK, ContextOK
  <2> QED BY <1>2, <1>4, <2>2, <2>3, <2>4 DEF RegInv
<1>5. CASE /\ pending[k] # None /\ load' = [load EXCEPT ![pending[k]].queue = Append(@, w)]
           /\ UNCHANGED <<pending, ready, turn>>
  <2>1. PICK l \in LoadId : l = pending[k]
    BY <1>1, <1>2, <1>5
  <2>2. l \in LoadId /\ load[l] # None /\ load[l].dev = d /\ load[l].sid = s
    BY <1>1, <1>2, <1>5, <2>1 DEF PendingOK
  <2>3. load[l] \in Load /\ load' = [load EXCEPT ![l] = [load[l] EXCEPT !.queue = Append(@, w)]]
    BY <1>2, <1>5, <2>1, <2>2
  <2>4. /\ load[l].queue \in Seq(Waiter) /\ Append(load[l].queue, w) \in Seq(Waiter) \ {<<>>}
        /\ \A i \in DOMAIN Append(load[l].queue, w) :
             \/ i \in DOMAIN load[l].queue /\ Append(load[l].queue, w)[i] = load[l].queue[i]
             \/ Append(load[l].queue, w)[i] = w
    BY <2>3 DEF Load
  <2>5. /\ load'[l] \in Load /\ load'[l].queue = Append(load[l].queue, w)
        /\ load'[l].dev = d /\ load'[l].sid = s /\ load'[l].ctx = load[l].ctx
        /\ load'[l].car = load[l].car /\ load'[l].st = load[l].st
    BY <1>2, <2>2, <2>3, <2>4 DEF Load
  <2>6. \A j \in LoadId \ {l} : load'[j] = load[j]
    BY <1>2, <2>2, <2>3
  <2>7. load' \in [LoadId -> Load \cup {None}]
    BY <1>2, <2>3, <2>5
  <2>8. LoadOK'
    <3>1. LookupOK(load[l])
      BY <1>2, <2>2 DEF LoadOK
    <3>2. LookupOK(load[l])'
      <4> DEFINE old == load[l]
                 new == load'[l]
      <4>1. LookupOK(old)
        BY <3>1
      <4>2. /\ new.queue = Append(old.queue, w) /\ new.dev = old.dev /\ new.sid = old.sid
            /\ new.ctx = old.ctx /\ new.car = old.car /\ new.st = old.st
            /\ old.dev = d /\ old.sid = s
        BY <2>2, <2>5
      <4>3. \A i \in DOMAIN Append(old.queue, w) :
              \/ i \in DOMAIN old.queue /\ Append(old.queue, w)[i] = old.queue[i]
              \/ Append(old.queue, w)[i] = w
        BY <2>4
      <4> HIDE DEF old, new
      <4>4. LookupOK(new)
        <5>1. \A i \in DOMAIN new.queue : WaiterOK(new.queue[i], new.dev, new.sid)
          BY <4>1, <4>2, <4>3 DEF LookupOK
        <5> QED BY <4>1, <4>2, <5>1 DEF LookupOK
      <4> QED BY <4>4 DEF LookupOK, ContextOK, new
    <3>3. ASSUME NEW j \in LoadId, load'[j] # None, j # l
          PROVE  LookupOK(load[j])'
      BY <1>2, <2>6, <3>3 DEF LoadOK, LookupOK, ContextOK
    <3> QED BY <3>2, <3>3 DEF LoadOK, LookupOK, ContextOK
  <2>9. PendingOK'
    <3> SUFFICES ASSUME NEW j \in Key, pending[j] # None
                 PROVE  /\ load'[pending[j]] # None
                        /\ load'[pending[j]].dev = j[1] /\ load'[pending[j]].sid = j[2]
      BY <1>5 DEF PendingOK
    <3>1. /\ load[pending[j]] # None /\ pending[j] \in LoadId
          /\ load[pending[j]].dev = j[1] /\ load[pending[j]].sid = j[2]
      BY <1>2 DEF PendingOK
    <3>2. CASE pending[j] = l
      BY <2>2, <2>5, <3>1, <3>2
    <3>3. CASE pending[j] # l
      BY <2>6, <3>1, <3>3
    <3> QED BY <3>2, <3>3
  <2>10. ReadyOK' /\ TurnOK'
    BY <1>2, <1>5 DEF ReadyOK, TurnOK, ContextOK
  <2> QED BY <1>2, <1>5, <2>7, <2>8, <2>9, <2>10 DEF RegInv
<1>6. CASE /\ ready[k] = None /\ pending[k] = None
           /\ \E l \in LoadId :
                /\ load[l] = None
                /\ load' = [load EXCEPT ![l] = NewLoad(d, s, mono, w)]
                /\ pending' = [pending EXCEPT ![k] = l]
           /\ UNCHANGED <<ready, turn>>
  <2>1. PICK l \in LoadId : /\ load[l] = None
                            /\ load' = [load EXCEPT ![l] = NewLoad(d, s, mono, w)]
                            /\ pending' = [pending EXCEPT ![k] = l]
    BY <1>6
  <2>2. NewLoad(d, s, mono, w) \in Load
    BY <1>3 DEF NewLoad, Load
  <2>3. /\ load' \in [LoadId -> Load \cup {None}] /\ pending' \in [Key -> LoadId \cup {None}]
        /\ load'[l] = NewLoad(d, s, mono, w) /\ load'[l] # None
        /\ \A j \in LoadId \ {l} : load'[j] = load[j]
    BY <1>2, <2>1, <2>2
  <2>4. /\ load'[l].queue = <<w>> /\ load'[l].dev = d /\ load'[l].sid = s
        /\ load'[l].ctx = None /\ load'[l].car = None /\ load'[l].st = "findCar"
    BY <2>3 DEF NewLoad
  <2>5. LoadOK'
    <3>1. LookupOK(load[l])'
      BY <1>3, <2>4 DEF LookupOK, WaiterOK
    <3> QED BY <1>2, <2>3, <3>1 DEF LoadOK, LookupOK, ContextOK, WaiterOK
  <2>6. PendingOK'
    <3> SUFFICES ASSUME NEW kk \in Key, pending'[kk] # None
                 PROVE  /\ load'[pending'[kk]] # None
                        /\ load'[pending'[kk]].dev = kk[1] /\ load'[pending'[kk]].sid = kk[2]
      BY DEF PendingOK
    <3>1. CASE kk = k
      BY <1>1, <1>2, <2>1, <2>3, <2>4, <3>1
    <3>2. CASE kk # k
      <4>1. pending'[kk] = pending[kk] /\ pending[kk] \in LoadId /\ pending[kk] # l
        BY <1>2, <2>1, <3>2 DEF PendingOK
      <4> QED BY <1>2, <2>3, <4>1 DEF PendingOK
    <3> QED BY <3>1, <3>2
  <2>7. ReadyOK' /\ TurnOK'
    BY <1>2, <1>6 DEF ReadyOK, TurnOK, ContextOK
  <2> QED BY <1>2, <1>6, <2>3, <2>5, <2>6, <2>7 DEF RegInv
<1> QED BY <1>4, <1>5, <1>6 DEF Resolve, k

LEMMA DeliverStep ==
  ASSUME IngestInv, IngestAssumption, Delivery
  PROVE  IngestInv'
<1> USE NoneAssumption
<1>1. PICK m \in Messages : DeliverFrame(m) \/ DeliverBackfill(m) \/ DeliverStart(m) \/ DeliverStop(m)
  BY DEF Delivery
<1>2. /\ m \in Message /\ m.frames \in Seq(Frame) /\ m.mono \in Int /\ m.dev \in Device /\ m.sid \in Sid
      /\ \A i \in DOMAIN m.frames : m.frames[i].dev = m.dev
      /\ m.kind = "frame" => Len(m.frames) = 1 /\ m.frames[1].sid = m.sid
  BY DEF IngestAssumption, Message
<1>3. Deliver /\ turn = None
  BY <1>1 DEF DeliverFrame, DeliverBackfill, DeliverStart, DeliverStop, Deliver, Idle
<1>4. /\ UNCHANGED <<now, cars, sess, rows, lkv, stops, wrVars, drain, closing, faults, admin>>
      /\ msgs' = msgs + 1
  BY <1>3 DEF Deliver, dbVars, liveVars
<1>5. /\ TypeOK /\ RegInv
      /\ pending \in [Key -> LoadId \cup {None}] /\ ready \in [Key -> Context \cup {None}]
      /\ load \in [LoadId -> Load \cup {None}]
      /\ stop \in [StopId -> Stop \cup {None}]
  BY DEF IngestInv, TypeOK, RegInv
<1>6. SessKept
  BY <1>4 DEF SessKept
<1>7. /\ RegInv'
      /\ pending' \in [Key -> LoadId \cup {None}] /\ ready' \in [Key -> Context \cup {None}]
      /\ load' \in [LoadId -> Load \cup {None}]
      /\ turn' \in [ctx : Context, queue : Seq(Waiter) \ {<<>>}] \cup {None}
  <2>1. CASE UNCHANGED regVars
    <3>1. UNCHANGED <<pending, ready, load, turn>>
      BY <2>1 DEF regVars
    <3>2. \A k \in Key : SlotKept(k)
      BY <3>1 DEF SlotKept
    <3> QED BY <1>3, <1>5, <1>6, <3>1, <3>2, RegFrame
  <2>2. ASSUME NEW mono \in Int, m.kind \in {"frame", "batch", "start"},
               Resolve(m.dev, m.sid, mono, WaiterOf(m))
        PROVE  <1>7!1 /\ <1>7!2 /\ <1>7!3 /\ <1>7!4
    <3>1. WaiterOf(m) \in Waiter /\ WaiterOK(WaiterOf(m), m.dev, m.sid)
      BY <1>2, <2>2 DEF WaiterOf, Waiter, WaiterOK
    <3>2. UNCHANGED sess
      BY <1>4
    <3> QED BY <1>2, <1>3, <2>2, <3>1, <3>2, ResolveRule
  <2>3. CASE DeliverFrame(m) \/ (DeliverBackfill(m) /\ m.frames # <<>>)
    <3>1. m.frames[1] \in Frame
      BY <1>2, <2>3 DEF DeliverFrame
    <3>2. Mono[m.frames[1]] \in Int
      BY <3>1 DEF IngestAssumption
    <3>3. Resolve(m.dev, m.sid, Mono[m.frames[1]], WaiterOf(m)) /\ m.kind \in {"frame", "batch", "start"}
      BY <2>3 DEF DeliverFrame, DeliverBackfill
    <3> QED BY <2>2, <3>2, <3>3
  <2>4. CASE DeliverStart(m)
    <3>1. Resolve(m.dev, m.sid, m.mono, WaiterOf(m)) /\ m.kind \in {"frame", "batch", "start"}
      BY <2>4 DEF DeliverStart
    <3> QED BY <1>2, <2>2, <3>1
  <2>5. CASE DeliverStop(m) \/ (DeliverBackfill(m) /\ m.frames = <<>>)
    BY <2>1, <2>5 DEF DeliverStop, DeliverBackfill
  <2> QED BY <1>1, <2>3, <2>4, <2>5
<1>8. /\ stop' \in [StopId -> Stop \cup {None}]
      /\ \A p \in StopId : stop'[p] = stop[p] \/ (stop'[p] \in Stop /\ stop'[p].pc = "find")
  <2>1. CASE UNCHANGED stop
    BY <1>5, <2>1
  <2>2. ASSUME NEW p \in StopId,
               stop' = [stop EXCEPT ![p] =
                 [ pc |-> "find", dev |-> m.dev, sid |-> m.sid, car |-> None, sess |-> None,
                   ahead |-> 0, cut |-> {} ]]
        PROVE  <1>8!1 /\ <1>8!2
    BY <1>2, <1>5, <2>2 DEF Stop
  <2> QED BY <1>1, <2>1, <2>2 DEF DeliverFrame, DeliverBackfill, DeliverStart, DeliverStop
<1>9. TypeOK'
  BY <1>4, <1>5, <1>7, <1>8 DEF TypeOK, wrVars
<1>10. SamplesOK' /\ CountOK' /\ PromisesOK' /\ TimerArmed'
  <2>1. \A p \in StopId : At(p, "await")' =>
          At(p, "await") /\ stop'[p].cut = stop[p].cut /\ stop'[p].ahead = stop[p].ahead
    BY <1>8 DEF At
  <2> QED BY <1>4, <1>6, <2>1, WriterFrame
<1> QED BY <1>7, <1>9, <1>10 DEF IngestInv, RegInv

(* A crash, and an orderly exit. *)
LEMMA ForgetMemoryStep ==
  ASSUME IngestInv, Crash \/ Exit
  PROVE  IngestInv'
<1> USE NoneAssumption
<1>1. ForgetMemory /\ UNCHANGED <<dbVars, rows, liveVars, lost, closing, msgs, admin>>
  BY DEF Crash, Exit, budgets
<1>2. faults' \in Nat
  <2>1. faults' = faults \/ faults' = faults + 1
    BY DEF Crash, Exit, Fault, budgets
  <2> QED BY <2>1 DEF IngestInv, TypeOK
<1>3. TypeOK'
  <2>1. <<>> \in Seq(SUBSET Sample)
    OBVIOUS
  <2> QED BY <1>1, <1>2, <2>1 DEF IngestInv, TypeOK, ForgetMemory, dbVars, liveVars
<1>4. RegInv'
  BY <1>1 DEF RegInv, ReadyOK, PendingOK, LoadOK, TurnOK, ForgetMemory
<1>5. SamplesOK'
  <2>1. SessKept
    BY <1>1 DEF SessKept, dbVars
  <2>2. Unwritten' = {}
    BY <1>1 DEF ForgetMemory, Unwritten
  <2>3. /\ (rows \cup lost \cup Unwritten)' \subseteq rows \cup lost \cup Unwritten \cup {}
        /\ {} \in SUBSET Sample /\ (\A r \in {} : SampleOK(r))
        /\ \A c \in CarId : lkv'[c] = lkv[c]
    BY <1>1, <2>2 DEF liveVars
  <2> QED BY <2>1, <2>3, SamplesFrame DEF IngestInv
<1>6. PromisesOK' /\ CountOK' /\ TimerArmed'
  BY <1>1 DEF ForgetMemory, PromisesOK, At, CountOK, TimerArmed
<1> QED BY <1>3, <1>4, <1>5, <1>6 DEF IngestInv, RegInv

(* A lookup moves on: its record becomes r, for the same key and the same waiters. *)
LEMMA LoadRule ==
  ASSUME IngestInv, NEW l \in LoadId, load[l] # None, NEW r \in Load,
         load' = [load EXCEPT ![l] = r], UNCHANGED <<pending, ready, turn>>,
         r.dev = load[l].dev, r.sid = load[l].sid, r.queue = load[l].queue,
         r.ctx # None => ContextOK(r.ctx, r.dev, r.sid)',
         r.car # None => CarDevice[r.car] = r.dev,
         r.st \in {"findRow", "insert", "reread"} => r.car # None,
         SessKept, sess' \in [SessionId -> Session \cup {None}], faults' \in Nat, LoadUnchanged
  PROVE  IngestInv'
<1> USE NoneAssumption
<1>1. /\ load \in [LoadId -> Load \cup {None}] /\ ready \in [Key -> Context \cup {None}]
      /\ pending \in [Key -> LoadId \cup {None}]
      /\ ReadyOK /\ PendingOK /\ LoadOK /\ TurnOK
  BY DEF IngestInv, TypeOK
<1>2. /\ load' \in [LoadId -> Load \cup {None}] /\ load'[l] = r
      /\ \A j \in LoadId \ {l} : load'[j] = load[j]
  BY <1>1
<1>3. TypeOK'
  BY <1>2 DEF IngestInv, TypeOK, LoadUnchanged, liveVars, wrVars
<1>4. ReadyOK' /\ TurnOK'
  <2>1. ReadyOK'
    <3> SUFFICES ASSUME NEW k \in Key, ready[k] # None
                 PROVE  ContextOK(ready[k], k[1], k[2])'
      BY DEF ReadyOK
    <3>1. ready[k] \in Context /\ ContextOK(ready[k], k[1], k[2]) /\ ready' = ready
      BY <1>1 DEF ReadyOK
    <3> QED BY <3>1 DEF ContextOK, Context, SessKept
  <2>2. TurnOK'
    BY <1>1 DEF IngestInv, TypeOK, TurnOK, ContextOK, Context, SessKept
  <2> QED BY <2>1, <2>2
<1>5. PendingOK'
  <2> SUFFICES ASSUME NEW j \in Key, pending[j] # None
               PROVE  /\ load'[pending[j]] # None
                      /\ load'[pending[j]].dev = j[1] /\ load'[pending[j]].sid = j[2]
    BY DEF PendingOK
  <2>1. /\ pending[j] \in LoadId
        /\ load[pending[j]].dev = j[1] /\ load[pending[j]].sid = j[2] /\ load[pending[j]] # None
    BY <1>1 DEF PendingOK
  <2>2. CASE pending[j] = l
    BY <1>2, <2>1, <2>2
  <2>3. CASE pending[j] # l
    BY <1>2, <2>1, <2>3
  <2> QED BY <2>2, <2>3
<1>6. LoadOK'
  <2>1. LookupOK(load[l])'
    <3>1. \A i \in DOMAIN r.queue : WaiterOK(r.queue[i], r.dev, r.sid)
      BY <1>1 DEF LoadOK, LookupOK
    <3> QED BY <1>2, <3>1 DEF LookupOK, ContextOK
  <2>2. ASSUME NEW j \in LoadId, load'[j] # None, j # l
        PROVE  LookupOK(load[j])'
    <3>1. load'[j] = load[j] /\ load[j] \in Load /\ LookupOK(load[j])
      BY <1>1, <1>2, <2>2 DEF LoadOK
    <3>2. load[j].ctx # None => load[j].ctx \in Context
      BY <3>1 DEF Load
    <3> QED BY <3>1, <3>2 DEF LookupOK, ContextOK, Context, SessKept
  <2> QED BY <2>1, <2>2 DEF LoadOK, LookupOK, ContextOK
<1>7. SamplesOK' /\ CountOK' /\ PromisesOK' /\ TimerArmed'
  <2>1. /\ UNCHANGED <<wrVars, rows, drain, lkv>> /\ stop' = stop
    BY DEF LoadUnchanged, liveVars
  <2>2. \A p \in StopId : At(p, "await")' =>
          At(p, "await") /\ stop'[p].cut = stop[p].cut /\ stop'[p].ahead = stop[p].ahead
    BY <2>1 DEF At
  <2> QED BY <2>1, <2>2, WriterFrame
<1> QED BY <1>3, <1>4, <1>5, <1>6, <1>7 DEF IngestInv

(* A row found under the sid becomes a context only if it is the car's. *)
LEMMA FoundStep ==
  ASSUME IngestInv, NEW l \in LoadId, load[l] # None, load[l].st \in {"findRow", "reread"},
         NEW x \in RowsOf(load[l].sid), Found(l, x), LoadUnchanged, UNCHANGED <<sess, faults>>
  PROVE  IngestInv'
<1> USE NoneAssumption
<1>1. /\ load \in [LoadId -> Load \cup {None}] /\ load[l] \in Load /\ LookupOK(load[l])
      /\ sess \in [SessionId -> Session \cup {None}] /\ faults \in Nat
  BY DEF IngestInv, TypeOK, LoadOK
<1>2. PICK c : c = FoundContext(x, load[l].car, load[l].mono)
  OBVIOUS
<1>3. x \in SessionId /\ sess[x] \in Session /\ sess[x] # None /\ sess[x].sid = load[l].sid
  BY <1>1 DEF RowsOf, Present
<1>4. /\ c \in Context \cup {None}
      /\ c # None => c.sess = x /\ c.car = load[l].car /\ ContextOK(c, load[l].dev, load[l].sid)
  BY <1>1, <1>2, <1>3 DEF FoundContext, ContextOf, OwnRow, Context, Session, LookupOK, ContextOK
<1>5. PICK r : r = [load[l] EXCEPT !.st = "settle", !.ctx = c]
  OBVIOUS
<1>6. /\ r \in Load /\ r.dev = load[l].dev /\ r.sid = load[l].sid /\ r.queue = load[l].queue
      /\ r.ctx = c /\ r.car = load[l].car /\ r.st = "settle"
  BY <1>1, <1>4, <1>5 DEF Load
<1>7. load' = [load EXCEPT ![l] = r] /\ UNCHANGED <<pending, ready, turn>>
  BY <1>2, <1>5 DEF Found, SetLoad
<1>8. SessKept /\ sess' \in [SessionId -> Session \cup {None}] /\ faults' \in Nat
  BY <1>1 DEF SessKept
<1>9. r.ctx # None => ContextOK(r.ctx, r.dev, r.sid)'
  BY <1>4, <1>6 DEF ContextOK
<1>10. /\ r.car # None => CarDevice[r.car] = r.dev
       /\ r.st \in {"findRow", "insert", "reread"} => r.car # None
  BY <1>1, <1>6 DEF LookupOK
<1> QED BY <1>6, <1>7, <1>8, <1>9, <1>10, LoadRule

(* A lookup moves on with what it knows, or a car of its device, or nothing. *)
LEMMA MoveStep ==
  ASSUME IngestInv, NEW l \in LoadId, load[l] # None, LoadUnchanged, UNCHANGED sess, faults' \in Nat,
         NEW r \in Load, SetLoad(l, r),
         r.dev = load[l].dev, r.sid = load[l].sid, r.queue = load[l].queue,
         r.ctx = load[l].ctx \/ r.ctx = None,
         \/ r.st = "settle" /\ r.car = load[l].car
         \/ r.st \in {"insert", "reread"} /\ r.car = load[l].car /\ load[l].st \in {"findRow", "insert"}
         \/ r.st = "findRow" /\ r.car \in CarsOf(load[l].dev)
  PROVE  IngestInv'
<1> USE NoneAssumption
<1>1. /\ load[l] \in Load /\ LookupOK(load[l])
      /\ sess \in [SessionId -> Session \cup {None}]
  BY DEF IngestInv, TypeOK, LoadOK
<1>2. load' = [load EXCEPT ![l] = r] /\ UNCHANGED <<pending, ready, turn>>
  BY DEF SetLoad
<1>3. SessKept /\ sess' \in [SessionId -> Session \cup {None}]
  BY <1>1 DEF SessKept
<1>4. r.ctx # None => ContextOK(r.ctx, r.dev, r.sid)'
  <2>1. r.ctx # None => ContextOK(r.ctx, r.dev, r.sid)
    BY <1>1 DEF LookupOK
  <2> QED BY <2>1 DEF ContextOK
<1>5. /\ r.car # None => CarDevice[r.car] = r.dev
      /\ r.st \in {"findRow", "insert", "reread"} => r.car # None
  BY <1>1 DEF LookupOK, CarsOf
<1> QED BY <1>2, <1>3, <1>4, <1>5, LoadRule

(* The insert that opens a session. *)
LEMMA OpenStep ==
  ASSUME IngestInv, NEW l \in LoadId, load[l] # None, load[l].st = "insert", NEW x \in SessionId,
         sess[x] = None,
         sess' = [sess EXCEPT ![x] =
                  [ status |-> "LIVE", car |-> load[l].car, sid |-> load[l].sid,
                    anchor |-> load[l].anchor, mono0 |-> load[l].mono, ended |-> 0 ]],
         SetLoad(l, [load[l] EXCEPT !.st = "settle",
                  !.ctx = [ sess |-> x, car |-> load[l].car,
                            anchor |-> load[l].anchor, mono0 |-> load[l].mono ]]),
         LoadUnchanged, UNCHANGED faults
  PROVE  IngestInv'
<1> USE NoneAssumption
<1>1. /\ load[l] \in Load /\ LookupOK(load[l])
      /\ sess \in [SessionId -> Session \cup {None}] /\ faults \in Nat
  BY DEF IngestInv, TypeOK, LoadOK
<1>2. PICK row : row = [ status |-> "LIVE", car |-> load[l].car, sid |-> load[l].sid,
                         anchor |-> load[l].anchor, mono0 |-> load[l].mono, ended |-> 0 ]
  OBVIOUS
<1>3. PICK c : c = [ sess |-> x, car |-> load[l].car,
                     anchor |-> load[l].anchor, mono0 |-> load[l].mono ]
  OBVIOUS
<1>4. PICK r : r = [load[l] EXCEPT !.st = "settle", !.ctx = c]
  OBVIOUS
<1>5. load[l].car \in CarId /\ CarDevice[load[l].car] = load[l].dev
  BY <1>1 DEF LookupOK, Load
<1>6. row \in Session /\ c \in Context /\ row # None
  BY <1>1, <1>2, <1>3, <1>5 DEF Session, Context, Load
<1>7. /\ r \in Load /\ r.dev = load[l].dev /\ r.sid = load[l].sid /\ r.queue = load[l].queue
      /\ r.ctx = c /\ r.car = load[l].car /\ r.st = "settle"
  BY <1>1, <1>4, <1>6 DEF Load
<1>8. load' = [load EXCEPT ![l] = r] /\ UNCHANGED <<pending, ready, turn>>
  BY <1>3, <1>4 DEF SetLoad
<1>9. /\ sess' = [sess EXCEPT ![x] = row]
      /\ SessKept /\ sess' \in [SessionId -> Session \cup {None}] /\ faults' \in Nat
  BY <1>1, <1>2, <1>6 DEF SessKept
<1>10. r.ctx # None => ContextOK(r.ctx, r.dev, r.sid)'
  <2>1. sess'[x] = row
    BY <1>1, <1>9
  <2>2. c.sess = x /\ c.car = row.car /\ c.anchor = row.anchor /\ c.mono0 = row.mono0
        /\ row.sid = load[l].sid /\ row.car = load[l].car
    BY <1>2, <1>3
  <2> QED BY <1>5, <1>6, <1>7, <2>1, <2>2 DEF ContextOK
<1>11. /\ r.car # None => CarDevice[r.car] = r.dev
       /\ r.st \in {"findRow", "insert", "reread"} => r.car # None
  BY <1>5, <1>7
<1> QED BY <1>7, <1>8, <1>9, <1>10, <1>11, LoadRule

LEMMA LookupStep ==
  ASSUME IngestInv, NEW l \in LoadId,
         LoadFindCar(l) \/ LoadFindRow(l) \/ LoadInsert(l) \/ LoadReread(l) \/ LoadFail(l)
  PROVE  IngestInv'
<1> USE NoneAssumption
<1>1. load[l] # None /\ LoadUnchanged
  BY DEF LoadFindCar, LoadFindRow, LoadInsert, LoadReread, LoadFail, LoadAt
<1>2. load[l] \in Load /\ faults \in Nat /\ now \in Int
  BY <1>1 DEF IngestInv, TypeOK
<1>3. ASSUME UNCHANGED sess, faults' \in Nat, NEW st \in {"settle", "reread"},
             st = "reread" => load[l].st = "insert",
             SetLoad(l, [load[l] EXCEPT !.st = st])
      PROVE  IngestInv'
  <2>1. PICK r : r = [load[l] EXCEPT !.st = st]
    OBVIOUS
  <2>2. /\ r \in Load /\ r.dev = load[l].dev /\ r.sid = load[l].sid /\ r.queue = load[l].queue
        /\ r.ctx = load[l].ctx /\ r.car = load[l].car /\ r.st = st /\ SetLoad(l, r)
    BY <1>2, <1>3, <2>1 DEF Load
  <2> QED BY <1>1, <1>3, <2>2, MoveStep
<1>4. CASE LoadFindCar(l)
  <2>1. UNCHANGED sess /\ faults' \in Nat
    BY <1>2, <1>4 DEF LoadFindCar
  <2>2. CASE SetLoad(l, [load[l] EXCEPT !.st = "settle"])
    BY <1>3, <2>1, <2>2
  <2>3. ASSUME NEW c \in CarsOf(load[l].dev), SetLoad(l, [load[l] EXCEPT !.st = "findRow", !.car = c])
        PROVE  IngestInv'
    <3>1. PICK r : r = [load[l] EXCEPT !.st = "findRow", !.car = c]
      OBVIOUS
    <3>2. /\ r \in Load /\ r.dev = load[l].dev /\ r.sid = load[l].sid /\ r.queue = load[l].queue
          /\ r.ctx = load[l].ctx /\ r.car = c /\ r.st = "findRow" /\ SetLoad(l, r)
      BY <1>2, <2>3, <3>1 DEF Load, CarsOf
    <3> QED BY <1>1, <2>1, <3>2, MoveStep
  <2> QED BY <1>4, <2>2, <2>3 DEF LoadFindCar
<1>5. CASE LoadFindRow(l)
  <2>1. UNCHANGED <<sess, faults>> /\ faults' \in Nat /\ load[l].st = "findRow"
    BY <1>2, <1>5 DEF LoadFindRow, LoadAt
  <2>2. ASSUME NEW x \in RowsOf(load[l].sid), Found(l, x)
        PROVE  IngestInv'
    BY <1>1, <2>1, <2>2, FoundStep
  <2>3. CASE SetLoad(l, [load[l] EXCEPT !.st = "insert", !.anchor = now])
    <3>1. PICK r : r = [load[l] EXCEPT !.st = "insert", !.anchor = now]
      OBVIOUS
    <3>2. /\ r \in Load /\ r.dev = load[l].dev /\ r.sid = load[l].sid /\ r.queue = load[l].queue
          /\ r.ctx = load[l].ctx /\ r.car = load[l].car /\ r.st = "insert" /\ SetLoad(l, r)
      BY <1>2, <2>3, <3>1 DEF Load
    <3> QED BY <1>1, <2>1, <3>2, MoveStep
  <2> QED BY <1>5, <2>2, <2>3 DEF LoadFindRow
<1>6. CASE LoadInsert(l)
  <2>1. load[l].st = "insert" /\ UNCHANGED faults /\ faults' \in Nat
    BY <1>2, <1>6 DEF LoadInsert, LoadAt
  <2>2. ASSUME NEW st \in {"settle", "reread"}, SetLoad(l, [load[l] EXCEPT !.st = st]), UNCHANGED sess
        PROVE  IngestInv'
    BY <1>3, <2>1, <2>2
  <2>3. ASSUME NEW x \in SessionId, sess[x] = None,
               sess' = [sess EXCEPT ![x] =
                  [ status |-> "LIVE", car |-> load[l].car, sid |-> load[l].sid,
                    anchor |-> load[l].anchor, mono0 |-> load[l].mono, ended |-> 0 ]],
               SetLoad(l, [load[l] EXCEPT !.st = "settle",
                  !.ctx = [ sess |-> x, car |-> load[l].car,
                            anchor |-> load[l].anchor, mono0 |-> load[l].mono ]])
        PROVE  IngestInv'
    BY <1>1, <2>1, <2>3, OpenStep
  <2> QED BY <1>6, <2>2, <2>3 DEF LoadInsert
<1>7. CASE LoadReread(l)
  <2>1. UNCHANGED <<sess, faults>> /\ faults' \in Nat /\ load[l].st = "reread"
    BY <1>2, <1>7 DEF LoadReread, LoadAt
  <2>2. ASSUME NEW x \in RowsOf(load[l].sid), Found(l, x)
        PROVE  IngestInv'
    BY <1>1, <2>1, <2>2, FoundStep
  <2>3. CASE SetLoad(l, [load[l] EXCEPT !.st = "settle"])
    BY <1>3, <2>1, <2>3
  <2> QED BY <1>7, <2>2, <2>3 DEF LoadReread
<1>8. CASE LoadFail(l)
  <2>1. PICK r : r = [load[l] EXCEPT !.st = "settle", !.ctx = None]
    OBVIOUS
  <2>2. /\ r \in Load /\ r.dev = load[l].dev /\ r.sid = load[l].sid /\ r.queue = load[l].queue
        /\ r.ctx = None /\ r.car = load[l].car /\ r.st = "settle"
    BY <1>2, <2>1 DEF Load
  <2>3. SetLoad(l, r) /\ UNCHANGED sess /\ faults' \in Nat
    BY <1>2, <1>8, <2>1 DEF LoadFail, Fault
  <2> QED BY <1>1, <2>2, <2>3, MoveStep
<1> QED BY <1>4, <1>5, <1>6, <1>7, <1>8

(* The promise settles: its slot keeps a context, or forgets; its waiters go on with it. *)
LEMMA SettleStep ==
  ASSUME IngestInv, NEW l \in LoadId, Settle(l)
  PROVE  IngestInv'
<1> USE NoneAssumption
<1>1. /\ load \in [LoadId -> Load \cup {None}] /\ ready \in [Key -> Context \cup {None}]
      /\ pending \in [Key -> LoadId \cup {None}]
      /\ ReadyOK /\ PendingOK /\ LoadOK /\ TurnOK
  BY DEF IngestInv, TypeOK
<1>2. load[l] # None /\ LoadUnchanged /\ UNCHANGED <<sess, faults>> /\ load' = [load EXCEPT ![l] = None]
  BY DEF Settle, LoadAt
<1>3. load[l] \in Load /\ LookupOK(load[l])
  BY <1>1, <1>2 DEF LoadOK
<1>4. PICK k \in Key : k = <<load[l].dev, load[l].sid>> /\ k[1] = load[l].dev /\ k[2] = load[l].sid
  <2>1. <<load[l].dev, load[l].sid>> \in Key
    BY <1>3 DEF Load, Key
  <2> QED BY <2>1
<1>5. load' \in [LoadId -> Load \cup {None}] /\ load'[l] = None /\ \A j \in LoadId \ {l} : load'[j] = load[j]
  BY <1>1, <1>2
<1>6. \A j \in Key : pending[j] = l => j = k
  BY <1>1, <1>4 DEF PendingOK, Key
<1>7. /\ pending' \in [Key -> LoadId \cup {None}] /\ ready' \in [Key -> Context \cup {None}]
      /\ pending'[k] # l
      /\ \A j \in Key : pending'[j] = pending[j] \/ pending'[j] = None
      /\ \A j \in Key : \/ ready'[j] = ready[j] \/ ready'[j] = None
                        \/ j = k /\ ready'[j] = load[l].ctx
  <2>1. \/ Forget(k)
        \/ /\ pending' = [pending EXCEPT ![k] = None] /\ ready' = [ready EXCEPT ![k] = load[l].ctx]
        \/ pending[k] # l /\ UNCHANGED <<pending, ready>>
    BY <1>4 DEF Settle
  <2>2. load[l].ctx \in Context \cup {None}
    BY <1>3 DEF Load
  <2> QED BY <1>1, <2>1, <2>2 DEF Forget
<1>8. \/ turn' = turn
      \/ /\ load[l].ctx # None
         /\ turn' = [ctx |-> load[l].ctx, queue |-> load[l].queue]
  BY DEF Settle
<1>9. turn' \in [ctx : Context, queue : Seq(Waiter) \ {<<>>}] \cup {None}
  BY <1>3, <1>8 DEF IngestInv, TypeOK, Load
<1>10. TypeOK'
  BY <1>2, <1>5, <1>7, <1>9 DEF IngestInv, TypeOK, LoadUnchanged, liveVars, wrVars
<1>11. ReadyOK'
  <2> SUFFICES ASSUME NEW j \in Key, ready'[j] # None
               PROVE  ContextOK(ready[j], j[1], j[2])'
    BY DEF ReadyOK
  <2>1. CASE ready'[j] = ready[j]
    BY <1>1, <1>2, <2>1 DEF ReadyOK, ContextOK
  <2>2. CASE j = k /\ ready'[j] = load[l].ctx
    BY <1>2, <1>3, <1>4, <2>2 DEF LookupOK, ContextOK
  <2> QED BY <1>7, <2>1, <2>2
<1>12. PendingOK'
  <2> SUFFICES ASSUME NEW j \in Key, pending'[j] # None
               PROVE  /\ load'[pending'[j]] # None
                      /\ load'[pending'[j]].dev = j[1] /\ load'[pending'[j]].sid = j[2]
    BY DEF PendingOK
  <2>1. pending'[j] = pending[j] /\ pending[j] \in LoadId /\ pending[j] # l
    BY <1>1, <1>6, <1>7
  <2> QED BY <1>1, <1>5, <2>1 DEF PendingOK
<1>13. LoadOK'
  <2> SUFFICES ASSUME NEW j \in LoadId, load'[j] # None
               PROVE  LookupOK(load[j])'
    BY DEF LoadOK
  <2>1. load'[j] = load[j] /\ LookupOK(load[j])
    BY <1>1, <1>5 DEF LoadOK
  <2> QED BY <1>2, <2>1 DEF LookupOK, ContextOK
<1>14. TurnOK'
  <2>1. CASE turn' = turn
    BY <1>1, <1>2, <2>1 DEF TurnOK, ContextOK
  <2>2. CASE load[l].ctx # None /\ turn' = [ctx |-> load[l].ctx, queue |-> load[l].queue]
    <3>1. /\ turn'.ctx = load[l].ctx /\ turn'.queue = load[l].queue
          /\ ContextOK(load[l].ctx, load[l].dev, load[l].sid)
          /\ \A i \in DOMAIN load[l].queue : WaiterOK(load[l].queue[i], load[l].dev, load[l].sid)
      BY <1>3, <2>2 DEF LookupOK
    <3> QED BY <1>2, <3>1 DEF TurnOK, ContextOK
  <2> QED BY <1>8, <2>1, <2>2
<1>15. SamplesOK' /\ CountOK' /\ PromisesOK' /\ TimerArmed'
  <2>1. /\ UNCHANGED <<wrVars, rows, drain, lkv>> /\ stop' = stop
    BY <1>2 DEF LoadUnchanged, liveVars
  <2>2. \A p \in StopId : At(p, "await")' =>
          At(p, "await") /\ stop'[p].cut = stop[p].cut /\ stop'[p].ahead = stop[p].ahead
    BY <2>1 DEF At
  <2>3. SessKept
    BY <1>2 DEF SessKept
  <2> QED BY <2>1, <2>2, <2>3, WriterFrame
<1> QED BY <1>10, <1>11, <1>12, <1>13, <1>14, <1>15 DEF IngestInv

LEMMA SweepStep ==
  ASSUME IngestInv, NEW k \in Key, Sweep(k)
  PROVE  IngestInv'
<1> USE NoneAssumption
<1>1. Forget(k) /\ LoadUnchanged /\ UNCHANGED <<sess, faults, load, turn>>
  BY DEF Sweep
<1>2. /\ pending \in [Key -> LoadId \cup {None}] /\ ready \in [Key -> Context \cup {None}]
  BY DEF IngestInv, TypeOK
<1>3. /\ pending' \in [Key -> LoadId \cup {None}] /\ ready' \in [Key -> Context \cup {None}]
      /\ \A j \in Key : SlotKept(j)
  BY <1>1, <1>2 DEF Forget, SlotKept
<1>4. SessKept
  BY <1>1 DEF SessKept
<1>5. TypeOK'
  BY <1>1, <1>3 DEF IngestInv, TypeOK, LoadUnchanged, liveVars, wrVars
<1>6. RegInv'
  BY <1>1, <1>3, <1>4, RegFrame DEF RegInv, IngestInv
<1>7. SamplesOK' /\ CountOK' /\ PromisesOK' /\ TimerArmed'
  <2>1. UNCHANGED <<wrVars, rows, drain, lkv>> /\ stop' = stop
    BY <1>1 DEF LoadUnchanged, liveVars
  <2>2. \A p \in StopId : At(p, "await")' =>
          At(p, "await") /\ stop'[p].cut = stop[p].cut /\ stop'[p].ahead = stop[p].ahead
    BY <2>1 DEF At
  <2> QED BY <1>4, <2>1, <2>2, WriterFrame
<1> QED BY <1>5, <1>6, <1>7 DEF IngestInv, RegInv

LEMMA IngestInit ==
  ASSUME Init
  PROVE  IngestInv
<1>1. TypeOK
  <2>1. cars \in [CarId -> {"unregistered", "registered", "deleted"}]
    BY DEF Init
  <2>2. <<>> \in Seq(SUBSET Sample)
    OBVIOUS
  <2>3. /\ sess \in [SessionId -> Session \cup {None}] /\ lkv \in [CarId -> Sample \cup {None}]
        /\ pending \in [Key -> LoadId \cup {None}] /\ ready \in [Key -> Context \cup {None}]
        /\ load \in [LoadId -> Load \cup {None}] /\ stop \in [StopId -> Stop \cup {None}]
        /\ stops \in [SessionId -> Nat] /\ closing \in [CloseId -> SessionId \cup {None}]
    BY DEF Init
  <2>4. turn = None /\ drain = None /\ wq = <<>> /\ rows = {} /\ lost = {} /\ buffer = {}
    BY DEF Init
  <2>5. timer \in BOOLEAN
    <3>1. timer = FALSE
      BY DEF Init
    <3> QED BY <3>1
  <2>6. now \in Int /\ count \in Nat /\ msgs \in Nat /\ faults \in Nat /\ admin \in Nat
    <3>1. now = 0 /\ count = 0 /\ msgs = 0 /\ faults = 0 /\ admin = 0
      BY DEF Init
    <3> QED BY <3>1
  <2> QED BY <2>1, <2>2, <2>3, <2>4, <2>5, <2>6 DEF TypeOK
<1>2. ReadyOK /\ PendingOK /\ LoadOK /\ TurnOK
  BY DEF Init, ReadyOK, PendingOK, LoadOK, TurnOK
<1>3. Unwritten = {}
  BY DEF Init, Unwritten
<1>4. SamplesOK /\ CountOK /\ PromisesOK /\ TimerArmed
  BY <1>3 DEF Init, SamplesOK, CountOK, PromisesOK, At, TimerArmed
<1> QED BY <1>1, <1>2, <1>4 DEF IngestInv

LEMMA StutterStep ==
  ASSUME IngestInv, UNCHANGED vars
  PROVE  IngestInv'
<1> USE DEF vars, dbVars, liveVars, regVars, wrVars, budgets
<1>1. TypeOK' /\ ReadyOK' /\ PendingOK' /\ LoadOK' /\ TurnOK'
  BY DEF IngestInv, TypeOK, ReadyOK, PendingOK, LoadOK, TurnOK, LookupOK, ContextOK
<1>2. SamplesOK' /\ CountOK' /\ PromisesOK' /\ TimerArmed'
  BY DEF IngestInv, SamplesOK, SampleOK, Unwritten, CountOK, PromisesOK, Awaits, At, TimerArmed
<1> QED BY <1>1, <1>2 DEF IngestInv

LEMMA IngestStep ==
  ASSUME IngestInv, [Next]_vars
  PROVE  IngestInv'
<1>1. CASE Continue
  BY <1>1, IngestAssumption, ContinueStep, StopForgetStep DEF Continue
<1>2. CASE Environment
  BY <1>2, EnvironmentStep
<1>3. CASE Process
  <2>1. CASE Delivery
    BY <2>1, IngestAssumption, DeliverStep
  <2>2. ASSUME NEW l \in LoadId, LoadStep(l) \/ LoadFail(l)
        PROVE  IngestInv'
    BY <2>2, LookupStep, SettleStep DEF LoadStep
  <2>3. ASSUME NEW p \in StopId, StopStep(p) \/ StopFails(p)
        PROVE  IngestInv'
    BY <2>3, StopQueryStep, StopForgetStep, FlushStep DEF StopStep
  <2>4. ASSUME NEW k \in Key, Sweep(k)
        PROVE  IngestInv'
    BY <2>4, SweepStep
  <2>5. CASE TimerFires \/ Shutdown
    BY <2>5, FlushStep
  <2>6. CASE WriteDone \/ WriteFails
    BY <2>6, IngestAssumption, WriteStep
  <2>7. CASE Crash \/ Exit
    BY <2>7, ForgetMemoryStep
  <2> QED BY <1>3, <2>1, <2>2, <2>3, <2>4, <2>5, <2>6, <2>7 DEF Process
<1>4. CASE UNCHANGED vars
  BY <1>4, StutterStep
<1> QED BY <1>1, <1>2, <1>3, <1>4 DEF Next

(* The invariant of the ingest process holds in every reachable state, for any devices,
   runs and messages, any number of cars, sessions, lookups and handlers in flight, and
   any number of crashes and failed queries. *)
THEOREM IngestInvariant == Spec => []IngestInv
<1>1. Init => IngestInv
  BY IngestInit
<1>2. IngestInv /\ [Next]_vars => IngestInv'
  BY IngestStep
<1> QED BY <1>1, <1>2, PTL DEF Spec

-----------------------------------------------------------------------------
(* State properties: each one is a consequence of the invariant. *)

LEMMA SamplesTyped ==
  ASSUME IngestInv
  PROVE  /\ rows \subseteq Sample /\ lost \subseteq Sample /\ Unwritten \subseteq Sample
         /\ \A r \in rows \cup lost \cup Unwritten : SampleOK(r)
         /\ \A c \in CarId : lkv[c] # None => lkv[c] \in Sample /\ lkv[c].car = c /\ SampleOK(lkv[c])
BY DEF IngestInv, TypeOK, SamplesOK, Unwritten

LEMMA ImpliesOneRow ==
  ASSUME IngestInv, IngestAssumption
  PROVE  OneRowPerFrame
<1>1. TypeOK
  BY DEF IngestInv
<1> QED BY <1>1, SamplesTyped, SameKeySameSample DEF OneRowPerFrame

LEMMA ImpliesAttributed ==
  ASSUME IngestInv
  PROVE  Attributed
<1>1. \A r \in Sample : SampleOK(r) => CarDevice[r.car] = r.frame.dev /\ sess[r.sess].car = r.car
  BY DEF SampleOK
<1>2. \A c \in CarId : lkv[c] # None => lkv[c] \in Sample /\ SampleOK(lkv[c])
  BY SamplesTyped
<1> QED BY <1>1, <1>2, SamplesTyped DEF Attributed

LEMMA ImpliesLiveIsStored ==
  ASSUME IngestInv, IngestAssumption
  PROVE  LiveIsStored
<1>1. TypeOK
  BY DEF IngestInv
<1> SUFFICES ASSUME NEW c \in CarId, lkv[c] # None
             PROVE  /\ lkv[c].car = c
                    /\ \A r \in rows : r.sess = lkv[c].sess /\ r.seq = lkv[c].seq => r = lkv[c]
  BY DEF LiveIsStored
<1>2. lkv[c] \in Sample /\ lkv[c].car = c /\ SampleOK(lkv[c])
  BY SamplesTyped
<1> QED BY <1>1, <1>2, SamplesTyped, SameKeySameSample

LEMMA ImpliesFlushAwaited ==
  ASSUME IngestInv
  PROVE  FlushAwaited
<1>1. PromisesOK
  BY DEF IngestInv
<1>2. ASSUME NEW cut, Awaits(cut, 0)
      PROVE  cut \subseteq rows \cup lost
  BY <1>2 DEF Awaits
<1>3. \A p \in StopId : Resumed(p) => stop[p].cut \subseteq rows \cup lost
  BY <1>1, <1>2 DEF PromisesOK, Resumed
<1>4. drain # None /\ drain.ahead = 0 => drain.cut \subseteq rows \cup lost
  BY <1>1, <1>2 DEF PromisesOK
<1> QED BY <1>3, <1>4 DEF FlushAwaited

(* Every variable of the process keeps to the states the code can put it in. *)
THEOREM IngestTyped == Spec => []TypeOK
<1>1. IngestInv => TypeOK
  BY DEF IngestInv
<1> QED BY <1>1, IngestInvariant, PTL

(* A buffered sample always has a timer armed to flush it. *)
THEOREM FlushIsScheduled == Spec => []TimerArmed
<1>1. IngestInv => TimerArmed
  BY DEF IngestInv
<1> QED BY <1>1, IngestInvariant, PTL

(* However often a frame is sent, replayed or inserted, and through however many
   restarts, the table holds one row of it per run. *)
THEOREM OneRowAlways == Spec => []OneRowPerFrame
<1>1. IngestInv => OneRowPerFrame
  BY ImpliesOneRow, IngestAssumption
<1> QED BY <1>1, IngestInvariant, PTL

(* No sample is ever stored, buffered or shown under a car or a session that is not
   its publisher's, whatever sids the devices present. *)
THEOREM AttributedAlways == Spec => []Attributed
<1>1. IngestInv => Attributed
  BY ImpliesAttributed
<1> QED BY <1>1, IngestInvariant, PTL

(* What viewers are seeded with never disagrees with what is stored. *)
THEOREM LiveIsStoredAlways == Spec => []LiveIsStored
<1>1. IngestInv => LiveIsStored
  BY ImpliesLiveIsStored, IngestAssumption
<1> QED BY <1>1, IngestInvariant, PTL

(* Whoever awaits the promise of flush() finds its samples in the table or failed. *)
THEOREM FlushAwaitedAlways == Spec => []FlushAwaited
<1>1. IngestInv => FlushAwaited
  BY ImpliesFlushAwaited
<1> QED BY <1>1, IngestInvariant, PTL

-----------------------------------------------------------------------------
(* Steps of the writer. *)

(* A continuation of a frame or a batch enqueues samples of its context. *)
LEMMA ContinueEnqueues ==
  ASSUME IngestInv, ContinueFrame \/ ContinueBatch
  PROVE  \E S \in SUBSET Sample, n \in Nat : (n = 0 => S = {}) /\ Enqueue(S, n)
<1> DEFINE w == Head(turn.queue)
           c == turn.ctx
<1>1. TypeOK /\ turn # None
  BY DEF IngestInv, ContinueFrame, ContinueBatch
<1>2. /\ c \in Context /\ w \in Waiter
      /\ ContextOK(c, CarDevice[c.car], sess[c.sess].sid)
      /\ WaiterOK(w, CarDevice[c.car], sess[c.sess].sid)
  BY <1>1, HeadWaiter
<1>3. w.frames \in Seq(Frame)
  BY <1>2 DEF Waiter
<1>4. CASE ContinueFrame
  <2> DEFINE s == ToSample(c, w.frames[1])
  <2>1. Enqueue({s}, 1) /\ w.kind = "frame"
    BY <1>4 DEF ContinueFrame
  <2>2. /\ w.frames[1] \in Frame
        /\ w.frames[1].dev = CarDevice[c.car] /\ w.frames[1].sid = sess[c.sess].sid
    BY <1>2, <1>3, <2>1 DEF WaiterOK
  <2> HIDE DEF c, w
  <2>3. s \in Sample
    BY <1>1, <1>2, <2>2, SampleBuilt, IngestAssumption
  <2> HIDE DEF s
  <2>4. {s} \in SUBSET Sample /\ 1 \in Nat /\ (1 = 0 => {s} = {})
    BY <2>3
  <2> QED BY <2>1, <2>4
<1>5. CASE ContinueBatch
  <2> DEFINE own == OwnFrames(w)
             S == {ToSample(c, w.frames[i]) : i \in own}
             n == Cardinality(own)
  <2>1. Enqueue(S, n)
    BY <1>5 DEF ContinueBatch
  <2>2. /\ own \subseteq DOMAIN w.frames
        /\ \A i \in own : w.frames[i].sid = sess[c.sess].sid /\ w.frames[i].dev = CarDevice[c.car]
    BY <1>2 DEF OwnFrames, WaiterOK
  <2>3. \A i \in own : w.frames[i] \in Frame
    BY <1>3, <2>2
  <2>4. n \in Nat /\ (n = 0 => own = {})
    <3>1. IsFiniteSet(1..Len(w.frames)) /\ DOMAIN w.frames = 1..Len(w.frames)
      BY <1>3, FS_Interval
    <3>2. IsFiniteSet(own)
      BY <2>2, <3>1, FS_Subset
    <3> QED BY <3>2, FS_CardinalityType, FS_EmptySet
  <2> HIDE DEF c, w, own
  <2>5. \A i \in own : ToSample(c, w.frames[i]) \in Sample
    BY <1>1, <1>2, <2>2, <2>3, SampleBuilt, IngestAssumption
  <2>6. S \in SUBSET Sample /\ (n = 0 => S = {})
    BY <2>4, <2>5
  <2> HIDE DEF S, n
  <2> QED BY <2>1, <2>4, <2>6
<1> QED BY <1>4, <1>5

(* A batch whose insert returns is in the table, and the others keep their place. *)
LEMMA BatchWritten ==
  ASSUME IngestInv, WriteDone \/ WriteFails
  PROVE  /\ Head(wq) \subseteq Sample /\ Head(wq) \subseteq Unwritten
         /\ WriteDone => rows' = rows \cup Head(wq)
         /\ Unwritten \subseteq Unwritten' \cup Head(wq)
<1>1. /\ wq \in Seq(SUBSET Sample) /\ wq # <<>> /\ wq' = Tail(wq) /\ buffer' = buffer
      /\ TypeOK /\ rows \in SUBSET Sample
  BY DEF IngestInv, TypeOK, WriteDone, WriteFails, BatchLeaves
<1>2. /\ DOMAIN wq = 1..Len(wq) /\ DOMAIN wq' = 1..(Len(wq) - 1) /\ Len(wq) \in Nat
      /\ Head(wq) = wq[1] /\ 1 \in DOMAIN wq
      /\ \A i \in DOMAIN wq' : wq'[i] = wq[i + 1]
      /\ Head(wq) \in SUBSET Sample
  BY <1>1
<1>3. Head(wq) \subseteq Unwritten
  BY <1>2 DEF Unwritten
<1>4. WriteDone => rows' = rows \cup Head(wq)
  <2>1. \A r \in rows \cup Head(wq) : SampleOK(r)
    BY <1>3, SamplesTyped
  <2>2. InsertIgnoring(rows, Head(wq)) = rows \cup Head(wq)
    BY <1>1, <1>2, <2>1, Inserted, IngestAssumption
  <2> QED BY <2>2 DEF WriteDone
<1>5. Unwritten \subseteq Unwritten' \cup Head(wq)
  <2>1. ASSUME NEW i \in DOMAIN wq, i # 1
        PROVE  i - 1 \in DOMAIN wq' /\ wq'[i - 1] = wq[i]
    BY <1>2, <2>1
  <2>2. \A r, i : i \in DOMAIN wq /\ r \in wq[i] => r \in Head(wq) \/ \E j \in DOMAIN wq' : r \in wq'[j]
    BY <1>2, <2>1
  <2> QED BY <1>1, <2>2 DEF Unwritten
<1> QED BY <1>2, <1>3, <1>4, <1>5

LEMMA FlushKeeps ==
  ASSUME IngestInv, TimerFires \/ (\E p \in StopId : StopFlush(p)) \/ Shutdown
  PROVE  Unwritten \subseteq Unwritten'
<1>1. Flush(buffer, count) /\ TypeOK /\ CountOK
  BY DEF IngestInv, TimerFires, StopFlush, Shutdown
<1>2. {} \in SUBSET Sample /\ 0 \in Nat
  OBVIOUS
<1>3. count + 0 = count /\ buffer \cup {} = buffer
  BY <1>1 DEF TypeOK
<1>4. wq' \in Seq(SUBSET Sample) /\ \A r \in Unwritten \cup {} : \E i \in 1..Len(wq') : r \in wq'[i]
  <2>1. count + 0 = 0 => buffer \cup {} = {}
    BY <1>1, <1>3 DEF CountOK
  <2>2. Flush(buffer \cup {}, count + 0)
    BY <1>1, <1>3
  <2> HIDE DEF IngestInv
  <2> QED BY <1>1, <1>2, <2>1, <2>2, Flushed
<1> QED BY <1>4, SMTT(60) DEF Unwritten

(* The rest leaves the writer and the table alone. *)
Others ==
  \/ ContinueStart
  \/ \E p \in StopId : StopAnnounce(p) \/ StopFind(p) \/ StopClose(p) \/ StopReread(p)
                       \/ StopForget(p) \/ StopFails(p)
  \/ Delivery
  \/ \E l \in LoadId : LoadStep(l) \/ LoadFail(l)
  \/ \E k \in Key : Sweep(k)
  \/ Environment

LEMMA OthersFrame ==
  ASSUME Others
  PROVE  UNCHANGED <<wrVars, rows>>
<1>1. CASE ContinueStart
  BY <1>1 DEF ContinueStart, ContinueUnchanged
<1>2. ASSUME NEW p \in StopId,
             StopAnnounce(p) \/ StopFind(p) \/ StopClose(p) \/ StopReread(p) \/ StopForget(p) \/ StopFails(p)
      PROVE  UNCHANGED <<wrVars, rows>>
  BY <1>2 DEF StopAnnounce, StopFind, StopClose, StopReread, StopForget, StopFails, StopUnchanged
<1>3. CASE Delivery
  BY <1>3 DEF Delivery, DeliverFrame, DeliverBackfill, DeliverStart, DeliverStop, Deliver
<1>4. ASSUME NEW l \in LoadId, LoadStep(l) \/ LoadFail(l)
      PROVE  UNCHANGED <<wrVars, rows>>
  BY <1>4 DEF LoadStep, LoadFindCar, LoadFindRow, LoadInsert, LoadReread, Settle, LoadFail, LoadUnchanged
<1>5. ASSUME NEW k \in Key, Sweep(k)
      PROVE  UNCHANGED <<wrVars, rows>>
  BY <1>5 DEF Sweep, LoadUnchanged
<1>6. CASE Environment
  BY <1>6 DEF Environment, RegisterCar, DeleteCar, LkvExpires, DeleteSession, CloseUpdate, CloseCheck,
              Tick, ApiUnchanged
<1> QED BY <1>1, <1>2, <1>3, <1>4, <1>5, <1>6 DEF Others

LEMMA NextCases ==
  ASSUME Next
  PROVE  \/ ContinueFrame \/ ContinueBatch \/ WriteDone \/ WriteFails \/ Crash \/ Exit
         \/ (TimerFires \/ (\E p \in StopId : StopFlush(p)) \/ Shutdown)
         \/ Others
BY DEF Next, Continue, Process, StopStep, Others

(* An accepted sample leaves the writer only into the table, with a failed insert, or
   with the process. *)
THEOREM NothingVanishesAlways == Spec => NothingVanishes
<1>1. ASSUME IngestInv, [Next]_vars
      PROVE  Crash \/ Exit \/ Unwritten \subseteq Unwritten' \cup rows' \cup lost' \/ UNCHANGED vars
  <2>1. CASE ContinueFrame \/ ContinueBatch
    <3>1. PICK S \in SUBSET Sample, n \in Nat : (n = 0 => S = {}) /\ Enqueue(S, n)
      BY <1>1, <2>1, ContinueEnqueues
    <3>2. TypeOK /\ CountOK /\ TimerArmed
      BY <1>1 DEF IngestInv
    <3>3. Unwritten \subseteq Unwritten'
      BY <3>1, <3>2, Enqueued, IngestAssumption
    <3> QED BY <3>3
  <2>2. CASE WriteDone \/ WriteFails
    <3>1. Head(wq) \subseteq rows' \cup lost'
      BY <1>1, <2>2, BatchWritten DEF WriteFails
    <3> QED BY <1>1, <2>2, <3>1, BatchWritten
  <2>3. CASE TimerFires \/ (\E p \in StopId : StopFlush(p)) \/ Shutdown
    BY <1>1, <2>3, FlushKeeps
  <2>4. CASE Others
    BY <2>4, OthersFrame DEF Unwritten, wrVars
  <2>5. CASE UNCHANGED vars
    BY <2>5
  <2> QED BY <1>1, <2>1, <2>2, <2>3, <2>4, <2>5, NextCases
<1>2. IngestInv /\ [Next]_vars =>
        [Crash \/ Exit \/ Unwritten \subseteq Unwritten' \cup rows' \cup lost']_vars
  BY <1>1
<1> QED BY <1>2, IngestInvariant, PTL DEF Spec, NothingVanishes

-----------------------------------------------------------------------------
(* The refinement of RunStore. *)

(* The runs a reader of the store sees. *)
Runs == [x \in SessionId |-> RunOf(x)]

LEMMA RunTyped ==
  ASSUME IngestInv
  PROVE  \A x \in SessionId : sess[x] # None => RunOf(x) \in Run /\ RunOf(x) # None
<1> SUFFICES ASSUME NEW x \in SessionId, sess[x] # None
             PROVE  RunOf(x) \in Run
  BY NoneAssumption
<1>1. sess[x] \in Session /\ CarDevice \in [CarId -> Device]
  BY IngestAssumption DEF IngestInv, TypeOK, IngestAssumption
<1> QED BY <1>1 DEF RunOf, Run, Session

(* Once opened, a run is the same in every state. *)
LEMMA RunKept ==
  ASSUME SessKept, NEW x \in SessionId, sess[x] # None
  PROVE  RunOf(x)' = RunOf(x)
BY DEF SessKept, RunOf

LEMMA RunsKept ==
  ASSUME SessKept, \A x \in SessionId : sess[x] = None => sess'[x] = None
  PROVE  Runs' = Runs
<1>1. \A x \in SessionId : RunOf(x)' = RunOf(x)
  BY RunKept DEF RunOf
<1> QED BY <1>1 DEF Runs

(* A row that has no session keeps none while the tables are edited. *)
LEMMA EditedKept ==
  ASSUME sess \in [SessionId -> Session \cup {None}], now \in Int,
         sess' = [x \in SessionId |-> sess'[x]],
         \A x \in SessionId :
           \/ sess'[x] = sess[x]
           \/ sess[x] # None /\ sess'[x] = [sess[x] EXCEPT !.status = "deleted"]
           \/ sess[x] # None /\ sess'[x] = [sess[x] EXCEPT !.status = "COMPLETED", !.ended = now]
  PROVE  Runs' = Runs
<1>1. SessKept
  BY SessionsEdited
<1> QED BY <1>1, RunsKept

(* A step opens one run, which was not open, or leaves all of them as they are. *)
Opens(l, x) ==
  /\ sess[x] = None
  /\ sess' = [sess EXCEPT ![x] =
       [ status |-> "LIVE", car |-> load[l].car, sid |-> load[l].sid,
         anchor |-> load[l].anchor, mono0 |-> load[l].mono, ended |-> 0 ]]

LEMMA SessCases ==
  ASSUME IngestInv, Next
  PROVE  \/ UNCHANGED sess
         \/ \E l \in LoadId, x \in SessionId : Opens(l, x) /\ LoadInsert(l) /\ load[l].st = "insert"
         \/ Runs' = Runs
<1>1. sess \in [SessionId -> Session \cup {None}] /\ now \in Int
  BY DEF IngestInv, TypeOK
<1>2. CASE \E l \in LoadId : LoadInsert(l)
  BY <1>2 DEF LoadInsert, LoadAt, Opens
<1>3. CASE \E p \in StopId : StopClose(p)
  <2>1. \/ UNCHANGED sess
        \/ \E x \in SessionId : sess[x] # None /\ sess' = Closed(x)
    BY <1>3 DEF StopClose, Closable, RowsOf, Present
  <2>2. ASSUME NEW x \in SessionId, sess[x] # None, sess' = Closed(x)
        PROVE  Runs' = Runs
    <3>1. /\ sess' = [y \in SessionId |-> sess'[y]]
          /\ \A y \in SessionId : sess'[y] = sess[y] \/
               (sess[y] # None /\ sess'[y] = [sess[y] EXCEPT !.status = "COMPLETED", !.ended = now])
      BY <1>1, <2>2 DEF Closed
    <3> QED BY <1>1, <3>1, EditedKept
  <2> QED BY <2>1, <2>2
<1>4. CASE Environment
  <2>1. ASSUME NEW c \in CarId, DeleteCar(c)
        PROVE  Runs' = Runs
    <3>1. /\ sess' = [y \in SessionId |-> sess'[y]]
          /\ \A y \in SessionId : sess'[y] = sess[y] \/
               (sess[y] # None /\ sess'[y] = [sess[y] EXCEPT !.status = "deleted"])
      BY <1>1, <2>1 DEF DeleteCar, Present
    <3> QED BY <1>1, <3>1, EditedKept
  <2>2. ASSUME NEW x \in SessionId, DeleteSession(x)
        PROVE  Runs' = Runs
    <3>1. /\ sess' = [y \in SessionId |-> sess'[y]]
          /\ \A y \in SessionId : sess'[y] = sess[y] \/
               (sess[y] # None /\ sess'[y] = [sess[y] EXCEPT !.status = "deleted"])
      BY <1>1, <2>2 DEF DeleteSession, Present
    <3> QED BY <1>1, <3>1, EditedKept
  <2>3. ASSUME NEW q \in CloseId, CloseUpdate(q)
        PROVE  Runs' = Runs \/ UNCHANGED sess
    <3>1. closing[q] \in SessionId
      BY <2>3 DEF IngestInv, TypeOK, CloseUpdate
    <3>2. CASE Present(closing[q])
      <4>1. /\ sess' = [y \in SessionId |-> sess'[y]]
            /\ \A y \in SessionId : sess'[y] = sess[y] \/
                 (sess[y] # None /\ sess'[y] = [sess[y] EXCEPT !.status = "COMPLETED", !.ended = now])
        BY <1>1, <2>3, <3>1, <3>2 DEF CloseUpdate, Closed, Present
      <4> QED BY <1>1, <4>1, EditedKept
    <3> QED BY <2>3, <3>2 DEF CloseUpdate
  <2>4. (\E c \in CarId : RegisterCar(c) \/ LkvExpires(c)) \/ Tick
          \/ (\E q \in CloseId, x \in SessionId : CloseCheck(q, x)) => UNCHANGED sess
    BY DEF RegisterCar, LkvExpires, Tick, CloseCheck, dbVars
  <2> QED BY <1>4, <2>1, <2>2, <2>3, <2>4 DEF Environment
<1>5. CASE Continue
  BY <1>5 DEF Continue, ContinueFrame, ContinueBatch, ContinueStart, ContinueUnchanged, StopAnnounce, dbVars
<1>6. CASE Delivery
  BY <1>6 DEF Delivery, DeliverFrame, DeliverBackfill, DeliverStart, DeliverStop, Deliver, dbVars
<1>7. ASSUME NEW l \in LoadId,
             LoadFindCar(l) \/ LoadFindRow(l) \/ LoadReread(l) \/ Settle(l) \/ LoadFail(l)
      PROVE  UNCHANGED sess
  BY <1>7 DEF LoadFindCar, LoadFindRow, LoadReread, Settle, LoadFail
<1>8. ASSUME NEW p \in StopId,
             StopFind(p) \/ StopReread(p) \/ StopFlush(p) \/ StopForget(p) \/ StopFails(p)
      PROVE  UNCHANGED sess
  BY <1>8 DEF StopFind, StopReread, StopFlush, StopForget, StopFails
<1>9. CASE (\E k \in Key : Sweep(k)) \/ TimerFires \/ WriteDone \/ WriteFails \/ Crash \/ Shutdown \/ Exit
  BY <1>9 DEF Sweep, TimerFires, WriteDone, WriteFails, BatchLeaves, Crash, Shutdown, Exit, dbVars
<1> QED BY <1>2, <1>3, <1>4, <1>5, <1>6, <1>7, <1>8, <1>9 DEF Next, Process, LoadStep, StopStep

(* A sample of a session is the row of an open run that its frame is. *)
LEMMA StoredIsRow ==
  ASSUME IngestInv, NEW r \in Sample, SampleOK(r)
  PROVE  /\ r.sess \in SessionId /\ Runs[r.sess] # None
         /\ r.frame \in Store!Frames(r.sess) /\ r = Store!RowOf(r.sess, r.frame)
<1>1. r.sess \in SessionId /\ r.frame \in Frame /\ sess[r.sess] # None
  BY DEF Sample, SampleOK
<1>2. Runs[r.sess] = RunOf(r.sess) /\ RunOf(r.sess) # None
  BY <1>1, RunTyped DEF Runs
<1>3. /\ RunOf(r.sess).car = r.car /\ RunOf(r.sess).dev = CarDevice[r.car]
      /\ RunOf(r.sess).sid = sess[r.sess].sid /\ RunOf(r.sess).anchor = sess[r.sess].anchor
      /\ RunOf(r.sess).mono0 = sess[r.sess].mono0
  BY <1>1 DEF RunOf, SampleOK
<1>4. r.frame \in Store!Frames(r.sess)
  BY <1>1, <1>2, <1>3 DEF Store!Frames, SampleOK, Runs
<1>5. r = Store!RowOf(r.sess, r.frame)
  BY <1>1, <1>2, <1>3 DEF Store!RowOf, SampleOK, Sample, Runs
<1> QED BY <1>1, <1>2, <1>4, <1>5

(* Readers of the tables can take the process for RunStore: a run's car, sid and time
   line never move, and each row is a frame of an open run, in its only form. *)
THEOREM RunStoreImplemented == Spec => ImplementsRunStore
<1>1. Init => Store!Init
  BY DEF Init, Store!Init, RunOf
<1>2. ASSUME IngestInv, [Next]_vars
      PROVE  Store!Next \/ UNCHANGED Store!vars
  <2>1. CASE UNCHANGED vars
    BY <2>1 DEF vars, dbVars, Store!vars, RunOf
  <2>2. CASE Runs' = Runs /\ rows' = rows
    BY <2>2 DEF Runs, Store!vars
  <2>3. ASSUME NEW l \in LoadId, NEW x \in SessionId, Opens(l, x), LoadInsert(l)
        PROVE  Store!Next
    <3>1. sess \in [SessionId -> Session \cup {None}] /\ rows' = rows
      BY <1>2, <2>3 DEF IngestInv, TypeOK, LoadInsert, LoadUnchanged
    <3>2. sess'[x] \in Session /\ sess'[x] # None /\ RunOf(x) = None /\ \A y \in SessionId \ {x} : sess'[y] = sess[y]
      <4>1. sess'[x] = [ status |-> "LIVE", car |-> load[l].car, sid |-> load[l].sid,
                         anchor |-> load[l].anchor, mono0 |-> load[l].mono, ended |-> 0 ]
        BY <2>3, <3>1 DEF Opens
      <4>2. load[l] \in Load /\ load[l].car \in CarId
        BY <1>2, <2>3 DEF IngestInv, TypeOK, LoadOK, LookupOK, LoadInsert, LoadAt, Load
      <4>3. sess'[x] \in Session
        BY <4>1, <4>2 DEF Session, Load
      <4> QED BY <2>3, <3>1, <4>3, NoneAssumption DEF Opens, RunOf
    <3>3. RunOf(x)' # None
      <4>1. CarDevice \in [CarId -> Device]
        BY IngestAssumption DEF IngestAssumption
      <4>2. RunOf(x)' \in Run
        BY <3>2, <4>1 DEF RunOf, Run, Session
      <4> QED BY <4>2, NoneAssumption
    <3>4. \A y \in SessionId \ {x} : RunOf(y)' = RunOf(y)
      BY <3>2 DEF RunOf
    <3>5. Runs' = [Runs EXCEPT ![x] = Runs'[x]]
      BY <3>4 DEF Runs
    <3>6. Store!Open(x, Runs'[x])
      BY <3>1, <3>2, <3>3, <3>5 DEF Store!Open, Runs
    <3> QED BY <3>6 DEF Store!Next, Runs
  <2>4. CASE WriteDone
    <3>1. rows' = rows \cup Head(wq) /\ Head(wq) \subseteq Sample /\ Head(wq) \subseteq Unwritten
      BY <1>2, <2>4, BatchWritten
    <3>2. \A r \in Head(wq) : r \in Sample /\ SampleOK(r)
      BY <1>2, <3>1, SamplesTyped
    <3>3. \A r \in Head(wq) : \E x \in SessionId :
            Runs[x] # None /\ \E f \in Store!Frames(x) : r = Store!RowOf(x, f)
      BY <1>2, <3>2, StoredIsRow
    <3>4. sess' = sess
      BY <2>4 DEF WriteDone, BatchLeaves, dbVars
    <3>5. Runs' = Runs
      BY <3>4 DEF Runs, RunOf
    <3> QED BY <3>1, <3>3, <3>5 DEF Store!Next, Store!Store, Runs
  <2>5. CASE Next /\ ~WriteDone
    <3>1. rows' = rows
      <4>1. CASE Others
        BY <4>1, OthersFrame
      <4>2. CASE ContinueFrame \/ ContinueBatch \/ WriteFails \/ Crash \/ Exit \/ TimerFires
                 \/ (\E p \in StopId : StopFlush(p)) \/ Shutdown
        BY <4>2 DEF ContinueFrame, ContinueBatch, ContinueUnchanged, WriteFails, Crash, Exit, TimerFires,
                    StopFlush, StopUnchanged, Shutdown
      <4> QED BY <2>5, <4>1, <4>2, NextCases
    <3>2. CASE UNCHANGED sess
      <4>1. Runs' = Runs
        BY <3>2 DEF Runs, RunOf
      <4> QED BY <2>2, <3>1, <4>1
    <3>3. CASE Runs' = Runs
      BY <2>2, <3>1, <3>3
    <3> QED BY <1>2, <2>3, <2>5, <3>2, <3>3, SessCases
  <2> QED BY <1>2, <2>1, <2>4, <2>5
<1>3. IngestInv /\ [Next]_vars => [Store!Next]_(Store!vars)
  BY <1>2
<1> QED BY <1>1, <1>3, IngestInvariant, PTL DEF Spec, ImplementsRunStore, Store!Spec

-----------------------------------------------------------------------------
(* AtMostOneStop, which rests on StopInv. *)

(* A step deletes or closes rows, and no more. *)
RowsEdited ==
  \A x \in SessionId :
    /\ sess[x] = None => sess'[x] = None
    /\ sess[x] # None =>
         /\ sess'[x] # None /\ sess'[x].sid = sess[x].sid
         /\ \/ sess'[x].status = sess[x].status
            \/ sess[x].status # "deleted" /\ sess'[x].status \in {"deleted", "COMPLETED"}

(* A handler that a step leaves has no more to announce than it had. *)
Quieter(p) ==
  stop'[p] # None =>
    \/ stop'[p].sess = None /\ stop'[p].pc # "reread"
    \/ /\ stop[p] # None /\ stop'[p].sess = stop[p].sess /\ stop'[p].sid = stop[p].sid
       /\ \/ stop'[p].pc = stop[p].pc
          \/ stop'[p].pc = "forget"
          \/ {stop[p].pc, stop'[p].pc} \subseteq {"flush", "await"}

(* Such a step makes no new announcer of a session that was there. *)
LEMMA NoNewAnnouncer ==
  ASSUME StopsRefer, RowsEdited, \A p \in StopId : Quieter(p),
         NEW x \in SessionId, sess[x] # None
  PROVE  Announcers(x)' \subseteq Announcers(x)
<1>1. sess'[x].sid = sess[x].sid
  BY DEF RowsEdited
<1> QED BY <1>1, NoneAssumption DEF Announcers, At, Quieter, StopsRefer

LEMMA StopFrame ==
  ASSUME TypeOK, StopInv, RowsEdited, UNCHANGED stops, \A p \in StopId : Quieter(p)
  PROVE  StopInv'
<1>1. \A s : Known(s) => Known(s)'
  BY DEF Known, RowsEdited
<1>2. \A x \in SessionId : sess[x] # None /\ Gone(sess[x].sid) => Gone(sess[x].sid)'
  <2> SUFFICES ASSUME NEW x \in SessionId, sess[x] # None, NEW y \in SessionId,
                      sess[y] # None, sess[y].sid = sess[x].sid, sess[y].status = "deleted"
               PROVE  sess'[y] # None /\ sess'[y].sid = sess'[x].sid /\ sess'[y].status = "deleted"
    BY DEF Gone
  <2> QED BY DEF RowsEdited
<1>3. StopsRefer'
  <2> SUFFICES ASSUME NEW p \in StopId, stop'[p] # None
               PROVE  (/\ stop[p].pc \in {"find", "close", "reread"} => stop[p].sess = None
                       /\ stop[p].pc = "reread" => Known(stop[p].sid)
                       /\ stop[p].sess # None => sess[stop[p].sess] # None)'
    BY DEF StopsRefer
  <2>1. stop[p] # None => stop[p].sess \in SessionId \cup {None}
    BY DEF TypeOK, Stop
  <2>2. CASE stop'[p].sess = None /\ stop'[p].pc # "reread"
    BY <2>2
  <2>3. CASE ~(stop'[p].sess = None /\ stop'[p].pc # "reread")
    <3>1. /\ stop[p] # None /\ stop'[p].sess = stop[p].sess /\ stop'[p].sid = stop[p].sid
          /\ stop'[p].pc \in {"find", "close", "reread"} => stop[p].pc = stop'[p].pc
      BY <2>3 DEF Quieter
    <3> QED BY <1>1, <2>1, <3>1 DEF StopInv, StopsRefer, RowsEdited
  <2> QED BY <2>2, <2>3
<1>4. SidsAreOnes'
  BY DEF StopInv, SidsAreOnes, RowsEdited, Present
<1>5. AnnouncedOnce'
  <2> SUFFICES ASSUME NEW x \in SessionId, sess'[x] # None, ~Gone(sess[x].sid)'
               PROVE  /\ stops[x] <= 1
                      /\ \A p, q \in Announcers(x)' : p = q
                      /\ sess'[x].status = "LIVE" \/ stops[x] = 1 => Announcers(x)' = {}
                      /\ sess'[x].status = "LIVE" => stops[x] = 0
    BY DEF AnnouncedOnce
  <2>1. sess[x] # None /\ ~Gone(sess[x].sid)
    BY <1>2 DEF RowsEdited
  <2>2. sess'[x].status = "LIVE" => sess[x].status = "LIVE"
    BY <2>1 DEF RowsEdited
  <2>3. Announcers(x)' \subseteq Announcers(x)
    BY <2>1, NoNewAnnouncer DEF StopInv
  <2> QED BY <2>1, <2>2, <2>3 DEF StopInv, AnnouncedOnce
<1> QED BY <1>3, <1>4, <1>5 DEF StopInv

(* A session opened under a sid that has none is announced by nobody (openSession). *)
LEMMA OpenIsUnannounced ==
  ASSUME TypeOK, StopInv, NEW l \in LoadId, NEW x \in SessionId, Opens(l, x),
         sess'[x] # None, RowsOf(load[l].sid) = {}, UNCHANGED <<stop, stops>>
  PROVE  StopInv'
<1> DEFINE s == load[l].sid
<1>1. /\ sess'[x] # None /\ sess'[x].sid = s /\ sess'[x].status = "LIVE"
      /\ \A y \in SessionId \ {x} : sess'[y] = sess[y]
  BY DEF Opens, TypeOK
<1>2. Known(s) => Gone(s)
  BY DEF Known, Gone, RowsOf, Present
<1>3. \A t : (Known(t) => Known(t)') /\ (Gone(t) => Gone(t)')
  BY <1>1 DEF Known, Gone, Opens
<1>4. StopsRefer'
  BY <1>1, <1>3 DEF StopInv, StopsRefer, Opens
<1>5. SidsAreOnes'
  BY <1>1 DEF StopInv, SidsAreOnes, Present, RowsOf, Opens
<1>6. AnnouncedOnce'
  <2> SUFFICES ASSUME NEW y \in SessionId, sess'[y] # None, ~Gone(sess[y].sid)'
               PROVE  /\ stops[y] <= 1
                      /\ \A p, q \in Announcers(y)' : p = q
                      /\ sess'[y].status = "LIVE" \/ stops[y] = 1 => Announcers(y)' = {}
                      /\ sess'[y].status = "LIVE" => stops[y] = 0
    BY DEF AnnouncedOnce
  <2>1. CASE y = x
    <3>1. stops[x] = 0
      BY DEF StopInv, SidsAreOnes, Opens
    <3>2. \A p \in StopId : stop[p] # None => stop[p].sess # x
      BY NoneAssumption DEF StopInv, StopsRefer, Opens
    <3>3. ~Known(s)
      BY <1>1, <1>2, <1>3, <2>1
    <3>4. Announcers(x)' = {}
      BY <1>1, <3>2, <3>3 DEF Announcers, At, StopInv, StopsRefer
    <3> QED BY <2>1, <3>1, <3>4
  <2>2. CASE y # x
    <3>1. sess'[y] = sess[y]
      BY <1>1, <2>2
    <3>2. ~Gone(sess[y].sid)
      BY <1>3, <3>1
    <3>3. Announcers(y)' = Announcers(y)
      BY <3>1 DEF Announcers, At
    <3> QED BY <3>1, <3>2, <3>3 DEF StopInv, AnnouncedOnce
  <2> QED BY <2>1, <2>2
<1> QED BY <1>4, <1>5, <1>6 DEF StopInv

(* Handler p has moved on, and the others have not. *)
Moves(p, r) == stop' = [stop EXCEPT ![p] = r]

(* closeSession's update: it makes p the one announcer of the row it closes. *)
LEMMA StopCloseAnnounces ==
  ASSUME IngestInv, StopInv, NEW p \in StopId, At(p, "close"), UNCHANGED stops,
         NEW s \in Sid, stop[p].sid = s, NEW x \in Closable(s, stop[p].car), sess' = Closed(x),
         Moves(p, [stop[p] EXCEPT !.pc = "reread"])
  PROVE  StopInv'
<1>1. TypeOK /\ stop[p] \in Stop /\ stop[p].sess = None
  BY DEF IngestInv, TypeOK, At, StopInv, StopsRefer
<1>2. /\ x \in SessionId /\ Present(x) /\ sess[x].sid = s /\ sess[x].status = "LIVE"
      /\ sess[x] \in Session
  BY <1>1 DEF Closable, RowsOf, Present, TypeOK
<1>3. /\ sess'[x].status = "COMPLETED" /\ sess'[x].sid = s /\ sess'[x] # None
      /\ \A y \in SessionId \ {x} : sess'[y] = sess[y]
  <2>1. sess'[x] = [sess[x] EXCEPT !.status = "COMPLETED", !.ended = now]
    BY <1>1, <1>2 DEF Closed, TypeOK
  <2>2. sess'[x] \in Session /\ sess'[x].status = "COMPLETED" /\ sess'[x].sid = s
    BY <1>1, <1>2, <2>1 DEF Session, TypeOK
  <2> QED BY <1>1, <2>2, NoneAssumption DEF Closed, TypeOK
<1>4. /\ stop'[p] \in Stop /\ stop'[p].pc = "reread" /\ stop'[p].sid = s /\ stop'[p].sess = None
      /\ \A q \in StopId \ {p} : stop'[q] = stop[q]
  BY <1>1 DEF Moves, TypeOK, Stop
<1>5. \A t : (Known(t) => Known(t)') /\ (Gone(t) <=> Gone(t)')
  BY <1>2, <1>3 DEF Known, Gone
<1>6. StopsRefer'
  <2>1. Known(s)'
    BY <1>2, <1>3 DEF Known
  <2>2. ASSUME NEW q \in StopId, q # p, stop[q] # None
        PROVE  (/\ stop[q].pc \in {"find", "close", "reread"} => stop[q].sess = None
                /\ stop[q].pc = "reread" => Known(stop[q].sid)
                /\ stop[q].sess # None => sess[stop[q].sess] # None)'
    <3>1. stop'[q] = stop[q] /\ \A y : sess[y] # None => y = x \/ y \notin SessionId \/ sess'[y] # None
      BY <1>3, <1>4, <2>2
    <3>2. stop[q].sess # None => stop[q].sess \in SessionId
      BY <1>1, <2>2 DEF TypeOK, Stop
    <3>3. stop[q].pc = "reread" => Known(stop[q].sid)'
      BY <1>5, <2>2, <3>1 DEF StopInv, StopsRefer
    <3> QED BY <1>3, <2>2, <3>1, <3>2, <3>3 DEF StopInv, StopsRefer
  <2> QED BY <1>4, <2>1, <2>2 DEF StopsRefer
<1>7. SidsAreOnes'
  BY <1>2, <1>3 DEF StopInv, SidsAreOnes, Present
<1>8. AnnouncedOnce'
  <2> SUFFICES ASSUME NEW y \in SessionId, sess'[y] # None, ~Gone(sess[y].sid)'
               PROVE  /\ stops[y] <= 1
                      /\ \A q, r \in Announcers(y)' : q = r
                      /\ sess'[y].status = "LIVE" \/ stops[y] = 1 => Announcers(y)' = {}
                      /\ sess'[y].status = "LIVE" => stops[y] = 0
    BY DEF AnnouncedOnce
  <2>1. sess[y] # None /\ sess'[y].sid = sess[y].sid
    BY <1>2, <1>3 DEF Present
  <2>2. sess[y] # None /\ ~Gone(sess[y].sid)
    <3>1. ASSUME NEW z \in SessionId, sess[z] # None, sess[z].sid = sess[y].sid, sess[z].status = "deleted"
          PROVE  Gone(sess[y].sid)'
      <4>1. sess'[z] = sess[z]
        BY <1>2, <1>3, <3>1
      <4> QED BY <2>1, <3>1, <4>1 DEF Gone
    <3> QED BY <2>1, <3>1 DEF Gone
  <2>3. CASE y = x
    <3>1. Announcers(x) = {} /\ stops[x] = 0
      BY <1>2, <2>2, <2>3 DEF StopInv, AnnouncedOnce
    <3>2. Announcers(x)' \subseteq {p}
      BY <1>2, <1>3, <1>4, <3>1 DEF Announcers, At
    <3> QED BY <1>3, <2>3, <3>1, <3>2
  <2>4. CASE y # x
    <3>1. sess'[y] = sess[y]
      BY <1>3, <2>4
    <3>2. sess[y].sid # s
      BY <1>2, <2>2, <2>4 DEF StopInv, SidsAreOnes, Present, Gone
    <3>3. Announcers(y)' \subseteq Announcers(y)
      BY <1>4, <3>1, <3>2 DEF Announcers, At
    <3> QED BY <2>2, <3>1, <3>3 DEF StopInv, AnnouncedOnce
  <2> QED BY <2>3, <2>4
<1> QED BY <1>6, <1>7, <1>8 DEF StopInv

(* closeSession's re-read: the announcer of a row learns its id, and it is the same row. *)
LEMMA StopRereadFinds ==
  ASSUME IngestInv, StopInv, NEW p \in StopId, At(p, "reread"), UNCHANGED <<sess, stops>>,
         NEW x \in RowsOf(stop[p].sid),
         Moves(p, [stop[p] EXCEPT !.pc = "flush", !.sess = x])
  PROVE  StopInv'
<1>1. TypeOK /\ stop[p] \in Stop
  BY DEF IngestInv, TypeOK, At
<1>2. x \in SessionId /\ sess[x] # None /\ sess[x].sid = stop[p].sid
  BY DEF RowsOf, Present
<1>3. /\ stop'[p].pc = "flush" /\ stop'[p].sess = x
      /\ \A q \in StopId \ {p} : stop'[q] = stop[q]
  BY <1>1, <1>2 DEF Moves, TypeOK, Stop
<1>4. StopsRefer'
  BY <1>2, <1>3 DEF StopInv, StopsRefer, Known
<1>5. \A y \in SessionId : Announcers(y)' \subseteq Announcers(y)
  BY <1>2, <1>3 DEF Announcers, At
<1>6. SidsAreOnes'
  BY DEF StopInv, SidsAreOnes, Present
<1>7. AnnouncedOnce'
  BY <1>5 DEF StopInv, AnnouncedOnce, Gone
<1> QED BY <1>4, <1>6, <1>7 DEF StopInv

(* The announcement: its announcer was the only one, and is one no more. *)
LEMMA StopPublished ==
  ASSUME IngestInv, StopInv, NEW p \in StopId, At(p, "await"), UNCHANGED sess,
         NEW x \in SessionId, stop[p].sess = x, stops' = [stops EXCEPT ![x] = @ + 1],
         Moves(p, [stop[p] EXCEPT !.pc = "forget"])
  PROVE  StopInv'
<1>1. TypeOK /\ stop[p] \in Stop /\ sess[x] # None
  BY NoneAssumption DEF IngestInv, TypeOK, At, StopInv, StopsRefer, Stop
<1>2. /\ stops'[x] = stops[x] + 1 /\ stops[x] \in Nat
      /\ \A y \in SessionId \ {x} : stops'[y] = stops[y]
  BY <1>1 DEF TypeOK
<1>3. /\ stop'[p].pc = "forget" /\ stop'[p].sess = x
      /\ \A q \in StopId \ {p} : stop'[q] = stop[q]
  BY <1>1 DEF Moves, TypeOK, Stop
<1>4. StopsRefer'
  BY <1>1, <1>3 DEF StopInv, StopsRefer, Known
<1>5. p \in Announcers(x) /\ p \notin Announcers(x)'
      /\ \A y \in SessionId : Announcers(y)' \subseteq Announcers(y)
  BY <1>3 DEF Announcers, At
<1>6. SidsAreOnes'
  BY <1>1, <1>2 DEF StopInv, SidsAreOnes, Present
<1>7. AnnouncedOnce'
  <2> SUFFICES ASSUME NEW y \in SessionId, sess[y] # None, ~Gone(sess[y].sid)
               PROVE  /\ stops'[y] <= 1
                      /\ \A q, r \in Announcers(y)' : q = r
                      /\ sess[y].status = "LIVE" \/ stops'[y] = 1 => Announcers(y)' = {}
                      /\ sess[y].status = "LIVE" => stops'[y] = 0
    BY DEF AnnouncedOnce, Gone
  <2>1. /\ stops[y] <= 1 /\ stops[y] \in Nat
        /\ \A q, r \in Announcers(y) : q = r
        /\ sess[y].status = "LIVE" \/ stops[y] = 1 => Announcers(y) = {}
        /\ sess[y].status = "LIVE" => stops[y] = 0
    BY <1>1 DEF StopInv, AnnouncedOnce, TypeOK
  <2>2. CASE y = x
    <3>1. stops[x] = 0 /\ sess[x].status # "LIVE"
      BY <1>5, <2>1, <2>2
    <3>2. Announcers(x)' = {}
      BY <1>5, <2>1, <2>2
    <3> QED BY <1>2, <2>2, <3>1, <3>2
  <2>3. CASE y # x
    BY <1>2, <1>5, <2>1, <2>3
  <2> QED BY <2>2, <2>3
<1> QED BY <1>4, <1>6, <1>7 DEF StopInv

(* Steps of a handler that close, find and announce nothing. *)
LEMMA StopQuietStep ==
  ASSUME IngestInv, StopInv, NEW p \in StopId, NEW r, Moves(p, r), UNCHANGED <<sess, stops>>,
         r # None =>
           \/ r.sess = None /\ r.pc # "reread"
           \/ /\ stop[p] # None /\ r.sess = stop[p].sess /\ r.sid = stop[p].sid
              /\ r.pc = "forget" \/ {stop[p].pc, r.pc} \subseteq {"flush", "await"}
  PROVE  StopInv'
<1>1. TypeOK
  BY DEF IngestInv
<1>2. RowsEdited
  BY DEF RowsEdited
<1>3. \A q \in StopId : Quieter(q)
  BY <1>1 DEF Moves, Quieter, TypeOK
<1> QED BY <1>1, <1>2, <1>3, StopFrame

LEMMA HandlerStep ==
  ASSUME IngestInv, StopInv, NEW p \in StopId,
         StopAnnounce(p) \/ StopStep(p) \/ StopFails(p)
  PROVE  StopInv'
<1>1. /\ TypeOK /\ stop[p] \in Stop /\ stop[p] # None
      /\ stop[p].pc \in {"find", "close", "reread"} => stop[p].sess = None
  BY DEF IngestInv, TypeOK, At, Resumed, StopInv, StopsRefer, StopAnnounce, StopStep,
         StopFind, StopClose, StopReread, StopFlush, StopForget, StopFails
<1>2. CASE StopFind(p)
  <2>1. UNCHANGED <<sess, stops>> /\ stop[p].pc = "find"
    BY <1>2 DEF StopFind, liveVars, At
  <2>2. CASE SetStop(p, None)
    BY <2>1, <2>2, StopQuietStep DEF SetStop, Moves
  <2>3. ASSUME NEW c \in CarId, SetStop(p, [stop[p] EXCEPT !.pc = "close", !.car = c])
        PROVE  StopInv'
    <3> DEFINE r == [stop[p] EXCEPT !.pc = "close", !.car = c]
    <3>1. r.sess = None /\ r.pc # "reread"
      BY <1>1, <2>1 DEF Stop
    <3>2. Moves(p, r)
      BY <2>3 DEF SetStop, Moves
    <3> HIDE DEF r
    <3> QED BY <2>1, <3>1, <3>2, StopQuietStep
  <2> QED BY <1>2, <2>2, <2>3 DEF StopFind, CarsOf
<1>3. CASE StopClose(p)
  <2>1. UNCHANGED stops /\ stop[p].pc = "close"
    BY <1>3 DEF StopClose, liveVars, At
  <2>2. CASE SetStop(p, [stop[p] EXCEPT !.pc = "flush"]) /\ UNCHANGED sess
    <3> DEFINE r == [stop[p] EXCEPT !.pc = "flush"]
    <3>1. r.sess = None /\ r.pc # "reread"
      BY <1>1, <2>1 DEF Stop
    <3>2. Moves(p, r)
      BY <2>2 DEF SetStop, Moves
    <3> HIDE DEF r
    <3> QED BY <2>1, <2>2, <3>1, <3>2, StopQuietStep
  <2>3. ASSUME NEW x \in Closable(stop[p].sid, stop[p].car), sess' = Closed(x),
               SetStop(p, [stop[p] EXCEPT !.pc = "reread"])
        PROVE  StopInv'
    <3>1. PICK s \in Sid : stop[p].sid = s
      BY <1>1 DEF Stop
    <3> QED BY <1>1, <2>1, <2>3, <3>1, StopCloseAnnounces DEF SetStop, Moves, At
  <2> QED BY <1>3, <2>2, <2>3 DEF StopClose
<1>4. CASE StopReread(p)
  <2>1. UNCHANGED <<sess, stops>> /\ At(p, "reread") /\ stop[p].pc = "reread"
    BY <1>4 DEF StopReread, liveVars, At
  <2>2. CASE SetStop(p, [stop[p] EXCEPT !.pc = "flush"])
    <3> DEFINE r == [stop[p] EXCEPT !.pc = "flush"]
    <3>1. r.sess = None /\ r.pc # "reread"
      BY <1>1, <2>1 DEF Stop
    <3>2. Moves(p, r)
      BY <2>2 DEF SetStop, Moves
    <3> HIDE DEF r
    <3> QED BY <2>1, <3>1, <3>2, StopQuietStep
  <2>3. ASSUME NEW x \in RowsOf(stop[p].sid), SetStop(p, [stop[p] EXCEPT !.pc = "flush", !.sess = x])
        PROVE  StopInv'
    BY <2>1, <2>3, StopRereadFinds DEF SetStop, Moves
  <2> QED BY <1>4, <2>2, <2>3 DEF StopReread
<1>5. CASE StopFlush(p)
  <2> DEFINE r == [stop[p] EXCEPT !.pc = "await", !.ahead = AheadOfFlush, !.cut = Unwritten]
  <2>1. UNCHANGED <<sess, stops>> /\ Moves(p, r) /\ stop[p].pc = "flush"
    BY <1>5 DEF StopFlush, SetStop, Moves, liveVars, At
  <2>2. r.sess = stop[p].sess /\ r.sid = stop[p].sid /\ r.pc = "await"
    BY <1>1 DEF Stop
  <2> HIDE DEF r
  <2> QED BY <1>1, <2>1, <2>2, StopQuietStep
<1>6. CASE StopForget(p) \/ StopFails(p)
  <2>1. UNCHANGED <<sess, stops>> /\ Moves(p, None)
    BY <1>6 DEF StopForget, StopFails, SetStop, Moves, liveVars
  <2> QED BY <2>1, StopQuietStep
<1>7. CASE StopAnnounce(p)
  <2>1. UNCHANGED sess /\ At(p, "await")
    BY <1>7 DEF StopAnnounce, Resumed
  <2> DEFINE r == [stop[p] EXCEPT !.pc = "forget"]
  <2>2. CASE UNCHANGED stops /\ SetStop(p, r)
    <3>1. r.sess = stop[p].sess /\ r.sid = stop[p].sid /\ r.pc = "forget"
      BY <1>1 DEF Stop
    <3>2. Moves(p, r)
      BY <2>2 DEF SetStop, Moves
    <3> HIDE DEF r
    <3> QED BY <1>1, <2>1, <2>2, <3>1, <3>2, StopQuietStep
  <2>3. ASSUME NEW x \in SessionId, stop[p].sess = x, stops' = [stops EXCEPT ![x] = @ + 1], SetStop(p, r)
        PROVE  StopInv'
    BY <2>1, <2>3, StopPublished DEF SetStop, Moves
  <2>4. CASE UNCHANGED stops /\ SetStop(p, None)
    BY <2>1, <2>4, StopQuietStep DEF SetStop, Moves
  <2> HIDE DEF r
  <2>5. stop[p].sess \in SessionId \cup {None}
    BY <1>1 DEF Stop
  <2> QED BY <1>7, <2>2, <2>3, <2>4, <2>5 DEF StopAnnounce, PublishStop, liveVars, r
<1> QED BY <1>2, <1>3, <1>4, <1>5, <1>6, <1>7 DEF StopStep

(* A message starts a handler, at its first query. *)
LEMMA DeliveredStop ==
  ASSUME IngestInv, StopInv, NEW m \in Messages, DeliverStop(m)
  PROVE  StopInv'
<1>1. PICK p \in StopId : stop' = [stop EXCEPT ![p] =
        [ pc |-> "find", dev |-> m.dev, sid |-> m.sid, car |-> None, sess |-> None,
          ahead |-> 0, cut |-> {} ]]
  BY DEF DeliverStop
<1>2. UNCHANGED <<sess, stops>>
  BY DEF DeliverStop, Deliver, dbVars, liveVars
<1> QED BY <1>1, <1>2, StopQuietStep DEF Moves

(* The writer shortens the handlers' waits; the end of the process ends them. *)
LEMMA HandlersLeftAlone ==
  ASSUME IngestInv, StopInv, BatchLeaves \/ ForgetMemory, UNCHANGED <<sess, stops>>
  PROVE  StopInv'
<1>1. TypeOK
  BY DEF IngestInv
<1>2. RowsEdited
  BY DEF RowsEdited
<1>3. \A q \in StopId : Quieter(q)
  <2>1. CASE ForgetMemory
    BY <2>1 DEF ForgetMemory, Quieter
  <2>2. CASE BatchLeaves
    <3> TAKE q \in StopId
    <3>1. CASE stop[q] = None
      BY <2>2, <3>1 DEF BatchLeaves, Quieter
    <3>2. CASE stop[q] # None
      <4>1. stop[q] \in Stop /\ stop'[q] = [stop[q] EXCEPT !.ahead = OneLess(@)]
        BY <1>1, <2>2, <3>2 DEF BatchLeaves, TypeOK
      <4> QED BY <3>2, <4>1 DEF Quieter, Stop
    <3> QED BY <3>1, <3>2
  <2> QED BY <2>1, <2>2
<1> QED BY <1>1, <1>2, <1>3, StopFrame

(* The API deletes rows and closes live ones. *)
LEMMA ApiEdits ==
  ASSUME IngestInv, Environment
  PROVE  RowsEdited
<1>1. sess \in [SessionId -> Session \cup {None}] /\ closing \in [CloseId -> SessionId \cup {None}]
  BY DEF IngestInv, TypeOK
<1>2. ASSUME \A y \in SessionId :
               \/ sess'[y] = sess[y]
               \/ Present(y) /\ sess'[y] = [sess[y] EXCEPT !.status = "deleted"]
               \/ Present(y) /\ sess'[y] = [sess[y] EXCEPT !.status = "COMPLETED", !.ended = now]
      PROVE  RowsEdited
  <2> SUFFICES ASSUME NEW y \in SessionId
               PROVE  /\ sess[y] = None => sess'[y] = None
                      /\ sess[y] # None =>
                           /\ sess'[y] # None /\ sess'[y].sid = sess[y].sid
                           /\ \/ sess'[y].status = sess[y].status
                              \/ sess[y].status # "deleted" /\ sess'[y].status \in {"deleted", "COMPLETED"}
    BY DEF RowsEdited
  <2>1. CASE sess'[y] = sess[y]
    BY <2>1
  <2>2. CASE sess'[y] # sess[y]
    <3>1. sess[y] \in Session /\ sess[y].status # "deleted" /\ sess[y] # None /\ now \in Int
      BY <1>1, <1>2, <2>2 DEF Present, IngestInv, TypeOK
    <3>2. sess'[y] \in Session /\ sess'[y].sid = sess[y].sid /\ sess'[y].status \in {"deleted", "COMPLETED"}
      BY <1>2, <2>2, <3>1, ZenonT(120) DEF Session
    <3> QED BY <3>1, <3>2, NoneAssumption
  <2> QED BY <2>1, <2>2
<1>3. ASSUME NEW c \in CarId, DeleteCar(c)
      PROVE  RowsEdited
  BY <1>1, <1>2, <1>3 DEF DeleteCar
<1>4. ASSUME NEW x \in SessionId, DeleteSession(x)
      PROVE  RowsEdited
  BY <1>1, <1>2, <1>4 DEF DeleteSession
<1>5. ASSUME NEW q \in CloseId, CloseUpdate(q)
      PROVE  RowsEdited
  <2>1. CASE sess' = sess
    BY <1>2, <2>1
  <2>2. CASE Present(closing[q]) /\ sess' = Closed(closing[q])
    BY <1>1, <1>2, <1>5, <2>2 DEF Closed, CloseUpdate
  <2> QED BY <1>5, <2>1, <2>2 DEF CloseUpdate
<1>6. CASE UNCHANGED sess
  BY <1>2, <1>6
<1>7. (\E c \in CarId : RegisterCar(c) \/ LkvExpires(c)) \/ Tick
        \/ (\E q \in CloseId, x \in SessionId : CloseCheck(q, x)) => UNCHANGED sess
  BY DEF RegisterCar, LkvExpires, Tick, CloseCheck, dbVars
<1> QED BY <1>3, <1>4, <1>5, <1>6, <1>7 DEF Environment

LEMMA StopInvStep ==
  ASSUME IngestInv, StopInv, [Next]_vars
  PROVE  StopInv'
<1>1. TypeOK
  BY DEF IngestInv
<1>2. ASSUME RowsEdited, UNCHANGED <<stop, stops>>
      PROVE  StopInv'
  BY <1>1, <1>2, StopFrame DEF Quieter
<1>3. CASE UNCHANGED <<sess, stop, stops>>
  BY <1>2, <1>3 DEF RowsEdited
<1>4. CASE ContinueFrame \/ ContinueBatch \/ ContinueStart
  BY <1>3, <1>4 DEF ContinueFrame, ContinueBatch, ContinueStart, ContinueUnchanged, dbVars
<1>5. ASSUME NEW p \in StopId, StopAnnounce(p) \/ StopStep(p) \/ StopFails(p)
      PROVE  StopInv'
  BY <1>5, HandlerStep
<1>6. CASE Delivery
  <2>1. ASSUME NEW m \in Messages, DeliverFrame(m) \/ DeliverBackfill(m) \/ DeliverStart(m)
        PROVE  StopInv'
    BY <1>3, <2>1 DEF DeliverFrame, DeliverBackfill, DeliverStart, Deliver, dbVars, liveVars
  <2> QED BY <1>6, <2>1, DeliveredStop DEF Delivery
<1>7. ASSUME NEW l \in LoadId, LoadStep(l) \/ LoadFail(l)
      PROVE  StopInv'
  <2>1. UNCHANGED <<stop, stops>>
    BY <1>7 DEF LoadStep, LoadFindCar, LoadFindRow, LoadInsert, LoadReread, Settle, LoadFail,
                LoadUnchanged, liveVars
  <2>2. CASE UNCHANGED sess
    BY <1>3, <2>1, <2>2
  <2>3. ASSUME NEW x \in SessionId, Opens(l, x), LoadInsert(l), RowsOf(load[l].sid) = {}
        PROVE  StopInv'
    <3>1. load[l] \in Load /\ load[l].car \in CarId
      BY <2>3 DEF IngestInv, TypeOK, LoadOK, LookupOK, LoadInsert, LoadAt, Load
    <3>2. sess'[x] = [ status |-> "LIVE", car |-> load[l].car, sid |-> load[l].sid,
                       anchor |-> load[l].anchor, mono0 |-> load[l].mono, ended |-> 0 ]
      BY <1>1, <2>3 DEF Opens, TypeOK
    <3>3. sess'[x] # None
      BY <3>1, <3>2, NoneAssumption DEF Session, Load
    <3> QED BY <1>1, <2>1, <2>3, <3>3, OpenIsUnannounced
  <2>4. \/ UNCHANGED sess
        \/ LoadInsert(l) /\ RowsOf(load[l].sid) = {} /\ \E x \in SessionId : Opens(l, x)
    BY <1>7 DEF LoadStep, LoadFindCar, LoadFindRow, LoadInsert, LoadReread, Settle, LoadFail, Opens
  <2> QED BY <2>2, <2>3, <2>4
<1>8. CASE (\E k \in Key : Sweep(k)) \/ TimerFires \/ Shutdown
  BY <1>3, <1>8 DEF Sweep, LoadUnchanged, TimerFires, Shutdown, dbVars, liveVars
<1>9. CASE WriteDone \/ WriteFails
  BY <1>9, HandlersLeftAlone DEF WriteDone, WriteFails, BatchLeaves, dbVars, liveVars
<1>10. CASE Crash \/ Exit
  BY <1>10, HandlersLeftAlone DEF Crash, Exit, dbVars, liveVars
<1>11. CASE Environment
  <2>1. UNCHANGED <<stop, stops>>
    BY <1>11 DEF Environment, RegisterCar, DeleteCar, LkvExpires, DeleteSession, CloseUpdate, CloseCheck,
                 Tick, ApiUnchanged, liveVars
  <2> QED BY <1>2, <1>11, <2>1, ApiEdits
<1>12. CASE UNCHANGED vars
  BY <1>3, <1>12 DEF vars, dbVars, liveVars
<1> QED BY <1>4, <1>5, <1>6, <1>7, <1>8, <1>9, <1>10, <1>11, <1>12 DEF Next, Continue, Process

(* The invariant of the announcements, whatever the handlers, lookups, closes and
   deletions that are in flight at once. *)
THEOREM StopInvariant == Spec => []StopInv
<1>1. Init => StopInv
  BY DEF Init, StopInv, StopsRefer, SidsAreOnes, AnnouncedOnce, Present
<1>2. IngestInv /\ StopInv /\ [Next]_vars => StopInv'
  BY StopInvStep
<1> QED BY <1>1, <1>2, IngestInvariant, PTL DEF Spec

(* A run's end is announced at most once, however often its `stop` is delivered, unless
   its session is deleted and opened again under the same sid. *)
THEOREM AtMostOneStopAlways == Spec => []AtMostOneStop
<1>1. IngestInv /\ StopInv => AtMostOneStop
  <2> SUFFICES ASSUME IngestInv, StopInv, NEW x \in SessionId, stops[x] > 1
               PROVE  Gone(sess[x].sid)
    BY DEF AtMostOneStop, Gone
  <2>1. sess[x] # None
    BY DEF StopInv, SidsAreOnes
  <2>2. ~(stops[x] <= 1)
    BY DEF IngestInv, TypeOK
  <2> QED BY <2>1, <2>2 DEF StopInv, AnnouncedOnce
<1> QED BY <1>1, StopInvariant, IngestInvariant, PTL

=============================================================================
