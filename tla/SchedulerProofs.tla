--------------------------- MODULE SchedulerProofs ---------------------------
(***************************************************************************)
(* Theorems about the run-loop, for any number of actors, devices,         *)
(* sponsors and events, any quota and transactions of any length.          *)
(***************************************************************************)
EXTENDS Scheduler, SequenceFacts

-----------------------------------------------------------------------------
(* Types, and one transaction of an actor at a time *)

(* The continuation that is executed.                                      *)
LEMMA TheContinuation ==
  ASSUME TypeOK, kq # <<>>
  PROVE  /\ K \in Cont /\ Tail(kq) \in Seq(Cont)
         /\ ToSet(kq) = {K} \cup ToSet(Tail(kq))
         /\ K.ev \in Event /\ K.beh \in Beh /\ K.out \in Seq(Event) /\ K.n \in 0 .. Steps
         /\ K.ev.spn \in Sponsor /\ K.ev.tgt \in Target
<1>1. kq \in Seq(Cont)
  BY DEF TypeOK
<1>2. K \in Cont /\ Tail(kq) \in Seq(Cont)
  BY <1>1, Queued1 DEF K
<1>3. ToSet(kq) = {K} \cup ToSet(Tail(kq))
  BY <1>1, ElemsTail DEF K
<1>4. K.ev \in Event /\ K.beh \in Beh /\ K.out \in Seq(Event) /\ K.n \in 0 .. Steps
  BY <1>2 DEF Cont
<1>5. K.ev.spn \in Sponsor /\ K.ev.tgt \in Target
  BY <1>4, SchedulerAssumption
<1> QED BY <1>2, <1>3, <1>4, <1>5

(* The event that is dispatched.                                           *)
LEMMA TheEvent ==
  ASSUME TypeOK, eq # <<>>
  PROVE  /\ E \in Event /\ Tail(eq) \in Seq(Event)
         /\ ToSet(eq) = {E} \cup ToSet(Tail(eq))
         /\ E.spn \in Sponsor /\ E.tgt \in Target
<1>1. eq \in Seq(Event)
  BY DEF TypeOK
<1>2. E \in Event /\ Tail(eq) \in Seq(Event)
  BY <1>1, Queued1 DEF E
<1>3. ToSet(eq) = {E} \cup ToSet(Tail(eq))
  BY <1>1, ElemsTail DEF E
<1>4. E.spn \in Sponsor /\ E.tgt \in Target
  BY <1>2, SchedulerAssumption
<1> QED BY <1>2, <1>3, <1>4

TransactionTypes ==
  /\ kq \in Seq(Cont) /\ busy \subseteq Actor /\ inbox \in [Actor -> Seq(Event)]

(* The end of a transaction releases its actor and leaves the others.      *)
LEMMA EndKeeps ==
  ASSUME TypeOK, OneTransaction, kq # <<>>, EndContinuation
  PROVE  /\ TransactionTypes' /\ OneTransaction'
         /\ K.ev.tgt \in busy /\ K.ev.tgt \in Actor
<1> DEFINE a == K.ev.tgt
<1>1. /\ kq \in Seq(Cont) /\ busy \subseteq Actor /\ inbox \in [Actor -> Seq(Event)]
  BY DEF TypeOK
<1>2. K \in ToSet(kq)
  BY TheContinuation
<1>3. a \in busy /\ a \in Actor
  BY <1>1, <1>2 DEF OneTransaction
<1>4. /\ kq' = Tail(kq) /\ busy' = busy \ {a} /\ inbox' = [inbox EXCEPT ![a] = <<>>]
  BY DEF EndContinuation
<1>5. <<>> \in Seq(Event)
  BY EmptySeq
<1>6. TransactionTypes'
  BY <1>1, <1>3, <1>4, <1>5, TheContinuation DEF TransactionTypes
<1>7. /\ Len(kq) \in Nat \ {0} /\ Head(kq) = kq[1] /\ Len(kq') = Len(kq) - 1
      /\ \A i \in 1 .. Len(kq) - 1 : kq'[i] = kq[i + 1]
  BY <1>1, <1>4, Queued1
<1>8. DOMAIN kq = 1 .. Len(kq) /\ DOMAIN kq' = 1 .. Len(kq) - 1
  BY <1>1, <1>6, <1>7, LenProperties DEF TransactionTypes
<1>9. \A i, j \in DOMAIN kq : kq[i].ev.tgt = kq[j].ev.tgt => i = j
  BY DEF OneTransaction
<1>10. \A i, j \in DOMAIN kq' : kq'[i].ev.tgt = kq'[j].ev.tgt => i = j
  <2> SUFFICES ASSUME NEW i \in 1 .. Len(kq) - 1, NEW j \in 1 .. Len(kq) - 1,
                      kq'[i].ev.tgt = kq'[j].ev.tgt
               PROVE  i = j
    BY <1>8
  <2>1. kq[i + 1].ev.tgt = kq[j + 1].ev.tgt
    BY <1>7
  <2>2. i + 1 \in DOMAIN kq /\ j + 1 \in DOMAIN kq
    BY <1>7, <1>8
  <2>3. i + 1 = j + 1
    BY <2>1, <2>2, <1>9
  <2> QED BY <2>3
<1>11. \A i \in DOMAIN kq' : kq'[i].ev.tgt \in busy'
  <2> SUFFICES ASSUME NEW i \in 1 .. Len(kq) - 1 PROVE kq'[i].ev.tgt \in busy \ {a}
    BY <1>4, <1>8
  <2>1. i + 1 \in DOMAIN kq /\ 1 \in DOMAIN kq /\ i + 1 # 1 /\ kq'[i] = kq[i + 1]
    BY <1>7, <1>8
  <2>2. kq[i + 1] \in ToSet(kq)
    BY <2>1 DEF ToSet
  <2>3. kq[i + 1].ev.tgt \in busy
    BY <2>2 DEF OneTransaction
  <2>4. kq[i + 1].ev.tgt # a
    BY <2>1, <1>7, <1>9 DEF K
  <2> QED BY <2>1, <2>3, <2>4
<1>12. \A b \in Actor \ busy' : inbox'[b] = <<>>
  BY <1>1, <1>3, <1>4 DEF OneTransaction
<1>13. \A k \in ToSet(kq') : k.ev.tgt \in busy'
  BY <1>11 DEF ToSet
<1>14. OneTransaction'
  BY <1>10, <1>12, <1>13 DEF OneTransaction
<1> QED BY <1>3, <1>6, <1>14

(* The continuation of a transaction takes the place of the one executed.  *)
LEMMA ContinueKeeps ==
  ASSUME TypeOK, OneTransaction, NEW k \in Cont, k.ev = K.ev, k.n = K.n, Continue(k)
  PROVE  TransactionTypes' /\ OneTransaction' /\ turn' = "disp"
<1>1. /\ kq \in Seq(Cont) /\ busy \subseteq Actor /\ inbox \in [Actor -> Seq(Event)] /\ kq # <<>>
  BY DEF TypeOK, Continue, Running, Executing
<1> DEFINE l == [k EXCEPT !.n = @ + 1]
           t == Tail(kq)
<1>2. /\ kq' = Append(t, l) /\ busy' = busy /\ inbox' = inbox /\ K.n < Steps /\ turn' = "disp"
  BY DEF Continue, actorVars
<1>3. l \in Cont /\ l.ev = K.ev
  <2>1. k.n + 1 \in 0 .. Steps
    BY <1>1, <1>2, TheContinuation, SchedulerAssumption
  <2> QED BY <2>1 DEF Cont
<1>4. /\ t \in Seq(Cont) /\ Len(kq) \in Nat \ {0} /\ K = kq[1] /\ Len(t) = Len(kq) - 1
      /\ \A i \in 1 .. Len(kq) - 1 : t[i] = kq[i + 1]
  BY <1>1, Queued1 DEF K
<1> HIDE DEF l, t
<1>5. /\ kq' \in Seq(Cont) /\ Len(kq') = Len(kq)
      /\ \A i \in 1 .. Len(kq) - 1 : kq'[i] = t[i]
      /\ kq'[Len(kq)] = l
  BY <1>2, <1>3, <1>4, AppendProperties
<1>6. DOMAIN kq = 1 .. Len(kq) /\ DOMAIN kq' = 1 .. Len(kq)
  BY <1>1, <1>5, LenProperties
<1> DEFINE old(i) == IF i = Len(kq) THEN 1 ELSE i + 1
<1>7. \A i \in 1 .. Len(kq) : old(i) \in 1 .. Len(kq) /\ kq'[i].ev = kq[old(i)].ev
  BY <1>3, <1>4, <1>5
<1>8. \A i, j \in 1 .. Len(kq) : old(i) = old(j) => i = j
  BY <1>4
<1> HIDE DEF old
<1>9. \A i, j \in DOMAIN kq' : kq'[i].ev.tgt = kq'[j].ev.tgt => i = j
  <2> SUFFICES ASSUME NEW i \in 1 .. Len(kq), NEW j \in 1 .. Len(kq), kq'[i].ev.tgt = kq'[j].ev.tgt
               PROVE  i = j
    BY <1>6
  <2>1. kq[old(i)].ev.tgt = kq[old(j)].ev.tgt /\ old(i) \in DOMAIN kq /\ old(j) \in DOMAIN kq
    BY <1>6, <1>7
  <2>2. old(i) = old(j)
    BY <2>1 DEF OneTransaction
  <2> QED BY <2>2, <1>8
<1>10. \A i \in 1 .. Len(kq) : kq[i].ev.tgt \in busy
  BY <1>6 DEF OneTransaction, ToSet
<1>11. \A i \in DOMAIN kq' : kq'[i].ev.tgt \in busy'
  BY <1>2, <1>6, <1>7, <1>10
<1>12. \A m \in ToSet(kq') : m.ev.tgt \in busy'
  BY <1>11 DEF ToSet
<1>13. \A a \in Actor \ busy' : inbox'[a] = <<>>
  BY <1>2 DEF OneTransaction
<1> QED BY <1>1, <1>2, <1>5, <1>9, <1>12, <1>13 DEF OneTransaction, TransactionTypes

OtherTypes ==
  /\ eq \in Seq(Event) /\ beh \in [Actor -> Beh]
  /\ waiting \in [Sponsor -> Seq(Event)]
  /\ signal \in [Sponsor -> {"active", "stopped", "error"}]
  /\ alarm \in [Sponsor -> Seq(Event)]
  /\ events \in [Sponsor -> Nat]
  /\ turn \in {"host", "exec", "disp", "panic"}

LEMMA TypesSplit == TypeOK <=> TransactionTypes /\ OtherTypes
BY DEF TypeOK, TransactionTypes, OtherTypes

(* An event that waits with its sponsor.                                   *)
LEMMA WaitingTypes ==
  ASSUME TypeOK, NEW e \in Event, WaitingEvent(e)
  PROVE  waiting' \in [Sponsor -> Seq(Event)]
<1>1. e.spn \in Sponsor
  BY SchedulerAssumption
<1>2. waiting[e.spn] \in Seq(Event)
  BY <1>1 DEF TypeOK
<1>3. Append(waiting[e.spn], e) \in Seq(Event)
  BY <1>2, AppendProperties
<1> QED BY <1>3 DEF TypeOK, WaitingEvent

(* The report of an error.                                                 *)
LEMMA ReportTypes ==
  ASSUME TypeOK, NEW s \in Sponsor, NEW q \in Seq(Event), NEW next \in {"disp", "exec", "host"},
         ReportError(s, q, next)
  PROVE  /\ eq' \in Seq(Event) /\ turn' \in {"host", "exec", "disp", "panic"}
         /\ signal' \in [Sponsor -> {"active", "stopped", "error"}]
         /\ alarm' \in [Sponsor -> Seq(Event)]
<1>1. alarm[s] \in Seq(Event) /\ <<>> \in Seq(Event)
  BY EmptySeq DEF TypeOK
<1>2. q \o alarm[s] \in Seq(Event)
  BY <1>1, ConcatProperties
<1> QED BY <1>1, <1>2 DEF TypeOK, ReportError

(* Each step of the execution of an instruction.                           *)
LEMMA ExecuteKeeps ==
  ASSUME TypeOK, OneTransaction, Execute
  PROVE  TypeOK' /\ OneTransaction'
<1> DEFINE a == K.ev.tgt
           s == K.ev.spn
           q == inbox[a] \o eq
<1>0. /\ eq \in Seq(Event) /\ inbox \in [Actor -> Seq(Event)] /\ beh \in [Actor -> Beh]
      /\ waiting \in [Sponsor -> Seq(Event)] /\ events \in [Sponsor -> Nat]
      /\ signal \in [Sponsor -> {"active", "stopped", "error"}] /\ alarm \in [Sponsor -> Seq(Event)]
  BY DEF TypeOK
<1>e. ASSUME kq # <<>>, EndContinuation
      PROVE  /\ q \in Seq(Event) /\ K.out \in Seq(Event) /\ K.beh \in Beh /\ K.ev \in Event
             /\ s \in Sponsor /\ TransactionTypes' /\ OneTransaction'
             /\ inbox[a] \o (eq \o K.out) \in Seq(Event)
  <2>1. a \in Actor /\ TransactionTypes' /\ OneTransaction'
    BY <1>e, EndKeeps
  <2>2. K.out \in Seq(Event) /\ K.beh \in Beh /\ K.ev \in Event /\ s \in Sponsor
    BY <1>e, TheContinuation
  <2>3. inbox[a] \in Seq(Event)
    BY <1>0, <2>1
  <2>4. q \in Seq(Event) /\ eq \o K.out \in Seq(Event)
    BY <1>0, <2>2, <2>3, ConcatProperties
  <2>5. inbox[a] \o (eq \o K.out) \in Seq(Event)
    BY <2>3, <2>4, ConcatProperties
  <2> QED BY <2>1, <2>2, <2>4, <2>5
<1> HIDE DEF q
<1>1. CASE ExecuteSuspended
  <2>1. kq # <<>> /\ EndContinuation /\ eq' = q /\ turn' = "disp"
        /\ UNCHANGED <<beh, signal, alarm, events>>
    BY <1>1 DEF ExecuteSuspended, Executing, q
  <2>2. q \in Seq(Event) /\ K.ev \in Event /\ TransactionTypes' /\ OneTransaction'
    BY <2>1, <1>e
  <2>3. waiting' \in [Sponsor -> Seq(Event)]
    <3>1. CASE WaitingEvent(K.ev) BY <3>1, <2>2, WaitingTypes
    <3>2. CASE UNCHANGED waiting BY <3>2, <1>0
    <3> QED BY <1>1, <3>1, <3>2 DEF ExecuteSuspended
  <2>4. OtherTypes'
    BY <2>1, <2>2, <2>3, <1>0 DEF OtherTypes
  <2> QED BY <2>2, <2>4, TypesSplit DEF TypeOK, TransactionTypes, OtherTypes
<1>2. CASE Exhaust
  <2>1. kq # <<>> /\ EndContinuation /\ WaitingEvent(K.ev) /\ ReportError(s, q, "disp")
        /\ UNCHANGED <<beh, events>>
    BY <1>2 DEF Exhaust, Running, Executing, q
  <2>2. q \in Seq(Event) /\ K.ev \in Event /\ s \in Sponsor /\ TransactionTypes' /\ OneTransaction'
    BY <2>1, <1>e
  <2>3. waiting' \in [Sponsor -> Seq(Event)]
    BY <2>1, <2>2, WaitingTypes
  <2>4. OtherTypes'
    BY <2>1, <2>2, <2>3, <1>0, ReportTypes DEF OtherTypes
  <2> QED BY <2>2, <2>4, TypesSplit DEF TypeOK, TransactionTypes, OtherTypes
<1>3. CASE Abort
  <2>1. kq # <<>> /\ EndContinuation /\ eq' = q /\ turn' = "disp" /\ UNCHANGED <<beh, sponsorVars>>
    BY <1>3 DEF Abort, Running, Executing, q
  <2>2. q \in Seq(Event) /\ TransactionTypes' /\ OneTransaction'
    BY <2>1, <1>e
  <2>3. OtherTypes'
    BY <2>1, <2>2, <1>0 DEF OtherTypes, sponsorVars
  <2> QED BY <2>2, <2>3 DEF TypeOK, TransactionTypes, OtherTypes
<1>4. CASE Commit
  <2>1. kq # <<>> /\ EndContinuation /\ eq' = inbox[a] \o (eq \o K.out) /\ turn' = "disp"
        /\ beh' = [beh EXCEPT ![a] = K.beh] /\ UNCHANGED sponsorVars
    BY <1>4 DEF Commit, Running, Executing
  <2>2. eq' \in Seq(Event) /\ K.beh \in Beh /\ TransactionTypes' /\ OneTransaction'
    BY <2>1, <1>e
  <2>3. OtherTypes'
    BY <2>1, <2>2, <1>0 DEF OtherTypes, sponsorVars
  <2> QED BY <2>2, <2>3 DEF TypeOK, TransactionTypes, OtherTypes
<1>c. ASSUME NEW k \in Cont, k.ev = K.ev, k.n = K.n, Continue(k),
             waiting' \in [Sponsor -> Seq(Event)], alarm' \in [Sponsor -> Seq(Event)],
             signal' \in [Sponsor -> {"active", "stopped", "error"}],
             eq' \in Seq(Event), events' \in [Sponsor -> Nat]
      PROVE  TypeOK' /\ OneTransaction'
  <2>1. TransactionTypes' /\ OneTransaction' /\ turn' = "disp"
    BY <1>c, ContinueKeeps
  <2>2. beh' = beh
    BY <1>c DEF Continue, actorVars
  <2> QED BY <1>0, <1>c, <2>1, <2>2 DEF TypeOK, TransactionTypes
<1>k. ASSUME Running
      PROVE  /\ K \in Cont /\ K.ev \in Event /\ s \in Sponsor /\ K.out \in Seq(Event)
             /\ events[s] \in Nat /\ \A p \in Peers : p \in Sponsor /\ events[p] \in Nat
  <2>1. K \in Cont /\ K.ev \in Event /\ s \in Sponsor /\ K.out \in Seq(Event)
    BY <1>k, TheContinuation DEF Running, Executing
  <2> QED BY <1>0, <2>1 DEF Sponsor
<1>5. CASE Compute
  <2>1. Continue(K) /\ UNCHANGED <<eq, sponsorVars>> /\ Running
    BY <1>5 DEF Compute, Continue
  <2> QED BY <2>1, <1>0, <1>c, <1>k DEF sponsorVars
<1>6. CASE ExecuteNothing
  <2>1. UNCHANGED <<eq, kq, actorVars, sponsorVars>> /\ turn' = "disp"
    BY <1>6 DEF ExecuteNothing
  <2>2. OneTransaction'
    BY <2>1 DEF OneTransaction, actorVars, ToSet
  <2>3. TypeOK'
    BY <2>1 DEF TypeOK, actorVars, sponsorVars
  <2> QED BY <2>2, <2>3
<1>7. ASSUME NEW e \in Event, Send(e) PROVE TypeOK' /\ OneTransaction'
  <2> DEFINE k == [K EXCEPT !.out = Append(@, e)]
  <2>1. Continue(k) /\ UNCHANGED <<eq, sponsorVars>> /\ Running
    BY <1>7 DEF Send
  <2>2. Append(K.out, e) \in Seq(Event)
    BY <2>1, <1>k, AppendProperties
  <2>3. k \in Cont /\ k.ev = K.ev /\ k.n = K.n
    BY <2>1, <2>2, <1>k DEF Cont
  <2> HIDE DEF k
  <2> QED BY <2>1, <2>3, <1>0, <1>c DEF sponsorVars
<1>8. ASSUME NEW b \in Beh, Become(b) PROVE TypeOK' /\ OneTransaction'
  <2> DEFINE k == [K EXCEPT !.beh = b]
  <2>1. Continue(k) /\ UNCHANGED <<eq, sponsorVars>> /\ Running
    BY <1>8 DEF Become, Continue
  <2>2. k \in Cont /\ k.ev = K.ev /\ k.n = K.n
    BY <2>1, <1>k DEF Cont
  <2> HIDE DEF k
  <2> QED BY <2>1, <2>2, <1>0, <1>c DEF sponsorVars
<1>r. ASSUME NEW p \in Peers, Running, ReclaimSponsor(p) PROVE events' \in [Sponsor -> Nat]
  <2>1. p \in Sponsor /\ s \in Sponsor /\ events[s] \in Nat /\ events[p] \in Nat
    BY <1>r, <1>k
  <2> QED BY <2>1, <1>0, <1>r DEF ReclaimSponsor
<1>9. ASSUME NEW p \in Peers, Reclaim(p) PROVE TypeOK' /\ OneTransaction'
  <2>1. Continue(K) /\ Running /\ ReclaimSponsor(p) /\ UNCHANGED <<eq, waiting, signal, alarm>>
    BY <1>9 DEF Reclaim, Continue
  <2> QED BY <2>1, <1>0, <1>c, <1>k, <1>r
<1>10. ASSUME NEW p \in Peers, Stop(p) PROVE TypeOK' /\ OneTransaction'
  <2>1. /\ Continue(K) /\ Running /\ ReclaimSponsor(p) /\ UNCHANGED <<eq, waiting>>
        /\ signal' = [signal EXCEPT ![p] = "stopped"] /\ alarm' = [alarm EXCEPT ![p] = <<>>]
    BY <1>10 DEF Stop, Continue
  <2>2. alarm' \in [Sponsor -> Seq(Event)] /\ signal' \in [Sponsor -> {"active", "stopped", "error"}]
    BY <2>1, <1>0, EmptySeq
  <2> QED BY <2>1, <2>2, <1>0, <1>c, <1>k, <1>r
<1>11. ASSUME NEW p \in Peers, NEW n \in 1 .. Quota, Grant(p, n) PROVE TypeOK' /\ OneTransaction'
  <2> DEFINE left == [events EXCEPT ![s] = @ - n]
  <2>1. /\ Continue(K) /\ Running /\ UNCHANGED <<eq, waiting, signal, alarm>>
        /\ n < events[s] /\ events' = [left EXCEPT ![p] = @ + n]
    BY <1>11 DEF Grant, Continue
  <2>2. n \in Nat /\ events[s] - n \in Nat
    BY <2>1, <1>k, SchedulerAssumption
  <2>3. left \in [Sponsor -> Nat]
    BY <2>2, <1>0
  <2> HIDE DEF left
  <2>4. left[p] + n \in Nat
    BY <2>1, <2>2, <2>3, <1>k
  <2>5. events' \in [Sponsor -> Nat]
    BY <2>1, <2>3, <2>4
  <2> QED BY <2>1, <2>5, <1>0, <1>c, <1>k
<1>12. ASSUME NEW p \in Peers, NEW e \in Event, Start(p, e) PROVE TypeOK' /\ OneTransaction'
  <2>1. /\ Continue(K) /\ Running /\ UNCHANGED events /\ eq' = eq \o waiting[p]
        /\ waiting' = [waiting EXCEPT ![p] = <<>>] /\ signal' = [signal EXCEPT ![p] = "active"]
        /\ alarm' = [alarm EXCEPT ![p] = <<e>>]
    BY <1>12 DEF Start, Continue
  <2>2. p \in Sponsor /\ waiting[p] \in Seq(Event) /\ <<>> \in Seq(Event) /\ <<e>> \in Seq(Event)
    BY <2>1, <1>0, <1>k, EmptySeq
  <2>3. eq' \in Seq(Event)
    BY <2>1, <2>2, <1>0, ConcatProperties
  <2>4. /\ waiting' \in [Sponsor -> Seq(Event)] /\ alarm' \in [Sponsor -> Seq(Event)]
        /\ signal' \in [Sponsor -> {"active", "stopped", "error"}]
    BY <2>1, <2>2, <1>0
  <2> QED BY <2>1, <2>3, <2>4, <1>0, <1>c, <1>k
<1> QED BY <1>1, <1>2, <1>3, <1>4, <1>5, <1>6, <1>7, <1>8, <1>9, <1>10, <1>11, <1>12 DEF Execute

(* Each step of the dispatch of an event.                                  *)
LEMMA DispatchKeeps ==
  ASSUME TypeOK, OneTransaction, Dispatch
  PROVE  TypeOK' /\ OneTransaction'
<1> DEFINE q == Tail(eq)
<1>0. /\ eq \in Seq(Event) /\ inbox \in [Actor -> Seq(Event)] /\ beh \in [Actor -> Beh]
      /\ kq \in Seq(Cont) /\ busy \subseteq Actor
      /\ waiting \in [Sponsor -> Seq(Event)] /\ events \in [Sponsor -> Nat]
      /\ signal \in [Sponsor -> {"active", "stopped", "error"}] /\ alarm \in [Sponsor -> Seq(Event)]
  BY DEF TypeOK
<1>e. ASSUME eq # <<>> PROVE E \in Event /\ q \in Seq(Event) /\ E.spn \in Sponsor /\ E.tgt \in Target
  BY <1>e, TheEvent
<1> HIDE DEF q
<1>t. ASSUME Iterated PROVE turn' \in {"host", "exec", "disp", "panic"}
  BY <1>t DEF Iterated
<1>s. ASSUME UNCHANGED <<kq, actorVars>> PROVE TransactionTypes' /\ OneTransaction' /\ beh' = beh
  BY <1>0, <1>s DEF actorVars, TransactionTypes, OneTransaction, ToSet
<1>c. ASSUME Charge
      PROVE  /\ eq # <<>> /\ E \in Event /\ q \in Seq(Event) /\ E.spn \in Sponsor
             /\ E.tgt \notin busy /\ events' \in [Sponsor -> Nat]
  <2>1. /\ eq # <<>> /\ E.tgt \notin busy /\ events[E.spn] > 0
        /\ events' = [events EXCEPT ![E.spn] = @ - 1]
    BY <1>c DEF Charge, Processing, Dispatching
  <2>2. events[E.spn] \in Nat
    BY <2>1, <1>e, <1>0
  <2>3. events[E.spn] - 1 \in Nat
    BY <2>1, <2>2
  <2> QED BY <2>1, <2>3, <1>e, <1>0
<1>f. ASSUME eq # <<>>, ProcessFailed
      PROVE  /\ eq' \in Seq(Event) /\ turn' \in {"host", "exec", "disp", "panic"}
             /\ signal' \in [Sponsor -> {"active", "stopped", "error"}]
             /\ alarm' \in [Sponsor -> Seq(Event)] /\ waiting' \in [Sponsor -> Seq(Event)]
  <2>1. /\ WaitingEvent(E) /\ \E next \in {"exec", "host"} : ReportError(E.spn, q, next)
        /\ E \in Event /\ E.spn \in Sponsor /\ q \in Seq(Event)
    BY <1>e, <1>f DEF ProcessFailed, q
  <2>2. PICK next \in {"exec", "host"} : ReportError(E.spn, q, next)
    BY <2>1
  <2> QED BY <2>1, <2>2, WaitingTypes, ReportTypes
<1>1. CASE DispatchNothing
  <2>1. UNCHANGED <<eq, kq, actorVars, sponsorVars>> /\ Iterated
    BY <1>1 DEF DispatchNothing
  <2> QED BY <2>1, <1>0, <1>s, <1>t DEF TypeOK, TransactionTypes, sponsorVars
<1>2. CASE Defer
  <2>1. /\ eq # <<>> /\ eq' = q /\ Iterated /\ UNCHANGED <<kq, actorVars, signal, alarm, events>>
    BY <1>2 DEF Defer, Dispatching, q
  <2>2. waiting' \in [Sponsor -> Seq(Event)]
    <3>1. CASE WaitingEvent(E) BY <3>1, <2>1, <1>e, WaitingTypes
    <3>2. CASE UNCHANGED waiting BY <3>2, <1>0
    <3> QED BY <1>2, <3>1, <3>2 DEF Defer
  <2> QED BY <2>1, <2>2, <1>0, <1>e, <1>s, <1>t DEF TypeOK, TransactionTypes
<1>3. CASE InboxEvent
  <2>1. /\ eq # <<>> /\ eq' = q /\ Iterated /\ UNCHANGED <<kq, beh, busy, sponsorVars>> /\ E.tgt \in busy
        /\ inbox' = [inbox EXCEPT ![E.tgt] = Append(@, E)]
    BY <1>3 DEF InboxEvent, Dispatching, q
  <2>2. E.tgt \in Actor /\ Append(inbox[E.tgt], E) \in Seq(Event)
    BY <2>1, <1>0, <1>e, AppendProperties
  <2>3. inbox' \in [Actor -> Seq(Event)]
    BY <2>1, <2>2, <1>0
  <2>4. \A a \in Actor \ busy' : inbox'[a] = <<>>
    BY <2>1, <1>0 DEF OneTransaction
  <2>5. OneTransaction'
    BY <2>1, <2>4 DEF OneTransaction, ToSet
  <2> QED BY <2>1, <2>3, <2>5, <1>0, <1>e, <1>t DEF TypeOK, sponsorVars
<1>4. CASE ProcessLimit
  <2>1. eq # <<>> /\ ProcessFailed /\ UNCHANGED <<kq, actorVars, events>>
    BY <1>4 DEF ProcessLimit, Processing, Dispatching
  <2> QED BY <2>1, <1>0, <1>f, <1>s DEF TypeOK, TransactionTypes
<1>5. CASE ProcessActor
  <2> DEFINE k == [ev |-> E, beh |-> beh[E.tgt], out |-> <<>>, n |-> 0]
  <2>1. /\ Charge /\ E.tgt \in Actor /\ busy' = busy \cup {E.tgt} /\ kq' = Append(kq, k)
        /\ eq' = q /\ Iterated /\ UNCHANGED <<beh, inbox, waiting, signal, alarm>>
    BY <1>5 DEF ProcessActor, q
  <2>2. k \in Cont /\ k.ev.tgt = E.tgt /\ E.tgt \notin busy
    BY <2>1, <1>0, <1>c, EmptySeq, SchedulerAssumption DEF Cont
  <2> HIDE DEF k
  <2>3. /\ kq' \in Seq(Cont) /\ Len(kq') = Len(kq) + 1 /\ Len(kq) \in Nat
        /\ \A i \in 1 .. Len(kq) : kq'[i] = kq[i]
        /\ kq'[Len(kq) + 1] = k
    BY <2>1, <2>2, <1>0, AppendProperties, LenProperties
  <2>4. DOMAIN kq = 1 .. Len(kq) /\ DOMAIN kq' = 1 .. Len(kq) + 1
    BY <2>3, <1>0, LenProperties
  <2>5. \A i \in 1 .. Len(kq) : kq[i].ev.tgt \in busy
    BY <2>4 DEF OneTransaction, ToSet
  <2>6. \A i, j \in DOMAIN kq' : kq'[i].ev.tgt = kq'[j].ev.tgt => i = j
    <3> SUFFICES ASSUME NEW i \in 1 .. Len(kq) + 1, NEW j \in 1 .. Len(kq) + 1,
                        kq'[i].ev.tgt = kq'[j].ev.tgt
                 PROVE  i = j
      BY <2>4
    <3>1. CASE i \in 1 .. Len(kq) /\ j \in 1 .. Len(kq)
      <4>1. kq[i].ev.tgt = kq[j].ev.tgt /\ i \in DOMAIN kq /\ j \in DOMAIN kq
        BY <3>1, <2>3, <2>4
      <4> QED BY <4>1 DEF OneTransaction
    <3>2. CASE i = Len(kq) + 1 /\ j \in 1 .. Len(kq)
      BY <3>2, <2>2, <2>3, <2>5
    <3>3. CASE i \in 1 .. Len(kq) /\ j = Len(kq) + 1
      BY <3>3, <2>2, <2>3, <2>5
    <3> QED BY <3>1, <3>2, <3>3, <2>3
  <2>7. \A l \in ToSet(kq') : l.ev.tgt \in busy'
    <3>1. ToSet(kq') = ToSet(kq) \cup {k}
      BY <2>1, <2>2, <1>0, ElemsAppend
    <3> QED BY <3>1, <2>1, <2>2 DEF OneTransaction
  <2>8. OneTransaction'
    BY <2>1, <2>6, <2>7 DEF OneTransaction
  <2> QED BY <2>1, <2>3, <2>8, <1>0, <1>c, <1>t DEF TypeOK
<1>6. CASE ProcessNoMem
  <2>1. /\ Charge /\ ProcessFailed /\ E.tgt \in Actor /\ busy' = busy \cup {E.tgt} /\ UNCHANGED <<kq, beh, inbox>>
    BY <1>6 DEF ProcessNoMem
  <2>2. OneTransaction'
    BY <2>1 DEF OneTransaction, ToSet
  <2> QED BY <2>1, <2>2, <1>0, <1>c, <1>f DEF TypeOK
<1>7. ASSUME NEW r \in Seq(Event), ProcessDevice(r) PROVE TypeOK' /\ OneTransaction'
  <2>1. Charge /\ eq' = q \o r /\ Iterated /\ UNCHANGED <<kq, actorVars, waiting, signal, alarm>>
    BY <1>7 DEF ProcessDevice, q
  <2>2. eq' \in Seq(Event)
    BY <2>1, <1>c, ConcatProperties
  <2> QED BY <2>1, <2>2, <1>0, <1>c, <1>s, <1>t DEF TypeOK, TransactionTypes
<1>8. ASSUME NEW error \in DeviceError, DeviceFails(error) PROVE TypeOK' /\ OneTransaction'
  <2>1. Charge /\ UNCHANGED <<kq, actorVars>>
    BY <1>8 DEF DeviceFails
  <2>2. CASE ProcessFailed
    BY <2>1, <2>2, <1>0, <1>c, <1>f, <1>s DEF TypeOK, TransactionTypes
  <2>3. CASE WaitingEvent(E) /\ eq' = q /\ turn' = "panic" /\ UNCHANGED <<signal, alarm>>
    BY <2>1, <2>3, <1>0, <1>c, <1>s, WaitingTypes DEF TypeOK, TransactionTypes
  <2> QED BY <1>8, <2>2, <2>3 DEF DeviceFails, q
<1>9. <<>> \in Seq(Event) /\ \A e \in Event : <<e>> \in Seq(Event)
  BY EmptySeq
<1> QED BY <1>1, <1>2, <1>3, <1>4, <1>5, <1>6, <1>7, <1>8, <1>9 DEF Dispatch

(* Each step of the host.                                                  *)
LEMMA HostKeeps ==
  ASSUME TypeOK, OneTransaction, Host \/ Idle \/ UNCHANGED vars
  PROVE  TypeOK' /\ OneTransaction'
<1>0. /\ eq \in Seq(Event) /\ waiting \in [Sponsor -> Seq(Event)] /\ events \in [Sponsor -> Nat]
      /\ signal \in [Sponsor -> {"active", "stopped", "error"}] /\ Root \in Sponsor
      /\ Quota \in Nat /\ <<>> \in Seq(Event)
  BY SchedulerAssumption, EmptySeq DEF TypeOK, Sponsor
<1>s. ASSUME UNCHANGED <<kq, actorVars>> PROVE TransactionTypes' /\ OneTransaction' /\ beh' \in [Actor -> Beh]
  BY <1>s DEF TypeOK, actorVars, TransactionTypes, OneTransaction, ToSet
<1>1. CASE RunLoop
  <2>1. /\ eq' = eq \o waiting[Root] /\ waiting' = [waiting EXCEPT ![Root] = <<>>]
        /\ signal' = [signal EXCEPT ![Root] = "active"] /\ turn' = "exec"
        /\ UNCHANGED <<kq, actorVars, alarm, events>>
    BY <1>1 DEF RunLoop
  <2>2. eq' \in Seq(Event)
    BY <2>1, <1>0, ConcatProperties
  <2> QED BY <2>1, <2>2, <1>0, <1>s DEF TypeOK, TransactionTypes
<1>2. CASE Idle
  <2>1. signal' = [signal EXCEPT ![Root] = "stopped"] /\ turn' = "host"
        /\ UNCHANGED <<eq, kq, actorVars, waiting, alarm, events>>
    BY <1>2 DEF Idle
  <2> QED BY <2>1, <1>0, <1>s DEF TypeOK, TransactionTypes
<1>3. ASSUME NEW e \in Event, HostEvent(e) PROVE TypeOK' /\ OneTransaction'
  <2>1. eq' = Append(eq, e) /\ UNCHANGED <<kq, actorVars, sponsorVars, turn>>
    BY <1>3 DEF HostEvent
  <2>2. eq' \in Seq(Event)
    BY <2>1, <1>0, AppendProperties
  <2> QED BY <2>1, <2>2, <1>0, <1>s DEF TypeOK, TransactionTypes, sponsorVars
<1>4. CASE Refill
  <2>1. events' = [events EXCEPT ![Root] = Quota] /\ UNCHANGED <<eq, kq, actorVars, waiting, signal, alarm, turn>>
    BY <1>4 DEF Refill
  <2> QED BY <2>1, <1>0, <1>s DEF TypeOK, TransactionTypes
<1>5. CASE UNCHANGED vars
  BY <1>5, <1>s DEF vars, TypeOK, TransactionTypes, sponsorVars
<1> QED BY <1>1, <1>2, <1>3, <1>4, <1>5 DEF Host

LEMMA InitKeeps == ASSUME Init PROVE TypeOK /\ OneTransaction
<1>1. <<>> \in Seq(Event) /\ <<>> \in Seq(Cont) /\ Quota \in Nat
  BY EmptySeq, SchedulerAssumption
<1>2. TypeOK
  BY <1>1 DEF Init, TypeOK
<1>3. OneTransaction
  BY DEF Init, OneTransaction, ToSet
<1> QED BY <1>2, <1>3

LEMMA NextKeeps == ASSUME TypeOK, OneTransaction, [Next]_vars PROVE TypeOK' /\ OneTransaction'
BY ExecuteKeeps, DispatchKeeps, HostKeeps DEF Next

(* The variables have their types: scheduler.md, as Scheduler says.        *)
THEOREM SchedulerTypes == Spec => []TypeOK
<1>1. Init => TypeOK /\ OneTransaction
  BY InitKeeps
<1>2. TypeOK /\ OneTransaction /\ [Next]_vars => (TypeOK /\ OneTransaction)'
  BY NextKeeps
<1> QED BY <1>1, <1>2, PTL DEF Spec

(***************************************************************************)
(* An actor has one transaction at most, is busy while it has, and no      *)
(* event is left in the inbox of an actor that is not busy.                *)
(***************************************************************************)
THEOREM ActorsBusy == Spec => []OneTransaction
<1>1. Init => TypeOK /\ OneTransaction
  BY InitKeeps
<1>2. TypeOK /\ OneTransaction /\ [Next]_vars => (TypeOK /\ OneTransaction)'
  BY NextKeeps
<1> QED BY <1>1, <1>2, PTL DEF Spec

-----------------------------------------------------------------------------
(* Sponsors *)

(* A step that leaves the queues and the signals of the sponsors alone.    *)
LEMMA OthersReady ==
  ASSUME SponsorReady, UNCHANGED <<waiting, signal, alarm>>
  PROVE  SponsorReady'
BY DEF SponsorReady

(* An event that is put off because its sponsor is suspended, or dropped.  *)
LEMMA LateReady ==
  ASSUME TypeOK, SponsorReady, NEW e \in Event, Suspended(e.spn),
         WaitingEvent(e) \/ UNCHANGED waiting, UNCHANGED <<signal, alarm>>
  PROVE  SponsorReady'
<1>1. e.spn \in Sponsor /\ signal[e.spn] # "active"
  BY SchedulerAssumption DEF Suspended
<1>2. \A s \in Sponsor : s # e.spn => waiting'[s] = waiting[s]
  BY <1>1 DEF WaitingEvent, TypeOK
<1> QED BY <1>1, <1>2 DEF SponsorReady

(* The error of a sponsor is reported: it is active no more.               *)
LEMMA FailedReady ==
  ASSUME TypeOK, SponsorReady, NEW e \in Event, NEW q, NEW next,
         WaitingEvent(e), ReportError(e.spn, q, next)
  PROVE  SponsorReady'
<1>1. e.spn \in Sponsor
  BY SchedulerAssumption
<1>2. \A s \in Sponsor \ {e.spn} :
        waiting'[s] = waiting[s] /\ signal'[s] = signal[s] /\ alarm'[s] = alarm[s]
  BY <1>1 DEF WaitingEvent, ReportError, TypeOK
<1>3. signal'[e.spn] = "error" /\ alarm'[e.spn] = <<>>
  BY <1>1 DEF ReportError, TypeOK
<1> QED BY <1>1, <1>2, <1>3 DEF SponsorReady

LEMMA SponsorsKept ==
  ASSUME "abort" \notin DeviceError, TypeOK, SponsorReady, [Next]_vars
  PROVE  SponsorReady'
<1>0. /\ waiting \in [Sponsor -> Seq(Event)] /\ alarm \in [Sponsor -> Seq(Event)]
      /\ signal \in [Sponsor -> {"active", "stopped", "error"}]
      /\ Root \in Sponsor /\ \A p \in Peers : p \in Sponsor /\ p # Root
  BY SchedulerAssumption DEF TypeOK, Sponsor
<1>1. ASSUME Execute PROVE SponsorReady'
  <2>1. CASE ExecuteSuspended
    <3>1. kq # <<>> /\ Suspended(K.ev.spn) /\ UNCHANGED <<signal, alarm>>
      BY <2>1 DEF ExecuteSuspended, Executing
    <3>2. WaitingEvent(K.ev) \/ UNCHANGED waiting
      BY <2>1 DEF ExecuteSuspended
    <3> QED BY <3>1, <3>2, TheContinuation, LateReady
  <2>2. CASE Exhaust
    <3>1. kq # <<>> /\ WaitingEvent(K.ev) /\ ReportError(K.ev.spn, inbox[K.ev.tgt] \o eq, "disp")
      BY <2>2 DEF Exhaust, Running, Executing
    <3> QED BY <3>1, TheContinuation, FailedReady
  <2>3. CASE Abort \/ Commit \/ Compute \/ ExecuteNothing
    BY <2>3, OthersReady DEF Abort, Commit, Compute, ExecuteNothing, sponsorVars
  <2>4. ASSUME NEW e \in Event, Send(e) PROVE SponsorReady'
    BY <2>4, OthersReady DEF Send, sponsorVars
  <2>5. ASSUME NEW b \in Beh, Become(b) PROVE SponsorReady'
    BY <2>5, OthersReady DEF Become, sponsorVars
  <2>6. ASSUME NEW p \in Peers, Reclaim(p) PROVE SponsorReady'
    BY <2>6, OthersReady DEF Reclaim
  <2>7. ASSUME NEW p \in Peers, NEW n \in 1 .. Quota, Grant(p, n) PROVE SponsorReady'
    BY <2>7, OthersReady DEF Grant
  <2>8. ASSUME NEW p \in Peers, Stop(p) PROVE SponsorReady'
    <3>1. /\ signal' = [signal EXCEPT ![p] = "stopped"] /\ alarm' = [alarm EXCEPT ![p] = <<>>]
          /\ UNCHANGED waiting
      BY <2>8 DEF Stop
    <3>2. signal'[p] = "stopped" /\ alarm'[p] = <<>>
      BY <3>1, <1>0
    <3>3. \A s \in Sponsor \ {p} : signal'[s] = signal[s] /\ alarm'[s] = alarm[s]
      BY <3>1, <1>0
    <3> QED BY <3>1, <3>2, <3>3 DEF SponsorReady
  <2>9. ASSUME NEW p \in Peers, NEW e \in Event, Start(p, e) PROVE SponsorReady'
    <3>1. /\ signal' = [signal EXCEPT ![p] = "active"] /\ alarm' = [alarm EXCEPT ![p] = <<e>>]
          /\ waiting' = [waiting EXCEPT ![p] = <<>>]
      BY <2>9 DEF Start
    <3>2. signal'[p] = "active" /\ alarm'[p] = <<e>> /\ waiting'[p] = <<>> /\ p # Root
      BY <3>1, <1>0
    <3>3. Len(alarm'[p]) = 1
      BY <3>2
    <3>4. \A s \in Sponsor \ {p} :
            signal'[s] = signal[s] /\ alarm'[s] = alarm[s] /\ waiting'[s] = waiting[s]
      BY <3>1, <1>0
    <3> QED BY <3>2, <3>3, <3>4 DEF SponsorReady
  <2> QED BY <1>1, <2>1, <2>2, <2>3, <2>4, <2>5, <2>6, <2>7, <2>8, <2>9 DEF Execute
<1>2. ASSUME Dispatch PROVE SponsorReady'
  <2>1. CASE Defer
    <3>1. eq # <<>> /\ Suspended(E.spn) /\ UNCHANGED <<signal, alarm>>
      BY <2>1 DEF Defer, Dispatching
    <3>2. WaitingEvent(E) \/ UNCHANGED waiting
      BY <2>1 DEF Defer
    <3> QED BY <3>1, <3>2, TheEvent, LateReady
  <2>2. CASE DispatchNothing \/ InboxEvent \/ ProcessActor
    BY <2>2, OthersReady DEF DispatchNothing, InboxEvent, ProcessActor, sponsorVars
  <2>3. ASSUME NEW r, ProcessDevice(r) PROVE SponsorReady'
    BY <2>3, OthersReady DEF ProcessDevice
  <2>4. ASSUME Dispatching, ProcessFailed PROVE SponsorReady'
    <3>1. eq # <<>> /\ WaitingEvent(E) /\ \E next \in {"exec", "host"} : ReportError(E.spn, Tail(eq), next)
      BY <2>4 DEF Dispatching, ProcessFailed
    <3>2. PICK next : ReportError(E.spn, Tail(eq), next)
      BY <3>1
    <3> QED BY <3>1, <3>2, TheEvent, FailedReady
  <2>5. CASE ProcessLimit
    BY <2>4, <2>5 DEF ProcessLimit, Processing
  <2>6. CASE ProcessNoMem
    BY <2>4, <2>6 DEF ProcessNoMem, Charge, Processing
  <2>7. ASSUME NEW error \in DeviceError, DeviceFails(error) PROVE SponsorReady'
    <3>1. error = "limit"
      BY <2>7, SchedulerAssumption
    <3> QED BY <2>4, <2>7, <3>1 DEF DeviceFails, Charge, Processing
  <2> QED BY <1>2, <2>1, <2>2, <2>3, <2>5, <2>6, <2>7 DEF Dispatch
<1>3. ASSUME Host \/ Idle \/ UNCHANGED vars PROVE SponsorReady'
  <2>1. CASE RunLoop
    <3>1. /\ waiting' = [waiting EXCEPT ![Root] = <<>>] /\ alarm' = alarm
          /\ signal' = [signal EXCEPT ![Root] = "active"]
      BY <2>1 DEF RunLoop
    <3>2. waiting'[Root] = <<>>
      BY <3>1, <1>0
    <3>3. \A s \in Sponsor \ {Root} : signal'[s] = signal[s] /\ waiting'[s] = waiting[s]
      BY <3>1, <1>0
    <3> QED BY <3>1, <3>2, <3>3 DEF SponsorReady
  <2>2. CASE Idle
    <3>1. waiting' = waiting /\ alarm' = alarm /\ signal' = [signal EXCEPT ![Root] = "stopped"]
      BY <2>2 DEF Idle
    <3>2. signal'[Root] = "stopped" /\ \A s \in Sponsor \ {Root} : signal'[s] = signal[s]
      BY <3>1, <1>0
    <3> QED BY <3>1, <3>2 DEF SponsorReady
  <2>3. CASE Refill \/ UNCHANGED vars
    BY <2>3, OthersReady DEF Refill, vars, sponsorVars
  <2>4. ASSUME NEW e \in Event, HostEvent(e) PROVE SponsorReady'
    BY <2>4, OthersReady DEF HostEvent, sponsorVars
  <2> QED BY <1>3, <2>1, <2>2, <2>3, <2>4 DEF Host
<1> QED BY <1>1, <1>2, <1>3 DEF Next

(***************************************************************************)
(* A sponsor that runs can report its exhaustion, and no event waits with  *)
(* it; unless a device fails with an error that stops the core.            *)
(***************************************************************************)
THEOREM SponsorsReady ==
  ASSUME "abort" \notin DeviceError
  PROVE  Spec => []SponsorReady
<1>1. Init => SponsorReady
  BY SchedulerAssumption DEF Init, SponsorReady
<1>2. Init => TypeOK /\ OneTransaction
  BY InitKeeps
<1>3. TypeOK /\ OneTransaction /\ [Next]_vars => (TypeOK /\ OneTransaction)'
  BY NextKeeps
<1>4. TypeOK /\ SponsorReady /\ [Next]_vars => SponsorReady'
  BY SponsorsKept
<1> QED BY <1>1, <1>2, <1>3, <1>4, PTL DEF Spec

-----------------------------------------------------------------------------
(***************************************************************************)
(* Events                                                                  *)
(*                                                                         *)
(* Every event is in one queue only.                                       *)
(*                                                                         *)
(* A place is a queue that exists whatever the state: the event queue, and *)
(* for each actor its current event, its outbox and its inbox, for each    *)
(* sponsor its waiting queue and its control event.  The positions of the  *)
(* continuation queue are no places, for they change; the actor that a     *)
(* continuation belongs to is one, because an actor has one at most        *)
(* (OneTransaction).  A layout F gives each place a queue, with no event   *)
(* twice and none in two places.  The invariant HomeInv says that a layout *)
(* describes the state (Placed).  Each action transforms the layout by a   *)
(* few operations that keep it one: Clear and Drop take events away, Put   *)
(* adds a new one, Join and Take move events from a place to another.      *)
(***************************************************************************)

(***************************************************************************)
(* The places where the scheduler keeps queues: the event that an actor    *)
(* processes and its outbox are in the continuation and its effect.        *)
(***************************************************************************)
AtQueue == <<"queue", Root>>
AtCurrent(a) == <<"current", a>>
AtOutbox(a) == <<"outbox", a>>
AtInbox(a) == <<"inbox", a>>
AtWaiting(s) == <<"waiting", s>>
AtAlarm(s) == <<"alarm", s>>

Place ==
  {AtQueue} \cup {AtCurrent(a) : a \in Actor} \cup {AtOutbox(a) : a \in Actor}
    \cup {AtInbox(a) : a \in Actor} \cup {AtWaiting(s) : s \in Sponsor}
    \cup {AtAlarm(s) : s \in Sponsor}

(* The queues F that are in these places share no event.                   *)
Layout(F) ==
  /\ F \in [Place -> Seq(Event)]
  /\ \A x \in Place : Distinct(F[x])
  /\ \A x, y \in Place : \A e \in ToSet(F[x]) : e \in ToSet(F[y]) => x = y

(* No two places are the same.                                             *)
LEMMA Places ==
  /\ AtQueue \in Place
  /\ \A a \in Actor :
       /\ AtCurrent(a) \in Place /\ AtOutbox(a) \in Place /\ AtInbox(a) \in Place
       /\ AtCurrent(a) # AtQueue /\ AtOutbox(a) # AtQueue /\ AtInbox(a) # AtQueue
       /\ \A b \in Actor :
            /\ AtCurrent(a) # AtOutbox(b) /\ AtCurrent(a) # AtInbox(b) /\ AtOutbox(a) # AtInbox(b)
            /\ (AtCurrent(a) = AtCurrent(b) => a = b) /\ (AtOutbox(a) = AtOutbox(b) => a = b)
            /\ (AtInbox(a) = AtInbox(b) => a = b)
       /\ \A s \in Sponsor :
            /\ AtCurrent(a) # AtWaiting(s) /\ AtOutbox(a) # AtWaiting(s) /\ AtInbox(a) # AtWaiting(s)
            /\ AtCurrent(a) # AtAlarm(s) /\ AtOutbox(a) # AtAlarm(s) /\ AtInbox(a) # AtAlarm(s)
  /\ \A s \in Sponsor :
       /\ AtWaiting(s) \in Place /\ AtAlarm(s) \in Place
       /\ AtWaiting(s) # AtQueue /\ AtAlarm(s) # AtQueue
       /\ \A t \in Sponsor :
            /\ AtWaiting(s) # AtAlarm(t)
            /\ (AtWaiting(s) = AtWaiting(t) => s = t) /\ (AtAlarm(s) = AtAlarm(t) => s = t)
BY DEF Place, AtQueue, AtCurrent, AtOutbox, AtInbox, AtWaiting, AtAlarm

(* What the actions do to the queues.                                      *)
Clear(F, h) == [F EXCEPT ![h] = <<>>]
Drop(F, h) == [F EXCEPT ![h] = Tail(F[h])]
Put(F, h, e) == [F EXCEPT ![h] = Append(F[h], e)]
Join(F, g, h) == [F EXCEPT ![g] = F[g] \o F[h], ![h] = <<>>]
JoinFirst(F, g, h) == [F EXCEPT ![g] = F[h] \o F[g], ![h] = <<>>]
Take(F, g, h) == [F EXCEPT ![g] = Tail(F[g]), ![h] = Append(F[h], Head(F[g]))]

(* A queue is emptied.                                                     *)
LEMMA Clears ==
  ASSUME NEW F, Layout(F), NEW h \in Place
  PROVE  /\ Layout(Clear(F, h)) /\ Clear(F, h)[h] = <<>>
         /\ \A x \in Place : x # h => Clear(F, h)[x] = F[x]
<1> DEFINE G == Clear(F, h)
<1>1. /\ G \in [Place -> Seq(Event)] /\ G[h] = <<>> /\ \A x \in Place : x # h => G[x] = F[x]
  BY EmptySeq DEF Clear, Layout
<1> HIDE DEF G
<1>2. Distinct(G[h]) /\ ToSet(G[h]) = {}
  BY <1>1 DEF Distinct, ToSet
<1>3. Layout(G)
  BY <1>1, <1>2 DEF Layout
<1> QED BY <1>1, <1>3 DEF G

(* A queue loses its first event.                                          *)
LEMMA Drops ==
  ASSUME NEW F, Layout(F), NEW h \in Place, F[h] # <<>>
  PROVE  /\ Layout(Drop(F, h)) /\ Drop(F, h)[h] = Tail(F[h])
         /\ \A x \in Place : x # h => Drop(F, h)[x] = F[x]
<1> DEFINE G == Drop(F, h)
<1>1. F[h] \in Seq(Event) /\ Distinct(F[h])
  BY DEF Layout
<1>2. Tail(F[h]) \in Seq(Event) /\ Distinct(Tail(F[h])) /\ ToSet(F[h]) = {Head(F[h])} \cup ToSet(Tail(F[h]))
  BY <1>1, DistinctTail
<1>3. /\ G \in [Place -> Seq(Event)] /\ G[h] = Tail(F[h]) /\ \A x \in Place : x # h => G[x] = F[x]
  BY <1>2 DEF Drop, Layout
<1> HIDE DEF G
<1>4. \A x \in Place : Distinct(G[x]) /\ ToSet(G[x]) \subseteq ToSet(F[x])
  BY <1>2, <1>3 DEF Layout
<1>5. Layout(G)
  BY <1>3, <1>4 DEF Layout
<1> QED BY <1>3, <1>5 DEF G

(* A new event is put at the end of a queue.                               *)
LEMMA Puts ==
  ASSUME NEW F, Layout(F), NEW h \in Place, NEW e \in Event, \A x \in Place : e \notin ToSet(F[x])
  PROVE  /\ Layout(Put(F, h, e)) /\ Put(F, h, e)[h] = Append(F[h], e)
         /\ \A x \in Place : x # h => Put(F, h, e)[x] = F[x]
<1> DEFINE G == Put(F, h, e)
<1>1. F[h] \in Seq(Event) /\ Distinct(F[h])
  BY DEF Layout
<1>2. /\ Append(F[h], e) \in Seq(Event) /\ Distinct(Append(F[h], e))
      /\ ToSet(Append(F[h], e)) = ToSet(F[h]) \cup {e}
  BY <1>1, DistinctAppend, ElemsAppend
<1>3. /\ G \in [Place -> Seq(Event)] /\ G[h] = Append(F[h], e) /\ \A x \in Place : x # h => G[x] = F[x]
  BY <1>2 DEF Put, Layout
<1> HIDE DEF G
<1>4. \A x \in Place : Distinct(G[x])
  BY <1>2, <1>3 DEF Layout
<1>5. ASSUME NEW x \in Place, NEW y \in Place, NEW d \in ToSet(G[x]), d \in ToSet(G[y]) PROVE x = y
  <2>1. CASE d = e
    BY <2>1, <1>3, <1>5
  <2>2. CASE d # e
    <3>1. \A z \in Place : d \in ToSet(G[z]) => d \in ToSet(F[z])
      BY <2>2, <1>2, <1>3
    <3> QED BY <3>1, <1>5 DEF Layout
  <2> QED BY <2>1, <2>2
<1>6. Layout(G)
  BY <1>3, <1>4, <1>5 DEF Layout
<1> QED BY <1>3, <1>6 DEF G

(* Two queues are put together.                                            *)
LEMMA Joins ==
  ASSUME NEW F, Layout(F), NEW g \in Place, NEW h \in Place, g # h, NEW G,
         G = Join(F, g, h) \/ G = JoinFirst(F, g, h)
  PROVE  /\ Layout(G) /\ G[h] = <<>>
         /\ G[g] = IF G = Join(F, g, h) THEN F[g] \o F[h] ELSE F[h] \o F[g]
         /\ \A x \in Place : x # g /\ x # h => G[x] = F[x]
<1>1. F[g] \in Seq(Event) /\ F[h] \in Seq(Event) /\ Distinct(F[g]) /\ Distinct(F[h])
      /\ ToSet(F[g]) \cap ToSet(F[h]) = {}
  BY DEF Layout
<1>2. Distinct(F[g] \o F[h]) /\ Distinct(F[h] \o F[g])
  BY <1>1, DistinctConcat
<1>3. ToSet(F[g] \o F[h]) = ToSet(F[g]) \cup ToSet(F[h]) /\ F[g] \o F[h] \in Seq(Event)
  BY <1>1, ElemsConcat
<1>4. ToSet(F[h] \o F[g]) = ToSet(F[h]) \cup ToSet(F[g]) /\ F[h] \o F[g] \in Seq(Event)
  BY <1>1, ElemsConcat
<1>5. Join(F, g, h)[g] = F[g] \o F[h] /\ JoinFirst(F, g, h)[g] = F[h] \o F[g]
  BY <1>3, <1>4 DEF Join, JoinFirst, Layout
<1>6. G[g] = IF G = Join(F, g, h) THEN F[g] \o F[h] ELSE F[h] \o F[g]
  BY <1>5
<1>7. /\ G \in [Place -> Seq(Event)] /\ G[h] = <<>> /\ \A x \in Place : x # g /\ x # h => G[x] = F[x]
  <2>1. <<>> \in Seq(Event) /\ F \in [Place -> Seq(Event)]
    BY EmptySeq DEF Layout
  <2>2. CASE G = Join(F, g, h)
    BY <2>1, <2>2, <1>3 DEF Join
  <2>3. CASE G = JoinFirst(F, g, h)
    BY <2>1, <2>3, <1>4 DEF JoinFirst
  <2> QED BY <2>2, <2>3
<1>8. Distinct(G[g]) /\ ToSet(G[g]) = ToSet(F[g]) \cup ToSet(F[h])
  BY <1>2, <1>3, <1>4, <1>6
<1>9. Distinct(G[h]) /\ ToSet(G[h]) = {}
  BY <1>7 DEF Distinct, ToSet
<1>10. \A x \in Place : Distinct(G[x])
  BY <1>7, <1>8, <1>9 DEF Layout
<1>11. ASSUME NEW x \in Place, NEW y \in Place, NEW d \in ToSet(G[x]), d \in ToSet(G[y]) PROVE x = y
  <2>1. x # h /\ y # h
    BY <1>9, <1>11
  <2>2. \A z \in Place \ {g, h} : d \in ToSet(F[z]) => d \notin ToSet(F[g]) /\ d \notin ToSet(F[h])
    BY DEF Layout
  <2>3. CASE x # g /\ y # g
    BY <2>1, <2>3, <1>7, <1>11 DEF Layout
  <2>4. CASE x = g /\ y # g
    BY <2>1, <2>2, <2>4, <1>7, <1>8, <1>11
  <2>5. CASE x # g /\ y = g
    BY <2>1, <2>2, <2>5, <1>7, <1>8, <1>11
  <2> QED BY <2>3, <2>4, <2>5
<1>12. Layout(G)
  BY <1>7, <1>10, <1>11 DEF Layout
<1> QED BY <1>6, <1>7, <1>12

(* The first event of a queue goes to the end of another.                  *)
LEMMA Takes ==
  ASSUME NEW F, Layout(F), NEW g \in Place, NEW h \in Place, g # h, F[g] # <<>>
  PROVE  /\ Layout(Take(F, g, h)) /\ Take(F, g, h)[g] = Tail(F[g])
         /\ Take(F, g, h)[h] = Append(F[h], Head(F[g]))
         /\ \A x \in Place : x # g /\ x # h => Take(F, g, h)[x] = F[x]
<1> DEFINE G == Put(Drop(F, g), h, Head(F[g]))
<1>1. F[g] \in Seq(Event) /\ Distinct(F[g]) /\ F \in [Place -> Seq(Event)]
  BY DEF Layout
<1>2. /\ Head(F[g]) \in Event /\ Head(F[g]) \notin ToSet(Tail(F[g]))
      /\ Head(F[g]) \in ToSet(F[g])
  BY <1>1, DistinctTail
<1>3. /\ Layout(Drop(F, g)) /\ Drop(F, g)[g] = Tail(F[g])
      /\ \A x \in Place : x # g => Drop(F, g)[x] = F[x]
  BY Drops
<1>4. \A x \in Place : Head(F[g]) \notin ToSet(Drop(F, g)[x])
  BY <1>2, <1>3 DEF Layout
<1>5. /\ Layout(G) /\ G[h] = Append(Drop(F, g)[h], Head(F[g]))
      /\ \A x \in Place : x # h => G[x] = Drop(F, g)[x]
  BY <1>2, <1>3, <1>4, Puts
<1>6. G = Take(F, g, h)
  BY <1>1 DEF Put, Drop, Take
<1> QED BY <1>3, <1>5, <1>6

-----------------------------------------------------------------------------
(* The queues of the state are in their places. *)

TransactionsPlaced(F) ==
  /\ \A k \in ToSet(kq) :
       F[AtCurrent(k.ev.tgt)] = <<k.ev>> /\ F[AtOutbox(k.ev.tgt)] = k.out
  /\ \A a \in Actor :
       (\A k \in ToSet(kq) : k.ev.tgt # a) => F[AtCurrent(a)] = <<>> /\ F[AtOutbox(a)] = <<>>
  /\ \A a \in Actor : F[AtInbox(a)] = inbox[a]

EventsPlaced(F) ==
  /\ F[AtQueue] = eq
  /\ \A s \in Sponsor : F[AtWaiting(s)] = waiting[s] /\ F[AtAlarm(s)] = alarm[s]

Placed(F) == Layout(F) /\ TransactionsPlaced(F) /\ EventsPlaced(F)

(* The queues of the transactions are the same in F and G.                 *)
SameTransactions(F, G) ==
  \A a \in Actor :
    G[AtCurrent(a)] = F[AtCurrent(a)] /\ G[AtOutbox(a)] = F[AtOutbox(a)] /\ G[AtInbox(a)] = F[AtInbox(a)]

(* The actor of the continuation that is executed, and the others.         *)
LEMMA TheActor ==
  ASSUME TypeOK, OneTransaction, kq # <<>>
  PROVE  /\ K.ev.tgt \in Actor /\ K \in ToSet(kq) /\ ToSet(kq) = {K} \cup ToSet(Tail(kq))
         /\ \A k \in ToSet(kq) : k.ev.tgt \in Actor
         /\ \A k \in ToSet(Tail(kq)) : k.ev.tgt # K.ev.tgt
<1>1. kq \in Seq(Cont) /\ busy \subseteq Actor
  BY DEF TypeOK
<1>2. /\ Len(kq) \in Nat \ {0} /\ K = kq[1] /\ Len(Tail(kq)) = Len(kq) - 1 /\ Tail(kq) \in Seq(Cont)
      /\ \A i \in 1 .. Len(kq) - 1 : Tail(kq)[i] = kq[i + 1]
  BY <1>1, Queued1 DEF K
<1>3. DOMAIN kq = 1 .. Len(kq) /\ DOMAIN Tail(kq) = 1 .. Len(kq) - 1
  BY <1>1, <1>2, LenProperties
<1>4. ASSUME NEW i \in 1 .. Len(kq) - 1 PROVE Tail(kq)[i].ev.tgt # K.ev.tgt
  <2>1. i + 1 \in DOMAIN kq /\ 1 \in DOMAIN kq /\ i + 1 # 1
    BY <1>2, <1>3
  <2>2. kq[i + 1].ev.tgt # kq[1].ev.tgt
    BY <2>1 DEF OneTransaction
  <2> QED BY <2>2, <1>2
<1>5. \A k \in ToSet(Tail(kq)) : k.ev.tgt # K.ev.tgt
  BY <1>3, <1>4 DEF ToSet
<1>6. K \in ToSet(kq) /\ ToSet(kq) = {K} \cup ToSet(Tail(kq))
  BY TheContinuation
<1> QED BY <1>1, <1>5, <1>6 DEF OneTransaction

(* An event that does not exist is in no queue.                            *)
LEMMA NewEvent ==
  ASSUME TypeOK, OneTransaction, NEW F, Placed(F), NEW e \in Event \ Live
  PROVE  \A x \in Place : e \notin ToSet(F[x])
<1>0. ToSet(<<>>) = {} /\ \A d : ToSet(<<d>>) = {d}
  BY DEF ToSet
<1>1. e \notin ToSet(eq)
  BY DEF Live
<1>2. \A k \in ToSet(kq) : e # k.ev /\ e \notin ToSet(k.out)
  BY DEF Live
<1>3. \A a \in Actor : e \notin ToSet(inbox[a])
  BY DEF Live
<1>4. \A s \in Sponsor : e \notin ToSet(waiting[s]) /\ e \notin ToSet(alarm[s])
  BY DEF Live
<1>5. ASSUME NEW a \in Actor
      PROVE  e \notin ToSet(F[AtCurrent(a)]) /\ e \notin ToSet(F[AtOutbox(a)])
  <2>1. CASE \A k \in ToSet(kq) : k.ev.tgt # a
    BY <2>1, <1>0 DEF Placed, TransactionsPlaced
  <2>2. CASE \E k \in ToSet(kq) : k.ev.tgt = a
    <3>1. PICK k \in ToSet(kq) : k.ev.tgt = a
      BY <2>2
    <3>2. F[AtCurrent(a)] = <<k.ev>> /\ F[AtOutbox(a)] = k.out
      BY <3>1 DEF Placed, TransactionsPlaced
    <3>3. e # k.ev /\ e \notin ToSet(k.out)
      BY <1>2
    <3> QED BY <3>2, <3>3, <1>0
  <2> QED BY <2>1, <2>2
<1>6. ASSUME NEW x \in Place PROVE e \notin ToSet(F[x])
  <2>1. \/ x = AtQueue
        \/ \E a \in Actor : x = AtCurrent(a) \/ x = AtOutbox(a) \/ x = AtInbox(a)
        \/ \E s \in Sponsor : x = AtWaiting(s) \/ x = AtAlarm(s)
    BY DEF Place
  <2> QED BY <2>1, <1>1, <1>3, <1>4, <1>5 DEF Placed, TransactionsPlaced, EventsPlaced
<1> QED BY <1>6

(* The transaction that is executed ends.                                  *)
LEMMA EndPlaced ==
  ASSUME TypeOK, OneTransaction, kq # <<>>, EndContinuation,
         NEW F, NEW G, TransactionsPlaced(F),
         G[AtCurrent(K.ev.tgt)] = <<>>, G[AtOutbox(K.ev.tgt)] = <<>>, G[AtInbox(K.ev.tgt)] = <<>>,
         \A a \in Actor : a # K.ev.tgt =>
           G[AtCurrent(a)] = F[AtCurrent(a)] /\ G[AtOutbox(a)] = F[AtOutbox(a)] /\ G[AtInbox(a)] = F[AtInbox(a)]
  PROVE  TransactionsPlaced(G)'
<1> DEFINE a == K.ev.tgt
<1>1. kq' = Tail(kq) /\ inbox' = [inbox EXCEPT ![a] = <<>>] /\ inbox \in [Actor -> Seq(Event)]
  BY DEF EndContinuation, TypeOK
<1>2. /\ a \in Actor /\ ToSet(kq) = {K} \cup ToSet(kq') /\ \A k \in ToSet(kq) : k.ev.tgt \in Actor
      /\ \A k \in ToSet(kq') : k.ev.tgt # a
  BY <1>1, TheActor
<1> HIDE DEF a
<1>3. \A k \in ToSet(kq') : G[AtCurrent(k.ev.tgt)] = <<k.ev>> /\ G[AtOutbox(k.ev.tgt)] = k.out
  BY <1>2 DEF TransactionsPlaced, a
<1>4. ASSUME NEW b \in Actor, \A k \in ToSet(kq') : k.ev.tgt # b
      PROVE  G[AtCurrent(b)] = <<>> /\ G[AtOutbox(b)] = <<>>
  <2>1. CASE b = a
    BY <2>1 DEF a
  <2>2. CASE b # a
    <3>1. \A k \in ToSet(kq) : k.ev.tgt # b
      BY <2>2, <1>2, <1>4 DEF a
    <3> QED BY <2>2, <3>1 DEF TransactionsPlaced, a
  <2> QED BY <2>1, <2>2
<1>5. \A b \in Actor : G[AtInbox(b)] = inbox'[b]
  BY <1>1, <1>2 DEF TransactionsPlaced, a
<1>6. ToSet(kq)' = ToSet(kq')
  BY DEF ToSet
<1> QED BY <1>3, <1>4, <1>5, <1>6 DEF TransactionsPlaced, AtCurrent, AtOutbox, AtInbox, ToSet

(* The transaction that is executed goes on.                               *)
LEMMA ContinuePlaced ==
  ASSUME TypeOK, OneTransaction, NEW k \in Cont, k.ev = K.ev, k.n = K.n, Continue(k),
         NEW F, NEW G, TransactionsPlaced(F), G[AtOutbox(K.ev.tgt)] = k.out,
         \A a \in Actor :
           /\ G[AtCurrent(a)] = F[AtCurrent(a)] /\ G[AtInbox(a)] = F[AtInbox(a)]
           /\ a # K.ev.tgt => G[AtOutbox(a)] = F[AtOutbox(a)]
  PROVE  TransactionsPlaced(G)'
<1> DEFINE a == K.ev.tgt
           l == [k EXCEPT !.n = @ + 1]
<1>1. kq' = Append(Tail(kq), l) /\ inbox' = inbox /\ kq # <<>> /\ K.n < Steps
  BY DEF Continue, actorVars, Running, Executing
<1>2. /\ a \in Actor /\ ToSet(kq) = {K} \cup ToSet(Tail(kq)) /\ \A m \in ToSet(kq) : m.ev.tgt \in Actor
      /\ \A m \in ToSet(Tail(kq)) : m.ev.tgt # a
  BY <1>1, TheActor
<1>3. l \in Cont /\ l.ev = K.ev /\ l.out = k.out
  <2>1. k.n + 1 \in 0 .. Steps
    BY <1>1, TheContinuation, SchedulerAssumption
  <2> QED BY <2>1 DEF Cont
<1> HIDE DEF l
<1>t. Tail(kq) \in Seq(Cont)
  BY <1>1, TheContinuation
<1>4. ToSet(kq') = ToSet(Tail(kq)) \cup {l}
  <2> DEFINE t == Tail(kq)
  <2>1. t \in Seq(Cont) /\ l \in Cont
    BY <1>3, <1>t
  <2>2. kq' = Append(t, l)
    BY <1>1
  <2> HIDE DEF t
  <2>3. ToSet(Append(t, l)) = ToSet(t) \cup {l}
    BY <2>1, ElemsAppend
  <2> QED BY <2>2, <2>3 DEF t
<1>5. F[AtCurrent(a)] = <<K.ev>>
  BY <1>2 DEF TransactionsPlaced
<1> HIDE DEF a
<1>6. ASSUME NEW m \in ToSet(kq')
      PROVE  G[AtCurrent(m.ev.tgt)] = <<m.ev>> /\ G[AtOutbox(m.ev.tgt)] = m.out
  <2>1. CASE m = l
    <3>1. m.ev.tgt = a /\ m.ev = K.ev /\ m.out = k.out
      BY <2>1, <1>3 DEF a
    <3> QED BY <3>1, <1>2, <1>5 DEF a
  <2>2. CASE m \in ToSet(Tail(kq))
    BY <2>2, <1>2 DEF TransactionsPlaced, a
  <2> QED BY <2>1, <2>2, <1>4
<1>7. ASSUME NEW b \in Actor, \A m \in ToSet(kq') : m.ev.tgt # b
      PROVE  G[AtCurrent(b)] = <<>> /\ G[AtOutbox(b)] = <<>>
  <2>1. b # a
    BY <1>3, <1>4, <1>7 DEF a
  <2>2. \A m \in ToSet(kq) : m.ev.tgt # b
    BY <2>1, <1>2, <1>4, <1>7 DEF a
  <2> QED BY <2>1, <2>2 DEF TransactionsPlaced, a
<1>8. \A b \in Actor : G[AtInbox(b)] = inbox'[b]
  BY <1>1 DEF TransactionsPlaced
<1>9. ToSet(kq)' = ToSet(kq')
  BY DEF ToSet
<1> QED BY <1>6, <1>7, <1>8, <1>9 DEF TransactionsPlaced, AtCurrent, AtOutbox, AtInbox, ToSet

(* The transactions are left alone.                                        *)
LEMMA SamePlaced ==
  ASSUME OneTransaction, TypeOK, UNCHANGED <<kq, inbox>>, NEW F, NEW G, TransactionsPlaced(F),
         SameTransactions(F, G)
  PROVE  TransactionsPlaced(G)'
<1>1. \A k \in ToSet(kq) : k.ev.tgt \in Actor
  BY DEF OneTransaction, TypeOK
<1>2. \A k \in ToSet(kq) : G[AtCurrent(k.ev.tgt)] = <<k.ev>> /\ G[AtOutbox(k.ev.tgt)] = k.out
  BY <1>1 DEF TransactionsPlaced, SameTransactions
<1>3. \A a \in Actor :
       (\A k \in ToSet(kq) : k.ev.tgt # a) => G[AtCurrent(a)] = <<>> /\ G[AtOutbox(a)] = <<>>
  BY DEF TransactionsPlaced, SameTransactions
<1>4. \A a \in Actor : G[AtInbox(a)] = inbox[a]
  BY DEF TransactionsPlaced, SameTransactions
<1>5. TransactionsPlaced(G)
  BY <1>2, <1>3, <1>4 DEF TransactionsPlaced
<1>6. kq' = kq /\ inbox' = inbox
  OBVIOUS
<1> QED BY <1>5, <1>6 DEF TransactionsPlaced, AtCurrent, AtOutbox, AtInbox, ToSet

HomeInv == \E F : Placed(F)

(* The queues are in their places after a step.                            *)
LEMMA Found ==
  ASSUME NEW G, Layout(G), TransactionsPlaced(G)', G[AtQueue] = eq',
         \A s \in Sponsor : G[AtWaiting(s)] = waiting'[s] /\ G[AtAlarm(s)] = alarm'[s]
  PROVE  HomeInv'
<1>1. EventsPlaced(G)'
  BY DEF EventsPlaced, AtQueue, AtWaiting, AtAlarm
<1>2. Layout(G)'
  BY DEF Layout, Place, AtQueue, AtCurrent, AtOutbox, AtInbox, AtWaiting, AtAlarm, Distinct, ToSet
<1> QED BY <1>1, <1>2 DEF HomeInv, Placed

(* The sponsors' queues but those of s, and the queue of waiting events.   *)
LEMMA WaitingPlaced ==
  ASSUME TypeOK, NEW e \in Event, NEW F, EventsPlaced(F), NEW G,
         G[AtWaiting(e.spn)] = Append(F[AtWaiting(e.spn)], e),
         \A s \in Sponsor : s # e.spn => G[AtWaiting(s)] = F[AtWaiting(s)],
         WaitingEvent(e)
  PROVE  \A s \in Sponsor : G[AtWaiting(s)] = waiting'[s]
<1>1. e.spn \in Sponsor /\ waiting' = [waiting EXCEPT ![e.spn] = Append(@, e)] /\ DOMAIN waiting = Sponsor
  BY SchedulerAssumption DEF WaitingEvent, TypeOK
<1> QED BY <1>1 DEF EventsPlaced

(* The queues of the sponsors when a transaction ends.                     *)
LEMMA SponsorsSame ==
  ASSUME NEW F, Layout(F), NEW a \in Actor, NEW s \in Sponsor,
         NEW G, G = JoinFirst(Clear(F, AtOutbox(a)), AtQueue, AtInbox(a))
  PROVE  G[AtWaiting(s)] = F[AtWaiting(s)] /\ G[AtAlarm(s)] = F[AtAlarm(s)]
<1> DEFINE F1 == Clear(F, AtOutbox(a))
<1>1. Layout(F1) /\ \A x \in Place : x # AtOutbox(a) => F1[x] = F[x]
  BY Places, Clears
<1>2. G = JoinFirst(F1, AtQueue, AtInbox(a)) /\ AtQueue \in Place /\ AtInbox(a) \in Place /\ AtQueue # AtInbox(a)
  BY Places
<1> HIDE DEF F1
<1>3. \A x \in Place : x # AtQueue /\ x # AtInbox(a) => G[x] = F1[x]
  BY <1>1, <1>2, Joins
<1>4. G[AtWaiting(s)] = F1[AtWaiting(s)] /\ G[AtAlarm(s)] = F1[AtAlarm(s)]
  BY <1>3, Places
<1>5. F1[AtWaiting(s)] = F[AtWaiting(s)] /\ F1[AtAlarm(s)] = F[AtAlarm(s)]
  BY <1>1, Places
<1> QED BY <1>4, <1>5

(* A transaction ends, and the inbox goes in front of the queue.           *)
LEMMA InboxFirst ==
  ASSUME TypeOK, OneTransaction, kq # <<>>, EndContinuation,
         NEW F, Placed(F), NEW F1, Layout(F1), F1[AtCurrent(K.ev.tgt)] = <<>>,
         F1[AtInbox(K.ev.tgt)] = F[AtInbox(K.ev.tgt)],
         \A a \in Actor : a # K.ev.tgt =>
           F1[AtCurrent(a)] = F[AtCurrent(a)] /\ F1[AtOutbox(a)] = F[AtOutbox(a)] /\ F1[AtInbox(a)] = F[AtInbox(a)],
         NEW G, G = JoinFirst(Clear(F1, AtOutbox(K.ev.tgt)), AtQueue, AtInbox(K.ev.tgt))
  PROVE  /\ Layout(G) /\ TransactionsPlaced(G)'
         /\ G[AtQueue] = inbox[K.ev.tgt] \o F1[AtQueue]
<1> DEFINE a == K.ev.tgt
           F2 == Clear(F1, AtOutbox(a))
<1>g. G = JoinFirst(F2, AtQueue, AtInbox(a))
  OBVIOUS
<1>1. a \in Actor /\ F[AtInbox(a)] = inbox[a]
  BY TheActor DEF Placed, TransactionsPlaced
<1>2. /\ AtOutbox(a) \in Place /\ AtQueue \in Place /\ AtInbox(a) \in Place /\ AtCurrent(a) \in Place
      /\ AtQueue # AtInbox(a)
  BY <1>1, Places
<1>3. /\ Layout(F2) /\ F2[AtOutbox(a)] = <<>>
      /\ \A x \in Place : x # AtOutbox(a) => F2[x] = F1[x]
  BY <1>2, Clears
<1> HIDE DEF F2
<1>4. /\ Layout(G) /\ G[AtInbox(a)] = <<>>
      /\ \A x \in Place : x # AtQueue /\ x # AtInbox(a) => G[x] = F2[x]
  BY <1>g, <1>2, <1>3, Joins
<1>5. G[AtQueue] = F2[AtInbox(a)] \o F2[AtQueue]
  BY <1>g, <1>2, <1>3 DEF JoinFirst, Layout
<1>6. F2[AtInbox(a)] = inbox[a] /\ F2[AtQueue] = F1[AtQueue] /\ G[AtCurrent(a)] = <<>> /\ G[AtOutbox(a)] = <<>>
  BY <1>1, <1>2, <1>3, <1>4, Places
<1>7. \A b \in Actor : b # a =>
        G[AtCurrent(b)] = F[AtCurrent(b)] /\ G[AtOutbox(b)] = F[AtOutbox(b)] /\ G[AtInbox(b)] = F[AtInbox(b)]
  BY <1>1, <1>3, <1>4, Places
<1>8. TransactionsPlaced(G)'
  BY <1>4, <1>6, <1>7, EndPlaced DEF Placed
<1>10. G[AtQueue] = inbox[a] \o F1[AtQueue]
  BY <1>5, <1>6
<1> QED BY <1>4, <1>8, <1>10

(* The event of the transaction that ends goes to the waiting queue.       *)
LEMMA EndWaits ==
  ASSUME TypeOK, OneTransaction, kq # <<>>, EndContinuation, WaitingEvent(K.ev),
         NEW F, Placed(F)
  PROVE  \E G : /\ Layout(G) /\ TransactionsPlaced(G)'
                /\ G[AtQueue] = inbox[K.ev.tgt] \o eq
                /\ \A s \in Sponsor : G[AtWaiting(s)] = waiting'[s] /\ G[AtAlarm(s)] = alarm[s]
<1> DEFINE a == K.ev.tgt
           s == K.ev.spn
<1>f. PICK F1 : F1 = Take(F, AtCurrent(a), AtWaiting(s))
  OBVIOUS
<1>1. a \in Actor /\ s \in Sponsor /\ K.ev \in Event /\ K \in ToSet(kq)
  BY TheActor, TheContinuation
<1>2. F[AtCurrent(a)] = <<K.ev>> /\ F[AtCurrent(a)] # <<>> /\ Head(F[AtCurrent(a)]) = K.ev
      /\ Tail(F[AtCurrent(a)]) = <<>>
  <2>1. F[AtCurrent(a)] = <<K.ev>>
    BY <1>1 DEF Placed, TransactionsPlaced
  <2> QED BY <2>1
<1>p. AtCurrent(a) \in Place /\ AtWaiting(s) \in Place /\ AtCurrent(a) # AtWaiting(s) /\ Layout(F)
  BY <1>1, Places DEF Placed
<1>3. /\ Layout(F1) /\ F1[AtCurrent(a)] = Tail(F[AtCurrent(a)])
      /\ F1[AtWaiting(s)] = Append(F[AtWaiting(s)], Head(F[AtCurrent(a)]))
      /\ \A x \in Place : x # AtCurrent(a) /\ x # AtWaiting(s) => F1[x] = F[x]
  BY <1>f, <1>2, <1>p, Takes
<1>4. \A b \in Actor : b # a =>
        F1[AtCurrent(b)] = F[AtCurrent(b)] /\ F1[AtOutbox(b)] = F[AtOutbox(b)] /\ F1[AtInbox(b)] = F[AtInbox(b)]
  BY <1>1, <1>3, Places
<1>5. F1[AtInbox(a)] = F[AtInbox(a)] /\ F1[AtQueue] = F[AtQueue]
  BY <1>1, <1>3, Places
<1>6. F1[AtCurrent(a)] = <<>> /\ F1[AtWaiting(s)] = Append(F[AtWaiting(s)], K.ev)
  BY <1>2, <1>3
<1>g. PICK G : G = JoinFirst(Clear(F1, AtOutbox(K.ev.tgt)), AtQueue, AtInbox(K.ev.tgt))
  OBVIOUS
<1>7. /\ Layout(G) /\ TransactionsPlaced(G)'
      /\ G[AtQueue] = inbox[a] \o F1[AtQueue]
      /\ \A t \in Sponsor : G[AtWaiting(t)] = F1[AtWaiting(t)] /\ G[AtAlarm(t)] = F1[AtAlarm(t)]
  <2>1. /\ Layout(F1) /\ F1[AtCurrent(K.ev.tgt)] = <<>>
        /\ F1[AtInbox(K.ev.tgt)] = F[AtInbox(K.ev.tgt)]
        /\ \A b \in Actor : b # K.ev.tgt =>
             F1[AtCurrent(b)] = F[AtCurrent(b)] /\ F1[AtOutbox(b)] = F[AtOutbox(b)] /\ F1[AtInbox(b)] = F[AtInbox(b)]
    BY <1>3, <1>4, <1>5, <1>6
  <2> HIDE <1>2
  <2>2. Layout(G)
    BY <1>g, <2>1, InboxFirst
  <2>3. TransactionsPlaced(G)'
    BY <1>g, <2>1, InboxFirst
  <2>4. G[AtQueue] = inbox[a] \o F1[AtQueue]
    BY <1>g, <2>1, InboxFirst
  <2>5. \A t \in Sponsor : G[AtWaiting(t)] = F1[AtWaiting(t)] /\ G[AtAlarm(t)] = F1[AtAlarm(t)]
    BY <1>g, <1>1, <2>1, SponsorsSame
  <2> QED BY <2>2, <2>3, <2>4, <2>5
<1>8. \A t \in Sponsor : F1[AtWaiting(t)] = waiting'[t]
  <2>1. \A t \in Sponsor : t # s => F1[AtWaiting(t)] = F[AtWaiting(t)]
    BY <1>1, <1>3, Places
  <2> QED BY <1>1, <1>6, <2>1, WaitingPlaced DEF Placed
<1>9. \A t \in Sponsor : F1[AtAlarm(t)] = alarm[t]
  BY <1>1, <1>3, Places DEF Placed, EventsPlaced
<1>10. F1[AtQueue] = eq
  BY <1>5 DEF Placed, EventsPlaced
<1>11. /\ G[AtQueue] = inbox[K.ev.tgt] \o eq
       /\ \A t \in Sponsor : G[AtWaiting(t)] = waiting'[t] /\ G[AtAlarm(t)] = alarm[t]
  BY <1>7, <1>8, <1>9, <1>10
<1> QED BY <1>7, <1>11

(* The control event is released.                                          *)
LEMMA AlarmSent ==
  ASSUME TypeOK, TypeOK', OneTransaction', NEW s \in Sponsor, NEW q, NEW next, ReportError(s, q, next),
         NEW F, Layout(F), F[AtQueue] = q, TransactionsPlaced(F)',
         \A t \in Sponsor : F[AtWaiting(t)] = waiting'[t] /\ F[AtAlarm(t)] = alarm[t]
  PROVE  HomeInv'
<1>g. PICK G : G = Join(F, AtQueue, AtAlarm(s))
  OBVIOUS
<1>1. eq' = q \o alarm[s] /\ alarm' = [alarm EXCEPT ![s] = <<>>] /\ DOMAIN alarm = Sponsor
  BY DEF ReportError, TypeOK
<1>2. AtQueue \in Place /\ AtAlarm(s) \in Place /\ AtQueue # AtAlarm(s)
  BY Places
<1>a. G[AtQueue] = F[AtQueue] \o F[AtAlarm(s)]
  BY <1>g, <1>2 DEF Join, Layout
<1>3. /\ Layout(G) /\ G[AtAlarm(s)] = <<>>
      /\ \A x \in Place : x # AtQueue /\ x # AtAlarm(s) => G[x] = F[x]
  BY <1>g, <1>2, Joins
<1>4. G[AtQueue] = eq'
  BY <1>1, <1>a
<1>5. \A t \in Sponsor : G[AtWaiting(t)] = waiting'[t] /\ G[AtAlarm(t)] = alarm'[t]
  BY <1>1, <1>3, Places
<1>6. SameTransactions(F, G)
  BY <1>3, Places DEF SameTransactions
<1>7. TransactionsPlaced(G)'
  <2>1. \A k \in ToSet(kq') : k.ev.tgt \in Actor
    BY DEF OneTransaction, TypeOK, ToSet
  <2>2. /\ \A k \in ToSet(kq') : F[AtCurrent(k.ev.tgt)] = <<k.ev>> /\ F[AtOutbox(k.ev.tgt)] = k.out
        /\ \A a \in Actor :
             (\A k \in ToSet(kq') : k.ev.tgt # a) => F[AtCurrent(a)] = <<>> /\ F[AtOutbox(a)] = <<>>
        /\ \A a \in Actor : F[AtInbox(a)] = inbox'[a]
    BY DEF TransactionsPlaced, AtCurrent, AtOutbox, AtInbox, ToSet
  <2>3. /\ \A k \in ToSet(kq') : G[AtCurrent(k.ev.tgt)] = <<k.ev>> /\ G[AtOutbox(k.ev.tgt)] = k.out
        /\ \A a \in Actor :
             (\A k \in ToSet(kq') : k.ev.tgt # a) => G[AtCurrent(a)] = <<>> /\ G[AtOutbox(a)] = <<>>
        /\ \A a \in Actor : G[AtInbox(a)] = inbox'[a]
    BY <1>6, <2>1, <2>2 DEF SameTransactions
  <2> QED BY <2>3 DEF TransactionsPlaced, AtCurrent, AtOutbox, AtInbox, ToSet
<1> QED BY <1>3, <1>4, <1>5, <1>7, Found

(* The event of the transaction that ends is dropped.                      *)
LEMMA EndDrops ==
  ASSUME TypeOK, OneTransaction, kq # <<>>, EndContinuation, NEW F, Placed(F)
  PROVE  \E G : /\ Layout(G) /\ TransactionsPlaced(G)'
                /\ G[AtQueue] = inbox[K.ev.tgt] \o eq
                /\ \A s \in Sponsor : G[AtWaiting(s)] = waiting[s] /\ G[AtAlarm(s)] = alarm[s]
<1> DEFINE a == K.ev.tgt
<1>f. PICK F1 : F1 = Clear(F, AtCurrent(a))
  OBVIOUS
<1>1. a \in Actor
  BY TheActor
<1>2. AtCurrent(a) \in Place /\ Layout(F)
  BY <1>1, Places DEF Placed
<1>3. Layout(F1) /\ F1[AtCurrent(a)] = <<>> /\ \A x \in Place : x # AtCurrent(a) => F1[x] = F[x]
  BY <1>f, <1>2, Clears
<1>4. \A b \in Actor : b # a =>
        F1[AtCurrent(b)] = F[AtCurrent(b)] /\ F1[AtOutbox(b)] = F[AtOutbox(b)] /\ F1[AtInbox(b)] = F[AtInbox(b)]
  BY <1>1, <1>3, Places
<1>5. F1[AtInbox(a)] = F[AtInbox(a)] /\ F1[AtQueue] = eq
  BY <1>1, <1>3, Places DEF Placed, EventsPlaced
<1>g. PICK G : G = JoinFirst(Clear(F1, AtOutbox(K.ev.tgt)), AtQueue, AtInbox(K.ev.tgt))
  OBVIOUS
<1>6. /\ Layout(F1) /\ F1[AtCurrent(K.ev.tgt)] = <<>>
      /\ F1[AtInbox(K.ev.tgt)] = F[AtInbox(K.ev.tgt)]
      /\ \A b \in Actor : b # K.ev.tgt =>
           F1[AtCurrent(b)] = F[AtCurrent(b)] /\ F1[AtOutbox(b)] = F[AtOutbox(b)] /\ F1[AtInbox(b)] = F[AtInbox(b)]
  BY <1>3, <1>4, <1>5
<1>7. Layout(G)
  BY <1>g, <1>6, InboxFirst
<1>8. TransactionsPlaced(G)'
  BY <1>g, <1>6, InboxFirst
<1>9. G[AtQueue] = inbox[K.ev.tgt] \o F1[AtQueue]
  BY <1>g, <1>6, InboxFirst
<1>10. \A s \in Sponsor : G[AtWaiting(s)] = F1[AtWaiting(s)] /\ G[AtAlarm(s)] = F1[AtAlarm(s)]
  BY <1>g, <1>1, <1>3, SponsorsSame
<1>11. \A s \in Sponsor : F1[AtWaiting(s)] = waiting[s] /\ F1[AtAlarm(s)] = alarm[s]
  BY <1>1, <1>3, Places DEF Placed, EventsPlaced
<1>12. /\ G[AtQueue] = inbox[K.ev.tgt] \o eq
       /\ \A s \in Sponsor : G[AtWaiting(s)] = waiting[s] /\ G[AtAlarm(s)] = alarm[s]
  BY <1>5, <1>9, <1>10, <1>11
<1> QED BY <1>7, <1>8, <1>12

(* The outbox is released, then the inbox goes in front of the queue.      *)
LEMMA CommitHomes ==
  ASSUME TypeOK, OneTransaction, NEW F, Placed(F), Commit
  PROVE  HomeInv'
<1> DEFINE a == K.ev.tgt
<1>0. /\ kq # <<>> /\ EndContinuation /\ eq' = inbox[a] \o (eq \o K.out)
      /\ waiting' = waiting /\ alarm' = alarm
  BY DEF Commit, Running, Executing, sponsorVars
<1>1. a \in Actor /\ K \in ToSet(kq)
  BY <1>0, TheActor
<1>2. /\ AtCurrent(a) \in Place /\ AtOutbox(a) \in Place /\ AtQueue \in Place /\ AtQueue # AtOutbox(a)
      /\ Layout(F) /\ F[AtOutbox(a)] = K.out /\ F[AtQueue] = eq
  BY <1>1, Places DEF Placed, TransactionsPlaced, EventsPlaced
<1>f. PICK F1 : F1 = Clear(F, AtCurrent(a))
  OBVIOUS
<1>3. Layout(F1) /\ F1[AtCurrent(a)] = <<>> /\ \A x \in Place : x # AtCurrent(a) => F1[x] = F[x]
  BY <1>f, <1>2, Clears
<1>h. PICK F2 : F2 = Join(F1, AtQueue, AtOutbox(a))
  OBVIOUS
<1>4. /\ Layout(F2) /\ \A x \in Place : x # AtQueue /\ x # AtOutbox(a) => F2[x] = F1[x]
  BY <1>h, <1>2, <1>3, Joins
<1>5. F2[AtQueue] = F1[AtQueue] \o F1[AtOutbox(a)]
  BY <1>h, <1>2, <1>3 DEF Join, Layout
<1>6. F2[AtQueue] = eq \o K.out
  BY <1>1, <1>2, <1>3, <1>5, Places
<1>7. \A b \in Actor : b # a =>
        F2[AtCurrent(b)] = F[AtCurrent(b)] /\ F2[AtOutbox(b)] = F[AtOutbox(b)] /\ F2[AtInbox(b)] = F[AtInbox(b)]
  BY <1>1, <1>3, <1>4, Places
<1>8. F2[AtInbox(a)] = F[AtInbox(a)] /\ F2[AtCurrent(a)] = <<>>
  BY <1>1, <1>3, <1>4, Places
<1>g. PICK G : G = JoinFirst(Clear(F2, AtOutbox(K.ev.tgt)), AtQueue, AtInbox(K.ev.tgt))
  OBVIOUS
<1>9. /\ Layout(F2) /\ F2[AtCurrent(K.ev.tgt)] = <<>>
      /\ F2[AtInbox(K.ev.tgt)] = F[AtInbox(K.ev.tgt)]
      /\ \A b \in Actor : b # K.ev.tgt =>
           F2[AtCurrent(b)] = F[AtCurrent(b)] /\ F2[AtOutbox(b)] = F[AtOutbox(b)] /\ F2[AtInbox(b)] = F[AtInbox(b)]
  BY <1>4, <1>7, <1>8
<1>10. Layout(G)
  BY <1>g, <1>0, <1>9, InboxFirst
<1>11. TransactionsPlaced(G)'
  BY <1>g, <1>0, <1>9, InboxFirst
<1>12. G[AtQueue] = inbox[K.ev.tgt] \o F2[AtQueue]
  BY <1>g, <1>0, <1>9, InboxFirst
<1>13. \A s \in Sponsor : G[AtWaiting(s)] = F2[AtWaiting(s)] /\ G[AtAlarm(s)] = F2[AtAlarm(s)]
  BY <1>g, <1>1, <1>4, SponsorsSame
<1>14. \A s \in Sponsor : F2[AtWaiting(s)] = waiting[s] /\ F2[AtAlarm(s)] = alarm[s]
  BY <1>1, <1>3, <1>4, Places DEF Placed, EventsPlaced
<1>15. G[AtQueue] = eq' /\ \A s \in Sponsor : G[AtWaiting(s)] = waiting'[s] /\ G[AtAlarm(s)] = alarm'[s]
  BY <1>0, <1>6, <1>12, <1>13, <1>14
<1> QED BY <1>10, <1>11, <1>15, Found

(* The transaction goes on, and nothing is sent.                           *)
LEMMA GoesOn ==
  ASSUME TypeOK, OneTransaction, NEW F, Placed(F), NEW G, SameTransactions(F, G),
         NEW k \in Cont, k.ev = K.ev, k.n = K.n, k.out = K.out, Continue(k)
  PROVE  TransactionsPlaced(G)'
<1>1. kq # <<>>
  BY DEF Continue, Running, Executing
<1>2. K.ev.tgt \in Actor /\ K \in ToSet(kq)
  BY <1>1, TheActor
<1>3. F[AtOutbox(K.ev.tgt)] = k.out /\ TransactionsPlaced(F)
  BY <1>2 DEF Placed, TransactionsPlaced
<1>4. G[AtOutbox(K.ev.tgt)] = k.out
  BY <1>2, <1>3 DEF SameTransactions
<1>5. \A a \in Actor :
        /\ G[AtCurrent(a)] = F[AtCurrent(a)] /\ G[AtInbox(a)] = F[AtInbox(a)]
        /\ a # K.ev.tgt => G[AtOutbox(a)] = F[AtOutbox(a)]
  BY DEF SameTransactions
<1> QED BY <1>3, <1>4, <1>5, ContinuePlaced

(* It goes on, and no event moves.                                         *)
LEMMA GoesOnHomes ==
  ASSUME TypeOK, OneTransaction, NEW F, Placed(F),
         NEW k \in Cont, k.ev = K.ev, k.n = K.n, k.out = K.out, Continue(k),
         UNCHANGED <<eq, waiting, alarm>>
  PROVE  HomeInv'
<1>1. SameTransactions(F, F)
  BY DEF SameTransactions
<1>2. TransactionsPlaced(F)'
  BY <1>1, GoesOn
<1>3. /\ Layout(F) /\ F[AtQueue] = eq'
      /\ \A s \in Sponsor : F[AtWaiting(s)] = waiting'[s] /\ F[AtAlarm(s)] = alarm'[s]
  BY DEF Placed, EventsPlaced
<1> QED BY <1>2, <1>3, Found

(* A new event goes to the outbox.                                         *)
LEMMA SendHomes ==
  ASSUME TypeOK, OneTransaction, NEW F, Placed(F), NEW e \in Event, Send(e)
  PROVE  HomeInv'
<1> DEFINE a == K.ev.tgt
<1>k. PICK k : k = [K EXCEPT !.out = Append(@, e)]
  OBVIOUS
<1>0. /\ kq # <<>> /\ e \in Event \ Live /\ Continue(k) /\ eq' = eq /\ waiting' = waiting /\ alarm' = alarm
  BY <1>k DEF Send, Running, Executing, sponsorVars
<1>1. a \in Actor /\ K \in ToSet(kq) /\ K \in Cont /\ K.out \in Seq(Event)
  BY <1>0, TheActor, TheContinuation
<1>2. k \in Cont /\ k.ev = K.ev /\ k.n = K.n /\ k.out = Append(K.out, e)
  <2>1. Append(K.out, e) \in Seq(Event)
    BY <1>1, AppendProperties
  <2> QED BY <1>k, <1>1, <2>1 DEF Cont
<1>3. /\ AtOutbox(a) \in Place /\ Layout(F) /\ TransactionsPlaced(F) /\ F[AtOutbox(a)] = K.out
      /\ \A x \in Place : e \notin ToSet(F[x])
  BY <1>0, <1>1, Places, NewEvent DEF Placed, TransactionsPlaced
<1>g. PICK G : G = Put(F, AtOutbox(a), e)
  OBVIOUS
<1>4. /\ Layout(G) /\ G[AtOutbox(a)] = Append(F[AtOutbox(a)], e)
      /\ \A x \in Place : x # AtOutbox(a) => G[x] = F[x]
  BY <1>g, <1>3, Puts
<1>5. \A b \in Actor :
        /\ G[AtCurrent(b)] = F[AtCurrent(b)] /\ G[AtInbox(b)] = F[AtInbox(b)]
        /\ b # K.ev.tgt => G[AtOutbox(b)] = F[AtOutbox(b)]
  BY <1>1, <1>4, Places
<1>6. G[AtOutbox(K.ev.tgt)] = k.out
  BY <1>2, <1>3, <1>4
<1>7. TransactionsPlaced(G)'
  BY <1>0, <1>2, <1>3, <1>5, <1>6, ContinuePlaced
<1>8. G[AtQueue] = eq' /\ \A s \in Sponsor : G[AtWaiting(s)] = waiting'[s] /\ G[AtAlarm(s)] = alarm'[s]
  BY <1>0, <1>1, <1>4, Places DEF Placed, EventsPlaced
<1> QED BY <1>4, <1>7, <1>8, Found

(* The waiting events are queued, and a control event is allocated.        *)
LEMMA StartHomes ==
  ASSUME TypeOK, OneTransaction, NEW F, Placed(F), NEW p \in Peers, NEW e \in Event, Start(p, e)
  PROVE  HomeInv'
<1>0. /\ kq # <<>> /\ e \in Event \ Live /\ Continue(K) /\ eq' = eq \o waiting[p]
      /\ waiting' = [waiting EXCEPT ![p] = <<>>] /\ alarm' = [alarm EXCEPT ![p] = <<e>>]
      /\ DOMAIN waiting = Sponsor /\ DOMAIN alarm = Sponsor /\ p \in Sponsor
  BY DEF Start, Continue, Running, Executing, TypeOK, Sponsor
<1>1. /\ AtQueue \in Place /\ AtWaiting(p) \in Place /\ AtAlarm(p) \in Place
      /\ AtQueue # AtWaiting(p) /\ AtQueue # AtAlarm(p) /\ AtWaiting(p) # AtAlarm(p)
      /\ Layout(F) /\ F[AtQueue] = eq /\ F[AtWaiting(p)] = waiting[p]
      /\ \A x \in Place : e \notin ToSet(F[x])
  BY <1>0, Places, NewEvent DEF Placed, EventsPlaced
<1>f. PICK F1 : F1 = Clear(F, AtAlarm(p))
  OBVIOUS
<1>2. Layout(F1) /\ F1[AtAlarm(p)] = <<>> /\ \A x \in Place : x # AtAlarm(p) => F1[x] = F[x]
  BY <1>f, <1>1, Clears
<1>3. \A x \in Place : e \notin ToSet(F1[x])
  <2>1. ToSet(<<>>) = {}
    BY DEF ToSet
  <2> QED BY <1>1, <1>2, <2>1
<1>h. PICK F2 : F2 = Put(F1, AtAlarm(p), e)
  OBVIOUS
<1>4. /\ Layout(F2) /\ F2[AtAlarm(p)] = Append(F1[AtAlarm(p)], e)
      /\ \A x \in Place : x # AtAlarm(p) => F2[x] = F1[x]
  BY <1>h, <1>1, <1>2, <1>3, Puts
<1>g. PICK G : G = Join(F2, AtQueue, AtWaiting(p))
  OBVIOUS
<1>5. /\ Layout(G) /\ G[AtWaiting(p)] = <<>>
      /\ \A x \in Place : x # AtQueue /\ x # AtWaiting(p) => G[x] = F2[x]
  BY <1>g, <1>1, <1>4, Joins
<1>6. G[AtQueue] = F2[AtQueue] \o F2[AtWaiting(p)]
  BY <1>g, <1>1, <1>4 DEF Join, Layout
<1>7. G[AtQueue] = eq'
  BY <1>0, <1>1, <1>2, <1>4, <1>6
<1>8. G[AtAlarm(p)] = <<e>>
  BY <1>1, <1>2, <1>4, <1>5
<1>9. \A x \in Place : x # AtQueue /\ x # AtWaiting(p) /\ x # AtAlarm(p) => G[x] = F[x]
  BY <1>2, <1>4, <1>5
<1>10. \A s \in Sponsor : G[AtWaiting(s)] = waiting'[s]
  BY <1>0, <1>5, <1>9, Places DEF Placed, EventsPlaced
<1>11. \A s \in Sponsor : G[AtAlarm(s)] = alarm'[s]
  BY <1>0, <1>8, <1>9, Places DEF Placed, EventsPlaced
<1>12. SameTransactions(F, G)
  BY <1>0, <1>9, Places DEF SameTransactions
<1>13. TransactionsPlaced(G)'
  BY <1>0, <1>12, TheContinuation, GoesOn
<1> QED BY <1>5, <1>7, <1>10, <1>11, <1>13, Found

(* The control event of a sponsor is released.                             *)
LEMMA StopHomes ==
  ASSUME TypeOK, OneTransaction, NEW F, Placed(F), NEW p \in Peers, Stop(p)
  PROVE  HomeInv'
<1>0. /\ kq # <<>> /\ Continue(K) /\ eq' = eq /\ waiting' = waiting
      /\ alarm' = [alarm EXCEPT ![p] = <<>>] /\ DOMAIN alarm = Sponsor /\ p \in Sponsor
  BY DEF Stop, Continue, Running, Executing, TypeOK, Sponsor
<1>1. AtAlarm(p) \in Place /\ Layout(F)
  BY <1>0, Places DEF Placed
<1>g. PICK G : G = Clear(F, AtAlarm(p))
  OBVIOUS
<1>2. Layout(G) /\ G[AtAlarm(p)] = <<>> /\ \A x \in Place : x # AtAlarm(p) => G[x] = F[x]
  BY <1>g, <1>1, Clears
<1>3. G[AtQueue] = eq'
  BY <1>0, <1>2, Places DEF Placed, EventsPlaced
<1>4. \A s \in Sponsor : G[AtWaiting(s)] = waiting'[s] /\ G[AtAlarm(s)] = alarm'[s]
  BY <1>0, <1>2, Places DEF Placed, EventsPlaced
<1>5. SameTransactions(F, G)
  BY <1>0, <1>2, Places DEF SameTransactions
<1>6. TransactionsPlaced(G)'
  BY <1>0, <1>5, TheContinuation, GoesOn
<1> QED BY <1>2, <1>3, <1>4, <1>6, Found

(* Each step of execute_instruction().                                     *)
LEMMA ExecuteHomes ==
  ASSUME TypeOK, OneTransaction, TypeOK', OneTransaction', NEW F, Placed(F), Execute
  PROVE  HomeInv'
<1>1. CASE ExecuteSuspended
  <2>1. kq # <<>> /\ EndContinuation /\ eq' = inbox[K.ev.tgt] \o eq /\ alarm' = alarm
    BY <1>1 DEF ExecuteSuspended, Executing
  <2>2. CASE WaitingEvent(K.ev)
    <3>1. PICK G : /\ Layout(G) /\ TransactionsPlaced(G)' /\ G[AtQueue] = inbox[K.ev.tgt] \o eq
                   /\ \A s \in Sponsor : G[AtWaiting(s)] = waiting'[s] /\ G[AtAlarm(s)] = alarm[s]
      BY <2>1, <2>2, EndWaits
    <3> QED BY <2>1, <3>1, Found
  <2>3. CASE UNCHANGED waiting
    <3>1. PICK G : /\ Layout(G) /\ TransactionsPlaced(G)' /\ G[AtQueue] = inbox[K.ev.tgt] \o eq
                   /\ \A s \in Sponsor : G[AtWaiting(s)] = waiting[s] /\ G[AtAlarm(s)] = alarm[s]
      BY <2>1, EndDrops
    <3> QED BY <2>1, <2>3, <3>1, Found
  <2> QED BY <1>1, <2>2, <2>3 DEF ExecuteSuspended
<1>2. CASE Exhaust
  <2>1. /\ kq # <<>> /\ EndContinuation /\ WaitingEvent(K.ev)
        /\ ReportError(K.ev.spn, inbox[K.ev.tgt] \o eq, "disp")
    BY <1>2 DEF Exhaust, Running, Executing
  <2>2. PICK G : /\ Layout(G) /\ TransactionsPlaced(G)' /\ G[AtQueue] = inbox[K.ev.tgt] \o eq
                 /\ \A s \in Sponsor : G[AtWaiting(s)] = waiting'[s] /\ G[AtAlarm(s)] = alarm[s]
    BY <2>1, EndWaits
  <2>3. K.ev.spn \in Sponsor
    BY <2>1, TheContinuation
  <2> QED BY <2>1, <2>2, <2>3, AlarmSent
<1>3. CASE Abort
  <2>1. /\ kq # <<>> /\ EndContinuation /\ eq' = inbox[K.ev.tgt] \o eq
        /\ alarm' = alarm /\ waiting' = waiting
    BY <1>3 DEF Abort, Running, Executing, sponsorVars
  <2>2. PICK G : /\ Layout(G) /\ TransactionsPlaced(G)' /\ G[AtQueue] = inbox[K.ev.tgt] \o eq
                 /\ \A s \in Sponsor : G[AtWaiting(s)] = waiting[s] /\ G[AtAlarm(s)] = alarm[s]
    BY <2>1, EndDrops
  <2> QED BY <2>1, <2>2, Found
<1>4. CASE Commit
  BY <1>4, CommitHomes
<1>k. ASSUME kq # <<>> PROVE K \in Cont
  BY <1>k, TheContinuation
<1>5. CASE Compute
  <2>1. Continue(K) /\ kq # <<>> /\ UNCHANGED <<eq, waiting, alarm>>
    BY <1>5 DEF Compute, Continue, Running, Executing, sponsorVars
  <2> QED BY <2>1, <1>k, GoesOnHomes
<1>6. CASE ExecuteNothing
  <2>1. UNCHANGED <<kq, inbox, eq, waiting, alarm>>
    BY <1>6 DEF ExecuteNothing, actorVars, sponsorVars
  <2>2. SameTransactions(F, F) /\ TransactionsPlaced(F) /\ Layout(F) /\ F[AtQueue] = eq'
        /\ \A s \in Sponsor : F[AtWaiting(s)] = waiting'[s] /\ F[AtAlarm(s)] = alarm'[s]
    BY <2>1 DEF SameTransactions, Placed, EventsPlaced
  <2>3. TransactionsPlaced(F)'
    BY <2>1, <2>2, SamePlaced
  <2> QED BY <2>2, <2>3, Found
<1>7. ASSUME NEW b \in Beh, Become(b) PROVE HomeInv'
  <2>1. PICK k : k = [K EXCEPT !.beh = b]
    OBVIOUS
  <2>2. Continue(k) /\ kq # <<>> /\ UNCHANGED <<eq, waiting, alarm>>
    BY <1>7, <2>1 DEF Become, Continue, Running, Executing, sponsorVars
  <2>3. k \in Cont /\ k.ev = K.ev /\ k.n = K.n /\ k.out = K.out
    BY <2>1, <2>2, <1>k DEF Cont
  <2> QED BY <2>2, <2>3, GoesOnHomes
<1>8. ASSUME NEW p \in Peers, Reclaim(p) PROVE HomeInv'
  <2>1. Continue(K) /\ kq # <<>> /\ UNCHANGED <<eq, waiting, alarm>>
    BY <1>8 DEF Reclaim, Continue, Running, Executing
  <2> QED BY <2>1, <1>k, GoesOnHomes
<1>9. ASSUME NEW p \in Peers, NEW n \in 1 .. Quota, Grant(p, n) PROVE HomeInv'
  <2>1. Continue(K) /\ kq # <<>> /\ UNCHANGED <<eq, waiting, alarm>>
    BY <1>9 DEF Grant, Continue, Running, Executing
  <2> QED BY <2>1, <1>k, GoesOnHomes
<1> QED
  BY <1>1, <1>2, <1>3, <1>4, <1>5, <1>6, <1>7, <1>8, <1>9, SendHomes, StartHomes, StopHomes DEF Execute

(* The event that is dispatched goes to the waiting queue of its sponsor.  *)
LEMMA QueueWaits ==
  ASSUME TypeOK, OneTransaction, eq # <<>>, WaitingEvent(E), UNCHANGED <<kq, inbox>>, NEW F, Placed(F)
  PROVE  \E G : /\ Layout(G) /\ TransactionsPlaced(G)' /\ G[AtQueue] = Tail(eq)
                /\ \A s \in Sponsor : G[AtWaiting(s)] = waiting'[s] /\ G[AtAlarm(s)] = alarm[s]
<1> DEFINE s == E.spn
<1>1. s \in Sponsor /\ E \in Event
  BY TheEvent
<1>2. AtQueue \in Place /\ AtWaiting(s) \in Place /\ AtQueue # AtWaiting(s) /\ Layout(F) /\ F[AtQueue] = eq
  BY <1>1, Places DEF Placed, EventsPlaced
<1>g. PICK G : G = Take(F, AtQueue, AtWaiting(s))
  OBVIOUS
<1>3. /\ Layout(G) /\ G[AtQueue] = Tail(F[AtQueue])
      /\ G[AtWaiting(s)] = Append(F[AtWaiting(s)], Head(F[AtQueue]))
      /\ \A x \in Place : x # AtQueue /\ x # AtWaiting(s) => G[x] = F[x]
  BY <1>g, <1>2, Takes
<1>4. G[AtQueue] = Tail(eq) /\ G[AtWaiting(s)] = Append(F[AtWaiting(s)], E)
  BY <1>2, <1>3 DEF E
<1>5. \A t \in Sponsor : t # s => G[AtWaiting(t)] = F[AtWaiting(t)]
  BY <1>1, <1>3, Places
<1>6. \A t \in Sponsor : G[AtWaiting(t)] = waiting'[t]
  BY <1>1, <1>4, <1>5, WaitingPlaced DEF Placed
<1>7. \A t \in Sponsor : G[AtAlarm(t)] = alarm[t]
  BY <1>1, <1>3, Places DEF Placed, EventsPlaced
<1>8. SameTransactions(F, G) /\ TransactionsPlaced(F)
  BY <1>1, <1>3, Places DEF SameTransactions, Placed
<1>9. TransactionsPlaced(G)'
  BY <1>8, SamePlaced
<1> QED BY <1>3, <1>4, <1>6, <1>7, <1>9

(* The event that is dispatched is consumed, and another sent at most.     *)
LEMMA QueueMoves ==
  ASSUME TypeOK, OneTransaction, eq # <<>>, UNCHANGED <<kq, inbox, waiting, alarm>>, NEW F, Placed(F),
         \/ eq' = Tail(eq)
         \/ \E e \in Event \ Live : eq' = Append(Tail(eq), e)
  PROVE  HomeInv'
<1>1. AtQueue \in Place /\ Layout(F) /\ F[AtQueue] = eq /\ F[AtQueue] # <<>>
  BY Places DEF Placed, EventsPlaced
<1>g. PICK G : G = Drop(F, AtQueue)
  OBVIOUS
<1>2. Layout(G) /\ G[AtQueue] = Tail(eq) /\ \A x \in Place : x # AtQueue => G[x] = F[x]
  BY <1>g, <1>1, Drops
<1>s. ASSUME NEW H, \A x \in Place : x # AtQueue => H[x] = F[x]
      PROVE  /\ TransactionsPlaced(H)'
             /\ \A s \in Sponsor : H[AtWaiting(s)] = waiting'[s] /\ H[AtAlarm(s)] = alarm'[s]
  <2>1. SameTransactions(F, H) /\ TransactionsPlaced(F)
    BY <1>s, Places DEF SameTransactions, Placed
  <2>2. TransactionsPlaced(H)'
    BY <2>1, SamePlaced
  <2>3. \A s \in Sponsor : H[AtWaiting(s)] = waiting[s] /\ H[AtAlarm(s)] = alarm[s]
    BY <1>s, Places DEF Placed, EventsPlaced
  <2> QED BY <2>2, <2>3
<1>3. CASE eq' = Tail(eq)
  BY <1>2, <1>3, <1>s, Found
<1>4. ASSUME NEW e \in Event \ Live, eq' = Append(Tail(eq), e) PROVE HomeInv'
  <2>1. \A x \in Place : e \notin ToSet(F[x])
    BY NewEvent
  <2>2. ToSet(eq) = {E} \cup ToSet(Tail(eq))
    BY TheEvent
  <2>3. \A x \in Place : e \notin ToSet(G[x])
    BY <1>1, <1>2, <2>1, <2>2
  <2>h. PICK H : H = Put(G, AtQueue, e)
    OBVIOUS
  <2>4. Layout(H) /\ H[AtQueue] = Append(G[AtQueue], e) /\ \A x \in Place : x # AtQueue => H[x] = G[x]
    BY <2>h, <1>1, <1>2, <2>3, Puts
  <2>5. H[AtQueue] = eq' /\ \A x \in Place : x # AtQueue => H[x] = F[x]
    BY <1>2, <1>4, <2>4
  <2> QED BY <2>4, <2>5, <1>s, Found
<1> QED BY <1>3, <1>4

(* The event of a busy actor goes to its inbox.                            *)
LEMMA InboxHomes ==
  ASSUME TypeOK, OneTransaction, NEW F, Placed(F), InboxEvent
  PROVE  HomeInv'
<1> DEFINE a == E.tgt
<1>0. /\ eq # <<>> /\ eq' = Tail(eq) /\ inbox' = [inbox EXCEPT ![a] = Append(@, E)] /\ a \in busy
      /\ UNCHANGED <<kq, waiting, alarm>> /\ busy \subseteq Actor /\ DOMAIN inbox = Actor
  BY DEF InboxEvent, Dispatching, sponsorVars, TypeOK
<1>1. /\ a \in Actor /\ AtQueue \in Place /\ AtInbox(a) \in Place /\ AtQueue # AtInbox(a)
      /\ Layout(F) /\ F[AtQueue] = eq /\ F[AtInbox(a)] = inbox[a]
  BY <1>0, Places DEF Placed, EventsPlaced, TransactionsPlaced
<1>g. PICK G : G = Take(F, AtQueue, AtInbox(a))
  OBVIOUS
<1>2. /\ Layout(G) /\ G[AtQueue] = Tail(F[AtQueue])
      /\ G[AtInbox(a)] = Append(F[AtInbox(a)], Head(F[AtQueue]))
      /\ \A x \in Place : x # AtQueue /\ x # AtInbox(a) => G[x] = F[x]
  BY <1>g, <1>0, <1>1, Takes, ZenonT(60)
<1>3. G[AtQueue] = eq' /\ G[AtInbox(a)] = Append(inbox[a], E)
  BY <1>0, <1>1, <1>2 DEF E
<1>4. \A b \in Actor : b # a => G[AtInbox(b)] = F[AtInbox(b)]
  BY <1>1, <1>2, Places
<1>5. \A b \in Actor : G[AtInbox(b)] = inbox'[b]
  BY <1>0, <1>1, <1>3, <1>4 DEF Placed, TransactionsPlaced
<1>6. \A b \in Actor : G[AtCurrent(b)] = F[AtCurrent(b)] /\ G[AtOutbox(b)] = F[AtOutbox(b)]
  BY <1>1, <1>2, Places
<1>7. \A k \in ToSet(kq) : k.ev.tgt \in Actor
  BY <1>0 DEF OneTransaction
<1>8. /\ \A k \in ToSet(kq) : G[AtCurrent(k.ev.tgt)] = <<k.ev>> /\ G[AtOutbox(k.ev.tgt)] = k.out
      /\ \A b \in Actor :
           (\A k \in ToSet(kq) : k.ev.tgt # b) => G[AtCurrent(b)] = <<>> /\ G[AtOutbox(b)] = <<>>
  BY <1>6, <1>7 DEF Placed, TransactionsPlaced
<1>t. TransactionsPlaced(F) /\ kq' = kq
  BY <1>0 DEF Placed
<1>9. TransactionsPlaced(G)'
  <2>1. ToSet(kq)' = ToSet(kq)
    BY <1>t DEF ToSet
  <2> QED BY <2>1, <1>5, <1>8 DEF TransactionsPlaced, AtCurrent, AtOutbox, AtInbox
<1>10. \A s \in Sponsor : G[AtWaiting(s)] = waiting'[s] /\ G[AtAlarm(s)] = alarm'[s]
  BY <1>0, <1>1, <1>2, Places DEF Placed, EventsPlaced
<1> QED BY <1>2, <1>3, <1>9, <1>10, Found

(* The event becomes the current one of its actor.                         *)
LEMMA ActorHomes ==
  ASSUME TypeOK, OneTransaction, NEW F, Placed(F), ProcessActor
  PROVE  HomeInv'
<1> DEFINE a == E.tgt
<1>k. PICK k : k = [ev |-> E, beh |-> beh[a], out |-> <<>>, n |-> 0]
  OBVIOUS
<1>0. /\ eq # <<>> /\ eq' = Tail(eq) /\ kq' = Append(kq, k) /\ a \in Actor /\ a \notin busy
      /\ UNCHANGED <<inbox, waiting, alarm>> /\ kq \in Seq(Cont) /\ beh \in [Actor -> Beh] /\ busy \subseteq Actor
  BY <1>k DEF ProcessActor, Charge, Processing, Dispatching, TypeOK
<1>1. k \in Cont /\ k.ev = E /\ k.out = <<>>
  BY <1>k, <1>0, TheEvent, EmptySeq, SchedulerAssumption DEF Cont
<1>2. ToSet(kq') = ToSet(kq) \cup {k}
  BY <1>0, <1>1, ElemsAppend
<1>3. \A m \in ToSet(kq) : m.ev.tgt \in Actor /\ m.ev.tgt # a
  BY <1>0 DEF OneTransaction
<1>4. /\ AtQueue \in Place /\ AtCurrent(a) \in Place /\ AtQueue # AtCurrent(a)
      /\ Layout(F) /\ F[AtQueue] = eq /\ F[AtCurrent(a)] = <<>> /\ F[AtOutbox(a)] = <<>>
  BY <1>0, <1>3, Places DEF Placed, EventsPlaced, TransactionsPlaced
<1>g. PICK G : G = Take(F, AtQueue, AtCurrent(a))
  OBVIOUS
<1>5. /\ Layout(G) /\ G[AtQueue] = Tail(F[AtQueue])
      /\ G[AtCurrent(a)] = Append(F[AtCurrent(a)], Head(F[AtQueue]))
      /\ \A x \in Place : x # AtQueue /\ x # AtCurrent(a) => G[x] = F[x]
  BY <1>g, <1>0, <1>4, Takes
<1>6. G[AtQueue] = eq' /\ G[AtCurrent(a)] = <<E>>
  BY <1>0, <1>4, <1>5 DEF E
<1>7. \A b \in Actor :
        /\ G[AtInbox(b)] = F[AtInbox(b)] /\ G[AtOutbox(b)] = F[AtOutbox(b)]
        /\ b # a => G[AtCurrent(b)] = F[AtCurrent(b)]
  BY <1>0, <1>5, Places
<1> HIDE DEF a
<1>8. ASSUME NEW m \in ToSet(kq') PROVE G[AtCurrent(m.ev.tgt)] = <<m.ev>> /\ G[AtOutbox(m.ev.tgt)] = m.out
  <2>1. CASE m = k
    <3>1. m.ev.tgt = a /\ m.ev = E /\ m.out = <<>>
      BY <2>1, <1>1 DEF a
    <3> QED BY <3>1, <1>0, <1>4, <1>6, <1>7
  <2>2. CASE m \in ToSet(kq)
    BY <2>2, <1>3, <1>7 DEF Placed, TransactionsPlaced
  <2> QED BY <2>1, <2>2, <1>2
<1>9. ASSUME NEW b \in Actor, \A m \in ToSet(kq') : m.ev.tgt # b
      PROVE  G[AtCurrent(b)] = <<>> /\ G[AtOutbox(b)] = <<>>
  <2>1. b # a /\ \A m \in ToSet(kq) : m.ev.tgt # b
    BY <1>1, <1>2, <1>9 DEF a
  <2> QED BY <2>1, <1>7 DEF Placed, TransactionsPlaced
<1>10. \A b \in Actor : G[AtInbox(b)] = inbox'[b]
  BY <1>0, <1>7 DEF Placed, TransactionsPlaced
<1>e. ToSet(kq)' = ToSet(kq')
  BY DEF ToSet
<1>11. TransactionsPlaced(G)'
  <2>1. \A m \in ToSet(kq') : G[AtCurrent(m.ev.tgt)] = <<m.ev>> /\ G[AtOutbox(m.ev.tgt)] = m.out
    BY <1>8
  <2>2. \A b \in Actor :
          (\A m \in ToSet(kq') : m.ev.tgt # b) => G[AtCurrent(b)] = <<>> /\ G[AtOutbox(b)] = <<>>
    BY <1>9
  <2> QED BY <2>1, <2>2, <1>10, <1>e DEF TransactionsPlaced, AtCurrent, AtOutbox, AtInbox
<1>12. \A s \in Sponsor : G[AtWaiting(s)] = waiting'[s] /\ G[AtAlarm(s)] = alarm'[s]
  BY <1>0, <1>5, Places DEF Placed, EventsPlaced
<1> QED BY <1>5, <1>6, <1>11, <1>12, Found

(* Each step of dispatch_event().                                          *)
LEMMA DispatchHomes ==
  ASSUME TypeOK, OneTransaction, TypeOK', OneTransaction', NEW F, Placed(F), Dispatch
  PROVE  HomeInv'
<1>1. CASE DispatchNothing
  <2>1. UNCHANGED <<kq, inbox, eq, waiting, alarm>>
    BY <1>1 DEF DispatchNothing, actorVars, sponsorVars
  <2>2. SameTransactions(F, F) /\ TransactionsPlaced(F) /\ Layout(F) /\ F[AtQueue] = eq'
        /\ \A s \in Sponsor : F[AtWaiting(s)] = waiting'[s] /\ F[AtAlarm(s)] = alarm'[s]
    BY <2>1 DEF SameTransactions, Placed, EventsPlaced
  <2>3. TransactionsPlaced(F)'
    BY <2>1, <2>2, SamePlaced
  <2> QED BY <2>2, <2>3, Found
<1>w. ASSUME eq # <<>>, WaitingEvent(E), UNCHANGED <<kq, inbox, alarm>>, eq' = Tail(eq) PROVE HomeInv'
  <2>1. PICK G : /\ Layout(G) /\ TransactionsPlaced(G)' /\ G[AtQueue] = Tail(eq)
                 /\ \A s \in Sponsor : G[AtWaiting(s)] = waiting'[s] /\ G[AtAlarm(s)] = alarm[s]
    BY <1>w, QueueWaits
  <2> QED BY <1>w, <2>1, Found
<1>f. ASSUME eq # <<>>, ProcessFailed, UNCHANGED <<kq, inbox>> PROVE HomeInv'
  <2>1. WaitingEvent(E) /\ E.spn \in Sponsor
    BY <1>f, TheEvent DEF ProcessFailed
  <2>3. PICK next : ReportError(E.spn, Tail(eq), next)
    BY <1>f DEF ProcessFailed
  <2>2. PICK G : /\ Layout(G) /\ TransactionsPlaced(G)' /\ G[AtQueue] = Tail(eq)
                 /\ \A s \in Sponsor : G[AtWaiting(s)] = waiting'[s] /\ G[AtAlarm(s)] = alarm[s]
    BY <1>f, <2>1, QueueWaits
  <2> QED BY <2>1, <2>2, <2>3, AlarmSent
<1>2. CASE Defer
  <2>1. eq # <<>> /\ eq' = Tail(eq) /\ UNCHANGED <<kq, inbox, alarm>> /\ (WaitingEvent(E) \/ UNCHANGED waiting)
    BY <1>2 DEF Defer, Dispatching, actorVars
  <2>2. CASE WaitingEvent(E)
    BY <2>1, <2>2, <1>w
  <2>3. CASE UNCHANGED waiting
    BY <2>1, <2>3, QueueMoves
  <2> QED BY <2>1, <2>2, <2>3
<1>3. CASE ProcessLimit
  <2>1. eq # <<>> /\ ProcessFailed /\ UNCHANGED <<kq, inbox>>
    BY <1>3 DEF ProcessLimit, Processing, Dispatching, actorVars
  <2> QED BY <2>1, <1>f
<1>4. CASE ProcessNoMem
  <2>1. eq # <<>> /\ ProcessFailed /\ UNCHANGED <<kq, inbox>>
    BY <1>4 DEF ProcessNoMem, Charge, Processing, Dispatching
  <2> QED BY <2>1, <1>f
<1>5. CASE ProcessDevice(<<>>)
  <2>1. eq # <<>> /\ UNCHANGED <<kq, inbox, waiting, alarm>> /\ eq' = Tail(eq) \o <<>>
    BY <1>5 DEF ProcessDevice, Charge, Processing, Dispatching, actorVars
  <2>2. eq' = Tail(eq)
    BY <2>1, TheEvent, ConcatEmptySeq
  <2> QED BY <2>1, <2>2, QueueMoves
<1>6. ASSUME NEW e \in Event, ProcessDevice(<<e>>) PROVE HomeInv'
  <2>1. eq # <<>> /\ UNCHANGED <<kq, inbox, waiting, alarm>> /\ eq' = Tail(eq) \o <<e>>
    BY <1>6 DEF ProcessDevice, Charge, Processing, Dispatching, actorVars
  <2>2. e \in Event \ Live
    BY <1>6 DEF ProcessDevice, ToSet
  <2>3. Tail(eq) \o <<e>> = Append(Tail(eq), e)
    BY <2>1, TheEvent, AppendIsConcat
  <2> QED BY <2>1, <2>2, <2>3, QueueMoves
<1>7. ASSUME NEW error \in DeviceError, DeviceFails(error) PROVE HomeInv'
  <2>1. eq # <<>> /\ UNCHANGED <<kq, inbox>>
    BY <1>7 DEF DeviceFails, Charge, Processing, Dispatching, actorVars
  <2>2. CASE ProcessFailed
    BY <2>1, <2>2, <1>f
  <2>3. CASE WaitingEvent(E) /\ eq' = Tail(eq) /\ UNCHANGED <<signal, alarm>>
    BY <2>1, <2>3, <1>w
  <2> QED BY <1>7, <2>2, <2>3 DEF DeviceFails
<1> QED BY <1>1, <1>2, <1>3, <1>4, <1>5, <1>6, <1>7, InboxHomes, ActorHomes DEF Dispatch

(* Each step of the host.                                                  *)
LEMMA HostHomes ==
  ASSUME TypeOK, OneTransaction, NEW F, Placed(F), Host \/ Idle \/ UNCHANGED vars
  PROVE  HomeInv'
<1>0. AtQueue \in Place /\ Layout(F) /\ F[AtQueue] = eq /\ TransactionsPlaced(F) /\ Root \in Sponsor
  BY Places DEF Placed, EventsPlaced, Sponsor
<1>u. ASSUME UNCHANGED <<kq, inbox, eq, waiting, alarm>> PROVE HomeInv'
  <2>1. SameTransactions(F, F) /\ F[AtQueue] = eq'
        /\ \A s \in Sponsor : F[AtWaiting(s)] = waiting'[s] /\ F[AtAlarm(s)] = alarm'[s]
    BY <1>u DEF SameTransactions, Placed, EventsPlaced
  <2>2. TransactionsPlaced(F)'
    BY <1>0, <1>u, <2>1, SamePlaced
  <2> QED BY <1>0, <2>1, <2>2, Found
<1>1. CASE Refill \/ Idle \/ UNCHANGED vars
  BY <1>1, <1>u DEF Refill, Idle, vars, actorVars, sponsorVars
<1>2. CASE RunLoop
  <2>0. /\ eq' = eq \o waiting[Root] /\ waiting' = [waiting EXCEPT ![Root] = <<>>]
        /\ UNCHANGED <<kq, inbox, alarm>> /\ DOMAIN waiting = Sponsor
    BY <1>2 DEF RunLoop, actorVars, TypeOK
  <2>1. AtWaiting(Root) \in Place /\ AtQueue # AtWaiting(Root) /\ F[AtWaiting(Root)] = waiting[Root]
    BY <1>0, Places DEF Placed, EventsPlaced
  <2>g. PICK G : G = Join(F, AtQueue, AtWaiting(Root))
    OBVIOUS
  <2>2. /\ Layout(G) /\ G[AtWaiting(Root)] = <<>>
        /\ \A x \in Place : x # AtQueue /\ x # AtWaiting(Root) => G[x] = F[x]
    BY <2>g, <1>0, <2>1, Joins
  <2>3. G[AtQueue] = F[AtQueue] \o F[AtWaiting(Root)]
    BY <2>g, <1>0, <2>1 DEF Join, Layout
  <2>4. G[AtQueue] = eq'
    BY <2>0, <1>0, <2>1, <2>3
  <2>5. \A s \in Sponsor : G[AtWaiting(s)] = waiting'[s]
    BY <2>0, <1>0, <2>2, Places DEF Placed, EventsPlaced
  <2>6. \A s \in Sponsor : G[AtAlarm(s)] = alarm'[s]
    BY <2>0, <1>0, <2>2, Places DEF Placed, EventsPlaced
  <2>7. SameTransactions(F, G)
    BY <1>0, <2>2, Places DEF SameTransactions
  <2>8. TransactionsPlaced(G)'
    BY <2>0, <1>0, <2>7, SamePlaced
  <2> QED BY <2>2, <2>4, <2>5, <2>6, <2>8, Found
<1>3. ASSUME NEW e \in Event, HostEvent(e) PROVE HomeInv'
  <2>0. e \in Event \ Live /\ eq' = Append(eq, e) /\ UNCHANGED <<kq, inbox, waiting, alarm>>
    BY <1>3 DEF HostEvent, actorVars, sponsorVars
  <2>1. \A x \in Place : e \notin ToSet(F[x])
    BY <2>0, NewEvent
  <2>g. PICK G : G = Put(F, AtQueue, e)
    OBVIOUS
  <2>2. /\ Layout(G) /\ G[AtQueue] = Append(F[AtQueue], e)
        /\ \A x \in Place : x # AtQueue => G[x] = F[x]
    BY <2>g, <1>0, <2>1, Puts
  <2>3. G[AtQueue] = eq'
    BY <1>0, <2>0, <2>2
  <2>4. \A s \in Sponsor : G[AtWaiting(s)] = waiting'[s] /\ G[AtAlarm(s)] = alarm'[s]
    BY <2>0, <2>2, Places DEF Placed, EventsPlaced
  <2>5. SameTransactions(F, G)
    BY <2>2, Places DEF SameTransactions
  <2>6. TransactionsPlaced(G)'
    BY <1>0, <2>0, <2>5, SamePlaced
  <2> QED BY <2>2, <2>3, <2>4, <2>6, Found
<1> QED BY <1>1, <1>2, <1>3 DEF Host

(* In the beginning all queues are empty.                                  *)
LEMMA InitHomes == ASSUME Init PROVE HomeInv
<1>g. PICK F : F = [x \in Place |-> <<>>]
  OBVIOUS
<1>1. /\ eq = <<>> /\ kq = <<>> /\ inbox = [a \in Actor |-> <<>>]
      /\ waiting = [s \in Sponsor |-> <<>>] /\ alarm = [s \in Sponsor |-> <<>>]
  BY DEF Init
<1>2. Distinct(<<>>) /\ ToSet(<<>>) = {} /\ <<>> \in Seq(Event)
  BY EmptySeq DEF Distinct, ToSet
<1>3. Layout(F)
  BY <1>g, <1>2 DEF Layout
<1>4. TransactionsPlaced(F)
  BY <1>g, <1>1, <1>2, Places DEF TransactionsPlaced
<1>5. EventsPlaced(F)
  BY <1>g, <1>1, Places DEF EventsPlaced
<1> QED BY <1>3, <1>4, <1>5 DEF HomeInv, Placed

(* Every step keeps each event in one place.                               *)
LEMMA NextHomes ==
  ASSUME TypeOK, OneTransaction, HomeInv, [Next]_vars
  PROVE  HomeInv'
<1>1. TypeOK' /\ OneTransaction'
  BY NextKeeps
<1>2. PICK F : Placed(F)
  BY DEF HomeInv
<1>3. CASE Execute
  BY <1>1, <1>2, <1>3, ExecuteHomes
<1>4. CASE Dispatch
  BY <1>1, <1>2, <1>4, DispatchHomes
<1>5. CASE Host \/ Idle \/ UNCHANGED vars
  BY <1>2, <1>5, HostHomes
<1> QED BY <1>3, <1>4, <1>5 DEF Next

(* The place x of a queue c of the state.                                  *)
Sits(c, x) ==
  \/ c = <<"queue", Root, eq>> /\ x = AtQueue
  \/ \E i \in DOMAIN kq : c = <<"current", i, <<kq[i].ev>> >> /\ x = AtCurrent(kq[i].ev.tgt)
  \/ \E i \in DOMAIN kq : c = <<"outbox", i, kq[i].out>> /\ x = AtOutbox(kq[i].ev.tgt)
  \/ \E a \in Actor : c = <<"inbox", a, inbox[a]>> /\ x = AtInbox(a)
  \/ \E s \in Sponsor : c = <<"waiting", s, waiting[s]>> /\ x = AtWaiting(s)
  \/ \E s \in Sponsor : c = <<"alarm", s, alarm[s]>> /\ x = AtAlarm(s)

(* Each queue of the state is at a place of the layout.                    *)
LEMMA EachSits ==
  ASSUME TypeOK, OneTransaction, NEW F, Placed(F), NEW c \in Chains
  PROVE  \E x \in Place : Sits(c, x) /\ c[3] = F[x]
<1>0. \A i \in DOMAIN kq : kq[i] \in ToSet(kq) /\ kq[i].ev.tgt \in Actor
  BY DEF OneTransaction, ToSet, TypeOK
<1>1. CASE c = <<"queue", Root, eq>>
  BY <1>1, Places DEF Sits, Placed, EventsPlaced
<1>2. CASE \E i \in DOMAIN kq : c = <<"current", i, <<kq[i].ev>> >>
  <2>1. PICK i \in DOMAIN kq : c = <<"current", i, <<kq[i].ev>> >>
    BY <1>2
  <2>2. AtCurrent(kq[i].ev.tgt) \in Place /\ F[AtCurrent(kq[i].ev.tgt)] = <<kq[i].ev>>
    BY <1>0, Places DEF Placed, TransactionsPlaced
  <2>3. Sits(c, AtCurrent(kq[i].ev.tgt)) /\ c[3] = <<kq[i].ev>>
    BY <2>1 DEF Sits
  <2> QED BY <2>2, <2>3
<1>3. CASE \E i \in DOMAIN kq : c = <<"outbox", i, kq[i].out>>
  <2>1. PICK i \in DOMAIN kq : c = <<"outbox", i, kq[i].out>>
    BY <1>3
  <2>2. AtOutbox(kq[i].ev.tgt) \in Place /\ F[AtOutbox(kq[i].ev.tgt)] = kq[i].out
    BY <1>0, Places DEF Placed, TransactionsPlaced
  <2>3. Sits(c, AtOutbox(kq[i].ev.tgt)) /\ c[3] = kq[i].out
    BY <2>1 DEF Sits
  <2> QED BY <2>2, <2>3
<1>4. CASE \E a \in Actor : c = <<"inbox", a, inbox[a]>>
  BY <1>4, Places DEF Sits, Placed, TransactionsPlaced
<1>5. CASE \E s \in Sponsor : c = <<"waiting", s, waiting[s]>>
  BY <1>5, Places DEF Sits, Placed, EventsPlaced
<1>6. CASE \E s \in Sponsor : c = <<"alarm", s, alarm[s]>>
  BY <1>6, Places DEF Sits, Placed, EventsPlaced
<1> QED BY <1>1, <1>2, <1>3, <1>4, <1>5, <1>6 DEF Chains

(* Two queues of the state are not at the same place.                      *)
LEMMA OneSits ==
  ASSUME TypeOK, OneTransaction, NEW c, NEW d, NEW x, Sits(c, x), Sits(d, x)
  PROVE  c = d
<1>0. \A i \in DOMAIN kq : kq[i].ev.tgt \in Actor
  BY DEF OneTransaction, ToSet, TypeOK
<1>o. \A i, j \in DOMAIN kq : kq[i].ev.tgt = kq[j].ev.tgt => i = j
  BY DEF OneTransaction
<1>1. CASE c = <<"queue", Root, eq>> /\ x = AtQueue
  BY <1>0, <1>1, Places DEF Sits
<1>2. CASE \E i \in DOMAIN kq : c = <<"current", i, <<kq[i].ev>> >> /\ x = AtCurrent(kq[i].ev.tgt)
  BY <1>0, <1>o, <1>2, Places DEF Sits
<1>3. CASE \E i \in DOMAIN kq : c = <<"outbox", i, kq[i].out>> /\ x = AtOutbox(kq[i].ev.tgt)
  BY <1>0, <1>o, <1>3, Places DEF Sits
<1>4. CASE \E a \in Actor : c = <<"inbox", a, inbox[a]>> /\ x = AtInbox(a)
  BY <1>0, <1>4, Places DEF Sits
<1>5. CASE \E s \in Sponsor : c = <<"waiting", s, waiting[s]>> /\ x = AtWaiting(s)
  BY <1>0, <1>5, Places DEF Sits
<1>6. CASE \E s \in Sponsor : c = <<"alarm", s, alarm[s]>> /\ x = AtAlarm(s)
  BY <1>0, <1>6, Places DEF Sits
<1> QED BY <1>1, <1>2, <1>3, <1>4, <1>5, <1>6 DEF Sits

(* If a layout describes the state then no two queues share an event.      *)
LEMMA HomesApart == ASSUME TypeOK, OneTransaction, HomeInv PROVE OneHome
<1>1. PICK F : Placed(F)
  BY DEF HomeInv
<1>2. ASSUME NEW c \in Chains PROVE IsInjective(c[3])
  <2>1. PICK x \in Place : c[3] = F[x]
    BY <1>1, EachSits
  <2>2. Distinct(F[x])
    BY <1>1 DEF Placed, Layout
  <2> QED BY <2>1, <2>2 DEF Distinct, IsInjective
<1>3. ASSUME NEW c \in Chains, NEW d \in Chains, c # d PROVE ToSet(c[3]) \cap ToSet(d[3]) = {}
  <2>1. PICK x \in Place : Sits(c, x) /\ c[3] = F[x]
    BY <1>1, EachSits
  <2>2. PICK y \in Place : Sits(d, y) /\ d[3] = F[y]
    BY <1>1, EachSits
  <2>3. x # y
    BY <1>3, <2>1, <2>2, OneSits
  <2>4. \A e \in ToSet(F[x]) : e \notin ToSet(F[y])
    BY <1>1, <2>3 DEF Placed, Layout
  <2> QED BY <2>1, <2>2, <2>4
<1> QED BY <1>2, <1>3 DEF OneHome

(***************************************************************************)
(* Every event is in one place only, once: no queue of the scheduler ever  *)
(* shares a link with another.                                             *)
(***************************************************************************)
THEOREM EventsApart == Spec => []OneHome
<1>1. Init => TypeOK /\ OneTransaction /\ HomeInv
  BY InitKeeps, InitHomes
<1>2. TypeOK /\ OneTransaction /\ HomeInv /\ [Next]_vars => (TypeOK /\ OneTransaction /\ HomeInv)'
  BY NextKeeps, NextHomes
<1>3. TypeOK /\ OneTransaction /\ HomeInv => OneHome
  BY HomesApart
<1> QED BY <1>1, <1>2, <1>3, PTL DEF Spec
=============================================================================
