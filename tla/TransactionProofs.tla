-------------------------- MODULE TransactionProofs --------------------------
(***************************************************************************)
(* The scheduler implements atomic actor transactions, for any number of   *)
(* actors, devices, sponsors and events.                                   *)
(*                                                                         *)
(* Sent is taken apart into the event queue, the current events, the       *)
(* inboxes and the waiting queues, and the transactions are seen as a      *)
(* function Txn of the set of continuations, which has one continuation    *)
(* for an actor at most.  That an event is in one place only (HomeInv) is  *)
(* what makes a step that takes it out of its place take it out of Sent.   *)
(* Then each action is a step of ActorTransactions or a stutter (Atomic),  *)
(* and loses no event of an exhausted sponsor (Kept).                      *)
(*                                                                         *)
(* Two action properties of the scheduler follow: no step makes quota, and *)
(* no event overtakes another for the same actor.                          *)
(***************************************************************************)
EXTENDS SchedulerProofs

(***************************************************************************)
(* The transactions that a set T of continuations, one for an actor at     *)
(* most, stands for.                                                       *)
(***************************************************************************)
Single(T) == \A k, l \in T : k.ev.tgt = l.ev.tgt => k = l

Txn(T) ==
  [a \in {k.ev.tgt : k \in T} |->
    LET k == CHOOSE k \in T : k.ev.tgt = a
    IN  [ev |-> k.ev, beh |-> k.beh, out |-> ToSet(k.out)]]

(* What the transactions of T are.                                         *)
LEMMA TxnAt ==
  ASSUME NEW T, Single(T)
  PROVE  /\ DOMAIN Txn(T) = {k.ev.tgt : k \in T}
         /\ \A k \in T : Txn(T)[k.ev.tgt] = [ev |-> k.ev, beh |-> k.beh, out |-> ToSet(k.out)]
<1>1. ASSUME NEW k \in T PROVE (CHOOSE l \in T : l.ev.tgt = k.ev.tgt) = k
  BY DEF Single
<1>2. ASSUME NEW k \in T
      PROVE  Txn(T)[k.ev.tgt] = [ev |-> k.ev, beh |-> k.beh, out |-> ToSet(k.out)]
  BY <1>1 DEF Txn
<1>3. DOMAIN Txn(T) = {k.ev.tgt : k \in T}
  BY DEF Txn
<1> QED BY <1>2, <1>3

(* A transaction ends.                                                     *)
LEMMA TxnEnds ==
  ASSUME NEW R, NEW k, Single(R \cup {k}), \A l \in R : l.ev.tgt # k.ev.tgt
  PROVE  Txn(R) = [c \in DOMAIN Txn(R \cup {k}) \ {k.ev.tgt} |-> Txn(R \cup {k})[c]]
<1> DEFINE T == R \cup {k}
<1>1. Single(R)
  BY DEF Single
<1>2. DOMAIN Txn(R) = {l.ev.tgt : l \in R} /\ DOMAIN Txn(T) = {l.ev.tgt : l \in T}
  BY <1>1, TxnAt
<1>3. DOMAIN Txn(R) = DOMAIN Txn(T) \ {k.ev.tgt}
  BY <1>2
<1>4. ASSUME NEW c \in DOMAIN Txn(R) PROVE Txn(R)[c] = Txn(T)[c]
  <2>1. PICK l \in R : l.ev.tgt = c
    BY <1>2
  <2>2. Txn(R)[c] = [ev |-> l.ev, beh |-> l.beh, out |-> ToSet(l.out)]
    BY <2>1, <1>1, TxnAt
  <2>3. Txn(T)[c] = [ev |-> l.ev, beh |-> l.beh, out |-> ToSet(l.out)]
    BY <2>1, TxnAt
  <2> QED BY <2>2, <2>3
<1>5. Txn(R) = [c \in DOMAIN Txn(R) |-> Txn(R)[c]]
  BY DEF Txn
<1> HIDE DEF T
<1>6. Txn(R) = [c \in DOMAIN Txn(T) \ {k.ev.tgt} |-> Txn(T)[c]]
  BY <1>3, <1>4, <1>5
<1> QED BY <1>6 DEF T

(* A transaction begins.                                                   *)
Starts(t, u, a, b) == u = [c \in DOMAIN t \cup {a} |-> IF c = a THEN b ELSE t[c]]

(* A transaction begins with what b says.                                  *)
LEMMA TxnBegins ==
  ASSUME NEW T, NEW k, Single(T), \A l \in T : l.ev.tgt # k.ev.tgt
  PROVE  Starts(Txn(T), Txn(T \cup {k}), k.ev.tgt, [ev |-> k.ev, beh |-> k.beh, out |-> ToSet(k.out)])
<1> DEFINE R == T \cup {k}
<1>1. Single(R)
  BY DEF Single
<1>2. DOMAIN Txn(R) = {l.ev.tgt : l \in R} /\ DOMAIN Txn(T) = {l.ev.tgt : l \in T}
  BY <1>1, TxnAt
<1>3. DOMAIN Txn(R) = DOMAIN Txn(T) \cup {k.ev.tgt}
  BY <1>2
<1>4. ASSUME NEW c \in DOMAIN Txn(T) PROVE Txn(R)[c] = Txn(T)[c] /\ c # k.ev.tgt
  <2>1. PICK l \in T : l.ev.tgt = c
    BY <1>2
  <2>2. Txn(T)[c] = [ev |-> l.ev, beh |-> l.beh, out |-> ToSet(l.out)]
    BY <2>1, TxnAt
  <2>3. Txn(R)[c] = [ev |-> l.ev, beh |-> l.beh, out |-> ToSet(l.out)]
    BY <2>1, <1>1, TxnAt
  <2> QED BY <2>1, <2>2, <2>3
<1>5. Txn(R)[k.ev.tgt] = [ev |-> k.ev, beh |-> k.beh, out |-> ToSet(k.out)]
  BY <1>1, TxnAt
<1>6. Txn(R) = [c \in DOMAIN Txn(R) |-> Txn(R)[c]]
  BY DEF Txn
<1> HIDE DEF R
<1>7. Txn(R) = [c \in DOMAIN Txn(T) \cup {k.ev.tgt} |->
                 IF c = k.ev.tgt THEN [ev |-> k.ev, beh |-> k.beh, out |-> ToSet(k.out)] ELSE Txn(T)[c]]
  BY <1>3, <1>4, <1>5, <1>6
<1> QED BY <1>7 DEF R, Starts

(* A transaction goes on.                                                  *)
GoesFurther(t, u, a) ==
  /\ DOMAIN u = DOMAIN t
  /\ \A c \in DOMAIN t \ {a} : u[c] = t[c]
  /\ u[a].ev = t[a].ev /\ t[a].out \subseteq u[a].out

(* The other transactions are as they were.                                *)
LEMMA TxnContinues ==
  ASSUME NEW R, NEW k, NEW l, Single(R \cup {k}), \A m \in R : m.ev.tgt # k.ev.tgt,
         l.ev = k.ev, ToSet(k.out) \subseteq ToSet(l.out)
  PROVE  GoesFurther(Txn(R \cup {k}), Txn(R \cup {l}), k.ev.tgt)
<1>t. PICK t : t = Txn(R \cup {k})
  OBVIOUS
<1>u. PICK u : u = Txn(R \cup {l})
  OBVIOUS
<1>1. Single(R \cup {l})
  BY DEF Single
<1>2. DOMAIN t = {m.ev.tgt : m \in R \cup {k}} /\ DOMAIN u = {m.ev.tgt : m \in R \cup {l}}
  BY <1>t, <1>u, <1>1, TxnAt
<1>3. t[k.ev.tgt] = [ev |-> k.ev, beh |-> k.beh, out |-> ToSet(k.out)]
  BY <1>t, TxnAt
<1>4. u[l.ev.tgt] = [ev |-> l.ev, beh |-> l.beh, out |-> ToSet(l.out)]
  BY <1>t, <1>u, <1>1, TxnAt
<1>5. ASSUME NEW m \in R PROVE u[m.ev.tgt] = t[m.ev.tgt]
  <2>1. t[m.ev.tgt] = [ev |-> m.ev, beh |-> m.beh, out |-> ToSet(m.out)]
    BY <1>t, TxnAt
  <2>2. u[m.ev.tgt] = [ev |-> m.ev, beh |-> m.beh, out |-> ToSet(m.out)]
    BY <1>t, <1>u, <1>1, TxnAt
  <2> QED BY <2>1, <2>2
<1>6. DOMAIN u = DOMAIN t /\ k.ev.tgt \in DOMAIN t
  BY <1>2
<1>7. \A c \in DOMAIN t \ {k.ev.tgt} : u[c] = t[c]
  BY <1>2, <1>5
<1>8. u[k.ev.tgt].ev = t[k.ev.tgt].ev /\ t[k.ev.tgt].out \subseteq u[k.ev.tgt].out
  <2>1. t[k.ev.tgt].ev = k.ev /\ t[k.ev.tgt].out = ToSet(k.out)
    BY <1>3
  <2>2. u[l.ev.tgt].ev = l.ev /\ u[l.ev.tgt].out = ToSet(l.out)
    BY <1>4
  <2> QED BY <2>1, <2>2
<1> QED BY <1>t, <1>u, <1>6, <1>7, <1>8 DEF GoesFurther

-----------------------------------------------------------------------------
(* An actor has one continuation at most.                                  *)
LEMMA KqSingle ==
  ASSUME OneTransaction
  PROVE  Single(ToSet(kq))
BY DEF OneTransaction, Single, ToSet

(* The event of a transaction is in no other place.                        *)
LEMMA CurrentAlone ==
  ASSUME TypeOK, OneTransaction, HomeInv, kq # <<>>
  PROVE  /\ K.ev \notin ToSet(eq) /\ K.ev \notin ToSet(K.out)
         /\ \A a \in Actor : K.ev \notin ToSet(inbox[a])
         /\ \A s \in Sponsor : K.ev \notin ToSet(waiting[s]) /\ K.ev \notin ToSet(alarm[s])
         /\ \A k \in ToSet(Tail(kq)) : k.ev # K.ev
<1> DEFINE a == K.ev.tgt
<1>1. PICK F : Placed(F)
  BY DEF HomeInv
<1>2. a \in Actor /\ K \in ToSet(kq) /\ \A k \in ToSet(Tail(kq)) : k.ev.tgt # a
  BY TheActor
<1>3. F[AtCurrent(a)] = <<K.ev>> /\ F[AtOutbox(a)] = K.out
  BY <1>1, <1>2 DEF Placed, TransactionsPlaced
<1>4. K.ev \in ToSet(F[AtCurrent(a)])
  BY <1>3 DEF ToSet
<1>5. \A x \in Place : x # AtCurrent(a) => K.ev \notin ToSet(F[x])
  BY <1>1, <1>2, <1>4, Places DEF Placed, Layout
<1>6. K.ev \notin ToSet(eq) /\ K.ev \notin ToSet(K.out)
  BY <1>1, <1>2, <1>3, <1>5, Places DEF Placed, EventsPlaced
<1>7. \A b \in Actor : K.ev \notin ToSet(inbox[b])
  BY <1>1, <1>2, <1>5, Places DEF Placed, TransactionsPlaced
<1>8. \A s \in Sponsor : K.ev \notin ToSet(waiting[s]) /\ K.ev \notin ToSet(alarm[s])
  BY <1>1, <1>2, <1>5, Places DEF Placed, EventsPlaced
<1> QED BY <1>2, <1>6, <1>7, <1>8

(* The event that is dispatched is in no other place.                      *)
LEMMA HeadAlone ==
  ASSUME TypeOK, OneTransaction, HomeInv, eq # <<>>
  PROVE  /\ E \notin ToSet(Tail(eq))
         /\ \A k \in ToSet(kq) : k.ev # E
         /\ \A a \in Actor : E \notin ToSet(inbox[a])
         /\ \A s \in Sponsor : E \notin ToSet(waiting[s]) /\ E \notin ToSet(alarm[s])
<1>1. PICK F : Placed(F)
  BY DEF HomeInv
<1>2. eq \in Seq(Event) /\ F[AtQueue] = eq /\ AtQueue \in Place
  BY <1>1, Places DEF Placed, EventsPlaced, TypeOK
<1>3. Distinct(eq)
  BY <1>1, <1>2 DEF Placed, Layout
<1>4. E \in ToSet(eq) /\ E \notin ToSet(Tail(eq))
  BY <1>2, <1>3, DistinctTail DEF E
<1>5. \A x \in Place : x # AtQueue => E \notin ToSet(F[x])
  BY <1>1, <1>2, <1>4 DEF Placed, Layout
<1>6. \A a \in Actor : E \notin ToSet(inbox[a])
  BY <1>1, <1>5, Places DEF Placed, TransactionsPlaced
<1>7. \A s \in Sponsor : E \notin ToSet(waiting[s]) /\ E \notin ToSet(alarm[s])
  BY <1>1, <1>5, Places DEF Placed, EventsPlaced
<1>8. ASSUME NEW k \in ToSet(kq) PROVE k.ev # E
  <2>1. k.ev.tgt \in Actor /\ F[AtCurrent(k.ev.tgt)] = <<k.ev>>
    BY <1>1 DEF Placed, TransactionsPlaced, OneTransaction, TypeOK
  <2>2. k.ev \in ToSet(F[AtCurrent(k.ev.tgt)])
    BY <2>1 DEF ToSet
  <2>3. AtCurrent(k.ev.tgt) \in Place /\ AtCurrent(k.ev.tgt) # AtQueue
    BY <2>1, Places
  <2> QED BY <2>2, <2>3, <1>5
<1> QED BY <1>4, <1>6, <1>7, <1>8
-----------------------------------------------------------------------------
(* The parts of Sent                                                       *)

InInbox == UNION {ToSet(inbox[a]) : a \in Actor}
Waits == UNION {ToSet(waiting[s]) : s \in Sponsor}
Current == {k.ev : k \in ToSet(kq)}

(* What is sent, now and after the step.                                   *)
LEMMA SentParts ==
  /\ Sent = ToSet(eq) \cup Current \cup InInbox \cup Waits
  /\ Sent' = ToSet(eq') \cup Current' \cup InInbox' \cup Waits'
<1>1. Sent = ToSet(eq) \cup Current \cup InInbox \cup Waits
  BY DEF Sent, InInbox, Waits, Current
<1>2. Sent' = ToSet(eq') \cup Current' \cup InInbox' \cup Waits'
  BY DEF Sent, InInbox, Waits, Current, ToSet
<1> QED BY <1>1, <1>2

(* An event is put to those that wait with its sponsor.                    *)
LEMMA WaitsAdds ==
  ASSUME TypeOK, NEW e \in Event, WaitingEvent(e)
  PROVE  Waits' = Waits \cup {e}
<1>1. e.spn \in Sponsor
  BY SchedulerAssumption
<1>2. \A s \in Sponsor \ {e.spn} : waiting'[s] = waiting[s]
  BY <1>1 DEF TypeOK, WaitingEvent
<1>3. waiting'[e.spn] = Append(waiting[e.spn], e) /\ waiting[e.spn] \in Seq(Event)
  BY <1>1 DEF TypeOK, WaitingEvent
<1>4. ToSet(waiting'[e.spn]) = ToSet(waiting[e.spn]) \cup {e}
  BY <1>3, ElemsAppend
<1>5. \A x : x \in Waits' <=> \E s \in Sponsor : x \in ToSet(waiting'[s])
  BY DEF Waits
<1>6. \A x : x \in Waits <=> \E s \in Sponsor : x \in ToSet(waiting[s])
  BY DEF Waits
<1>7. ASSUME NEW x PROVE x \in Waits' <=> x \in Waits \/ x = e
  <2>1. CASE x \in Waits'
    <3>1. PICK s \in Sponsor : x \in ToSet(waiting'[s])
      BY <2>1, <1>5
    <3> QED BY <3>1, <1>2, <1>4, <1>6, <2>1
  <2>2. CASE x \in Waits
    <3>1. PICK s \in Sponsor : x \in ToSet(waiting[s])
      BY <2>2, <1>6
    <3>2. x \in ToSet(waiting'[s])
      BY <3>1, <1>2, <1>4
    <3> QED BY <3>1, <3>2, <1>5, <2>2
  <2>3. CASE x = e
    BY <2>3, <1>1, <1>4, <1>5
  <2> QED BY <2>1, <2>2, <2>3
<1> QED BY <1>7

(* The events that wait with a sponsor leave their queue.                  *)
LEMMA WaitsLeave ==
  ASSUME TypeOK, NEW s \in Sponsor, waiting' = [waiting EXCEPT ![s] = <<>>]
  PROVE  Waits' \cup ToSet(waiting[s]) = Waits
<1>1. \A t \in Sponsor \ {s} : waiting'[t] = waiting[t]
  BY DEF TypeOK
<1>2. ToSet(waiting'[s]) = {}
  BY DEF TypeOK, ToSet
<1>3. ASSUME NEW x PROVE x \in Waits <=> x \in Waits' \/ x \in ToSet(waiting[s])
  <2>1. CASE x \in Waits
    <3>1. PICK t \in Sponsor : x \in ToSet(waiting[t])
      BY <2>1 DEF Waits
    <3> QED BY <3>1, <1>1, <2>1 DEF Waits
  <2>2. CASE x \in Waits'
    <3>1. PICK t \in Sponsor : x \in ToSet(waiting'[t])
      BY <2>2 DEF Waits
    <3>2. x \in ToSet(waiting[t])
      BY <3>1, <1>1, <1>2
    <3> QED BY <3>1, <3>2, <2>2 DEF Waits
  <2>3. CASE x \in ToSet(waiting[s])
    BY <2>3 DEF Waits
  <2> QED BY <2>1, <2>2, <2>3
<1> QED BY <1>3

(* The inbox of an actor is emptied.                                       *)
LEMMA InboxLeaves ==
  ASSUME TypeOK, NEW a \in Actor, inbox' = [inbox EXCEPT ![a] = <<>>]
  PROVE  InInbox' \cup ToSet(inbox[a]) = InInbox
<1>1. \A b \in Actor \ {a} : inbox'[b] = inbox[b]
  BY DEF TypeOK
<1>2. ToSet(inbox'[a]) = {}
  BY DEF TypeOK, ToSet
<1>3. ASSUME NEW x PROVE x \in InInbox <=> x \in InInbox' \/ x \in ToSet(inbox[a])
  <2>1. CASE x \in InInbox
    <3>1. PICK b \in Actor : x \in ToSet(inbox[b])
      BY <2>1 DEF InInbox
    <3> QED BY <3>1, <1>1, <2>1 DEF InInbox
  <2>2. CASE x \in InInbox'
    <3>1. PICK b \in Actor : x \in ToSet(inbox'[b])
      BY <2>2 DEF InInbox
    <3>2. x \in ToSet(inbox[b])
      BY <3>1, <1>1, <1>2
    <3> QED BY <3>1, <3>2, <2>2 DEF InInbox
  <2>3. CASE x \in ToSet(inbox[a])
    BY <2>3 DEF InInbox
  <2> QED BY <2>1, <2>2, <2>3
<1> QED BY <1>3

(* An event is put in the inbox of an actor.                               *)
LEMMA InboxAdds ==
  ASSUME TypeOK, NEW a \in Actor, NEW e \in Event, inbox' = [inbox EXCEPT ![a] = Append(@, e)]
  PROVE  InInbox' = InInbox \cup {e}
<1>1. \A b \in Actor \ {a} : inbox'[b] = inbox[b]
  BY DEF TypeOK
<1>2. inbox'[a] = Append(inbox[a], e) /\ inbox[a] \in Seq(Event)
  BY DEF TypeOK
<1>3. ToSet(inbox'[a]) = ToSet(inbox[a]) \cup {e}
  BY <1>2, ElemsAppend
<1>4. ASSUME NEW x PROVE x \in InInbox' <=> x \in InInbox \/ x = e
  <2>1. CASE x \in InInbox'
    <3>1. PICK b \in Actor : x \in ToSet(inbox'[b])
      BY <2>1 DEF InInbox
    <3>2. x \in ToSet(inbox[b]) \/ x = e
      BY <3>1, <1>1, <1>3
    <3> QED BY <3>1, <3>2, <2>1 DEF InInbox
  <2>2. CASE x \in InInbox
    <3>1. PICK b \in Actor : x \in ToSet(inbox[b])
      BY <2>2 DEF InInbox
    <3>2. x \in ToSet(inbox'[b])
      BY <3>1, <1>1, <1>3
    <3> QED BY <3>1, <3>2, <2>2 DEF InInbox
  <2>3. CASE x = e
    BY <2>3, <1>3 DEF InInbox
  <2> QED BY <2>1, <2>2, <2>3
<1> QED BY <1>4

(* A transaction ends: its event is gone but for what else is done with it. *)
LEMMA EndSent ==
  ASSUME TypeOK, OneTransaction, HomeInv, kq # <<>>, EndContinuation
  PROVE  /\ K.ev \in Current /\ Current' = Current \ {K.ev}
         /\ InInbox' \cup ToSet(inbox[K.ev.tgt]) = InInbox
         /\ K.ev \notin ToSet(eq) /\ K.ev \notin InInbox /\ K.ev \notin Waits
         /\ K.ev \notin ToSet(K.out) /\ K.ev \in Event
<1>1. K.ev.tgt \in Actor /\ ToSet(kq) = {K} \cup ToSet(Tail(kq)) /\ K.ev \in Event
  BY TheActor, TheContinuation
<1>2. kq' = Tail(kq) /\ inbox' = [inbox EXCEPT ![K.ev.tgt] = <<>>]
  BY DEF EndContinuation
<1>3. ToSet(kq)' = ToSet(Tail(kq))
  BY <1>2 DEF ToSet
<1>4. \A k \in ToSet(Tail(kq)) : k.ev # K.ev
  BY CurrentAlone
<1>5. K.ev \in Current /\ Current' = Current \ {K.ev}
  BY <1>1, <1>3, <1>4 DEF Current
<1>6. InInbox' \cup ToSet(inbox[K.ev.tgt]) = InInbox
  BY <1>1, <1>2, InboxLeaves
<1>7. K.ev \notin InInbox /\ K.ev \notin Waits
  BY CurrentAlone DEF InInbox, Waits
<1>8. K.ev \notin ToSet(eq) /\ K.ev \notin ToSet(K.out)
  BY CurrentAlone
<1> QED BY <1>1, <1>5, <1>6, <1>7, <1>8
-----------------------------------------------------------------------------
(* The steps                                                               *)

Txns == [a \in {k.ev.tgt : k \in ToSet(kq)} |-> Transaction(a)]

(* The transactions are those of the continuations.                        *)
LEMMA TxnsAre == Txns = Txn(ToSet(kq)) /\ Txns' = Txn(ToSet(kq'))
<1>1. Txns = Txn(ToSet(kq))
  BY DEF Txns, Txn, Transaction
<1>2. Txns' = Txn(ToSet(kq'))
  BY DEF Txns, Txn, Transaction, ToSet
<1> QED BY <1>1, <1>2

(* The transactions when one ends.                                         *)
LEMMA EndTxns ==
  ASSUME TypeOK, OneTransaction, kq # <<>>, kq' = Tail(kq)
  PROVE  /\ K.ev.tgt \in DOMAIN Txns
         /\ Txns[K.ev.tgt] = [ev |-> K.ev, beh |-> K.beh, out |-> ToSet(K.out)]
         /\ Txns' = [c \in DOMAIN Txns \ {K.ev.tgt} |-> Txns[c]]
<1>k. PICK k : k = K
  OBVIOUS
<1>1. PICK T : T = ToSet(kq)
  OBVIOUS
<1>2. PICK R : R = ToSet(Tail(kq))
  OBVIOUS
<1>3. T = R \cup {K} /\ Single(T) /\ \A l \in R : l.ev.tgt # K.ev.tgt
  BY <1>1, <1>2, TheActor, KqSingle
<1>4. Txn(R) = [c \in DOMAIN Txn(T) \ {K.ev.tgt} |-> Txn(T)[c]]
  <2>1. Single(R \cup {k}) /\ \A l \in R : l.ev.tgt # k.ev.tgt
    BY <1>k, <1>3
  <2>2. Txn(R) = [c \in DOMAIN Txn(R \cup {k}) \ {k.ev.tgt} |-> Txn(R \cup {k})[c]]
    BY <2>1, TxnEnds
  <2> QED BY <1>k, <1>3, <2>2
<1>5. /\ K.ev.tgt \in DOMAIN Txn(T)
      /\ Txn(T)[K.ev.tgt] = [ev |-> K.ev, beh |-> K.beh, out |-> ToSet(K.out)]
  BY <1>3, TxnAt
<1>6. Txns = Txn(T) /\ Txns' = Txn(R)
  BY <1>1, <1>2, TxnsAre
<1> QED BY <1>4, <1>5, <1>6

(* The event of a transaction is aborted. *)
LEMMA AbortStep ==
  ASSUME TypeOK, OneTransaction, HomeInv, kq # <<>>, EndContinuation,
         eq' = inbox[K.ev.tgt] \o eq, waiting' = waiting, beh' = beh
  PROVE  Abstract!Abort(K.ev.tgt)
<1>1. K.ev.tgt \in Actor /\ inbox[K.ev.tgt] \in Seq(Event) /\ eq \in Seq(Event)
  BY TheActor DEF TypeOK
<1>2. ToSet(eq') = ToSet(inbox[K.ev.tgt]) \cup ToSet(eq)
  BY <1>1, ElemsConcat
<1>3. Sent' = ToSet(eq') \cup Current' \cup InInbox' \cup Waits'
  BY SentParts
<1>4. Waits' = Waits
  BY DEF Waits
<1>5. Sent' = Sent \ {K.ev}
  BY <1>2, <1>3, <1>4, EndSent, SentParts
<1>6. /\ Txns[K.ev.tgt].ev = K.ev
      /\ Txns' = [c \in DOMAIN Txns \ {K.ev.tgt} |-> Txns[c]]
  BY EndTxns DEF EndContinuation
<1> QED BY <1>5, <1>6 DEF Abstract!Abort, Abstract!End, Txns
(* What is sent are events.                                                *)
LEMMA SentTyped == ASSUME TypeOK PROVE Sent \subseteq Event
<1>1. ToSet(eq) \subseteq Event
  BY ElemsIn DEF TypeOK
<1>2. Current \subseteq Event
  <2>1. \A k \in ToSet(kq) : k \in Cont
    BY ElemsIn DEF TypeOK
  <2> QED BY <2>1 DEF Current, Cont
<1>3. InInbox \subseteq Event
  BY ElemsIn DEF InInbox, TypeOK
<1>4. Waits \subseteq Event
  BY ElemsIn DEF Waits, TypeOK
<1> QED BY <1>1, <1>2, <1>3, <1>4, SentParts

(* The sponsor of a transaction is suspended.                              *)
LEMMA SuspendStep ==
  ASSUME TypeOK, OneTransaction, HomeInv, kq # <<>>, EndContinuation, NEW x \in Seq(Event),
         eq' = (inbox[K.ev.tgt] \o eq) \o x, WaitingEvent(K.ev), beh' = beh
  PROVE  Abstract!Suspend(K.ev.tgt)
<1>1. K.ev.tgt \in Actor /\ inbox[K.ev.tgt] \in Seq(Event) /\ eq \in Seq(Event)
  BY TheActor DEF TypeOK
<1>2. ToSet(eq') = (ToSet(inbox[K.ev.tgt]) \cup ToSet(eq)) \cup ToSet(x) /\ ToSet(x) \subseteq Event
  BY <1>1, ElemsConcat3, ElemsIn
<1>4. Waits' = Waits \cup {K.ev}
  BY TheContinuation, WaitsAdds
<1>5. Sent' = Sent \cup ToSet(x)
  BY <1>2, <1>4, EndSent, SentParts
<1>6. Sent \subseteq Sent' /\ Sent' \subseteq Event
  BY <1>2, <1>5, SentTyped
<1>7. Txns' = [c \in DOMAIN Txns \ {K.ev.tgt} |-> Txns[c]]
  BY EndTxns DEF EndContinuation
<1> QED BY <1>6, <1>7 DEF Abstract!Suspend, Abstract!End, Txns

(* A transaction commits.                                                  *)
LEMMA CommitStep ==
  ASSUME TypeOK, OneTransaction, HomeInv, Commit
  PROVE  Abstract!Commit(K.ev.tgt)
<1>1. /\ kq # <<>> /\ EndContinuation /\ eq' = inbox[K.ev.tgt] \o (eq \o K.out)
      /\ waiting' = waiting /\ beh' = [beh EXCEPT ![K.ev.tgt] = K.beh]
  BY DEF Commit, Running, Executing, sponsorVars
<1>2. inbox[K.ev.tgt] \in Seq(Event) /\ eq \in Seq(Event) /\ K.out \in Seq(Event)
  BY <1>1, TheActor, TheContinuation DEF TypeOK
<1>3. ToSet(eq') = ToSet(inbox[K.ev.tgt]) \cup (ToSet(eq) \cup ToSet(K.out))
  BY <1>1, <1>2, ElemsConcat3
<1>4. Waits' = Waits
  BY <1>1 DEF Waits
<1>5. Sent' = (Sent \ {K.ev}) \cup ToSet(K.out)
  BY <1>1, <1>3, <1>4, EndSent, SentParts
<1>6. /\ Txns[K.ev.tgt] = [ev |-> K.ev, beh |-> K.beh, out |-> ToSet(K.out)]
      /\ Txns' = [c \in DOMAIN Txns \ {K.ev.tgt} |-> Txns[c]]
  BY <1>1, EndTxns DEF EndContinuation
<1>7. /\ Txns[K.ev.tgt].ev = K.ev /\ Txns[K.ev.tgt].beh = K.beh
      /\ Txns[K.ev.tgt].out = ToSet(K.out)
  BY <1>6
<1> QED BY <1>1, <1>5, <1>6, <1>7 DEF Abstract!Commit, Abstract!End, Txns

(* An instruction that leaves the transaction open.                        *)
LEMMA EffectStep ==
  ASSUME TypeOK, OneTransaction, NEW k \in Cont, k.ev = K.ev, k.n = K.n, Continue(k),
         ToSet(K.out) \subseteq ToSet(k.out), ToSet(eq') \cup Waits' = ToSet(eq) \cup Waits
  PROVE  Abstract!Effect(K.ev.tgt)
<1> DEFINE a == K.ev.tgt
<1>1. kq # <<>> /\ inbox' = inbox /\ beh' = beh
  BY DEF Continue, Running, Executing, actorVars
<1>l. PICK l : l = [k EXCEPT !.n = @ + 1]
  OBVIOUS
<1>2. kq' = Append(Tail(kq), l) /\ l.ev = K.ev /\ l.out = k.out /\ l \in Cont
  <2>1. kq' = Append(Tail(kq), l) /\ K.n < Steps
    BY <1>l DEF Continue
  <2>2. k.n + 1 \in 0 .. Steps
    BY <1>1, <2>1, TheContinuation, SchedulerAssumption
  <2>3. l.ev = k.ev /\ l.out = k.out /\ l \in Cont
    BY <1>l, <2>2 DEF Cont
  <2> QED BY <2>1, <2>3
<1>3. PICK R : R = ToSet(Tail(kq))
  OBVIOUS
<1>k. PICK j : j = K
  OBVIOUS
<1>4. ToSet(kq) = R \cup {j} /\ \A m \in R : m.ev.tgt # j.ev.tgt
  BY <1>1, <1>3, <1>k, TheActor
<1>5. ToSet(kq') = R \cup {l}
  <2>1. PICK q : q = Tail(kq)
    OBVIOUS
  <2>2. q \in Seq(Cont)
    BY <1>1, <2>1, TheContinuation
  <2>3. ToSet(Append(q, l)) = ToSet(q) \cup {l}
    BY <1>2, <2>2, ElemsAppend
  <2> QED BY <1>2, <1>3, <2>1, <2>3
<1>6. Single(R \cup {j}) /\ l.ev = j.ev /\ ToSet(j.out) \subseteq ToSet(l.out)
  BY <1>4, <1>2, <1>k, KqSingle
<1>7. PICK t : t = Txns
  OBVIOUS
<1>8. PICK u : u = Txns'
  OBVIOUS
<1>9. t = Txn(R \cup {j}) /\ u = Txn(R \cup {l})
  BY <1>4, <1>5, <1>7, <1>8, TxnsAre
<1>10. GoesFurther(t, u, K.ev.tgt)
  BY <1>4, <1>6, <1>9, <1>k, TxnContinues
<1>11. Current' = Current
  <2>1. \A e : e \in Current' <=> \E m \in ToSet(kq') : e = m.ev
    BY DEF Current, ToSet
  <2>2. \A e : e \in Current <=> \E m \in ToSet(kq) : e = m.ev
    BY DEF Current
  <2>3. \A e : e \in Current <=> e = j.ev \/ \E m \in R : e = m.ev
    BY <2>2, <1>4
  <2>4. \A e : e \in Current' <=> e = j.ev \/ \E m \in R : e = m.ev
    BY <2>1, <1>5, <1>6
  <2> QED BY <2>3, <2>4
<1>12. InInbox' = InInbox
  BY <1>1 DEF InInbox
<1>13. Sent' = Sent
  BY <1>11, <1>12, SentParts
<1> QED BY <1>1, <1>7, <1>8, <1>10, <1>13 DEF GoesFurther, Abstract!Effect, Txns
(***************************************************************************)
(* What a step promises: it is one of atomic transactions, or stutters,    *)
(* and no event of a sponsor that is exhausted is lost.                    *)
(***************************************************************************)
Atomic == Abstract!Next \/ UNCHANGED Abstract!vars
Kept == \A e \in Sent : signal'[e.spn] = "error" => e \in Sent'

(* The actor whose turn it is, is in a transaction.                        *)
LEMMA InTxns == ASSUME TypeOK, kq # <<>> PROVE K.ev.tgt \in DOMAIN Txns
BY TheContinuation DEF Txns

(* The event of the transaction of an actor.                               *)
LEMMA KTxn ==
  ASSUME TypeOK, OneTransaction, kq # <<>>
  PROVE  Txns[K.ev.tgt].ev = K.ev
<1>1. PICK T : T = ToSet(kq)
  OBVIOUS
<1>2. PICK k : k = K
  OBVIOUS
<1>3. k \in T /\ Single(T)
  BY <1>1, <1>2, TheActor, KqSingle
<1>4. Txn(T)[k.ev.tgt] = [ev |-> k.ev, beh |-> k.beh, out |-> ToSet(k.out)]
  BY <1>3, TxnAt
<1>5. Txn(T)[k.ev.tgt].ev = k.ev
  BY <1>4
<1> QED BY <1>1, <1>2, <1>5, TxnsAre

(* Each step of execute_instruction().                                     *)
LEMMA ExecuteStep ==
  ASSUME TypeOK, OneTransaction, HomeInv, Execute
  PROVE  Atomic /\ Kept
<1>e. ASSUME kq # <<>>,
             \/ Abstract!Effect(K.ev.tgt) \/ Abstract!Suspend(K.ev.tgt)
             \/ (Abstract!Commit(K.ev.tgt) \/ Abstract!Abort(K.ev.tgt)) /\ signal'[K.ev.spn] # "error"
      PROVE  Atomic /\ Kept
  <2>t. Txns[K.ev.tgt].ev = K.ev
    BY <1>e, KTxn
  <2>1. PICK a : a = K.ev.tgt
    OBVIOUS
  <2>2. a \in DOMAIN [b \in {k.ev.tgt : k \in ToSet(kq)} |-> Transaction(b)]
    BY <1>e, <2>1, InTxns DEF Txns
  <2>3. CASE Abstract!Effect(K.ev.tgt)
    <3>1. Abstract!Effect(a)
      BY <2>1, <2>3 DEF Abstract!Effect
    <3>2. Kept
      BY <2>3 DEF Kept, Abstract!Effect
    <3> QED BY <2>2, <3>1, <3>2 DEF Atomic, Abstract!Next
  <2>4. CASE Abstract!Commit(K.ev.tgt) /\ signal'[K.ev.spn] # "error"
    <3>1. Abstract!Commit(a)
      BY <2>1, <2>4 DEF Abstract!Commit, Abstract!End
    <3>2. Sent' = (Sent \ {K.ev}) \cup Txns[K.ev.tgt].out
      BY <2>t, <2>4 DEF Abstract!Commit, Txns
    <3>3. Kept
      BY <1>e, <2>4, <3>2 DEF Kept
    <3> QED BY <2>2, <3>1, <3>3 DEF Atomic, Abstract!Next
  <2>5. CASE Abstract!Abort(K.ev.tgt) /\ signal'[K.ev.spn] # "error"
    <3>1. Abstract!Abort(a)
      BY <2>1, <2>5 DEF Abstract!Abort, Abstract!End
    <3>2. Sent' = Sent \ {K.ev}
      BY <2>t, <2>5 DEF Abstract!Abort, Txns
    <3>3. Kept
      BY <1>e, <2>5, <3>2 DEF Kept
    <3> QED BY <2>2, <3>1, <3>3 DEF Atomic, Abstract!Next
  <2>6. CASE Abstract!Suspend(K.ev.tgt)
    <3>1. Abstract!Suspend(a)
      BY <2>1, <2>6 DEF Abstract!Suspend, Abstract!End
    <3>2. Kept
      BY <2>6 DEF Kept, Abstract!Suspend
    <3> QED BY <2>2, <3>1, <3>2 DEF Atomic, Abstract!Next
  <2> QED BY <1>e, <2>3, <2>4, <2>5, <2>6
<1>c. ASSUME kq # <<>> PROVE K \in Cont /\ K.ev \in Event /\ K.out \in Seq(Event) /\ K.ev.spn \in Sponsor
  BY <1>c, TheContinuation
<1>o. waiting \in [Sponsor -> Seq(Event)] /\ \A p \in Peers : p \in Sponsor
  BY DEF TypeOK, Sponsor
<1>s. ASSUME Continue(K), UNCHANGED <<eq, waiting>> PROVE Atomic /\ Kept
  <2>1. kq # <<>>
    BY <1>s DEF Continue, Running, Executing
  <2>2. ToSet(eq') \cup Waits' = ToSet(eq) \cup Waits
    BY <1>s DEF Waits
  <2>3. PICK k : k = K
    OBVIOUS
  <2>4. k \in Cont /\ k.ev = K.ev /\ k.n = K.n /\ Continue(k) /\ ToSet(K.out) \subseteq ToSet(k.out)
    BY <1>c, <1>s, <2>1, <2>3
  <2> QED BY <1>e, <2>1, <2>2, <2>4, EffectStep
<1>1. CASE ExecuteSuspended
  <2>1. /\ kq # <<>> /\ EndContinuation /\ eq' = inbox[K.ev.tgt] \o eq /\ beh' = beh
        /\ WaitingEvent(K.ev) \/ (UNCHANGED waiting /\ signal'[K.ev.spn] # "error")
    BY <1>1 DEF ExecuteSuspended, Executing
  <2>2. CASE UNCHANGED waiting /\ signal'[K.ev.spn] # "error"
    BY <1>e, <2>1, <2>2, AbortStep
  <2>3. CASE WaitingEvent(K.ev)
    <3>1. /\ <<>> \in Seq(Event) /\ K.ev.tgt \in Actor /\ inbox[K.ev.tgt] \in Seq(Event)
          /\ eq \in Seq(Event) /\ inbox[K.ev.tgt] \o eq \in Seq(Event)
      BY <2>1, TheActor, EmptySeq, ConcatProperties DEF TypeOK
    <3>2. eq' = (inbox[K.ev.tgt] \o eq) \o <<>>
      BY <2>1, <3>1, ConcatEmptySeq
    <3> QED BY <1>e, <2>1, <2>3, <3>1, <3>2, SuspendStep
  <2> QED BY <2>1, <2>2, <2>3
<1>2. CASE Exhaust
  <2>1. /\ kq # <<>> /\ EndContinuation /\ WaitingEvent(K.ev) /\ beh' = beh
        /\ eq' = (inbox[K.ev.tgt] \o eq) \o alarm[K.ev.spn]
    BY <1>2 DEF Exhaust, Running, Executing, ReportError
  <2>2. alarm[K.ev.spn] \in Seq(Event)
    BY <1>c, <2>1 DEF TypeOK
  <2> QED BY <1>e, <2>1, <2>2, SuspendStep
<1>3. CASE Abort
  <2>1. /\ kq # <<>> /\ EndContinuation /\ eq' = inbox[K.ev.tgt] \o eq /\ beh' = beh /\ waiting' = waiting
        /\ signal'[K.ev.spn] # "error"
    BY <1>3 DEF Abort, Running, Executing, Suspended, sponsorVars
  <2> QED BY <1>e, <2>1, AbortStep
<1>4. CASE Commit
  <2>1. kq # <<>> /\ signal'[K.ev.spn] # "error"
    BY <1>4 DEF Commit, Running, Executing, Suspended, sponsorVars
  <2> QED BY <1>4, <1>e, <2>1, CommitStep
<1>5. CASE Compute
  BY <1>5, <1>s DEF Compute, sponsorVars
<1>6. ASSUME NEW e \in Event, Send(e) PROVE Atomic /\ Kept
  <2>1. PICK k : k = [K EXCEPT !.out = Append(@, e)]
    OBVIOUS
  <2>2. kq # <<>> /\ Continue(k) /\ UNCHANGED <<eq, waiting>>
    BY <1>6, <2>1 DEF Send, Running, Executing, sponsorVars
  <2>3. Append(K.out, e) \in Seq(Event) /\ ToSet(Append(K.out, e)) = ToSet(K.out) \cup {e}
    BY <1>c, <2>2, ElemsAppend
  <2>4. k \in Cont /\ k.ev = K.ev /\ k.n = K.n /\ k.out = Append(K.out, e)
    BY <1>c, <2>1, <2>2, <2>3 DEF Cont
  <2>5. ToSet(K.out) \subseteq ToSet(k.out)
    BY <2>3, <2>4
  <2>6. ToSet(eq') \cup Waits' = ToSet(eq) \cup Waits
    BY <2>2 DEF Waits
  <2> QED BY <1>e, <2>2, <2>4, <2>5, <2>6, EffectStep
<1>7. ASSUME NEW b \in Beh, Become(b) PROVE Atomic /\ Kept
  <2>1. PICK k : k = [K EXCEPT !.beh = b]
    OBVIOUS
  <2>2. kq # <<>> /\ Continue(k) /\ UNCHANGED <<eq, waiting>>
    BY <1>7, <2>1 DEF Become, Continue, Running, Executing, sponsorVars
  <2>3. k \in Cont /\ k.ev = K.ev /\ k.n = K.n /\ k.out = K.out
    BY <1>c, <2>1, <2>2 DEF Cont
  <2>4. ToSet(K.out) \subseteq ToSet(k.out)
    BY <2>3
  <2>5. ToSet(eq') \cup Waits' = ToSet(eq) \cup Waits
    BY <2>2 DEF Waits
  <2> QED BY <1>e, <2>2, <2>3, <2>4, <2>5, EffectStep
<1>8. ASSUME NEW p \in Peers, Reclaim(p) \/ Stop(p) PROVE Atomic /\ Kept
  BY <1>8, <1>s DEF Reclaim, Stop
<1>9. ASSUME NEW p \in Peers, NEW n \in 1 .. Quota, Grant(p, n) PROVE Atomic /\ Kept
  BY <1>9, <1>s DEF Grant
<1>10. ASSUME NEW p \in Peers, NEW e \in Event, Start(p, e) PROVE Atomic /\ Kept
  <2>1. /\ Continue(K) /\ kq # <<>> /\ eq' = eq \o waiting[p]
        /\ waiting' = [waiting EXCEPT ![p] = <<>>]
    BY <1>10 DEF Start, Continue, Running, Executing
  <2>2. ToSet(eq') = ToSet(eq) \cup ToSet(waiting[p])
    BY <2>1, <1>o, ElemsConcat DEF TypeOK
  <2>3. Waits' \cup ToSet(waiting[p]) = Waits
    BY <2>1, <1>o, WaitsLeave
  <2>4. PICK k : k = K
    OBVIOUS
  <2>5. k \in Cont /\ k.ev = K.ev /\ k.n = K.n /\ Continue(k) /\ ToSet(K.out) \subseteq ToSet(k.out)
    BY <1>c, <2>1, <2>4
  <2>6. ToSet(eq') \cup Waits' = ToSet(eq) \cup Waits
    BY <2>2, <2>3
  <2> QED BY <1>e, <2>1, <2>5, <2>6, EffectStep
<1>11. CASE ExecuteNothing
  <2>1. UNCHANGED <<eq, kq, beh, inbox, waiting>>
    BY <1>11 DEF ExecuteNothing, actorVars, sponsorVars
  <2>2. Sent' = Sent /\ Txns' = Txns
    BY <2>1 DEF Sent, Txns, Transaction, ToSet
  <2> QED BY <2>1, <2>2 DEF Atomic, Kept, Abstract!vars, Txns
<1> QED BY <1>1, <1>2, <1>3, <1>4, <1>5, <1>6, <1>7, <1>8, <1>9, <1>10, <1>11 DEF Execute
(* The event that is dispatched leaves the event queue.                    *)
LEMMA QueueSent ==
  ASSUME TypeOK, OneTransaction, HomeInv, eq # <<>>
  PROVE  /\ ToSet(eq) = {E} \cup ToSet(Tail(eq)) /\ E \in Event /\ E.spn \in Sponsor
         /\ Tail(eq) \in Seq(Event) /\ E \in Sent
         /\ E \notin ToSet(Tail(eq)) /\ E \notin Current /\ E \notin InInbox /\ E \notin Waits
<1>1. /\ ToSet(eq) = {E} \cup ToSet(Tail(eq)) /\ E \in Event /\ E.spn \in Sponsor
      /\ Tail(eq) \in Seq(Event)
  BY TheEvent
<1>2. E \notin ToSet(Tail(eq))
  BY HeadAlone
<1>3. E \notin Current
  BY HeadAlone DEF Current
<1>4. E \notin InInbox
  BY HeadAlone DEF InInbox
<1>5. E \notin Waits
  BY HeadAlone DEF Waits
<1> QED BY <1>1, <1>2, <1>3, <1>4, <1>5, SentParts

(* The events that are processed.                                          *)
LEMMA StartedAre == ASSUME OneTransaction PROVE Abstract!Started = Current
<1>1. PICK T : T = ToSet(kq)
  OBVIOUS
<1>2. Single(T)
  BY <1>1, KqSingle
<1>3. DOMAIN Txn(T) = {k.ev.tgt : k \in T} /\ \A k \in T : Txn(T)[k.ev.tgt].ev = k.ev
  <2>1. \A k \in T : Txn(T)[k.ev.tgt] = [ev |-> k.ev, beh |-> k.beh, out |-> ToSet(k.out)]
    BY <1>2, TxnAt
  <2>2. DOMAIN Txn(T) = {k.ev.tgt : k \in T}
    BY <1>2, TxnAt
  <2>3. ASSUME NEW k \in T PROVE Txn(T)[k.ev.tgt].ev = k.ev
    <3>1. Txn(T)[k.ev.tgt] = [ev |-> k.ev, beh |-> k.beh, out |-> ToSet(k.out)]
      BY <2>1
    <3> QED BY <3>1
  <2> QED BY <2>2, <2>3
<1>4. {Txn(T)[a].ev : a \in DOMAIN Txn(T)} = {k.ev : k \in T}
  BY <1>3
<1>5. Txns = Txn(T)
  BY <1>1, TxnsAre
<1>6. {Txns[a].ev : a \in DOMAIN Txns} = Current
  BY <1>1, <1>4, <1>5 DEF Current
<1> QED BY <1>6 DEF Abstract!Started, Txns

(* The transactions are left alone.                                        *)
LEMMA Unmoved ==
  ASSUME UNCHANGED kq
  PROVE  Txns' = Txns /\ Current' = Current
<1>1. Txns' = Txns
  BY TxnsAre
<1>2. Current' = Current
  BY DEF Current, ToSet
<1> QED BY <1>1, <1>2

(* A step that moves an event from one queue to another.                   *)
LEMMA Stutters ==
  ASSUME UNCHANGED <<kq, beh>>, Sent' = Sent
  PROVE  Atomic /\ Kept
<1>1. Txns' = Txns
  BY Unmoved
<1> QED BY <1>1 DEF Atomic, Kept, Abstract!vars, Txns

(* A step that sends events.                                               *)
LEMMA Arrives ==
  ASSUME UNCHANGED <<kq, beh>>, Sent \subseteq Sent', Sent' \subseteq Event
  PROVE  Atomic /\ Kept
<1>1. Txns' = Txns
  BY Unmoved
<1>2. Abstract!Arrive
  BY <1>1 DEF Abstract!Arrive, Txns
<1> QED BY <1>2 DEF Atomic, Kept, Abstract!Next

(* An actor begins to process the event.                                   *)
LEMMA BeginStep ==
  ASSUME TypeOK, OneTransaction, HomeInv, ProcessActor
  PROVE  Abstract!Begin(E)
<1>k. PICK k : k = [ev |-> E, beh |-> beh[E.tgt], out |-> <<>>, n |-> 0]
  OBVIOUS
<1>1. /\ eq # <<>> /\ E.tgt \notin busy /\ E.tgt \in Actor /\ kq' = Append(kq, k) /\ eq' = Tail(eq)
      /\ UNCHANGED <<beh, inbox, waiting>>
  BY <1>k DEF ProcessActor, Charge, Processing, Dispatching
<1>2. k \in Cont /\ k.ev = E /\ k.beh = beh[E.tgt] /\ k.out = <<>>
  <2>1. E \in Event /\ beh[E.tgt] \in Beh /\ <<>> \in Seq(Event) /\ 0 \in 0 .. Steps
    BY <1>1, TheEvent, EmptySeq, SchedulerAssumption DEF TypeOK
  <2> QED BY <1>k, <2>1 DEF Cont
<1>3. PICK T : T = ToSet(kq)
  OBVIOUS
<1>4. ToSet(kq') = T \cup {k} /\ kq \in Seq(Cont)
  BY <1>1, <1>2, <1>3, ElemsAppend DEF TypeOK
<1>5. Single(T) /\ \A l \in T : l.ev.tgt # k.ev.tgt
  BY <1>1, <1>2, <1>3, KqSingle DEF OneTransaction
<1>6. PICK b : b = [ev |-> k.ev, beh |-> k.beh, out |-> ToSet(k.out)]
  OBVIOUS
<1>7. Starts(Txn(T), Txn(T \cup {k}), k.ev.tgt, b)
  BY <1>5, <1>6, TxnBegins
<1>8. ToSet(k.out) = {}
  BY <1>2 DEF ToSet
<1>9. b = [ev |-> E, beh |-> beh[E.tgt], out |-> {}]
  BY <1>2, <1>6, <1>8
<1>10. Txns = Txn(T) /\ Txns' = Txn(T \cup {k})
  BY <1>3, <1>4, TxnsAre
<1>11. Txns' = [c \in DOMAIN Txns \cup {E.tgt} |->
                  IF c = E.tgt THEN [ev |-> E, beh |-> beh[c], out |-> {}] ELSE Txns[c]]
  BY <1>2, <1>7, <1>9, <1>10 DEF Starts
<1>12. E.tgt \notin DOMAIN Txns
  <2>1. DOMAIN Txns = {l.ev.tgt : l \in T}
    BY <1>3 DEF Txns
  <2> QED BY <2>1, <1>2, <1>5
<1>13. Current' = Current \cup {E}
  <2>1. Current' = {l.ev : l \in T \cup {k}}
    BY <1>4 DEF Current, ToSet
  <2> QED BY <2>1, <1>2, <1>3 DEF Current
<1>14. InInbox' = InInbox /\ Waits' = Waits
  BY <1>1 DEF InInbox, Waits
<1>15. Sent' = Sent
  BY <1>1, <1>13, <1>14, QueueSent, SentParts
<1>16. E \in Sent \ Abstract!Started
  BY <1>1, QueueSent, StartedAre
<1> QED BY <1>1, <1>11, <1>12, <1>15, <1>16 DEF Abstract!Begin, Txns

(* Each step of dispatch_event().                                          *)
LEMMA DispatchStep ==
  ASSUME TypeOK, OneTransaction, HomeInv, Dispatch
  PROVE  Atomic /\ Kept
<1>i. ASSUME UNCHANGED inbox PROVE InInbox' = InInbox
  BY <1>i DEF InInbox
<1>w. ASSUME UNCHANGED waiting PROVE Waits' = Waits
  BY <1>w DEF Waits
<1>f. ASSUME eq # <<>>, ProcessFailed, UNCHANGED <<kq, beh, inbox>> PROVE Atomic /\ Kept
  <2>1. WaitingEvent(E) /\ eq' = Tail(eq) \o alarm[E.spn]
    BY <1>f DEF ProcessFailed, ReportError
  <2>2. E \in Event /\ alarm[E.spn] \in Seq(Event) /\ Tail(eq) \in Seq(Event)
    BY <1>f, QueueSent DEF TypeOK
  <2>3. ToSet(eq') = ToSet(Tail(eq)) \cup ToSet(alarm[E.spn])
    BY <2>1, <2>2, ElemsConcat
  <2>a. ToSet(alarm[E.spn]) \subseteq Event
    BY <2>2, ElemsIn
  <2>4. Waits' = Waits \cup {E}
    BY <2>1, <2>2, WaitsAdds
  <2>5. Sent' = Sent \cup ToSet(alarm[E.spn])
    BY <2>3, <2>4, <1>f, <1>i, Unmoved, QueueSent, SentParts
  <2>6. Sent \subseteq Sent' /\ Sent' \subseteq Event
    BY <2>a, <2>5, SentTyped
  <2> QED BY <2>6, <1>f, Arrives
<1>1. CASE DispatchNothing
  <2>1. UNCHANGED <<eq, kq, beh, inbox, waiting>>
    BY <1>1 DEF DispatchNothing, actorVars, sponsorVars
  <2>2. Sent' = Sent
    BY <2>1 DEF Sent, ToSet
  <2> QED BY <2>1, <2>2, Stutters
<1>2. CASE Defer
  <2>1. /\ eq # <<>> /\ eq' = Tail(eq) /\ UNCHANGED <<kq, beh, inbox>>
        /\ WaitingEvent(E) \/ (UNCHANGED waiting /\ signal'[E.spn] # "error")
    BY <1>2 DEF Defer, Dispatching, actorVars
  <2>2. CASE WaitingEvent(E)
    <3>1. Waits' = Waits \cup {E}
      BY <2>1, <2>2, QueueSent, WaitsAdds
    <3>2. Sent' = Sent
      BY <3>1, <2>1, <1>i, Unmoved, QueueSent, SentParts
    <3> QED BY <2>1, <3>2, Stutters
  <2>3. CASE UNCHANGED waiting /\ signal'[E.spn] # "error"
    <3>1. Sent' = Sent \ {E}
      BY <2>1, <2>3, <1>i, <1>w, Unmoved, QueueSent, SentParts
    <3>2. E \in Sent \ Abstract!Started /\ E \in Event
      BY <2>1, QueueSent, StartedAre
    <3>3. PICK e \in Event : e = E
      BY <3>2
    <3>4. Txns' = Txns
      BY <2>1, Unmoved
    <3>5. Abstract!Discard(e)
      BY <2>1, <3>1, <3>2, <3>3, <3>4 DEF Abstract!Discard, Txns
    <3>6. Kept
      BY <2>3, <3>1 DEF Kept
    <3> QED BY <3>5, <3>6 DEF Atomic, Abstract!Next
  <2> QED BY <2>1, <2>2, <2>3
<1>3. CASE InboxEvent
  <2>1. /\ eq # <<>> /\ eq' = Tail(eq) /\ E.tgt \in Actor /\ UNCHANGED <<kq, beh, waiting>>
        /\ inbox' = [inbox EXCEPT ![E.tgt] = Append(@, E)]
    BY <1>3 DEF InboxEvent, Dispatching, sponsorVars, TypeOK
  <2>2. InInbox' = InInbox \cup {E}
    BY <2>1, QueueSent, InboxAdds
  <2>3. Sent' = Sent
    BY <2>1, <2>2, <1>w, Unmoved, QueueSent, SentParts
  <2> QED BY <2>1, <2>3, Stutters
<1>4. CASE ProcessLimit
  BY <1>4, <1>f DEF ProcessLimit, Processing, Dispatching, actorVars
<1>5. CASE ProcessActor
  <2>1. E \in Event /\ Abstract!Begin(E)
    BY <1>5, BeginStep, TheEvent DEF ProcessActor, Charge, Processing, Dispatching
  <2>2. PICK e \in Event : e = E
    BY <2>1
  <2>3. Abstract!Begin(e)
    BY <2>1, <2>2 DEF Abstract!Begin
  <2>4. Sent' = Sent
    BY <2>1 DEF Abstract!Begin
  <2>5. Kept
    BY <2>4 DEF Kept
  <2> QED BY <2>3, <2>5 DEF Atomic, Abstract!Next
<1>6. CASE ProcessNoMem
  BY <1>6, <1>f DEF ProcessNoMem, Charge, Processing, Dispatching
<1>7. ASSUME NEW r \in Seq(Event), ProcessDevice(r) PROVE Atomic /\ Kept
  <2>1. /\ eq # <<>> /\ eq' = Tail(eq) \o r /\ E.tgt \in Device /\ ToSet(r) \subseteq Event \ Live
        /\ UNCHANGED <<kq, beh, inbox, waiting>> /\ signal'[E.spn] # "error"
    BY <1>7 DEF ProcessDevice, Charge, Processing, Dispatching, Suspended, actorVars
  <2>2. ToSet(eq') = ToSet(Tail(eq)) \cup ToSet(r)
    <3>1. Tail(eq) \in Seq(Event)
      BY <2>1, QueueSent
    <3>2. ToSet(Tail(eq) \o r) = ToSet(Tail(eq)) \cup ToSet(r)
      BY <3>1, ElemsConcat
    <3> QED BY <2>1, <3>2
  <2>3. E \notin ToSet(r)
    BY <2>1, QueueSent DEF Live
  <2>4. Sent' = (Sent \ {E}) \cup ToSet(r)
    BY <2>1, <2>2, <1>i, <1>w, Unmoved, QueueSent, SentParts
  <2>5. Sent' \subseteq Event /\ E \in Sent \ Sent' /\ Sent \ {E} \subseteq Sent' /\ E \in Event
    BY <2>1, <2>3, <2>4, QueueSent, SentTyped
  <2>6. PICK e \in Event : e = E
    BY <2>5
  <2>7. E.tgt \notin Actor
    BY <2>1, SchedulerAssumption
  <2>8. Txns' = Txns
    BY <2>1, Unmoved
  <2>9. Abstract!Handle(e)
    BY <2>1, <2>5, <2>6, <2>7, <2>8 DEF Abstract!Handle, Txns
  <2>10. Kept
    BY <2>1, <2>4 DEF Kept
  <2> QED BY <2>9, <2>10 DEF Atomic, Abstract!Next
<1>8. ASSUME NEW error \in DeviceError, DeviceFails(error) PROVE Atomic /\ Kept
  <2>1. eq # <<>> /\ UNCHANGED <<kq, beh, inbox>>
    BY <1>8 DEF DeviceFails, Charge, Processing, Dispatching, actorVars
  <2>2. CASE ProcessFailed
    BY <2>1, <2>2, <1>f
  <2>3. CASE WaitingEvent(E) /\ eq' = Tail(eq)
    <3>1. Waits' = Waits \cup {E}
      BY <2>1, <2>3, QueueSent, WaitsAdds
    <3>2. Sent' = Sent
      BY <3>1, <2>1, <2>3, <1>i, Unmoved, QueueSent, SentParts
    <3> QED BY <2>1, <3>2, Stutters
  <2> QED BY <1>8, <2>2, <2>3 DEF DeviceFails
<1>9. <<>> \in Seq(Event) /\ \A e \in Event : <<e>> \in Seq(Event)
  BY EmptySeq
<1> QED BY <1>1, <1>2, <1>3, <1>4, <1>5, <1>6, <1>7, <1>8, <1>9 DEF Dispatch

(* Each step of the host.                                                  *)
LEMMA HostStep ==
  ASSUME TypeOK, OneTransaction, Host \/ Idle \/ UNCHANGED vars
  PROVE  Atomic /\ Kept
<1>1. CASE RunLoop
  <2>1. /\ eq' = eq \o waiting[Root] /\ waiting' = [waiting EXCEPT ![Root] = <<>>]
        /\ UNCHANGED <<kq, beh, inbox>> /\ Root \in Sponsor
    BY <1>1 DEF RunLoop, actorVars, Sponsor
  <2>2. ToSet(eq') = ToSet(eq) \cup ToSet(waiting[Root])
    BY <2>1, ElemsConcat DEF TypeOK
  <2>3. Waits' \cup ToSet(waiting[Root]) = Waits
    BY <2>1, WaitsLeave
  <2>4. InInbox' = InInbox
    BY <2>1 DEF InInbox
  <2>5. Sent' = Sent
    BY <2>1, <2>2, <2>3, <2>4, Unmoved, SentParts
  <2> QED BY <2>1, <2>5, Stutters
<1>2. CASE Idle \/ Refill \/ UNCHANGED vars
  <2>1. UNCHANGED <<eq, kq, beh, inbox, waiting>>
    BY <1>2 DEF Idle, Refill, vars, actorVars, sponsorVars
  <2>2. Sent' = Sent
    BY <2>1 DEF Sent, ToSet
  <2> QED BY <2>1, <2>2, Stutters
<1>3. ASSUME NEW e \in Event, HostEvent(e) PROVE Atomic /\ Kept
  <2>1. eq' = Append(eq, e) /\ UNCHANGED <<kq, beh, inbox, waiting>>
    BY <1>3 DEF HostEvent, actorVars, sponsorVars
  <2>2. ToSet(eq') = ToSet(eq) \cup {e}
    BY <2>1, ElemsAppend DEF TypeOK
  <2>3. InInbox' = InInbox /\ Waits' = Waits
    BY <2>1 DEF InInbox, Waits
  <2>4. Sent' = Sent \cup {e}
    BY <2>1, <2>2, <2>3, Unmoved, SentParts
  <2>5. Sent \subseteq Sent' /\ Sent' \subseteq Event
    BY <2>4, SentTyped
  <2> QED BY <2>1, <2>5, Arrives
<1> QED BY <1>1, <1>2, <1>3 DEF Host

(* Every step is atomic and loses no event of an exhausted sponsor.        *)
LEMMA StepKept == ASSUME TypeOK, OneTransaction, HomeInv, [Next]_vars PROVE Atomic /\ Kept
BY ExecuteStep, DispatchStep, HostStep DEF Next

(***************************************************************************)
(* The scheduler implements atomic actor transactions.                     *)
(***************************************************************************)
THEOREM TransactionsAtomic == Spec => Transactions
<1>1. Init => Abstract!Init
  <2> SUFFICES ASSUME Init PROVE Abstract!Init
    OBVIOUS
  <2>1. /\ eq = <<>> /\ kq = <<>> /\ beh \in [Actor -> Beh]
        /\ inbox = [a \in Actor |-> <<>>] /\ waiting = [s \in Sponsor |-> <<>>]
    BY DEF Init
  <2>2. ToSet(<<>>) = {}
    BY DEF ToSet
  <2>3. Sent = {}
    BY <2>1, <2>2 DEF Sent
  <2>4. {k.ev.tgt : k \in ToSet(kq)} = {}
    BY <2>1, <2>2
  <2>5. Txns = [a \in {} |-> a]
    BY <2>4 DEF Txns
  <2> QED BY <2>1, <2>3, <2>5 DEF Abstract!Init, Txns
<1>2. Init => TypeOK /\ OneTransaction /\ HomeInv
  BY InitKeeps, InitHomes
<1>3. TypeOK /\ OneTransaction /\ HomeInv /\ [Next]_vars => (TypeOK /\ OneTransaction /\ HomeInv)'
  BY NextKeeps, NextHomes
<1>4. TypeOK /\ OneTransaction /\ HomeInv /\ [Next]_vars => [Abstract!Next]_(Abstract!vars)
  BY StepKept DEF Atomic
<1> QED BY <1>1, <1>2, <1>3, <1>4, PTL DEF Spec, Transactions, Abstract!Spec

(***************************************************************************)
(* No event of a sponsor that is exhausted, or that a step exhausts, is    *)
(* lost.                                                                   *)
(***************************************************************************)
THEOREM NothingForgotten == Spec => SuspendedKept
<1>1. Init => TypeOK /\ OneTransaction /\ HomeInv
  BY InitKeeps, InitHomes
<1>2. TypeOK /\ OneTransaction /\ HomeInv /\ [Next]_vars => (TypeOK /\ OneTransaction /\ HomeInv)'
  BY NextKeeps, NextHomes
<1>3. TypeOK /\ OneTransaction /\ HomeInv /\ [Next]_vars
        => [\A e \in Sent : signal'[e.spn] = "error" => e \in Sent']_vars
  BY StepKept DEF Kept
<1> QED BY <1>1, <1>2, <1>3, PTL DEF Spec, SuspendedKept

-----------------------------------------------------------------------------
(* The quotas *)

(* TotalEvents, of any function.                                           *)
Total(f) == FoldFunction(+, 0, f)

(* The sum of a function over the subsets of its domain, as a fold makes   *)
(* it: the element taken first depends on nothing but the set.             *)
First(s) == CHOOSE x \in s : TRUE
Adds(g, f, D) == \A s \in D : g[s] = IF s = {} THEN 0 ELSE f[First(s)] + g[s \ {First(s)}]
UpTo(S, n) == {s \in SUBSET S : Cardinality(s) <= n}

(* The element that a fold takes first leaves a smaller set.               *)
LEMMA Without ==
  ASSUME NEW S, IsFiniteSet(S), NEW s \in SUBSET S
  PROVE  /\ IsFiniteSet(s) /\ Cardinality(s) \in Nat /\ (Cardinality(s) = 0 <=> s = {})
         /\ s # {} => First(s) \in s /\ s \ {First(s)} \in SUBSET S
                      /\ Cardinality(s \ {First(s)}) = Cardinality(s) - 1
<1>1. IsFiniteSet(s) /\ Cardinality(s) \in Nat /\ (Cardinality(s) = 0 <=> s = {})
  BY FS_Subset, FS_CardinalityType, FS_EmptySet
<1>2. ASSUME s # {} PROVE First(s) \in s
  BY <1>2 DEF First
<1>3. ASSUME s # {} PROVE Cardinality(s \ {First(s)}) = Cardinality(s) - 1
  BY <1>1, <1>2, <1>3, FS_RemoveElement
<1> QED BY <1>1, <1>2, <1>3

(* There are sums over all subsets, built up from the smaller ones.        *)
LEMMA SumsExist ==
  ASSUME NEW S, IsFiniteSet(S), NEW f \in [S -> Nat]
  PROVE  \E g \in [SUBSET S -> Nat] : Adds(g, f, SUBSET S)
<1> DEFINE Made(n) == \E g \in [UpTo(S, n) -> Nat] : Adds(g, f, UpTo(S, n))
           T == {n \in Nat : ~ Made(n)}
<1>1. Made(0)
  <2> DEFINE g == [s \in UpTo(S, 0) |-> 0]
  <2>1. ASSUME NEW s \in UpTo(S, 0) PROVE s = {}
    <3>1. s \in SUBSET S /\ Cardinality(s) <= 0
      BY DEF UpTo
    <3>2. Cardinality(s) \in Nat /\ (Cardinality(s) = 0 => s = {})
      BY <3>1, Without
    <3> QED BY <3>1, <3>2
  <2>2. Adds(g, f, UpTo(S, 0))
    BY <2>1 DEF Adds
  <2> QED BY <2>2
<1>2. ASSUME NEW n \in Nat, n # 0, Made(n - 1) PROVE Made(n)
  <2>1. PICK g \in [UpTo(S, n - 1) -> Nat] : Adds(g, f, UpTo(S, n - 1))
    BY <1>2
  <2> DEFINE h == [s \in UpTo(S, n) |-> IF s = {} THEN 0 ELSE f[First(s)] + g[s \ {First(s)}]]
  <2>2. ASSUME NEW s \in UpTo(S, n), s # {}
        PROVE  /\ First(s) \in S
               /\ s \ {First(s)} \in UpTo(S, n - 1) /\ s \ {First(s)} \in UpTo(S, n)
    <3>1. s \in SUBSET S /\ Cardinality(s) <= n
      BY DEF UpTo
    <3>2. /\ Cardinality(s) \in Nat /\ First(s) \in s /\ s \ {First(s)} \in SUBSET S
          /\ Cardinality(s \ {First(s)}) = Cardinality(s) - 1
      BY <2>2, <3>1, Without
    <3>3. Cardinality(s \ {First(s)}) <= n - 1 /\ Cardinality(s \ {First(s)}) <= n
      BY <1>2, <3>1, <3>2
    <3> QED BY <3>1, <3>2, <3>3 DEF UpTo
  <2>3. \A s \in UpTo(S, n - 1) : s \in UpTo(S, n) /\ h[s] = g[s]
    <3>1. ASSUME NEW s \in UpTo(S, n - 1) PROVE s \in UpTo(S, n)
      <4>1. s \in SUBSET S /\ Cardinality(s) <= n - 1
        BY DEF UpTo
      <4>2. Cardinality(s) \in Nat
        BY <4>1, Without
      <4>3. Cardinality(s) <= n
        BY <1>2, <4>1, <4>2
      <4> QED BY <4>1, <4>3 DEF UpTo
    <3> QED BY <2>1, <3>1 DEF Adds
  <2>4. Adds(h, f, UpTo(S, n))
    BY <2>2, <2>3 DEF Adds
  <2>5. h \in [UpTo(S, n) -> Nat]
    <3>1. ASSUME NEW s \in UpTo(S, n), s # {} PROVE f[First(s)] + g[s \ {First(s)}] \in Nat
      BY <2>1, <2>2, <3>1
    <3> QED BY <3>1
  <2> HIDE DEF h
  <2> QED BY <2>4, <2>5
<1> HIDE DEF Made
<1>3. T = {}
  <2> SUFFICES ASSUME T # {} PROVE FALSE
    OBVIOUS
  <2>1. PICK n \in T : \A m \in T : n <= m
    BY Least
  <2>2. n # 0 /\ n \in Nat /\ n - 1 \in Nat /\ n - 1 \notin T
    BY <1>1, <2>1
  <2> QED BY <1>2, <2>1, <2>2
<1>4. Cardinality(S) \in Nat /\ UpTo(S, Cardinality(S)) = SUBSET S
  <2>1. \A s \in SUBSET S : Cardinality(s) <= Cardinality(S)
    BY FS_Subset
  <2> QED BY <2>1, FS_CardinalityType DEF UpTo
<1>5. Made(Cardinality(S))
  BY <1>3, <1>4
<1> QED BY <1>4, <1>5 DEF Made

(* What FoldFunction returns for + is the sum over the whole domain.       *)
LEMMA TotalAdds ==
  ASSUME NEW S, IsFiniteSet(S), NEW f \in [S -> Nat]
  PROVE  \E g \in [SUBSET S -> Nat] : Adds(g, f, SUBSET S) /\ Total(f) = g[S]
<1> DEFINE Is(g) == g = [s \in SUBSET S |-> IF s = {} THEN 0 ELSE f[First(s)] + g[s \ {First(s)}]]
           t == CHOOSE g : Is(g)
<1>1. DOMAIN f = S
  OBVIOUS
<1>2. Total(f) = t[S]
  BY <1>1 DEF Total, FoldFunction, FoldFunctionOnSet, MapThenFoldSet, First
<1>3. PICK g \in [SUBSET S -> Nat] : Adds(g, f, SUBSET S)
  BY SumsExist
<1>4. Is(g)
  BY <1>3 DEF Adds
<1>5. Is(t)
  BY <1>4
<1>6. DOMAIN t = SUBSET S /\ Adds(t, f, SUBSET S)
  BY <1>5 DEF Adds
<1> HIDE DEF t, Is
<1>7. \A s \in SUBSET S : t[s] = g[s]
  <2> DEFINE T == {n \in Nat : \E s \in SUBSET S : Cardinality(s) = n /\ t[s] # g[s]}
  <2>1. T = {}
    <3> SUFFICES ASSUME T # {} PROVE FALSE
      OBVIOUS
    <3>1. PICK n \in T : \A m \in T : n <= m
      BY Least
    <3>2. PICK s \in SUBSET S : Cardinality(s) = n /\ t[s] # g[s]
      BY <3>1
    <3>3. CASE s = {}
      BY <1>3, <1>6, <3>2, <3>3 DEF Adds
    <3>4. CASE s # {}
      <4>0. PICK u : u = s \ {First(s)}
        OBVIOUS
      <4>1. u \in SUBSET S /\ Cardinality(u) = n - 1 /\ n - 1 \in Nat
        <5>1. u \in SUBSET S /\ Cardinality(u) = Cardinality(s) - 1
          BY <3>4, <4>0, Without
        <5>2. Cardinality(u) \in Nat
          BY <5>1, Without
        <5> QED BY <3>2, <5>1, <5>2
      <4>2. t[u] = g[u]
        BY <3>1, <4>1
      <4> QED BY <1>3, <1>6, <3>2, <3>4, <4>0, <4>2 DEF Adds
    <3> QED BY <3>3, <3>4
  <2> QED BY <2>1, Without
<1>8. S \in SUBSET S
  OBVIOUS
<1> QED BY <1>2, <1>3, <1>7, <1>8

(* Changing one value changes the sum by as much.                          *)
LEMMA TotalChanges ==
  ASSUME NEW S, IsFiniteSet(S), NEW f \in [S -> Nat], NEW p \in S, NEW v \in Nat
  PROVE  /\ Total([f EXCEPT ![p] = v]) \in Nat
         /\ Total([f EXCEPT ![p] = v]) + f[p] = Total(f) + v
<1>h. PICK h : h = [f EXCEPT ![p] = v]
  OBVIOUS
<1>1. h \in [S -> Nat] /\ h[p] = v /\ \A x \in S : x # p => h[x] = f[x]
  BY <1>h
<1>2. PICK a \in [SUBSET S -> Nat] : Adds(a, f, SUBSET S) /\ Total(f) = a[S]
  BY TotalAdds
<1>3. PICK b \in [SUBSET S -> Nat] : Adds(b, h, SUBSET S) /\ Total(h) = b[S]
  BY <1>1, TotalAdds
<1> DEFINE Right(s) == b[s] + (IF p \in s THEN f[p] ELSE 0) = a[s] + (IF p \in s THEN v ELSE 0)
<1>4. \A s \in SUBSET S : Right(s)
  <2> DEFINE T == {n \in Nat : \E s \in SUBSET S : Cardinality(s) = n /\ ~ Right(s)}
  <2>1. T = {}
    <3> SUFFICES ASSUME T # {} PROVE FALSE
      OBVIOUS
    <3>1. PICK n \in T : \A m \in T : n <= m
      BY Least
    <3>2. PICK s \in SUBSET S : Cardinality(s) = n /\ ~ Right(s)
      BY <3>1
    <3>3. CASE s = {}
      <4>1. a[s] = 0 /\ b[s] = 0
        BY <1>2, <1>3, <3>3 DEF Adds
      <4> QED BY <3>2, <3>3, <4>1
    <3>4. CASE s # {}
      <4>1. PICK x : x = First(s)
        OBVIOUS
      <4>2. PICK u : u = s \ {x}
        OBVIOUS
      <4>3. u \in SUBSET S /\ Cardinality(u) = n - 1 /\ n - 1 \in Nat /\ x \in s /\ x \in S
        <5>1. x \in s /\ u \in SUBSET S /\ Cardinality(u) = Cardinality(s) - 1
          BY <3>4, <4>1, <4>2, Without
        <5>2. Cardinality(u) \in Nat
          BY <5>1, Without
        <5> QED BY <3>2, <5>1, <5>2
      <4>4. Right(u)
        BY <3>1, <4>3
      <4>5. a[s] = f[x] + a[u] /\ b[s] = h[x] + b[u]
        BY <1>2, <1>3, <3>4, <4>1, <4>2 DEF Adds
      <4>6. /\ a[s] \in Nat /\ b[s] \in Nat /\ a[u] \in Nat /\ b[u] \in Nat /\ f[x] \in Nat /\ h[x] \in Nat
            /\ f[p] \in Nat
        BY <1>1, <1>2, <1>3, <4>3
      <4>7. CASE x = p
        <5>1. p \in s /\ p \notin u /\ h[x] = v
          BY <1>1, <4>2, <4>3, <4>7
        <5> QED BY <3>2, <4>4, <4>5, <4>6, <4>7, <5>1
      <4>8. CASE x # p
        <5>1. (p \in s <=> p \in u) /\ h[x] = f[x]
          BY <1>1, <4>2, <4>3, <4>8
        <5> QED BY <3>2, <4>4, <4>5, <4>6, <5>1
      <4> QED BY <4>7, <4>8
    <3> QED BY <3>3, <3>4
  <2> QED BY <2>1, Without
<1>5. a[S] \in Nat /\ b[S] \in Nat /\ Right(S)
  BY <1>2, <1>3, <1>4
<1> QED BY <1>h, <1>2, <1>3, <1>5

(* What each action does to the quotas.                                    *)
Granted ==
  \E s, p \in Sponsor, n \in Nat :
    /\ n < events[s]
    /\ events' = [[events EXCEPT ![s] = @ - n] EXCEPT ![p] = @ + n]
Reclaimed ==
  \E s, p \in Sponsor :
    events' = [[events EXCEPT ![s] = @ + events[p]] EXCEPT ![p] = 0]
Charged ==
  \E s \in Sponsor : events[s] > 0 /\ events' = [events EXCEPT ![s] = @ - 1]

(* Outside the host, a step grants, reclaims or uses quota, or leaves it.  *)
LEMMA QuotaSteps ==
  ASSUME TypeOK, [Next]_vars, turn # "host"
  PROVE  events' = events \/ Granted \/ Reclaimed \/ Charged
<1>1. CASE UNCHANGED vars
  BY <1>1 DEF vars, sponsorVars
<1>2. CASE Host
  BY <1>2 DEF Host, RunLoop, Refill, HostEvent
<1>3. CASE Idle
  BY <1>3 DEF Idle
<1>4. CASE Execute
  <2>1. ASSUME Running PROVE K.ev.spn \in Sponsor
    BY <2>1, TheContinuation DEF Running, Executing
  <2>2. ASSUME NEW p \in Peers, NEW n \in 1 .. Quota, Grant(p, n) PROVE Granted
    <3>1. K.ev.spn \in Sponsor /\ p \in Sponsor /\ n \in Nat
      BY <2>1, <2>2, SchedulerAssumption DEF Grant, Continue, Sponsor
    <3> QED BY <2>2, <3>1 DEF Grant, Granted
  <2>3. ASSUME NEW p \in Peers, Reclaim(p) \/ Stop(p) PROVE Reclaimed
    <3>1. K.ev.spn \in Sponsor /\ p \in Sponsor
      BY <2>1, <2>3 DEF Reclaim, Stop, Continue, Sponsor
    <3> QED BY <2>3, <3>1 DEF Reclaim, Stop, ReclaimSponsor, Reclaimed
  <2> QED BY <1>4, <2>2, <2>3 DEF Execute, ExecuteSuspended, Exhaust, Abort, Commit, Compute, ExecuteNothing,
             Send, Become, Start, sponsorVars
<1>5. CASE Dispatch
  <2>1. ASSUME Charge PROVE Charged
    <3>1. E.spn \in Sponsor
      BY <2>1, TheEvent DEF Charge, Processing, Dispatching
    <3> QED BY <2>1, <3>1 DEF Charge, Charged
  <2> QED BY <1>5, <2>1 DEF Dispatch, DispatchNothing, Defer, InboxEvent, ProcessLimit, ProcessActor, ProcessNoMem,
             ProcessDevice, DeviceFails, sponsorVars
<1> QED BY <1>1, <1>2, <1>3, <1>4, <1>5 DEF Next

(* None of them makes the total larger.                                    *)
LEMMA QuotaKept ==
  ASSUME TypeOK, IsFiniteSet(Peers), [Next]_vars, turn # "host"
  PROVE  TotalEvents' <= TotalEvents
<1>1. IsFiniteSet(Sponsor) /\ events \in [Sponsor -> Nat]
  <2>1. IsFiniteSet({Root} \cup Peers)
    BY FS_Singleton, FS_Union
  <2> QED BY <2>1 DEF TypeOK, Sponsor
<1>2. TotalEvents = Total(events) /\ TotalEvents' = Total(events')
  BY DEF TotalEvents, Total, FoldFunction, FoldFunctionOnSet, MapThenFoldSet
<1>3. Total(events) \in Nat
  <2>1. PICK g \in [SUBSET Sponsor -> Nat] : Total(events) = g[Sponsor]
    BY <1>1, TotalAdds
  <2> QED BY <2>1
<1>c. ASSUME NEW f \in [Sponsor -> Nat], NEW p \in Sponsor, NEW v \in Nat
      PROVE  Total([f EXCEPT ![p] = v]) \in Nat /\ Total([f EXCEPT ![p] = v]) + f[p] = Total(f) + v
  <2>1. IsFiniteSet(Sponsor)
    BY <1>1
  <2> QED BY <2>1, TotalChanges, ZenonT(60)
<1>4. CASE events' = events
  BY <1>2, <1>3, <1>4
<1>5. CASE Charged
  <2>1. PICK s \in Sponsor : events[s] > 0 /\ events' = [events EXCEPT ![s] = @ - 1]
    BY <1>5 DEF Charged
  <2>2. PICK v \in Nat : v = events[s] - 1
    BY <1>1, <2>1
  <2>3. events' = [events EXCEPT ![s] = v]
    BY <1>1, <2>1, <2>2
  <2>4. Total(events') \in Nat /\ Total(events') + events[s] = Total(events) + v
    BY <1>1, <2>3, <1>c
  <2> QED BY <1>1, <1>2, <1>3, <2>2, <2>4
<1>6. CASE Granted
  <2>1. PICK s, p \in Sponsor, n \in Nat :
          /\ n < events[s]
          /\ events' = [[events EXCEPT ![s] = @ - n] EXCEPT ![p] = @ + n]
    BY <1>6 DEF Granted
  <2>2. PICK v \in Nat : v = events[s] - n
    BY <1>1, <2>1
  <2>3. PICK left : left = [events EXCEPT ![s] = v]
    OBVIOUS
  <2>4. left \in [Sponsor -> Nat]
    BY <1>1, <2>3
  <2>5. PICK w \in Nat : w = left[p] + n
    BY <2>1, <2>4
  <2>6. events' = [left EXCEPT ![p] = w]
    BY <1>1, <2>1, <2>2, <2>3, <2>5
  <2>7. Total(left) \in Nat /\ Total(left) + events[s] = Total(events) + v
    BY <1>1, <2>3, <1>c
  <2>8. Total(events') \in Nat /\ Total(events') + left[p] = Total(left) + w
    BY <1>1, <2>4, <2>6, <1>c
  <2> QED BY <1>1, <1>2, <1>3, <2>2, <2>4, <2>5, <2>7, <2>8
<1>7. CASE Reclaimed
  <2>1. PICK s, p \in Sponsor :
          events' = [[events EXCEPT ![s] = @ + events[p]] EXCEPT ![p] = 0]
    BY <1>7 DEF Reclaimed
  <2>2. PICK v \in Nat : v = events[s] + events[p]
    BY <1>1
  <2>3. PICK got : got = [events EXCEPT ![s] = v]
    OBVIOUS
  <2>4. got \in [Sponsor -> Nat] /\ got[p] >= events[p]
    BY <1>1, <2>2, <2>3
  <2>5. events' = [got EXCEPT ![p] = 0]
    BY <1>1, <2>1, <2>2, <2>3
  <2>6. Total(got) \in Nat /\ Total(got) + events[s] = Total(events) + v
    BY <1>1, <2>3, <1>c
  <2>7. Total(events') \in Nat /\ Total(events') + got[p] = Total(got) + 0
    BY <1>1, <2>4, <2>5, <1>c
  <2> QED BY <1>1, <1>2, <1>3, <2>2, <2>4, <2>6, <2>7
<1> QED BY <1>4, <1>5, <1>6, <1>7, QuotaSteps

(***************************************************************************)
(* No step of the core makes events quota, whatever the number of sponsors *)
(* and however they grant, reclaim and stop: the total is the sum of a     *)
(* function on a finite set, and a step takes from one value at least what *)
(* it adds to another.                                                     *)
(***************************************************************************)
THEOREM QuotaNotMade ==
  ASSUME IsFiniteSet(Peers)
  PROVE  Spec => QuotaConserved
<1>1. Init => TypeOK /\ OneTransaction
  BY InitKeeps
<1>2. TypeOK /\ OneTransaction /\ [Next]_vars => (TypeOK /\ OneTransaction)'
  BY NextKeeps
<1>3. TypeOK /\ [Next]_vars => [turn # "host" => TotalEvents' <= TotalEvents]_vars
  BY QuotaKept
<1> QED BY <1>1, <1>2, <1>3, PTL DEF Spec, QuotaConserved

-----------------------------------------------------------------------------
(* The order of the events for an actor *)

(* What comes before what in two queues put together.                      *)
LEMMA BeforeConcat ==
  ASSUME NEW s \in Seq(Event), NEW t \in Seq(Event), NEW d, NEW e
  PROVE  Before(s \o t, d, e) <=>
           Before(s, d, e) \/ Before(t, d, e) \/ (d \in ToSet(s) /\ e \in ToSet(t))
<1>1. /\ Len(s) \in Nat /\ Len(t) \in Nat
      /\ DOMAIN s = 1 .. Len(s) /\ DOMAIN t = 1 .. Len(t) /\ DOMAIN (s \o t) = 1 .. Len(s) + Len(t)
      /\ \A k \in 1 .. Len(s) : (s \o t)[k] = s[k]
      /\ \A k \in 1 .. Len(t) : (s \o t)[Len(s) + k] = t[k]
      /\ \A k \in 1 .. Len(s) + Len(t) :
           k \in 1 .. Len(s) \/ (k - Len(s) \in 1 .. Len(t) /\ (s \o t)[k] = t[k - Len(s)])
  BY Joined
<1>2. PICK u : u = s \o t
  OBVIOUS
<1>3. PICK m \in Nat, n \in Nat : m = Len(s) /\ n = Len(t)
  BY <1>1
<1>4. /\ DOMAIN s = 1 .. m /\ DOMAIN t = 1 .. n /\ DOMAIN u = 1 .. m + n
      /\ \A k \in 1 .. m : u[k] = s[k] /\ k \in 1 .. m + n
      /\ \A k \in 1 .. n : u[m + k] = t[k] /\ m + k \in 1 .. m + n
      /\ \A k \in 1 .. m + n : k \in 1 .. m \/ (k - m \in 1 .. n /\ u[k] = t[k - m] /\ k > m)
  BY <1>1, <1>2, <1>3
<1>5. ASSUME Before(u, d, e)
      PROVE  Before(s, d, e) \/ Before(t, d, e) \/ (d \in ToSet(s) /\ e \in ToSet(t))
  <2>1. PICK i, j \in 1 .. m + n : i < j /\ u[i] = d /\ u[j] = e
    BY <1>4, <1>5 DEF Before
  <2>2. CASE j \in 1 .. m
    <3>1. i \in 1 .. m
      BY <2>1, <2>2
    <3> QED BY <1>4, <2>1, <2>2, <3>1 DEF Before
  <2>3. CASE j \notin 1 .. m
    <3>1. j - m \in 1 .. n /\ t[j - m] = e
      BY <1>4, <2>1, <2>3
    <3>2. CASE i \in 1 .. m
      BY <1>4, <2>1, <3>1, <3>2 DEF ToSet
    <3>3. CASE i \notin 1 .. m
      <4>1. i - m \in 1 .. n /\ t[i - m] = d
        BY <1>4, <2>1, <3>3
      <4>2. i - m < j - m
        BY <2>1
      <4> QED BY <1>4, <3>1, <4>1, <4>2 DEF Before
    <3> QED BY <3>2, <3>3
  <2> QED BY <2>2, <2>3
<1>6. ASSUME Before(s, d, e) PROVE Before(u, d, e)
  BY <1>4, <1>6 DEF Before
<1>7. ASSUME Before(t, d, e) PROVE Before(u, d, e)
  <2>1. PICK i, j \in 1 .. n : i < j /\ t[i] = d /\ t[j] = e
    BY <1>4, <1>7 DEF Before
  <2>2. m + i < m + j
    BY <2>1
  <2>3. m + i \in DOMAIN u /\ m + j \in DOMAIN u /\ u[m + i] = d /\ u[m + j] = e
    BY <1>4, <2>1
  <2> QED BY <2>2, <2>3 DEF Before
<1>8. ASSUME d \in ToSet(s), e \in ToSet(t) PROVE Before(u, d, e)
  <2>1. PICK i \in 1 .. m, j \in 1 .. n : s[i] = d /\ t[j] = e
    BY <1>4, <1>8 DEF ToSet
  <2>2. i < m + j
    OBVIOUS
  <2>3. i \in DOMAIN u /\ m + j \in DOMAIN u /\ u[i] = d /\ u[m + j] = e
    BY <1>4, <2>1
  <2> QED BY <2>2, <2>3 DEF Before
<1> QED BY <1>2, <1>5, <1>6, <1>7, <1>8

(* Both events are in the queue.                                           *)
LEMMA BeforeIn ==
  ASSUME NEW s, NEW d, NEW e, Before(s, d, e)
  PROVE  d \in ToSet(s) /\ e \in ToSet(s)
BY DEF Before, ToSet

(* In a queue of one event none comes before another.                      *)
LEMMA BeforeOne ==
  ASSUME NEW x \in Event, NEW d, NEW e
  PROVE  <<x>> \in Seq(Event) /\ ToSet(<<x>>) = {x} /\ ~ Before(<<x>>, d, e)
<1>1. <<x>> \in Seq(Event) /\ DOMAIN <<x>> = {1}
  OBVIOUS
<1>2. ToSet(<<x>>) = {x}
  BY <1>1 DEF ToSet
<1>3. ~ Before(<<x>>, d, e)
  BY <1>1 DEF Before
<1> QED BY <1>1, <1>2, <1>3

(* An empty queue.                                                         *)
LEMMA BeforeEmpty ==
  ASSUME NEW d, NEW e
  PROVE  <<>> \in Seq(Event) /\ ToSet(<<>>) = {} /\ ~ Before(<<>>, d, e)
BY EmptySeq DEF ToSet, Before

(* The first event comes before all others.                                *)
LEMMA BeforeTail ==
  ASSUME NEW s \in Seq(Event), s # <<>>, NEW d, NEW e
  PROVE  Before(s, d, e) <=> Before(Tail(s), d, e) \/ (d = Head(s) /\ e \in ToSet(Tail(s)))
<1>0. PICK t, h : t = Tail(s) /\ h = Head(s)
  OBVIOUS
<1>1. PICK n \in Nat \ {0} : t = Tail(s) /\ h = Head(s) /\ n = Len(s)
  BY <1>0, Shortened
<1>2. /\ h = s[1] /\ DOMAIN s = 1 .. n /\ DOMAIN t = 1 .. n - 1
      /\ \A k \in 1 .. n - 1 : t[k] = s[k + 1]
  BY <1>1, Shortened
<1>3. ASSUME Before(s, d, e) PROVE Before(t, d, e) \/ (d = h /\ e \in ToSet(t))
  <2>1. PICK i, j \in 1 .. n : i < j /\ s[i] = d /\ s[j] = e
    BY <1>2, <1>3 DEF Before
  <2>2. j - 1 \in 1 .. n - 1 /\ (j - 1) + 1 = j
    BY <2>1
  <2>3. t[j - 1] = e
    BY <1>2, <2>1, <2>2
  <2>4. CASE i = 1
    BY <1>2, <2>1, <2>2, <2>3, <2>4 DEF ToSet
  <2>5. CASE i # 1
    <3>1. i - 1 \in 1 .. n - 1 /\ (i - 1) + 1 = i /\ i - 1 < j - 1
      BY <2>1, <2>5
    <3>2. t[i - 1] = d
      BY <1>2, <2>1, <3>1
    <3> QED BY <1>2, <2>2, <2>3, <3>1, <3>2 DEF Before
  <2> QED BY <2>4, <2>5
<1>4. ASSUME Before(t, d, e) PROVE Before(s, d, e)
  <2>1. PICK i, j \in 1 .. n - 1 : i < j /\ t[i] = d /\ t[j] = e
    BY <1>2, <1>4 DEF Before
  <2>2. i + 1 < j + 1 /\ i + 1 \in 1 .. n /\ j + 1 \in 1 .. n
    BY <2>1
  <2> QED BY <1>2, <2>1, <2>2 DEF Before
<1>5. ASSUME d = h, e \in ToSet(t) PROVE Before(s, d, e)
  <2>1. PICK j \in 1 .. n - 1 : t[j] = e
    BY <1>2, <1>5 DEF ToSet
  <2>2. 1 < j + 1 /\ 1 \in 1 .. n /\ j + 1 \in 1 .. n
    BY <2>1
  <2> QED BY <1>2, <1>5, <2>1, <2>2 DEF Before
<1> QED BY <1>1, <1>3, <1>4, <1>5

(* A new last event comes after all others.                                *)
LEMMA BeforeAppend ==
  ASSUME NEW s \in Seq(Event), NEW x \in Event, NEW d, NEW e
  PROVE  Before(Append(s, x), d, e) <=> Before(s, d, e) \/ (d \in ToSet(s) /\ e = x)
<1>1. Append(s, x) = s \o <<x>>
  BY AppendIsConcat
<1>2. PICK o : o = <<x>>
  OBVIOUS
<1>3. o \in Seq(Event) /\ ToSet(o) = {x} /\ ~ Before(o, d, e)
  BY <1>2, BeforeOne
<1>4. Before(s \o o, d, e) <=> Before(s, d, e) \/ Before(o, d, e) \/ (d \in ToSet(s) /\ e \in ToSet(o))
  BY <1>3, BeforeConcat
<1> QED BY <1>1, <1>2, <1>3, <1>4

(* What an actor's mailbox says of the order of two events for it.         *)
Ahead(a, d, e) ==
  Before(inbox[a], d, e) \/ Before(eq, d, e) \/ (d \in ToSet(inbox[a]) /\ e \in ToSet(eq))

(* An inbox holds events of its own actor only.                            *)
OwnInbox == \A a \in Actor : \A e \in ToSet(inbox[a]) : e.tgt = a

(* Ahead is the order in the mailbox, taken apart.                         *)
LEMMA AheadIs ==
  ASSUME TypeOK, NEW a \in Actor, NEW d, NEW e
  PROVE  /\ Before(Mailbox(a), d, e) <=> Ahead(a, d, e)
         /\ ToSet(Mailbox(a)) = ToSet(inbox[a]) \cup ToSet(eq)
<1>1. inbox[a] \in Seq(Event) /\ eq \in Seq(Event)
  BY DEF TypeOK
<1> QED BY <1>1, BeforeConcat, ElemsConcat DEF Mailbox, Ahead

(* The ways in which a step changes the mailboxes; X is what it adds to    *)
(* the event queue, which is in no mailbox.                                *)
New(X) == X \in Seq(Event) /\ ToSet(X) \cap ToSet(eq) = {}
          /\ \A a \in Actor : ToSet(X) \cap ToSet(inbox[a]) = {}
Enqueued(X) == inbox' = inbox /\ eq' = eq \o X
Dequeued(X) == inbox' = inbox /\ eq # <<>> /\ eq' = Tail(eq) \o X
Returned(X) ==
  \E t \in Actor : inbox' = [inbox EXCEPT ![t] = <<>>] /\ eq' = inbox[t] \o (eq \o X)
Inboxed ==
  /\ eq # <<>> /\ E.tgt \in Actor
  /\ inbox' = [inbox EXCEPT ![E.tgt] = Append(@, E)] /\ eq' = Tail(eq)
Moved == Inboxed \/ \E X : New(X) /\ (Enqueued(X) \/ Dequeued(X) \/ Returned(X))

(* No event overtakes another, in terms of the parts of a mailbox.         *)
Orderly ==
  \A a \in Actor : \A d, e \in {x \in Event : x.tgt = a} :
    Ahead(a, d, e)' /\ (e \in ToSet(inbox[a]) \/ e \in ToSet(eq)) => Ahead(a, d, e)

(* None of these ways lets an event overtake another.                      *)
LEMMA MovedOrderly ==
  ASSUME TypeOK, OwnInbox, Moved
  PROVE  Orderly /\ OwnInbox'
<1>1. eq \in Seq(Event) /\ inbox \in [Actor -> Seq(Event)]
  BY DEF TypeOK
<1>2. ASSUME NEW X, New(X), Enqueued(X) PROVE Orderly /\ OwnInbox'
  <2>1. ASSUME NEW a \in Actor, NEW d, NEW e, Ahead(a, d, e)', e \in ToSet(inbox[a]) \/ e \in ToSet(eq)
        PROVE  Ahead(a, d, e)
    <3>1. Before(eq', d, e) <=> Before(eq, d, e) \/ Before(X, d, e) \/ (d \in ToSet(eq) /\ e \in ToSet(X))
      BY <1>1, <1>2, BeforeConcat DEF Enqueued, New
    <3>2. e \notin ToSet(X) /\ ToSet(eq') = ToSet(eq) \cup ToSet(X)
      BY <1>1, <1>2, <2>1, ElemsConcat DEF New, Enqueued
    <3>3. inbox' = inbox /\ ~ Before(X, d, e)
      BY <1>2, <3>2, BeforeIn DEF Enqueued
    <3> QED BY <2>1, <3>1, <3>2, <3>3 DEF Ahead
  <2> QED BY <1>2, <2>1 DEF Orderly, OwnInbox, Enqueued
<1>3. ASSUME NEW X, New(X), Dequeued(X) PROVE Orderly /\ OwnInbox'
  <2>0. Tail(eq) \in Seq(Event) /\ ToSet(Tail(eq)) \subseteq ToSet(eq)
    BY <1>1, <1>3, Shortened DEF Dequeued
  <2>1. ASSUME NEW a \in Actor, NEW d, NEW e, Ahead(a, d, e)', e \in ToSet(inbox[a]) \/ e \in ToSet(eq)
        PROVE  Ahead(a, d, e)
    <3>1. /\ Before(eq', d, e) <=> Before(Tail(eq), d, e) \/ Before(X, d, e)
                                     \/ (d \in ToSet(Tail(eq)) /\ e \in ToSet(X))
          /\ Before(Tail(eq), d, e) => Before(eq, d, e)
      BY <1>1, <1>3, <2>0, BeforeConcat, BeforeTail DEF Dequeued, New
    <3>a. X \in Seq(Event) /\ eq' = Tail(eq) \o X
      BY <1>3 DEF New, Dequeued
    <3>b. ToSet(eq') = ToSet(Tail(eq)) \cup ToSet(X)
      BY <2>0, <3>a, ElemsConcat, ZenonT(60)
    <3>c. e \notin ToSet(X)
      BY <1>3, <2>1 DEF New
    <3>2. e \notin ToSet(X) /\ ToSet(eq') = ToSet(Tail(eq)) \cup ToSet(X)
      BY <3>b, <3>c
    <3>3. inbox' = inbox /\ ~ Before(X, d, e)
      BY <1>3, <3>2, BeforeIn DEF Dequeued
    <3> QED BY <2>0, <2>1, <3>1, <3>2, <3>3 DEF Ahead
  <2> QED BY <1>3, <2>1 DEF Orderly, OwnInbox, Dequeued
<1>4. ASSUME NEW X, New(X), Returned(X) PROVE Orderly /\ OwnInbox'
  <2>0. PICK t \in Actor : inbox' = [inbox EXCEPT ![t] = <<>>] /\ eq' = inbox[t] \o (eq \o X)
    BY <1>4 DEF Returned
  <2>1. PICK q, p : q = eq \o X /\ p = inbox[t]
    OBVIOUS
  <2>2. p \in Seq(Event) /\ q \in Seq(Event) /\ ToSet(q) = ToSet(eq) \cup ToSet(X) /\ eq' = p \o q
    BY <1>1, <1>4, <2>0, <2>1, ElemsConcat DEF New
  <2>3. ToSet(eq') = ToSet(p) \cup ToSet(q)
    BY <2>2, ElemsConcat
  <2>4. /\ inbox'[t] = <<>> /\ \A a \in Actor : a # t => inbox'[a] = inbox[a]
        /\ ToSet(inbox'[t]) = {}
    BY <1>1, <2>0, BeforeEmpty
  <2>5. ASSUME NEW a \in Actor, NEW d, NEW e, d.tgt = a, e.tgt = a, Ahead(a, d, e)',
               e \in ToSet(inbox[a]) \/ e \in ToSet(eq)
        PROVE  Ahead(a, d, e)
    <3>1. Before(eq', d, e) <=> Before(p, d, e) \/ Before(q, d, e) \/ (d \in ToSet(p) /\ e \in ToSet(q))
      BY <2>2, BeforeConcat
    <3>2. Before(q, d, e) <=> Before(eq, d, e) \/ Before(X, d, e) \/ (d \in ToSet(eq) /\ e \in ToSet(X))
      BY <1>1, <1>4, <2>1, BeforeConcat DEF New
    <3>3. e \notin ToSet(X) /\ ~ Before(X, d, e)
      BY <1>4, <2>5, BeforeIn DEF New
    <3>4. CASE a = t
      <4>1. ~ Before(inbox'[a], d, e) /\ d \notin ToSet(inbox'[a])
        BY <2>4, <3>4, BeforeEmpty
      <4>2. Before(eq', d, e)
        BY <2>5, <4>1 DEF Ahead
      <4> QED BY <2>1, <2>2, <3>1, <3>2, <3>3, <3>4, <4>2 DEF Ahead
    <3>5. CASE a # t
      <4>1. d \notin ToSet(p) /\ e \notin ToSet(p) /\ ~ Before(p, d, e)
        BY <2>1, <2>5, <3>5, BeforeIn DEF OwnInbox
      <4> QED BY <2>2, <2>3, <2>4, <2>5, <3>1, <3>2, <3>3, <3>5, <4>1 DEF Ahead
    <3> QED BY <3>4, <3>5
  <2>6. OwnInbox'
    BY <2>4 DEF OwnInbox
  <2> QED BY <2>5, <2>6 DEF Orderly
<1>5. ASSUME Inboxed PROVE Orderly /\ OwnInbox'
  <2>1. PICK t \in Actor : t = E.tgt
    BY <1>5 DEF Inboxed
  <2>2. /\ eq # <<>> /\ eq' = Tail(eq) /\ E \in Event /\ Tail(eq) \in Seq(Event)
        /\ ToSet(eq) = {E} \cup ToSet(Tail(eq))
    BY <1>1, <1>5, Shortened DEF Inboxed, E
  <2>3. /\ inbox'[t] = Append(inbox[t], E) /\ \A a \in Actor : a # t => inbox'[a] = inbox[a]
        /\ ToSet(inbox'[t]) = ToSet(inbox[t]) \cup {E}
    BY <1>1, <1>5, <2>1, <2>2, ElemsAppend DEF Inboxed
  <2>4. ASSUME NEW a \in Actor, NEW d, NEW e, d.tgt = a, e.tgt = a, Ahead(a, d, e)'
        PROVE  Ahead(a, d, e)
    <3>1. Before(eq, d, e) <=> Before(Tail(eq), d, e) \/ (d = E /\ e \in ToSet(Tail(eq)))
      BY <1>1, <2>2, BeforeTail DEF E
    <3>2. CASE a # t
      BY <2>2, <2>3, <2>4, <3>1, <3>2 DEF Ahead
    <3>3. CASE a = t
      <4>a. inbox[t] \in Seq(Event) /\ E \in Event
        BY <1>1, <2>2
      <4>b. Before(Append(inbox[t], E), d, e) <=> Before(inbox[t], d, e) \/ (d \in ToSet(inbox[t]) /\ e = E)
        BY <4>a, BeforeAppend
      <4>1. Before(inbox'[a], d, e) <=> Before(inbox[a], d, e) \/ (d \in ToSet(inbox[a]) /\ e = E)
        BY <2>3, <3>3, <4>b
      <4> QED BY <2>2, <2>3, <2>4, <3>1, <3>3, <4>1 DEF Ahead
    <3> QED BY <3>2, <3>3
  <2>5. OwnInbox'
    BY <2>1, <2>3 DEF OwnInbox
  <2> QED BY <2>4, <2>5 DEF Orderly
<1> QED BY <1>2, <1>3, <1>4, <1>5 DEF Moved

(* Outboxes, waiting queues and control events are in no mailbox.          *)
LEMMA ApartFromMail ==
  ASSUME OneHome
  PROVE  /\ \A s \in Sponsor : /\ ToSet(waiting[s]) \cap ToSet(eq) = {} /\ ToSet(alarm[s]) \cap ToSet(eq) = {}
                               /\ \A a \in Actor : /\ ToSet(waiting[s]) \cap ToSet(inbox[a]) = {}
                                                   /\ ToSet(alarm[s]) \cap ToSet(inbox[a]) = {}
         /\ \A i \in DOMAIN kq : /\ ToSet(kq[i].out) \cap ToSet(eq) = {}
                                 /\ \A a \in Actor : ToSet(kq[i].out) \cap ToSet(inbox[a]) = {}
<1>1. <<"queue", Root, eq>> \in Chains /\ \A a \in Actor : <<"inbox", a, inbox[a]>> \in Chains
  BY DEF Chains
<1>2. ASSUME NEW c \in Chains, c[1] # "queue", c[1] # "inbox"
      PROVE  ToSet(c[3]) \cap ToSet(eq) = {} /\ \A a \in Actor : ToSet(c[3]) \cap ToSet(inbox[a]) = {}
  <2>1. \A d \in Chains : c # d => ToSet(c[3]) \cap ToSet(d[3]) = {}
    BY DEF OneHome
  <2>2. ASSUME NEW d \in Chains, d[1] = "queue" \/ d[1] = "inbox"
        PROVE  ToSet(c[3]) \cap ToSet(d[3]) = {}
    BY <1>2, <2>1, <2>2
  <2>3. ToSet(c[3]) \cap ToSet(eq) = {}
    BY <1>1, <2>2, <<"queue", Root, eq>>[1] = "queue", <<"queue", Root, eq>>[3] = eq
  <2>4. ASSUME NEW a \in Actor PROVE ToSet(c[3]) \cap ToSet(inbox[a]) = {}
    BY <1>1, <2>2, <<"inbox", a, inbox[a]>>[1] = "inbox", <<"inbox", a, inbox[a]>>[3] = inbox[a]
  <2> QED BY <2>3, <2>4
<1>3. \A s \in Sponsor : <<"waiting", s, waiting[s]>> \in Chains /\ <<"alarm", s, alarm[s]>> \in Chains
  BY DEF Chains
<1>4. \A i \in DOMAIN kq : <<"outbox", i, kq[i].out>> \in Chains
  BY DEF Chains
<1> QED BY <1>2, <1>3, <1>4

(* Nothing needs to be added.                                              *)
LEMMA NothingIsNew == New(<<>>)
BY BeforeEmpty DEF New

(* An event that has just been made is in no mailbox.                      *)
LEMMA NewIsNew ==
  ASSUME NEW e \in Event \ Live
  PROVE  New(<<e>>)
<1>1. e \notin ToSet(eq) /\ \A a \in Actor : e \notin ToSet(inbox[a])
  BY DEF Live
<1>2. <<e>> \in Seq(Event) /\ ToSet(<<e>>) = {e}
  BY BeforeOne
<1> QED BY <1>1, <1>2 DEF New

(* Nor are the waiting events and the control event of a sponsor.          *)
LEMMA SponsorsNew ==
  ASSUME TypeOK, OneHome, NEW s \in Sponsor
  PROVE  New(waiting[s]) /\ New(alarm[s])
<1>1. waiting[s] \in Seq(Event) /\ alarm[s] \in Seq(Event)
  BY DEF TypeOK
<1> QED BY <1>1, ApartFromMail DEF New

(* Nor are the events that a transaction sends.                            *)
LEMMA OutboxNew ==
  ASSUME TypeOK, OneHome, kq # <<>>
  PROVE  New(K.out)
<1>1. kq \in Seq(Cont)
  BY DEF TypeOK
<1>2. 1 \in DOMAIN kq /\ K = kq[1]
  BY <1>1, Shortened DEF K
<1>3. K.out \in Seq(Event)
  BY TheContinuation
<1> QED BY <1>2, <1>3, ApartFromMail DEF New

(* Most steps leave the mailboxes alone.                                   *)
LEMMA StandsStill ==
  ASSUME TypeOK, inbox' = inbox, eq' = eq
  PROVE  Moved
<1>1. eq' = eq \o <<>>
  BY ConcatEmptySeq DEF TypeOK
<1> QED BY <1>1, NothingIsNew DEF Moved, Enqueued

(* The end of a transaction puts the inbox first, and adds its outbox, a   *)
(* control event or nothing to the queue.                                  *)
LEMMA TransactionMoves ==
  ASSUME TypeOK, OneTransaction, OneHome, Executing,
         ExecuteSuspended \/ Exhaust \/ Abort \/ Commit
  PROVE  Moved
<1> DEFINE t == K.ev.tgt
<1>1. kq # <<>> /\ EndContinuation
  BY DEF Executing, ExecuteSuspended, Exhaust, Abort, Commit
<1>2. t \in Actor /\ inbox' = [inbox EXCEPT ![t] = <<>>]
  BY <1>1, EndKeeps DEF EndContinuation
<1>3. eq \in Seq(Event) /\ inbox[t] \in Seq(Event) /\ K.ev.spn \in Sponsor
  BY <1>1, <1>2, TheContinuation DEF TypeOK
<1>4. ASSUME NEW X, New(X), eq' = inbox[t] \o (eq \o X) PROVE Moved
  <2>1. Returned(X)
    BY <1>2, <1>4 DEF Returned
  <2> QED BY <1>4, <2>1 DEF Moved
<1> HIDE DEF t
<1>5. CASE eq' = inbox[t] \o eq
  <2>1. eq \o <<>> = eq
    BY <1>3, ConcatEmptySeq
  <2>2. eq' = inbox[t] \o (eq \o <<>>)
    BY <2>1, <1>5
  <2> QED BY <1>4, <2>2, NothingIsNew
<1>6. CASE Exhaust
  <2>1. PICK X : X = alarm[K.ev.spn]
    OBVIOUS
  <2>2. New(X)
    BY <1>3, <2>1, SponsorsNew
  <2>3. eq' = (inbox[t] \o eq) \o X
    BY <1>6, <2>1 DEF Exhaust, ReportError, t
  <2>4. X \in Seq(Event) /\ inbox[t] \in Seq(Event) /\ eq \in Seq(Event)
    BY <1>3, <2>2 DEF New
  <2>a. ASSUME NEW p \in Seq(Event), NEW q \in Seq(Event), NEW r \in Seq(Event)
        PROVE  (p \o q) \o r = p \o (q \o r)
    BY ONLY p \in Seq(Event), q \in Seq(Event), r \in Seq(Event), ConcatAssociative
  <2>5. (inbox[t] \o eq) \o X = inbox[t] \o (eq \o X)
    BY <2>4, <2>a
  <2>6. eq' = inbox[t] \o (eq \o X)
    BY <2>3, <2>5
  <2> QED BY <1>4, <2>2, <2>6
<1>7. CASE Commit
  <2>1. eq' = inbox[t] \o (eq \o K.out)
    BY <1>7 DEF Commit, t
  <2> QED BY <1>1, <1>4, <2>1, OutboxNew
<1>8. CASE ExecuteSuspended \/ Abort
  <2>1. eq' = inbox[t] \o eq
    BY <1>8 DEF ExecuteSuspended, Abort, t
  <2> QED BY <2>1, <1>5
<1> QED BY <1>6, <1>7, <1>8

(* Instructions.                                                           *)
LEMMA ExecuteMoves ==
  ASSUME TypeOK, OneTransaction, OneHome, Execute
  PROVE  Moved
<1>1. CASE ExecuteSuspended \/ Exhaust \/ Abort \/ Commit
  <2>1. Executing
    BY <1>1 DEF ExecuteSuspended, Exhaust, Abort, Commit, Running
  <2> QED BY <1>1, <2>1, TransactionMoves
<1>2. CASE \E p \in Peers, e \in Event : Start(p, e)
  <2>1. PICK p \in Peers, e \in Event : Start(p, e)
    BY <1>2
  <2>2. p \in Sponsor
    BY DEF Sponsor
  <2>3. New(waiting[p]) /\ eq' = eq \o waiting[p] /\ inbox' = inbox
    BY <2>1, <2>2, SponsorsNew DEF Start, Continue, actorVars
  <2> QED BY <2>3 DEF Moved, Enqueued
<1>3. CASE ExecuteNothing \/ Compute \/ \E e \in Event : Send(e)
  BY <1>3, StandsStill DEF ExecuteNothing, Compute, Send, Continue, actorVars
<1>4. CASE \E b \in Beh : Become(b)
  BY <1>4, StandsStill DEF Become, Continue, actorVars
<1>5. CASE \E p \in Peers : Reclaim(p) \/ Stop(p)
  BY <1>5, StandsStill DEF Reclaim, Stop, Continue, actorVars
<1>6. CASE \E p \in Peers, n \in 1 .. Quota : Grant(p, n)
  BY <1>6, StandsStill DEF Grant, Continue, actorVars
<1> QED BY <1>1, <1>2, <1>3, <1>4, <1>5, <1>6 DEF Execute

(* The dispatch of an event.                                               *)
LEMMA DispatchMoves ==
  ASSUME TypeOK, OneHome, Dispatch
  PROVE  Moved
<1>1. CASE DispatchNothing
  BY <1>1, StandsStill DEF DispatchNothing, actorVars
<1>2. CASE InboxEvent
  BY <1>2 DEF InboxEvent, Moved, Inboxed, Dispatching, TypeOK
<1>3. ASSUME NEW X, New(X), inbox' = inbox, eq # <<>>, eq' = Tail(eq) \o X PROVE Moved
  BY <1>3 DEF Moved, Dequeued
<1>4. ASSUME inbox' = inbox, eq # <<>>, eq' = Tail(eq) PROVE Moved
  <2>1. Tail(eq) \in Seq(Event)
    BY <1>4, TheEvent
  <2>2. eq' = Tail(eq) \o <<>>
    BY <1>4, <2>1, ConcatEmptySeq
  <2> QED BY <1>3, <1>4, <2>2, NothingIsNew
<1>5. CASE Defer \/ ProcessActor
  BY <1>4, <1>5 DEF Defer, ProcessActor, Charge, Processing, Dispatching, actorVars
<1>6. ASSUME eq # <<>>, ProcessFailed, inbox' = inbox PROVE Moved
  <2>1. E.spn \in Sponsor
    BY <1>6, TheEvent
  <2>2. New(alarm[E.spn]) /\ eq' = Tail(eq) \o alarm[E.spn]
    BY <1>6, <2>1, SponsorsNew DEF ProcessFailed, ReportError
  <2> QED BY <1>3, <1>6, <2>2
<1>7. CASE ProcessLimit \/ ProcessNoMem
  BY <1>6, <1>7 DEF ProcessLimit, ProcessNoMem, Charge, Processing, Dispatching, actorVars
<1>8. CASE ProcessDevice(<<>>)
  BY <1>3, <1>8, NothingIsNew DEF ProcessDevice, Charge, Processing, Dispatching, actorVars
<1>9. CASE \E e \in Event : ProcessDevice(<<e>>)
  <2>1. PICK e \in Event : ProcessDevice(<<e>>)
    BY <1>9
  <2>2. e \in ToSet(<<e>>)
    BY BeforeOne
  <2>3. e \in Event \ Live
    BY <2>1, <2>2 DEF ProcessDevice
  <2> QED BY <1>3, <2>1, <2>3, NewIsNew DEF ProcessDevice, Charge, Processing, Dispatching, actorVars
<1>10. CASE \E error \in DeviceError : DeviceFails(error)
  <2>1. PICK error \in DeviceError : DeviceFails(error)
    BY <1>10
  <2>2. eq # <<>> /\ inbox' = inbox
    BY <2>1 DEF DeviceFails, Charge, Processing, Dispatching, actorVars
  <2>3. ProcessFailed \/ eq' = Tail(eq)
    BY <2>1 DEF DeviceFails
  <2> QED BY <1>4, <1>6, <2>2, <2>3
<1> QED BY <1>1, <1>2, <1>5, <1>7, <1>8, <1>9, <1>10 DEF Dispatch

(* The host.                                                               *)
LEMMA HostMoves ==
  ASSUME TypeOK, OneHome, Host \/ Idle
  PROVE  Moved
<1>1. CASE RunLoop
  <2>1. New(waiting[Root])
    BY SponsorsNew DEF Sponsor
  <2> QED BY <1>1, <2>1 DEF RunLoop, Moved, Enqueued, actorVars
<1>2. CASE Refill \/ Idle
  BY <1>2, StandsStill DEF Refill, Idle, actorVars
<1>3. CASE \E e \in Event : HostEvent(e)
  <2>1. PICK e \in Event \ Live : HostEvent(e)
    BY <1>3 DEF HostEvent
  <2>2. eq' = eq \o <<e>>
    BY <2>1, AppendIsConcat DEF HostEvent, TypeOK
  <2> QED BY <2>1, <2>2, NewIsNew DEF HostEvent, Moved, Enqueued, actorVars
<1> QED BY <1>1, <1>2, <1>3 DEF Host

(* Every step changes the mailboxes in one of these ways.                  *)
LEMMA NextMoves ==
  ASSUME TypeOK, OneTransaction, OneHome, [Next]_vars
  PROVE  Moved
<1>1. CASE UNCHANGED vars
  BY <1>1, StandsStill DEF vars, actorVars
<1> QED BY <1>1, ExecuteMoves, DispatchMoves, HostMoves DEF Next

(* What Orderly says of the parts of a mailbox holds of the mailbox.       *)
LEMMA OrderlyIsKept ==
  ASSUME TypeOK, TypeOK', Orderly
  PROVE  \A a \in Actor : \A d, e \in {x \in Event : x.tgt = a} :
           Before(Mailbox(a)', d, e) /\ e \in ToSet(Mailbox(a)) => Before(Mailbox(a), d, e)
<1>1. SUFFICES ASSUME NEW a \in Actor, NEW d \in {x \in Event : x.tgt = a}, NEW e \in {x \in Event : x.tgt = a},
                      Before(Mailbox(a)', d, e), e \in ToSet(Mailbox(a))
               PROVE  Before(Mailbox(a), d, e)
  OBVIOUS
<1>2. inbox'[a] \in Seq(Event) /\ eq' \in Seq(Event)
  BY DEF TypeOK
<1>3. Ahead(a, d, e)'
  BY <1>1, <1>2, BeforeConcat DEF Mailbox, Ahead
<1>4. e \in ToSet(inbox[a]) \/ e \in ToSet(eq)
  BY <1>1, AheadIs
<1>5. Ahead(a, d, e)
  BY <1>3, <1>4 DEF Orderly
<1> QED BY <1>5, AheadIs

(***************************************************************************)
(* No event overtakes another for the same actor, and nothing new gets     *)
(* ahead of an event already queued: an inbox holds the events of its own  *)
(* actor only (OwnInbox), and what a step adds to the event queue was in   *)
(* no mailbox (EventsApart).                                               *)
(***************************************************************************)
THEOREM OrderKept == Spec => NoOvertaking
<1> DEFINE Inv == TypeOK /\ OneTransaction /\ HomeInv /\ OwnInbox
           Ordered == \A a \in Actor : \A d, e \in {x \in Event : x.tgt = a} :
                     Before(Mailbox(a)', d, e) /\ e \in ToSet(Mailbox(a)) => Before(Mailbox(a), d, e)
<1>1. Init => Inv
  <2>1. Init => OwnInbox
    BY BeforeEmpty DEF Init, OwnInbox
  <2> QED BY <2>1, InitKeeps, InitHomes
<1>2. Inv /\ [Next]_vars => Inv' /\ Ordered
  <2>1. SUFFICES ASSUME Inv, [Next]_vars PROVE Inv' /\ Ordered
    OBVIOUS
  <2>2. TypeOK' /\ OneTransaction' /\ HomeInv'
    BY <2>1, NextKeeps, NextHomes
  <2>3. Moved
    BY <2>1, HomesApart, NextMoves
  <2>4. Orderly /\ OwnInbox'
    BY <2>1, <2>3, MovedOrderly
  <2>5. Ordered
    BY <2>1, <2>2, <2>4, OrderlyIsKept
  <2> QED BY <2>2, <2>4, <2>5
<1>3. Inv /\ [Next]_vars => [Ordered]_vars
  BY <1>2
<1> QED BY <1>1, <1>2, <1>3, PTL DEF Spec, NoOvertaking
=============================================================================
