---------------------------- MODULE MetaActorProofs ----------------------------
(***************************************************************************)
(* An actor of a compiled Scheme program is a serial actor, for any        *)
(* messages and behaviors and any way its bodies end.                      *)
(***************************************************************************)
EXTENDS MetaActor, SequenceFacts, FiniteSetTheorems

EventType ==
  [kind : {"message", "done", "stray"}, msg : Message \cup {None}, beh : Behavior \cup {None}]
BodyType == [msg : Message \cup {None}, beh : Behavior]

Types ==
  /\ meta \in {"imm", "mut", "bsy"} /\ beh \in Behavior
  /\ queue \in Seq(EventType) /\ pending \in Seq(EventType)
  /\ running \subseteq BodyType
  /\ used \in [Message -> Behavior \cup {None}]

(* The messages on their way, and the end of the transaction.              *)
Messages == {Msg(m) : m \in Message}
Ended == {Done(txn, b) : b \in Behavior}

(* Nothing ends the transaction any more: a body without a BECOME ended.   *)
Stuck == meta = "bsy" /\ running = {} /\ \A e \in ToSet(queue) : e.kind # "done"

(* Every message is in one place: queued, deferred, being handled by a     *)
(* body that was given the actor's behavior, or handled.                   *)
Once ==
  /\ Distinct(queue) /\ Distinct(pending)
  /\ ToSet(queue) \cap ToSet(pending) = {} /\ ToSet(pending) \subseteq Messages
  /\ \A m \in Message : Msg(m) \in ToSet(queue) \cup ToSet(pending) =>
       used[m] = None /\ \A r \in running : r.msg # m
  /\ \A r \in running : r.msg \in Message /\ used[r.msg] = None /\ r.beh = beh

(* What the code of the actor says of the rest of the state.  An actor     *)
(* that is busy waits for the one body that runs, or for its end.          *)
Phase ==
  /\ meta = "imm" => beh \notin Mutable
  /\ meta = "mut" => running = {}
  /\ meta # "bsy" => ToSet(queue) \subseteq Messages
  /\ meta = "bsy" =>
       \/ running = {[msg |-> txn, beh |-> beh]} /\ ToSet(queue) \subseteq Messages
       \/ /\ running = {}
          /\ \E e \in Ended : e \in ToSet(queue) /\ ToSet(queue) \subseteq Messages \cup {e}

MetaInv == Types /\ (Stuck \/ (Once /\ Phase))

(* What the module of the actor leaves open.                               *)
Constants == IsFiniteSet(Message) /\ None \notin Message /\ None \notin Behavior

-----------------------------------------------------------------------------
(* Queues of events *)

(* A queue of one event.                                                   *)
LEMMA Alone ==
  ASSUME NEW S, NEW e \in S
  PROVE  <<e>> \in Seq(S) /\ ToSet(<<e>>) = {e} /\ Distinct(<<e>>)
<1>1. PICK s : s = <<e>>
  OBVIOUS
<1>2. s \in Seq(S) /\ DOMAIN s = {1} /\ s[1] = e
  BY <1>1
<1>3. ToSet(s) = {e} /\ Distinct(s)
  BY <1>2 DEF ToSet, Distinct
<1> QED BY <1>1, <1>2, <1>3

(* An empty queue.                                                         *)
LEMMA NoEvent ==
  /\ \A S : <<>> \in Seq(S)
  /\ ToSet(<<>>) = {} /\ Distinct(<<>>)
BY DEF ToSet, Distinct

(* A message, the end of a transaction and #nil are events of three kinds. *)
LEMMA Kinds ==
  ASSUME Constants
  PROVE  /\ \A m \in Message : Msg(m) \in EventType /\ Msg(m).kind = "message" /\ Msg(m).msg = m
         /\ \A m \in Message \cup {None}, b \in Behavior :
              Done(m, b) \in EventType /\ Done(m, b).kind = "done" /\ Done(m, b).beh = b
         /\ Stray \in EventType /\ Stray.kind = "stray"
         /\ \A m, n \in Message : Msg(m) = Msg(n) => m = n
BY DEF Msg, Done, Stray, EventType

(* The first event of the actor, and the others.                           *)
LEMMA Taken ==
  ASSUME NEW q \in Seq(EventType), q # <<>>
  PROVE  /\ Head(q) \in EventType /\ Tail(q) \in Seq(EventType)
         /\ ToSet(q) = {Head(q)} \cup ToSet(Tail(q))
         /\ Distinct(q) => Distinct(Tail(q)) /\ Head(q) \notin ToSet(Tail(q))
BY DistinctTail, ElemsTail, Queued1

-----------------------------------------------------------------------------
(* The behavior that the handled messages left *)

LeftOf(q, b) ==
  IF \E i \in DOMAIN q : q[i].kind = "done" THEN (CHOOSE e \in ToSet(q) : e.kind = "done").beh ELSE b

LEMMA LeftIs == Left = LeftOf(queue, beh) /\ Left' = LeftOf(queue', beh')
BY DEF Left, LeftOf

(* It is the actor's, unless a transaction has ended.                      *)
LEMMA LeftBeh ==
  ASSUME NEW q, NEW b, \A e \in ToSet(q) : e.kind # "done"
  PROVE  LeftOf(q, b) = b
BY DEF LeftOf, ToSet

(* It is the one that ended the transaction, if one has.                   *)
LEMMA LeftDone ==
  ASSUME Constants, NEW q, NEW b, NEW e, e.kind = "done", e \in ToSet(q), ToSet(q) \subseteq Messages \cup {e}
  PROVE  LeftOf(q, b) = e.beh
<1>1. \A d \in ToSet(q) : d.kind = "done" <=> d = e
  BY Kinds DEF Messages
<1>2. \E i \in DOMAIN q : q[i].kind = "done"
  BY DEF ToSet
<1>3. (CHOOSE d \in ToSet(q) : d.kind = "done") = e
  BY <1>1
<1> QED BY <1>2, <1>3 DEF LeftOf

-----------------------------------------------------------------------------
(* The invariant, and the steps of the serial actor *)

Serves == Serial!Next \/ UNCHANGED <<Left, used>>

(* The invariant holds of an actor that was created.                       *)
LEMMA InitMeta ==
  ASSUME Constants, Init
  PROVE  MetaInv /\ Serial!Init
<1>1. /\ beh \in Behavior /\ meta = Meta(beh) /\ pending = <<>> /\ running = {}
      /\ used = [m \in Message |-> None]
  BY DEF Init
<1>2. PICK order \in SetToAllKPermutations(Message) : queue = [i \in DOMAIN order |-> Msg(order[i])]
  BY DEF Init
<1>3. PICK s \in SUBSET Message : order \in SetToSeqs(s)
  BY <1>2 DEF SetToAllKPermutations
<1>4. PICK n \in Nat : n = Cardinality(s)
  BY <1>3, FS_Subset, FS_CardinalityType DEF Constants
<1>5. order \in [1 .. n -> s] /\ \A i, j \in 1 .. n : i # j => order[i] # order[j]
  BY <1>3, <1>4 DEF SetToSeqs
<1>6. DOMAIN queue = 1 .. n /\ \A i \in 1 .. n : order[i] \in Message /\ queue[i] = Msg(order[i])
  BY <1>2, <1>5
<1>7. queue \in [1 .. n -> EventType]
  BY <1>2, <1>5, <1>6, Kinds
<1>8. queue \in Seq(EventType)
  BY <1>7, SeqDef
<1>9. ToSet(queue) \subseteq Messages
  BY <1>6 DEF ToSet, Messages
<1>10. Distinct(queue)
  BY <1>5, <1>6, Kinds DEF Distinct
<1>11. Types
  BY <1>1, <1>8, NoEvent DEF Types, Meta
<1>12. Once
  BY <1>1, <1>10, NoEvent DEF Once
<1>13. Phase
  BY <1>1, <1>9 DEF Phase, Meta
<1>14. Left = beh
  BY <1>9, LeftBeh, LeftIs, Kinds DEF Messages
<1> QED BY <1>1, <1>11, <1>12, <1>13, <1>14 DEF MetaInv, Serial!Init

(* A message of the queue is taken out, and given to a body.               *)
LEMMA Given ==
  ASSUME Constants, Types, Once, queue # <<>>, ToSet(queue) \subseteq Messages,
         Begin(Head(queue), beh), queue' = Tail(queue), used' = used, beh' = beh,
         pending' = pending \/ pending' = <<>>,
         meta' \in {"imm", "mut", "bsy"}
  PROVE  /\ Types' /\ Once' /\ ToSet(queue') \subseteq Messages
         /\ \E m \in Message :
              Head(queue) = Msg(m) /\ running' = running \cup {[msg |-> m, beh |-> beh]}
<1>0. queue \in Seq(EventType) /\ pending \in Seq(EventType)
  BY DEF Types
<1>1. PICK m \in Message : Head(queue) = Msg(m)
  <2>1. Head(queue) \in Messages
    BY <1>0, Taken
  <2> QED BY <2>1 DEF Messages
<1>2. running' = running \cup {[msg |-> m, beh |-> beh]}
  BY <1>1, Kinds DEF Begin
<1>3. /\ queue' \in Seq(EventType) /\ ToSet(queue) = {Msg(m)} \cup ToSet(queue')
      /\ Distinct(queue') /\ Msg(m) \notin ToSet(queue')
  BY <1>0, <1>1, Taken DEF Once
<1>4. Types'
  <2>1. pending' \in Seq(EventType)
    BY <1>0, NoEvent
  <2>2. [msg |-> m, beh |-> beh] \in BodyType
    BY DEF Types, BodyType
  <2>3. running' \subseteq BodyType
    BY <1>2, <2>2 DEF Types
  <2>4. EventType' = EventType /\ BodyType' = BodyType
    BY DEF EventType, BodyType
  <2> QED BY <1>3, <2>1, <2>3, <2>4 DEF Types
<1>5. Distinct(pending') /\ ToSet(pending') \subseteq ToSet(pending)
  BY NoEvent DEF Once
<1>6. Msg(m) \notin ToSet(pending')
  BY <1>3, <1>5 DEF Once
<1>7. ASSUME NEW k \in Message, Msg(k) \in ToSet(queue') \cup ToSet(pending')
      PROVE  used[k] = None /\ \A r \in running' : r.msg # k
  <2>1. used[k] = None /\ \A r \in running : r.msg # k
    BY <1>3, <1>5, <1>7 DEF Once
  <2>2. k # m
    BY <1>3, <1>6, <1>7
  <2> QED BY <1>2, <2>1, <2>2
<1>8. used[m] = None
  BY <1>3 DEF Once
<1>9. \A r \in running' : r.msg \in Message /\ used[r.msg] = None /\ r.beh = beh
  BY <1>2, <1>8 DEF Once
<1>10. Once'
  <2>1. Distinct(queue') /\ Distinct(pending')
    BY <1>3, <1>5
  <2>2. ToSet(queue') \cap ToSet(pending') = {} /\ ToSet(pending') \subseteq Messages
    BY <1>3, <1>5 DEF Once
  <2>3. Messages' = Messages
    BY DEF Messages, Msg
  <2> QED BY <1>7, <1>9, <2>1, <2>2, <2>3 DEF Once
<1> QED BY <1>1, <1>2, <1>3, <1>4, <1>10
(* An actor that is not busy has only messages, and is not stuck.          *)
LEMMA Free ==
  ASSUME Constants, MetaInv, meta # "bsy"
  PROVE  Types /\ Once /\ Phase /\ ToSet(queue) \subseteq Messages /\ Left = beh
<1>1. Types /\ Once /\ Phase /\ ToSet(queue) \subseteq Messages
  BY DEF MetaInv, Stuck, Phase
<1> QED BY <1>1, LeftBeh, LeftIs, Kinds DEF Messages

(* imm_actor gives a message to a body.                                    *)
LEMMA ImmediateServes ==
  ASSUME Constants, MetaInv, Immediate
  PROVE  MetaInv' /\ Serves
<1>1. Types /\ Once /\ Phase /\ ToSet(queue) \subseteq Messages /\ Left = beh
  BY Free DEF Immediate
<1>2. Types' /\ Once' /\ ToSet(queue') \subseteq Messages
  BY <1>1, Given DEF Immediate, Types
<1>3. Messages' = Messages
  BY DEF Messages, Msg
<1>4. Phase'
  BY <1>1, <1>2, <1>3 DEF Phase, Immediate
<1>5. Left' = beh'
  BY <1>2, LeftBeh, LeftIs, Kinds DEF Messages
<1> QED BY <1>1, <1>2, <1>4, <1>5 DEF MetaInv, Serves, Immediate

(* mut_actor begins a transaction.                                         *)
LEMMA BeginsServes ==
  ASSUME Constants, MetaInv, Begins
  PROVE  MetaInv' /\ Serves
<1>1. Types /\ Once /\ Phase /\ ToSet(queue) \subseteq Messages /\ Left = beh
  BY Free DEF Begins
<1>2. /\ Types' /\ Once' /\ ToSet(queue') \subseteq Messages
      /\ \E m \in Message : Head(queue) = Msg(m) /\ running' = running \cup {[msg |-> m, beh |-> beh]}
  BY <1>1, Given DEF Begins
<1>3. running' = {[msg |-> txn', beh |-> beh']}
  BY <1>1, <1>2, Kinds DEF Phase, Begins
<1>4. Messages' = Messages
  BY DEF Messages, Msg
<1>5. Phase'
  BY <1>2, <1>3, <1>4 DEF Phase, Begins
<1>6. Left' = beh'
  BY <1>2, LeftBeh, LeftIs, Kinds DEF Messages
<1> QED BY <1>1, <1>2, <1>5, <1>6 DEF MetaInv, Serves, Begins
(* bsy_actor defers an event.                                              *)
LEMMA DeferServes ==
  ASSUME Constants, MetaInv, Defer
  PROVE  MetaInv' /\ Serves
<1> DEFINE h == Head(queue)
<1>1. /\ Types /\ queue # <<>> /\ queue \in Seq(EventType) /\ pending \in Seq(EventType) /\ meta = "bsy"
      /\ h # Done(txn, h.beh) /\ pending' = Append(pending, h) /\ queue' = Tail(queue)
      /\ UNCHANGED <<meta, beh, txn, running, used>>
  BY DEF MetaInv, Types, Defer
<1>2. /\ h \in EventType /\ queue' \in Seq(EventType) /\ ToSet(queue) = {h} \cup ToSet(queue')
      /\ Distinct(queue) => Distinct(queue') /\ h \notin ToSet(queue')
  BY <1>1, Taken
<1>3. pending' \in Seq(EventType) /\ ToSet(pending') = ToSet(pending) \cup {h}
  BY <1>1, <1>2, ElemsAppend
<1> HIDE DEF h
<1>4. /\ EventType' = EventType /\ BodyType' = BodyType /\ Messages' = Messages /\ Ended' = Ended
  BY <1>1 DEF EventType, BodyType, Messages, Ended, Msg, Done
<1>5. Types'
  BY <1>1, <1>2, <1>3, <1>4 DEF Types
<1>6. CASE Stuck
  <2>1. Stuck'
    BY <1>1, <1>2, <1>6 DEF Stuck
  <2>2. Left = beh /\ Left' = beh'
    BY <1>6, <2>1, LeftBeh, LeftIs DEF Stuck
  <2> QED BY <1>1, <1>5, <2>1, <2>2 DEF MetaInv, Serves
<1>7. CASE Once /\ Phase
  <2>1. h \in Messages
    <3>1. \A e \in Ended : h # e
      BY <1>1 DEF Ended, Done
    <3> QED BY <1>1, <1>2, <1>7, <3>1 DEF Phase
  <2>2. PICK m \in Message : h = Msg(m)
    BY <2>1 DEF Messages
  <2>3. h \notin ToSet(pending) /\ Distinct(pending) /\ Distinct(queue)
    BY <1>2, <1>7 DEF Once
  <2>4. Distinct(pending')
    BY <1>1, <1>2, <2>3, DistinctAppend
  <2>5. ToSet(queue') \cap ToSet(pending') = {}
    BY <1>2, <1>3, <1>7, <2>3 DEF Once
  <2>6. ToSet(pending') \subseteq Messages
    BY <1>3, <1>7, <2>1 DEF Once
  <2>7. ToSet(queue') \cup ToSet(pending') = ToSet(queue) \cup ToSet(pending)
    BY <1>2, <1>3
  <2>8. Once'
    BY <1>1, <1>2, <1>4, <1>7, <2>3, <2>4, <2>5, <2>6, <2>7 DEF Once
  <2>9. CASE running = {[msg |-> txn, beh |-> beh]} /\ ToSet(queue) \subseteq Messages
    <3>1. Phase'
      BY <1>1, <1>2, <1>4, <2>9 DEF Phase
    <3>2. Left = beh /\ Left' = beh'
      BY <1>2, <2>9, LeftBeh, LeftIs, Kinds DEF Messages
    <3> QED BY <1>1, <1>5, <2>8, <3>1, <3>2 DEF MetaInv, Serves
  <2>10. CASE running = {} /\ \E e \in Ended : e \in ToSet(queue) /\ ToSet(queue) \subseteq Messages \cup {e}
    <3>1. PICK e \in Ended : e \in ToSet(queue) /\ ToSet(queue) \subseteq Messages \cup {e}
      BY <2>10
    <3>2. e.kind = "done" /\ e # h
      BY <1>1 DEF Ended, Done
    <3>3. e \in ToSet(queue') /\ ToSet(queue') \subseteq Messages \cup {e}
      BY <1>2, <3>1, <3>2
    <3>4. Phase'
      BY <1>1, <1>4, <2>10, <3>3 DEF Phase
    <3>5. Left = e.beh /\ Left' = e.beh
      BY <3>1, <3>2, <3>3, LeftDone, LeftIs
    <3> QED BY <1>1, <1>5, <2>8, <3>4, <3>5 DEF MetaInv, Serves
  <2> QED BY <1>1, <1>7, <2>9, <2>10 DEF Phase
<1> QED BY <1>6, <1>7 DEF MetaInv

(* cmt_actor takes the end of the transaction: the actor has the new       *)
(* behavior, and handles a message it deferred or receives them again.     *)
LEMMA CommittedServes ==
  ASSUME Constants, MetaInv, Committed
  PROVE  MetaInv' /\ Serves
<1> DEFINE h == Head(queue)
<1>1. /\ Types /\ queue # <<>> /\ queue \in Seq(EventType) /\ pending \in Seq(EventType) /\ meta = "bsy"
      /\ h = Done(txn, h.beh) /\ used' = used
  BY DEF MetaInv, Types, Committed
<1>2. /\ Tail(queue) \in Seq(EventType) /\ ToSet(queue) = {h} \cup ToSet(Tail(queue))
      /\ Distinct(queue) => Distinct(Tail(queue)) /\ h \notin ToSet(Tail(queue))
  BY <1>1, Taken
<1>3. h.kind = "done" /\ h \notin Messages
  BY <1>1, Kinds DEF Messages, Done
<1>4. Once /\ Phase
  BY <1>2, <1>3 DEF MetaInv, Stuck
<1>5. /\ running = {} /\ h \in Ended /\ ToSet(queue) \subseteq Messages \cup {h}
  BY <1>1, <1>2, <1>3, <1>4 DEF Phase
<1>6. PICK b : b = h.beh
  OBVIOUS
<1>7. b \in Behavior
  <2>1. PICK c \in Behavior : h = Done(txn, c)
    BY <1>5 DEF Ended
  <2>2. Done(txn, c).beh = c
    BY DEF Done
  <2> QED BY <1>6, <2>1, <2>2
<1>8. /\ beh' = b
      /\ (pending # <<>> /\ b \in Mutable /\ Proceed(b)) \/ Reset(b)
  BY <1>6, <1>7 DEF Committed
<1>9. Left = b
  BY <1>2, <1>3, <1>5, <1>6, LeftDone, LeftIs
<1>10. ToSet(Tail(queue)) \subseteq Messages /\ Distinct(Tail(queue))
  BY <1>2, <1>4, <1>5 DEF Once
<1> HIDE DEF h
<1>11. EventType' = EventType /\ BodyType' = BodyType /\ Messages' = Messages
  BY DEF EventType, BodyType, Messages, Msg
<1>12. CASE pending # <<>> /\ b \in Mutable /\ Proceed(b)
  <2>1. /\ ToSet(pending) = {Head(pending)} \cup ToSet(Tail(pending)) /\ Tail(pending) \in Seq(EventType)
        /\ Distinct(Tail(pending)) /\ Head(pending) \notin ToSet(Tail(pending))
    BY <1>1, <1>4, <1>12, Taken DEF Once
  <2>2. PICK m \in Message : Head(pending) = Msg(m)
    <3>1. Head(pending) \in Messages
      BY <1>4, <2>1 DEF Once
    <3> QED BY <3>1 DEF Messages
  <2>3. /\ running' = {[msg |-> m, beh |-> b]} /\ txn' = m /\ pending' = Tail(pending)
        /\ queue' = Tail(queue) /\ meta' = meta
    BY <1>5, <1>12, <2>2, Kinds DEF Proceed, Begin
  <2>4. Types'
    <3>1. [msg |-> m, beh |-> b] \in BodyType
      BY <1>7 DEF BodyType
    <3>2. running' \subseteq BodyType
      BY <2>3, <3>1
    <3> QED BY <1>1, <1>2, <1>7, <1>8, <1>11, <2>1, <2>3, <3>2 DEF Types
  <2>5. used[m] = None
    BY <1>4, <2>1, <2>2 DEF Once
  <2>6. ASSUME NEW k \in Message, Msg(k) \in ToSet(queue') \cup ToSet(pending')
        PROVE  used'[k] = None /\ \A r \in running' : r.msg # k
    <3>1. Msg(k) \in ToSet(queue) \cup ToSet(pending)
      BY <1>2, <2>1, <2>3, <2>6
    <3>2. Msg(m) \in ToSet(pending) /\ Msg(m) \notin ToSet(Tail(pending))
      BY <2>1, <2>2
    <3>3. Msg(m) \notin ToSet(queue)
      BY <1>4, <3>2 DEF Once
    <3>4. k # m
      BY <1>2, <2>3, <2>6, <3>2, <3>3
    <3> QED BY <1>1, <1>4, <2>3, <3>1, <3>4 DEF Once
  <2>7. ToSet(queue') \cap ToSet(pending') = {} /\ ToSet(pending') \subseteq Messages
    BY <1>2, <1>4, <2>1, <2>3 DEF Once
  <2>8. Once'
    BY <1>1, <1>8, <1>10, <1>11, <2>1, <2>3, <2>5, <2>6, <2>7 DEF Once
  <2>9. Phase'
    BY <1>1, <1>8, <1>10, <1>11, <2>3 DEF Phase
  <2>10. Left' = b
    BY <1>8, <1>10, <2>3, LeftBeh, LeftIs, Kinds DEF Messages
  <2> QED BY <1>1, <1>9, <2>4, <2>8, <2>9, <2>10 DEF MetaInv, Serves
<1>13. CASE Reset(b)
  <2>1. /\ meta' = Meta(b) /\ pending' = <<>> /\ queue' = Tail(queue) \o pending /\ running' = {}
    BY <1>5, <1>13 DEF Reset
  <2>2. queue' \in Seq(EventType) /\ ToSet(queue') = ToSet(Tail(queue)) \cup ToSet(pending)
    <3>1. Tail(queue) \in Seq(EventType) /\ pending \in Seq(EventType)
      BY <1>1, <1>2
    <3>2. /\ Tail(queue) \o pending \in Seq(EventType)
          /\ ToSet(Tail(queue) \o pending) = ToSet(Tail(queue)) \cup ToSet(pending)
      BY <3>1, ElemsConcat
    <3> QED BY <2>1, <3>2
  <2>3. Distinct(queue')
    <3>1. ToSet(Tail(queue)) \cap ToSet(pending) = {} /\ Distinct(pending)
      BY <1>2, <1>4 DEF Once
    <3> QED BY <1>1, <1>2, <1>10, <2>1, <3>1, DistinctConcat
  <2>4. Types'
    BY <1>1, <1>7, <1>8, <1>11, <2>1, <2>2, NoEvent DEF Types, Meta
  <2>5. ToSet(queue') \subseteq ToSet(queue) \cup ToSet(pending) /\ ToSet(queue') \subseteq Messages
    BY <1>2, <1>4, <1>10, <2>2 DEF Once
  <2>6. Once'
    BY <1>1, <1>4, <1>5, <1>11, <2>1, <2>3, <2>5, NoEvent DEF Once
  <2>7. Phase'
    BY <1>8, <1>11, <2>1, <2>5 DEF Phase, Meta
  <2>8. Left' = b
    BY <1>8, <2>5, LeftBeh, LeftIs, Kinds DEF Messages
  <2> QED BY <1>1, <1>9, <2>4, <2>6, <2>7, <2>8 DEF MetaInv, Serves
<1> QED BY <1>8, <1>12, <1>13
(* A body that ends has handled its message with the behavior of the       *)
(* actor, which nothing can have changed, and leaves one for the next.     *)
LEMMA BodyServes ==
  ASSUME Constants, MetaInv, NEW r \in running, Body(r)
  PROVE  MetaInv' /\ Serves
<1>1. Types /\ Once /\ Phase
  BY DEF MetaInv, Stuck
<1>2. /\ queue \in Seq(EventType) /\ r.msg \in Message /\ used[r.msg] = None /\ r.beh = beh
      /\ beh \in Behavior /\ ToSet(queue) \subseteq Messages
      /\ \A m \in Message : Msg(m) \in ToSet(queue) \cup ToSet(pending) => m # r.msg
  BY <1>1 DEF Types, Once, Phase
<1>3. Left = beh
  BY <1>2, LeftBeh, LeftIs, Kinds DEF Messages
<1>4. /\ running' = running \ {r} /\ used' = [used EXCEPT ![r.msg] = beh]
      /\ UNCHANGED <<meta, beh, pending, txn>>
  BY <1>2 DEF Body
<1>5. /\ used' \in [Message -> Behavior \cup {None}]
      /\ \A m \in Message : m # r.msg => used'[m] = used[m]
  BY <1>1, <1>2, <1>4 DEF Types
<1>6. /\ EventType' = EventType /\ BodyType' = BodyType /\ Messages' = Messages /\ Ended' = Ended
  BY <1>4 DEF EventType, BodyType, Messages, Ended, Msg, Done
<1>7. ASSUME Left' \in Behavior PROVE Serves
  BY <1>2, <1>3, <1>4, <1>7 DEF Serves, Serial!Next, Serial!Handle
<1>8. ASSUME queue' \in Seq(EventType) PROVE Types'
  BY <1>1, <1>4, <1>5, <1>6, <1>8 DEF Types
<1>9. ASSUME Distinct(queue'), ToSet(queue') \cap Messages = ToSet(queue), ToSet(queue') \cap ToSet(pending) = {},
             \A q \in running' : q.msg # r.msg
      PROVE  Once'
  <2>1. ASSUME NEW k \in Message, Msg(k) \in ToSet(queue') \cup ToSet(pending')
        PROVE  used'[k] = None /\ \A q \in running' : q.msg # k
    <3>1. Msg(k) \in Messages
      BY DEF Messages
    <3>2. Msg(k) \in ToSet(queue) \cup ToSet(pending)
      BY <1>4, <1>9, <2>1, <3>1
    <3> QED BY <1>1, <1>2, <1>4, <1>5, <3>2 DEF Once
  <2>2. \A q \in running' : q.msg \in Message /\ used'[q.msg] = None /\ q.beh = beh'
    BY <1>1, <1>4, <1>5, <1>9 DEF Once
  <2> QED BY <1>1, <1>4, <1>6, <1>9, <2>1, <2>2 DEF Once
<1>10. PICK end \in Ends(r) : queue' = queue \o end
  BY DEF Body
<1>11. \A q \in running' : q.msg # r.msg
  <2>1. ASSUME NEW q \in running', q.msg = r.msg PROVE FALSE
    <3>1. q \in BodyType /\ r \in BodyType
      BY <1>1, <1>4 DEF Types
    <3>2. q.beh = r.beh /\ q \in running /\ q # r
      BY <1>1, <1>4 DEF Once
    <3> QED BY <2>1, <3>1, <3>2 DEF BodyType
  <2> QED BY <2>1
<1>12. CASE end = <<>>
  <2>1. queue' = queue
    BY <1>2, <1>10, <1>12, ConcatEmptySeq
  <2>2. Left' = beh
    BY <1>2, <1>4, <2>1, LeftBeh, LeftIs, Kinds DEF Messages
  <2>3. Types' /\ Serves
    BY <1>2, <1>7, <1>8, <2>1, <2>2
  <2>4. CASE meta = "bsy"
    <3>1. running' = {}
      BY <1>1, <1>4, <2>4 DEF Phase
    <3>2. Stuck'
      BY <1>2, <1>4, <2>1, <2>4, <3>1, Kinds DEF Stuck, Messages
    <3> QED BY <2>3, <3>2 DEF MetaInv
  <2>5. CASE meta # "bsy"
    <3>1. Once'
      BY <1>1, <1>2, <1>9, <1>11, <2>1 DEF Once
    <3>2. Phase'
      BY <1>1, <1>2, <1>4, <1>6, <2>1, <2>5 DEF Phase
    <3> QED BY <2>3, <3>1, <3>2 DEF MetaInv
  <2> QED BY <2>4, <2>5
<1>13. CASE end # <<>>
  <2>1. beh \in Mutable
    BY <1>2, <1>13 DEF Ends
  <2>2. meta = "bsy" /\ running = {[msg |-> txn, beh |-> beh]}
    BY <1>1, <2>1 DEF Phase, Types
  <2>3. running' = {} /\ r.msg = txn
    BY <1>4, <2>2
  <2>4. PICK e : end = <<e>> /\ (e = Stray \/ \E b \in Behavior : e = Done(txn, b))
    BY <1>13, <2>3 DEF Ends
  <2>5. e \in EventType /\ e.kind # "message"
    BY <1>2, <2>3, <2>4, Kinds
  <2>6. /\ queue' \in Seq(EventType) /\ ToSet(queue') = ToSet(queue) \cup {e}
        /\ e \notin Messages /\ Distinct(<<e>>) /\ <<e>> \in Seq(EventType) /\ ToSet(<<e>>) = {e}
    <3>1. Distinct(<<e>>) /\ <<e>> \in Seq(EventType) /\ ToSet(<<e>>) = {e}
      BY <2>5, Alone
    <3>2. queue' \in Seq(EventType) /\ ToSet(queue') = ToSet(queue) \cup {e}
      <4>1. end \in Seq(EventType) /\ ToSet(end) = {e}
        BY <2>4, <3>1
      <4>2. queue \o end \in Seq(EventType) /\ ToSet(queue \o end) = ToSet(queue) \cup ToSet(end)
        BY <1>2, <4>1, ElemsConcat
      <4> QED BY <1>10, <4>1, <4>2
    <3>3. e \notin Messages
      BY <2>5, Kinds DEF Messages
    <3> QED BY <3>1, <3>2, <3>3
  <2>7. CASE e = Stray
    <3>1. Stuck'
      BY <1>2, <1>4, <2>2, <2>3, <2>6, <2>7, Kinds DEF Stuck, Messages
    <3>2. Left' = beh
      BY <1>4, <3>1, LeftBeh, LeftIs DEF Stuck
    <3> QED BY <1>2, <1>7, <1>8, <2>6, <3>1, <3>2 DEF MetaInv
  <2>8. CASE \E b \in Behavior : e = Done(txn, b)
    <3>1. e \in Ended /\ e.kind = "done" /\ e.beh \in Behavior
      BY <1>2, <2>3, <2>8, Kinds DEF Ended
    <3>2. Distinct(queue')
      BY <1>1, <1>2, <1>10, <2>4, <2>6, DistinctConcat DEF Once
    <3>3. ToSet(queue') \cap Messages = ToSet(queue) /\ ToSet(queue') \cap ToSet(pending) = {}
      BY <1>1, <1>2, <2>6 DEF Once
    <3>4. Once'
      BY <1>9, <1>11, <3>2, <3>3
    <3>5. e \in ToSet(queue') /\ ToSet(queue') \subseteq Messages \cup {e}
      BY <1>2, <2>6
    <3>6. Phase'
      BY <1>4, <1>6, <2>2, <2>3, <3>1, <3>5 DEF Phase
    <3>7. Left' = e.beh
      BY <3>1, <3>5, LeftDone, LeftIs
    <3> QED BY <1>7, <1>8, <2>6, <3>1, <3>4, <3>6, <3>7 DEF MetaInv
  <2> QED BY <2>4, <2>7, <2>8
<1> QED BY <1>12, <1>13

(***************************************************************************)
(* An actor created by a compiled Scheme program handles its messages one  *)
(* at a time, each with the behavior that the one handled before it left,  *)
(* and none twice, whatever the order in which they arrive and however     *)
(* long a body takes: imm_actor, mut_actor and bsy_actor implement         *)
(* SerialActor.                                                            *)
(***************************************************************************)
THEOREM ActorsSerial ==
  ASSUME IsFiniteSet(Message), None \notin Message, None \notin Behavior
  PROVE  FairSpec => SerialSpec
<1>0. Constants
  BY DEF Constants
<1>1. Init => MetaInv /\ Serial!Init
  BY <1>0, InitMeta
<1>2. MetaInv /\ [Next]_vars => MetaInv' /\ [Serial!Next]_<<Left, used>>
  <2> SUFFICES ASSUME MetaInv, [Next]_vars
               PROVE  MetaInv' /\ (Serial!Next \/ UNCHANGED <<Left, used>>)
    OBVIOUS
  <2>1. CASE Next
    BY <1>0, <2>1, ImmediateServes, BeginsServes, DeferServes, CommittedServes, BodyServes DEF Next, Serves
  <2>2. CASE UNCHANGED vars
    <3>1. Left' = Left
      BY <2>2, LeftIs DEF vars
    <3>2. MetaInv'
      BY <2>2 DEF vars, MetaInv, Types, Stuck, Once, Phase, EventType, BodyType, Messages, Ended, Msg, Done
    <3> QED BY <2>2, <3>1, <3>2 DEF vars
  <2> QED BY <2>1, <2>2
<1> QED BY <1>1, <1>2, PTL DEF FairSpec, SerialSpec, Serial!Spec
=============================================================================
