-------------------------- MODULE ActorTransactions --------------------------
(***************************************************************************)
(* What the uFork scheduler promises to actor programs (docs/scheduler.md, *)
(* docs/errors.md): an actor processes one message-event at a time in a    *)
(* transaction.  A commit consumes the event, replaces the behaviour of    *)
(* its actor and sends all of the new events at once; an abort consumes    *)
(* the event and has no other effect; a suspended event stays pending as   *)
(* if it had never been started.  Queues, inboxes, sponsors and the order  *)
(* of instructions are left out.                                           *)
(***************************************************************************)
CONSTANTS
  Event,       \* the message-events; e.tgt is the target of e
  Actor,       \* the actors; any other target is a device
  Beh          \* their behaviours (code and state)

VARIABLES
  pend,        \* the events that have been sent and not been consumed
  beh,         \* the behaviour of every actor
  txn          \* for each actor in a transaction: its event and its effects

vars == <<pend, beh, txn>>

Init ==
  /\ pend = {}
  /\ beh \in [Actor -> Beh]
  /\ txn = [a \in {} |-> a]

Started == {txn[a].ev : a \in DOMAIN txn}

(* The transaction of a is over. *)
End(a) == txn' = [c \in DOMAIN txn \ {a} |-> txn[c]]

(* Events come in from the host, or tell a controller of its sponsor. *)
Arrive ==
  /\ pend \subseteq pend' /\ pend' \subseteq Event
  /\ UNCHANGED <<beh, txn>>

(* A transaction begins with the current behaviour and an empty outbox. *)
Begin(e) ==
  /\ e \in pend \ Started
  /\ e.tgt \in Actor \ DOMAIN txn
  /\ txn' = [c \in DOMAIN txn \cup {e.tgt} |->
               IF c = e.tgt THEN [ev |-> e, beh |-> beh[c], out |-> {}] ELSE txn[c]]
  /\ UNCHANGED <<pend, beh>>

(* An instruction adds to the effects of one transaction. *)
Effect(a) ==
  /\ DOMAIN txn' = DOMAIN txn
  /\ \A c \in DOMAIN txn \ {a} : txn'[c] = txn[c]
  /\ txn'[a].ev = txn[a].ev /\ txn[a].out \subseteq txn'[a].out
  /\ UNCHANGED <<pend, beh>>

Commit(a) ==
  /\ pend' = (pend \ {txn[a].ev}) \cup txn[a].out
  /\ beh' = [beh EXCEPT ![a] = txn[a].beh]
  /\ End(a)

Abort(a) ==
  /\ pend' = pend \ {txn[a].ev}
  /\ End(a)
  /\ UNCHANGED beh

(* The event stays pending; the controller of its sponsor may be told. *)
Suspend(a) ==
  /\ pend \subseteq pend' /\ pend' \subseteq Event
  /\ End(a)
  /\ UNCHANGED beh

(* An event is dropped because its sponsor was stopped. *)
Discard(e) ==
  /\ e \in pend \ Started
  /\ pend' = pend \ {e}
  /\ UNCHANGED <<beh, txn>>

(* A device consumes an event, and may send others. *)
Handle(e) ==
  /\ e \in pend \ pend' /\ e.tgt \notin Actor
  /\ pend \ {e} \subseteq pend' /\ pend' \subseteq Event
  /\ UNCHANGED <<beh, txn>>

Next ==
  \/ Arrive
  \/ \E e \in Event : Begin(e) \/ Discard(e) \/ Handle(e)
  \/ \E a \in DOMAIN txn : Effect(a) \/ Commit(a) \/ Abort(a) \/ Suspend(a)

Spec == Init /\ [][Next]_vars
=============================================================================
