------------------------------- MODULE MetaActor -------------------------------
(***************************************************************************)
(* Actors created by compiled Scheme: the code that lib/scheme.js makes of *)
(* (BEH ...), and the behaviors imm_actor, mut_actor and bsy_actor of      *)
(* lib/scm.asm that run it.                                                *)
(*                                                                         *)
(* A behavior with a BECOME in it is mutable, and its actor handles one    *)
(* message at a time: a transaction actor runs the body, and tells the     *)
(* actor of its new behavior when it is done, while the actor defers what  *)
(* it receives.  Any other behavior handles its messages at once.  Events  *)
(* are dispatched in order, but a body takes its time, so that bodies of   *)
(* the same actor may end in another order.                                *)
(***************************************************************************)
EXTENDS Naturals, Sequences, FiniteSets, SequencesExt

CONSTANTS
    Message, Behavior, None,
    Mutable,            \* the behaviors that contain a BECOME
    Endings             \* the ways a mutable body may end: "become", "none"

VARIABLES
    meta,       \* the code of the actor: "imm", "mut" or "bsy"
    beh,        \* the behavior in its state
    pending,    \* the messages deferred by bsy_actor
    txn,        \* the message whose transaction bsy_actor waits for
    queue,      \* the events for the actor, oldest first
    running,    \* the bodies being run, as [msg, beh]
    used        \* used[m]: the behavior that handled m

vars == <<meta, beh, pending, txn, queue, running, used>>

(* An event is a message, the end of a transaction, or a stray #nil.       *)
Msg(m) == [kind |-> "message", msg |-> m, beh |-> None]
Done(m, b) == [kind |-> "done", msg |-> m, beh |-> b]
Stray == [kind |-> "stray", msg |-> None, beh |-> None]

(* compile_behavior: the meta of a behavior.                               *)
Meta(b) == IF b \in Mutable THEN "mut" ELSE "imm"

(* (CREATE b), with the messages on their way in any order.                *)
Init ==
    /\ beh \in Behavior /\ meta = Meta(beh)
    /\ pending = <<>> /\ txn = None /\ running = {}
    /\ \E order \in SetToAllKPermutations(Message) :
          /\ Len(order) = Cardinality(Message)
          /\ queue = [i \in DOMAIN order |-> Msg(order[i])]
    /\ used = [m \in Message |-> None]

(* A stray message is not a transaction's, and its body does nothing.      *)
Begin(e, b) == running' = running \cup {[msg |-> e.msg, beh |-> b]}

Immediate ==
    /\ queue # <<>> /\ meta = "imm"
    /\ Begin(Head(queue), beh)
    /\ queue' = Tail(queue)
    /\ UNCHANGED <<meta, beh, pending, txn, used>>

(* mut_actor, with the start of txn_actor.                                 *)
Begins ==
    /\ queue # <<>> /\ meta = "mut"
    /\ Begin(Head(queue), beh)
    /\ txn' = Head(queue).msg /\ meta' = "bsy" /\ pending' = <<>>
    /\ queue' = Tail(queue)
    /\ UNCHANGED <<beh, used>>

(* bsy_actor, of anything but the end of its own transaction.              *)
Defer ==
    /\ queue # <<>> /\ meta = "bsy"
    /\ Head(queue) # Done(txn, Head(queue).beh)
    /\ pending' = Append(pending, Head(queue))
    /\ queue' = Tail(queue)
    /\ UNCHANGED <<meta, beh, txn, running, used>>

(* Mutant of Proceed: the deferred message is handled as it was deferred.  *)
ProceedStale(b) ==
    /\ Begin(Head(pending), beh)
    /\ txn' = Head(pending).msg /\ pending' = Tail(pending)
    /\ queue' = Tail(queue)
    /\ UNCHANGED meta

(* The next deferred message is handled with the new behavior.             *)
Proceed(b) ==
    /\ Begin(Head(pending), b)
    /\ txn' = Head(pending).msg /\ pending' = Tail(pending)
    /\ queue' = Tail(queue)
    /\ UNCHANGED meta

(* rdy_actor and rst_actor: what was deferred is sent to SELF again.       *)
Reset(b) ==
    /\ meta' = Meta(b) /\ txn' = None /\ pending' = <<>>
    /\ queue' = Tail(queue) \o pending
    /\ UNCHANGED running

(* cmt_actor and nxt_actor.                                                *)
Committed ==
    /\ queue # <<>> /\ meta = "bsy"
    /\ Head(queue) = Done(txn, Head(queue).beh)
    /\ LET b == IF Head(queue).beh \in Behavior THEN Head(queue).beh ELSE beh
       IN  /\ beh' = b
           /\ \/ pending # <<>> /\ b \in Mutable /\ Proceed(b)
              \/ ~(pending # <<>> /\ b \in Mutable) /\ Reset(b)
    /\ UNCHANGED used

(* The event that ends a body, as compile_behavior makes it.  An immutable *)
(* body only commits; BECOME sends the transaction and the new behavior;   *)
(* where there is no BECOME in a mutable body, #nil is sent, with no       *)
(* transaction.                                                            *)
Ends(r) ==
    IF r.beh \notin Mutable THEN {<<>>}
    ELSE (IF "become" \in Endings THEN {<<Done(r.msg, b)>> : b \in Behavior} ELSE {})
         \cup (IF "none" \in Endings THEN {<<Stray>>} ELSE {})

Body(r) ==
    /\ running' = running \ {r}
    /\ \E end \in Ends(r) : queue' = queue \o end
    /\ used' = IF r.msg \in Message THEN [used EXCEPT ![r.msg] = r.beh] ELSE used
    /\ UNCHANGED <<meta, beh, pending, txn>>

Next == Immediate \/ Begins \/ Defer \/ Committed \/ \E r \in running : Body(r)

(* The core dispatches every event, and runs every actor.                  *)
FairSpec == Init /\ [][Next]_vars
    /\ WF_vars(Immediate \/ Begins \/ Defer \/ Committed)
    /\ \A m \in Message : WF_vars(\E r \in running : r.msg = m /\ Body(r))

-----------------------------------------------------------------------------
(* The behavior that the handled messages left: the one on its way to the  *)
(* actor, if a transaction has ended and was not committed yet.            *)
Left ==
    IF \E i \in DOMAIN queue : queue[i].kind = "done"
    THEN (CHOOSE e \in ToSet(queue) : e.kind = "done").beh
    ELSE beh

(***************************************************************************)
(* The actor is a serial actor: a deferred message is handled with the     *)
(* behavior the last transaction left, no message is handled while another *)
(* one may still change the behavior, and none is handled twice.           *)
(***************************************************************************)
Serial == INSTANCE SerialActor WITH behavior <- Left, handled <- used
SerialSpec == Serial!Spec

(* Every message sent to the actor is handled.                             *)
EveryHandled == \A m \in Message : <>(used[m] # None)
=============================================================================
