------------------------------ MODULE Scheduler ------------------------------
(***************************************************************************)
(* The run-loop, event dispatch, actor transactions and sponsors of a      *)
(* uFork core (vm/rs/src/core.rs).  One iteration of run_loop() executes   *)
(* one instruction of the first continuation and dispatches one event; in  *)
(* between, while run_loop() is not running, the host adds events and      *)
(* refills the root sponsor.                                               *)
(*                                                                         *)
(* Abstracted: what a message says; which instruction a program runs next  *)
(* (any of them, Steps at most in a transaction); the memory and cycle     *)
(* quotas, which an instruction may find exhausted at any time (Exhaust).  *)
(* The events quota is counted.  An actor that has not received an event   *)
(* stands for one that has still to be created, and a sponsor that has not *)
(* been started for one that has still to be made.                         *)
(***************************************************************************)
EXTENDS Integers, Sequences, FiniteSets, SequencesExt

CONSTANTS
  Actor, Device,   \* the targets of events
  Root, Peers,     \* SPONSOR, and the peripheral sponsors
  Beh,             \* what a behaviour can be (code and state, x and y of an actor)
  Event,           \* bound: the events that can exist at once
  Steps,           \* bound: instructions of a transaction
  Quota,           \* bound: the events quota that the host refills the root
                   \* sponsor to, and that a peripheral sponsor is granted
  NoMem,           \* may reserve() fail with E_NO_MEM while an event is dispatched?
  DeviceError      \* what a device may fail with: "limit", "abort"

Sponsor == {Root} \cup Peers
Target == Actor \cup Device

ASSUME SchedulerAssumption ==
  /\ Actor \cap Device = {} /\ Root \notin Peers
  /\ Event \subseteq [spn : Sponsor, tgt : Target, n : Nat]
  /\ Steps \in Nat \ {0} /\ Quota \in Nat
  /\ NoMem \in BOOLEAN
  /\ DeviceError \subseteq {"limit", "abort"}

VARIABLES
  eq,          \* the event queue, e_first .. e_last
  kq,          \* the continuation queue, k_first .. k_last
  beh,         \* beh[a]: the behaviour and state of actor a
  busy,        \* the actors whose z field is not #?
  inbox,       \* inbox[a]: the events in the z field of a, oldest first
  waiting,     \* waiting[s]: the events in the z field of sponsor s, oldest first
  signal,      \* signal[s]: "active", "stopped" (ZERO) or "error" (another fixnum)
  alarm,       \* alarm[s]: the control event in the y field of s, if it is one
  events,      \* events[s]: the events quota left
  turn         \* "host", or the half of the iteration that comes next

actorVars == <<beh, busy, inbox>>
sponsorVars == <<waiting, signal, alarm, events>>
vars == <<eq, kq, actorVars, sponsorVars, turn>>

(***************************************************************************)
(* A continuation with its event and the effect that is attached to it:    *)
(* the new behaviour, the outbox and the instructions executed.            *)
(***************************************************************************)
Cont == [ev : Event, beh : Beh, out : Seq(Event), n : 0 .. Steps]

(* The events that exist: the quads in use. *)
Live ==
  ToSet(eq) \cup (UNION {{k.ev} \cup ToSet(k.out) : k \in ToSet(kq)})
    \cup (UNION {ToSet(inbox[a]) : a \in Actor})
    \cup (UNION {ToSet(waiting[s]) \cup ToSet(alarm[s]) : s \in Sponsor})

Init ==
  /\ eq = <<>> /\ kq = <<>>
  /\ beh \in [Actor -> Beh] /\ \A a, b \in Actor : beh[a] = beh[b]
  /\ busy = {}
  /\ inbox = [a \in Actor |-> <<>>]
  /\ waiting = [s \in Sponsor |-> <<>>]
  /\ signal = [s \in Sponsor |-> IF s = Root THEN "active" ELSE "stopped"]
  /\ alarm = [s \in Sponsor |-> <<>>]
  /\ events = [s \in Sponsor |-> IF s = Root THEN Quota ELSE 0]
  /\ turn = "host"

-----------------------------------------------------------------------------
(* Parts of the handlers *)

K == Head(kq)
Suspended(s) == signal[s] # "active"

(* Mutant of ReportError: the event just put to waiting stays in the queue. *)
ReportErrorRequeues(s, q, next) ==
  /\ eq' = eq \o alarm[s]
  /\ signal' = [signal EXCEPT ![s] = "error"]
  /\ alarm' = [alarm EXCEPT ![s] = <<>>]
  /\ turn' = IF alarm[s] = <<>> THEN "host" ELSE next

(***************************************************************************)
(* report_error(s, _), with q the event queue at the time: the control     *)
(* event is released, or run_loop() returns to the host.                   *)
(***************************************************************************)
ReportError(s, q, next) ==
  /\ eq' = q \o alarm[s]
  /\ signal' = [signal EXCEPT ![s] = "error"]
  /\ alarm' = [alarm EXCEPT ![s] = <<>>]
  /\ turn' = IF alarm[s] = <<>> THEN "host" ELSE next

(* Mutant of EndContinuation: the z field of the actor is not set back to #?. *)
EndContinuationBusy ==
  /\ kq' = Tail(kq)
  /\ inbox' = [inbox EXCEPT ![K.ev.tgt] = <<>>]
  /\ UNCHANGED busy

(* end_continuation(), but for the inbox that goes in front of the queue. *)
EndContinuation ==
  /\ kq' = Tail(kq)
  /\ busy' = busy \ {K.ev.tgt}
  /\ inbox' = [inbox EXCEPT ![K.ev.tgt] = <<>>]

WaitingEvent(e) == waiting' = [waiting EXCEPT ![e.spn] = Append(@, e)]

-----------------------------------------------------------------------------
(* execute_instruction() *)

Executing == turn = "exec" /\ kq # <<>>
Running == Executing /\ ~ Suspended(K.ev.spn)

(* Mutant of ExecuteSuspended: the continuation is parked, not aborted. *)
ExecuteSuspendedParks ==
  /\ Executing
  /\ Suspended(K.ev.spn)
  /\ kq' = Append(Tail(kq), K)
  /\ turn' = "disp"
  /\ UNCHANGED <<eq, actorVars, sponsorVars>>

(* The sponsor was suspended or stopped meanwhile: abort, keep or drop the event. *)
ExecuteSuspended ==
  /\ Executing
  /\ Suspended(K.ev.spn)
  /\ IF signal[K.ev.spn] = "stopped" THEN UNCHANGED waiting ELSE WaitingEvent(K.ev)
  /\ EndContinuation
  /\ eq' = inbox[K.ev.tgt] \o eq
  /\ turn' = "disp"
  /\ UNCHANGED <<beh, signal, alarm, events>>

(* Mutant of Exhaust: the event is consumed, as by any other error. *)
ExhaustConsumes ==
  /\ Running
  /\ EndContinuation
  /\ ReportError(K.ev.spn, inbox[K.ev.tgt] \o eq, "disp")
  /\ UNCHANGED <<beh, waiting, events>>

(* E_CPU_LIM, E_MEM_LIM, E_MSG_LIM or VM_END STOP: abort, suspend the sponsor. *)
Exhaust ==
  /\ Running
  /\ WaitingEvent(K.ev)
  /\ EndContinuation
  /\ ReportError(K.ev.spn, inbox[K.ev.tgt] \o eq, "disp")
  /\ UNCHANGED <<beh, events>>

(* Mutant of Abort: the outbox is released. *)
AbortSends ==
  /\ Running
  /\ EndContinuation
  /\ eq' = inbox[K.ev.tgt] \o (eq \o K.out)
  /\ turn' = "disp"
  /\ UNCHANGED <<beh, sponsorVars>>

(* VM_END ABORT, or an instruction that fails in any other way. *)
Abort ==
  /\ Running
  /\ EndContinuation
  /\ eq' = inbox[K.ev.tgt] \o eq
  /\ turn' = "disp"
  /\ UNCHANGED <<beh, sponsorVars>>

(* Mutant of Commit: the inbox goes to the back of the queue. *)
CommitInboxLast ==
  /\ Running
  /\ beh' = [beh EXCEPT ![K.ev.tgt] = K.beh]
  /\ EndContinuation
  /\ eq' = (eq \o K.out) \o inbox[K.ev.tgt]
  /\ turn' = "disp"
  /\ UNCHANGED sponsorVars

(* VM_END COMMIT: the outbox goes to the back, then the inbox to the front. *)
Commit ==
  /\ Running
  /\ beh' = [beh EXCEPT ![K.ev.tgt] = K.beh]
  /\ EndContinuation
  /\ eq' = inbox[K.ev.tgt] \o (eq \o K.out)
  /\ turn' = "disp"
  /\ UNCHANGED sponsorVars

(* An instruction after which the continuation k is queued again. *)
Continue(k) ==
  /\ Running
  /\ K.n < Steps
  /\ kq' = Append(Tail(kq), [k EXCEPT !.n = @ + 1])
  /\ turn' = "disp"
  /\ UNCHANGED actorVars

(* Any instruction that only changes the stack or allocates. *)
Compute == Continue(K) /\ UNCHANGED <<eq, sponsorVars>>

(* VM_ACTOR SEND (the sponsor of the event) and POST (an explicit sponsor). *)
Send(e) ==
  /\ Running
  /\ e \in Event \ Live
  /\ e.spn \in Peers \cup {K.ev.spn}
  /\ Continue([K EXCEPT !.out = Append(@, e)])
  /\ UNCHANGED <<eq, sponsorVars>>

(* VM_ACTOR BECOME *)
Become(b) ==
  /\ Continue([K EXCEPT !.beh = b])
  /\ UNCHANGED <<eq, sponsorVars>>

(* VM_SPONSOR EVENTS: n is less than what the current sponsor has. *)
Grant(p, n) ==
  /\ Continue(K)
  /\ n < events[K.ev.spn] /\ n + events[p] <= Quota
  /\ LET left == [events EXCEPT ![K.ev.spn] = @ - n]
     IN  events' = [left EXCEPT ![p] = @ + n]
  /\ UNCHANGED <<eq, waiting, signal, alarm>>

(* Mutant of ReclaimSponsor: p is zeroed before ctl is written. *)
ReclaimSponsorSwapped(p) ==
  LET zeroed == [events EXCEPT ![p] = 0]
  IN  events' = [zeroed EXCEPT ![K.ev.spn] = events[K.ev.spn] + events[p]]

(* reclaim_sponsor(ctl, p): ctl is written first, p zeroed last. *)
ReclaimSponsor(p) ==
  LET got == [events EXCEPT ![K.ev.spn] = @ + events[p]]
  IN  events' = [got EXCEPT ![p] = 0]

(* VM_SPONSOR RECLAIM *)
Reclaim(p) ==
  /\ Continue(K)
  /\ ReclaimSponsor(p)
  /\ UNCHANGED <<eq, waiting, signal, alarm>>

(* Mutant of Start: the waiting queue is not emptied. *)
StartKeepsWaiting(p, e) ==
  /\ Continue(K)
  /\ Suspended(p)
  /\ e \in Event \ Live /\ e.spn = K.ev.spn
  /\ eq' = eq \o waiting[p]
  /\ signal' = [signal EXCEPT ![p] = "active"]
  /\ alarm' = [alarm EXCEPT ![p] = <<e>>]
  /\ UNCHANGED <<waiting, events>>

(* VM_SPONSOR START: e is the pre-allocated event; waiting events are queued. *)
Start(p, e) ==
  /\ Continue(K)
  /\ Suspended(p)
  /\ e \in Event \ Live /\ e.spn = K.ev.spn
  /\ eq' = eq \o waiting[p]
  /\ waiting' = [waiting EXCEPT ![p] = <<>>]
  /\ signal' = [signal EXCEPT ![p] = "active"]
  /\ alarm' = [alarm EXCEPT ![p] = <<e>>]
  /\ UNCHANGED events

(* VM_SPONSOR STOP *)
Stop(p) ==
  /\ Continue(K)
  /\ ReclaimSponsor(p)
  /\ signal' = [signal EXCEPT ![p] = "stopped"]
  /\ alarm' = [alarm EXCEPT ![p] = <<>>]
  /\ UNCHANGED <<eq, waiting>>

(* There is no continuation to execute. *)
ExecuteNothing ==
  /\ turn = "exec"
  /\ kq = <<>> /\ eq # <<>>
  /\ turn' = "disp"
  /\ UNCHANGED <<eq, kq, actorVars, sponsorVars>>

Execute ==
  \/ ExecuteSuspended \/ Exhaust \/ Abort \/ Commit \/ Compute \/ ExecuteNothing
  \/ \E e \in Event : Send(e)
  \/ \E b \in Beh : Become(b)
  \/ \E p \in Peers : Reclaim(p) \/ Stop(p)
  \/ \E p \in Peers, n \in 1 .. Quota : Grant(p, n)
  \/ \E p \in Peers, e \in Event : Start(p, e)

-----------------------------------------------------------------------------
(* dispatch_event() *)

E == Head(eq)
Dispatching == turn = "disp" /\ eq # <<>>

(* After dispatch_event() run_loop() goes on, or has taken limit steps. *)
Iterated == turn' \in {"exec", "host"}

DispatchNothing ==
  /\ turn = "disp" /\ eq = <<>>
  /\ Iterated
  /\ UNCHANGED <<eq, kq, actorVars, sponsorVars>>

(* The sponsor is suspended: the event waits; or stopped: it is dropped. *)
Defer ==
  /\ Dispatching
  /\ Suspended(E.spn)
  /\ IF signal[E.spn] = "stopped" THEN UNCHANGED waiting ELSE WaitingEvent(E)
  /\ eq' = Tail(eq)
  /\ Iterated
  /\ UNCHANGED <<kq, actorVars, signal, alarm, events>>

(* The target is busy: the event goes to its inbox. *)
InboxEvent ==
  /\ Dispatching
  /\ ~ Suspended(E.spn)
  /\ E.tgt \in busy
  /\ inbox' = [inbox EXCEPT ![E.tgt] = Append(@, E)]
  /\ eq' = Tail(eq)
  /\ Iterated
  /\ UNCHANGED <<kq, beh, busy, sponsorVars>>

(* Mutant of Processing: a busy target is not recognised. *)
ProcessingBusy ==
  /\ Dispatching
  /\ ~ Suspended(E.spn)

Processing ==
  /\ Dispatching
  /\ ~ Suspended(E.spn)
  /\ E.tgt \notin busy

(* process_event() has failed: the event waits with its sponsor.  If its    *)
(* controller is told, the step counts against the limit of run_loop().     *)
ProcessFailed ==
  /\ WaitingEvent(E)
  /\ \E next \in {"exec", "host"} : ReportError(E.spn, Tail(eq), next)

(* The events quota is used up. *)
ProcessLimit ==
  /\ Processing
  /\ events[E.spn] = 0
  /\ ProcessFailed
  /\ UNCHANGED <<kq, actorVars, events>>

Charge ==
  /\ Processing
  /\ events[E.spn] > 0
  /\ events' = [events EXCEPT ![E.spn] = @ - 1]

(* The target is an actor: a transaction begins. *)
ProcessActor ==
  /\ Charge
  /\ E.tgt \in Actor
  /\ busy' = busy \cup {E.tgt}
  /\ kq' = Append(kq, [ev |-> E, beh |-> beh[E.tgt], out |-> <<>>, n |-> 0])
  /\ eq' = Tail(eq)
  /\ Iterated
  /\ UNCHANGED <<beh, inbox, waiting, signal, alarm>>

(* reserve() fails: the actor has been marked busy, there is no continuation. *)
ProcessNoMem ==
  /\ NoMem
  /\ Charge
  /\ E.tgt \in Actor
  /\ busy' = busy \cup {E.tgt}
  /\ ProcessFailed
  /\ UNCHANGED <<kq, beh, inbox>>

(* The target is a device: it consumes the event, and may send one at once. *)
ProcessDevice(reply) ==
  /\ Charge
  /\ E.tgt \in Device
  /\ ToSet(reply) \subseteq {e \in Event \ Live : e.spn = E.spn}
  /\ eq' = Tail(eq) \o reply
  /\ Iterated
  /\ UNCHANGED <<kq, actorVars, waiting, signal, alarm>>

(* It fails: report_error() panics unless the error is a limit or E_NO_MEM. *)
DeviceFails(error) ==
  /\ Charge
  /\ E.tgt \in Device
  /\ IF error = "limit" THEN ProcessFailed
     ELSE WaitingEvent(E) /\ eq' = Tail(eq) /\ turn' = "panic" /\ UNCHANGED <<signal, alarm>>
  /\ UNCHANGED <<kq, actorVars>>

Dispatch ==
  \/ DispatchNothing \/ Defer \/ InboxEvent
  \/ ProcessLimit \/ ProcessActor \/ ProcessNoMem
  \/ ProcessDevice(<<>>) \/ \E e \in Event : ProcessDevice(<<e>>)
  \/ \E error \in DeviceError : DeviceFails(error)

-----------------------------------------------------------------------------
(* The host *)

(* run_loop(): the root sponsor is resumed and its waiting events queued. *)
RunLoop ==
  /\ turn = "host"
  /\ eq' = eq \o waiting[Root]
  /\ waiting' = [waiting EXCEPT ![Root] = <<>>]
  /\ signal' = [signal EXCEPT ![Root] = "active"]
  /\ turn' = "exec"
  /\ UNCHANGED <<kq, actorVars, alarm, events>>

(* Both queues are empty: run_loop() returns ZERO. *)
Idle ==
  /\ turn = "exec"
  /\ kq = <<>> /\ eq = <<>>
  /\ signal' = [signal EXCEPT ![Root] = "stopped"]
  /\ turn' = "host"
  /\ UNCHANGED <<eq, kq, actorVars, waiting, alarm, events>>

(* h_event_enqueue(): a boot event, or the answer of a device. *)
HostEvent(e) ==
  /\ turn = "host"
  /\ e \in Event \ Live
  /\ eq' = Append(eq, e)
  /\ UNCHANGED <<kq, actorVars, sponsorVars, turn>>

(* The host refills the root sponsor. *)
Refill ==
  /\ turn = "host"
  /\ events' = [events EXCEPT ![Root] = Quota]
  /\ UNCHANGED <<eq, kq, actorVars, waiting, signal, alarm, turn>>

Host == RunLoop \/ Refill \/ \E e \in Event : HostEvent(e)

Next == Host \/ Idle \/ Execute \/ Dispatch

Spec == Init /\ [][Next]_vars

(***************************************************************************)
(* The run-loop keeps iterating, and the host calls it again after it has  *)
(* returned.  Nothing is assumed of the programs, but that a transaction   *)
(* has at most Steps instructions, and nothing of refills or new events.   *)
(***************************************************************************)
FairSpec == Spec /\ WF_vars(RunLoop) /\ WF_vars(Idle \/ Execute \/ Dispatch)

-----------------------------------------------------------------------------
(* Properties *)

TypeOK ==
  /\ eq \in Seq(Event)
  /\ kq \in Seq(Cont)
  /\ beh \in [Actor -> Beh]
  /\ busy \subseteq Actor
  /\ inbox \in [Actor -> Seq(Event)]
  /\ waiting \in [Sponsor -> Seq(Event)]
  /\ signal \in [Sponsor -> {"active", "stopped", "error"}]
  /\ alarm \in [Sponsor -> Seq(Event)]
  /\ events \in [Sponsor -> Nat]
  /\ turn \in {"host", "exec", "disp", "panic"}

(***************************************************************************)
(* Every event is in one place only.  An event has a single z field, which *)
(* links it into the event queue, an outbox, an inbox or a waiting queue,  *)
(* or holds its effect: an event in two places would corrupt one of them.  *)
(***************************************************************************)
Chains ==
  {<<"queue", Root, eq>>}
    \cup {<<"current", i, <<kq[i].ev>> >> : i \in DOMAIN kq}
    \cup {<<"outbox", i, kq[i].out>> : i \in DOMAIN kq}
    \cup {<<"inbox", a, inbox[a]>> : a \in Actor}
    \cup {<<"waiting", s, waiting[s]>> : s \in Sponsor}
    \cup {<<"alarm", s, alarm[s]>> : s \in Sponsor}

OneHome ==
  /\ \A c \in Chains : IsInjective(c[3])
  /\ \A c, d \in Chains : c # d => ToSet(c[3]) \cap ToSet(d[3]) = {}

(***************************************************************************)
(* scheduler.md:53 "As each actor can only process one event at a time, an *)
(* actor will only appear once in the queue."  A second transaction of the *)
(* same actor would overwrite the state the first one commits.  Only the   *)
(* inbox of a busy actor holds events: nothing would ever take them out of *)
(* the inbox of an idle one.                                               *)
(***************************************************************************)
OneTransaction ==
  /\ \A i, j \in DOMAIN kq : kq[i].ev.tgt = kq[j].ev.tgt => i = j
  /\ \A k \in ToSet(kq) : k.ev.tgt \in busy
  /\ \A a \in Actor \ busy : inbox[a] = <<>>

(***************************************************************************)
(* A sponsor that runs can report its exhaustion and has left no event     *)
(* behind: its control event is allocated (the root has the host), and its *)
(* waiting queue was emptied when it was resumed.                          *)
(***************************************************************************)
SponsorReady ==
  \A s \in Sponsor :
    /\ Len(alarm[s]) = IF s # Root /\ signal[s] = "active" THEN 1 ELSE 0
    /\ signal[s] = "active" => waiting[s] = <<>>

(* The order in which the events for actor a are received, those for others between them. *)
Mailbox(a) == inbox[a] \o eq

Before(s, d, e) == \E i, j \in DOMAIN s : i < j /\ s[i] = d /\ s[j] = e

(***************************************************************************)
(* scheduler.md:12 "keeps events in roughly FIFO order": going from the    *)
(* event queue to the inbox and back, no event overtakes another for the   *)
(* same actor, and nothing new gets ahead of an event already queued.      *)
(* Only the suspension of its sponsor takes an event out of turn.          *)
(***************************************************************************)
NoOvertaking ==
  [][\A a \in Actor : \A d, e \in {x \in Event : x.tgt = a} :
       Before(Mailbox(a)', d, e) /\ e \in ToSet(Mailbox(a)) => Before(Mailbox(a), d, e)]_vars

(***************************************************************************)
(* sponsor.md:72 "thus the sponsorship hierarchy transitively enforces     *)
(* quotas": no sequence of grants, reclaims and stops, even of a sponsor   *)
(* by itself, makes events quota; only the host's refill does.             *)
(***************************************************************************)
TotalEvents == FoldFunction(+, 0, events)
QuotaConserved == [][turn # "host" => TotalEvents' <= TotalEvents]_vars

(***************************************************************************)
(* sponsor.md:78 "If the Sponsor is reactivated, suspended Events are      *)
(* retried": no event of a sponsor that is exhausted, or that a step       *)
(* exhausts, is lost, wherever it is queued and however far it was         *)
(* processed.                                                              *)
(***************************************************************************)
Sent ==
  ToSet(eq) \cup {k.ev : k \in ToSet(kq)} \cup (UNION {ToSet(inbox[a]) : a \in Actor})
    \cup (UNION {ToSet(waiting[s]) : s \in Sponsor})

SuspendedKept == [][\A e \in Sent : signal'[e.spn] = "error" => e \in Sent']_vars

(***************************************************************************)
(* The scheduler implements atomic actor transactions: what is pending are *)
(* the events that were sent, wherever they are queued or processed; those *)
(* in outboxes and the control events are not sent yet.                    *)
(***************************************************************************)
Transaction(a) ==
  LET k == CHOOSE k \in ToSet(kq) : k.ev.tgt = a
  IN  [ev |-> k.ev, beh |-> k.beh, out |-> ToSet(k.out)]

Abstract ==
  INSTANCE ActorTransactions WITH
    pend <- Sent,
    txn <- [a \in {k.ev.tgt : k \in ToSet(kq)} |-> Transaction(a)]

Transactions == Abstract!Spec

(***************************************************************************)
(* scheduler.md:14 "it does comply with the fairness constraint": an event *)
(* does not stay in the event queue or in an inbox forever, however busy   *)
(* its target is and however often other sponsors are exhausted.           *)
(***************************************************************************)
Queued == ToSet(eq) \cup (UNION {ToSet(inbox[a]) : a \in Actor})
Delivered == \A e \in Event : e \in Queued ~> e \notin Queued

(***************************************************************************)
(* sponsor.md:28 "All activity associated with the suspended Sponsor is    *)
(* eventually suspended": unless it is resumed, each of its events ends up *)
(* in its waiting queue, or is gone.                                       *)
(***************************************************************************)
InProgress == Queued \cup {k.ev : k \in ToSet(kq)}
ActivitySuspended ==
  \A e \in Event :
    (Suspended(e.spn) /\ e \in InProgress) ~> (~ Suspended(e.spn) \/ e \notin InProgress)

(***************************************************************************)
(* scheduler.md:45 "Otherwise, a continuation is created to process the    *)
(* event and the target actor is marked busy": a busy actor has a          *)
(* continuation, whose end makes it available again.                       *)
(***************************************************************************)
BusyHasContinuation == busy \subseteq {k.ev.tgt : k \in ToSet(kq)}

(***************************************************************************)
(* scheduler.md:89 "If the sponsor is stopped, the waiting events are      *)
(* discarded."                                                             *)
(***************************************************************************)
StopDiscards == \A p \in Peers : signal[p] = "stopped" => waiting[p] = <<>>

(***************************************************************************)
(* errors.md:77 lists E_BOUNDS, E_NOT_FIX, E_NOT_CAP among the errors upon *)
(* which "The event and all pending effects are discarded": an event that  *)
(* a device cannot handle does not halt the core.                          *)
(***************************************************************************)
ErrorsAbort == turn # "panic"
=============================================================================
