------------------------------- MODULE MCProtocols -------------------------------
(***************************************************************************)
(* What surrounds a core, for TLC: a run drives a core (CoreDriver),       *)
(* connects two browsers (Signalling), sends a file (Xmodem) or calls      *)
(* requestors (Parseq), and explores the sum of their state spaces.        *)
(***************************************************************************)
EXTENDS Integers, Sequences, FiniteSets

CONSTANTS
    Considered,                                              \* what the run considers
    Callers, Listeners, Stayers, Lossy, None,           \* see Signalling
    Client, Work, Quota, MaxCommands,                   \* see CoreDriver
    Packets, MaxRetries, SeqModulus, MaxFaults, MaxAsks,   \* see Xmodem
    Size, MaxCalls, Throws                              \* see Parseq

ASSUME TransferAssumption ==
    /\ Packets \in Nat /\ MaxRetries \in Nat /\ SeqModulus \in Nat \ {0, 1}
    /\ MaxFaults \in Nat /\ MaxAsks \in Nat
ASSUME RequestsAssumption ==
    Size \in Nat \ {0} /\ MaxCalls \in Nat /\ Throws \in BOOLEAN

VARIABLES
    part,
    sock, registered, undelivered, up, down,
    call, backlog, answers, remote, peer, checking,
    pc, driver, core, wake, play, commands,
    phase, ofs, seq, retry, outcome, forth, back, got, faults, asks, sends, astray,
    plan, time_option, calls, r

signals == <<sock, registered, undelivered, up, down,
             call, backlog, answers, remote, peer, checking>>
driving == <<pc, driver, core, wake, play, commands>>
transfer == <<phase, ofs, seq, retry, outcome, forth, back, got, faults, asks, sends, astray>>
requests == <<plan, time_option, calls, r>>
all == <<part, signals, driving, transfer, requests>>

Signals == INSTANCE Signalling
Driver == INSTANCE CoreDriver
Transfer == INSTANCE Xmodem
Requests == INSTANCE Parseq

(* The parts a run does not consider stay in one of their initial states.  *)
InitParts ==
    /\ part \in Considered
    /\ Signals!Init
    /\ Driver!Init
    /\ part # "driver" => driver.verbose = {} /\ driver.auto_pause = {} /\ ~driver.auto_refill
    /\ Transfer!Init
    /\ part # "transfer" => back = <<>>
    /\ IF part = "requests" THEN Requests!Init
       ELSE plan = <<>> /\ time_option = "none" /\ calls = 0 /\ r = Requests!Idle

NextPart ==
    /\ UNCHANGED part
    /\ \/ part = "signals" /\ Signals!Next /\ UNCHANGED <<driving, transfer, requests>>
       \/ part = "driver" /\ Driver!Next /\ UNCHANGED <<signals, transfer, requests>>
       \/ part = "transfer" /\ Transfer!Next /\ UNCHANGED <<signals, driving, requests>>
       \/ part = "requests" /\ Requests!Next /\ UNCHANGED <<signals, driving, transfer>>

(* The fairness of each module.                                            *)
Signs(A) == part = "signals" /\ A /\ UNCHANGED <<part, driving, transfer, requests>>
Drives(A) == part = "driver" /\ A /\ UNCHANGED <<part, signals, transfer, requests>>
Asks(A) == part = "requests" /\ A /\ UNCHANGED <<part, signals, driving, transfer>>
SpecParts ==
    /\ InitParts /\ [][NextPart]_all
    /\ \A s \in Callers \cup Listeners :
          /\ WF_all(Signs(Signals!Accept(s)))
          /\ WF_all(Signs(Signals!Forward(s)))
          /\ WF_all(Signs(Signals!OnClose(s)))
    /\ \A c \in Callers : WF_all(Signs(Signals!Calls(c)))
    /\ \A l \in Listeners :
          /\ WF_all(Signs(Signals!Listen(l)))
          /\ WF_all(Signs(Signals!Listening(l)))
          /\ WF_all(Signs(Signals!Receive(l)))
    /\ \A l \in Listeners, c \in Callers : WF_all(Signs(Signals!Meets(l, c)))
    /\ WF_all(Drives(Driver!Loop \/ Driver!Core \/ Driver!Returned))
    /\ WF_all(Asks(Requests!Start)) /\ WF_all(Asks(Requests!Timeout))
    /\ \A i \in 1..Size : WF_all(Asks(i \in Requests!Requestors /\ Requests!Answer(i)))
    /\ WF_all(Drives(Driver!WakeTimer)) /\ WF_all(Drives(Driver!PlayTimer))

-----------------------------------------------------------------------------
(* Properties, each of the part it is about.                               *)

(* See Xmodem.                                                             *)
TransferComplete == part = "transfer" => Transfer!TransferComplete
(* Violated.                                                               *)
FailureReported == part = "transfer" => Transfer!FailureReported

(* See CoreDriver.                                                         *)
WorkDone == Driver!WorkDone

(* See Parseq and Requestor.                                               *)
Outcomes == part = "requests" => Requests!Outcomes
NothingLeft == part = "requests" => Requests!NothingLeft
PromiseKept == Requests!Promised
(* Violated, both.                                                         *)
RunningCancelled == part = "requests" => Requests!RunningCancelled
RequiredSucceeded == part = "requests" => Requests!RequiredSucceeded

(* Every call of one browser to another and of a requestor ends; see       *)
(* Signalling and Parseq.                                                  *)
EverythingSettles == Signals!Settles /\ Requests!Settles
(* Violated.                                                               *)
LossSettles == Signals!LossSettles
=============================================================================
