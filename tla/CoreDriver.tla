------------------------------- MODULE CoreDriver -------------------------------
(***************************************************************************)
(* The driver of a core, vm/js/udbg/core_driver.js, with the core it runs, *)
(* the devices that wake the core, and the client that commands it.        *)
(*                                                                         *)
(* JavaScript runs one turn at a time: while pc is not "out", a turn of    *)
(* the driver is under way and nothing else happens.                       *)
(***************************************************************************)
EXTENDS Integers, Sequences, FiniteSets

CONSTANTS
    Client,         \* "debugger", or "playground" (apps/playground/tools_ui.js)
    Work,           \* the most instructions the core has to execute
    Quota,          \* the instructions a refill pays for
    MaxCommands     \* how many commands a debugger gives

VARIABLES
    pc,             \* "out", "loop" (run), "core" (h_run_loop), or what that returns:
                    \* "idle", "limit", "fault" or "instr"
    driver,         \* the variables of make_driver
    core,           \* [work, quota, device], device: what devices have still to send
    wake, play,     \* wake_timer, and the play_timer of the playground
    commands        \* given so far

vars == <<pc, driver, core, wake, play, commands>>

Unlimited == 1000       \* Infinity
Stepping == {"debug", "instr"}

(* A driver that plays has `steps` left; otherwise steps is undefined.     *)
(* signal is "running", or what h_run_loop returned last.                  *)
Init ==
    /\ pc = "out" /\ wake = FALSE /\ play = FALSE /\ commands = 0
    /\ \E on \in {{}, {"txn"}, {"fault"}, {"debug"}}, verbose \in {{}, {"idle", "txn", "fault"}, {"instr"}} :
          driver \in [playing : {FALSE}, steps : {0}, queue : {<<>>}, signal : {"none"},
                      auto_pause : {on}, auto_refill : BOOLEAN, verbose : {verbose}]
    /\ Client = "playground" => /\ ~driver.auto_refill /\ driver.auto_pause = {}
                                /\ driver.verbose = {"idle", "txn", "fault"}
    /\ core \in [work : {1}, quota : {Quota}, device : {Work - 1}]

-----------------------------------------------------------------------------
(* consume_step: the first step of the queue is reported.                  *)
Consume(d) ==
    LET kind == Head(d.queue)
        paused == kind \in d.auto_pause
    IN  [d EXCEPT !.queue = Tail(@), !.playing = @ /\ ~paused,
                  !.steps = IF d.playing /\ ~paused /\ @ # Unlimited THEN @ - 1 ELSE @]

(* step(kind): nobody observes it, or it waits to be reported.             *)
Step(d, kind) ==
    IF kind \notin d.auto_pause \cup d.verbose
    THEN [d EXCEPT !.steps = IF d.playing /\ @ # Unlimited THEN @ - 1 ELSE @]
    ELSE LET queued == [d EXCEPT !.queue = Append(@, kind)]
         IN  IF d.playing /\ d.steps > 0 THEN Consume(queued) ELSE queued

Runs(d) == d.playing /\ d.signal # "running"
Run(d) == pc' = IF Runs(d) THEN "loop" ELSE "out"

(* The loop of run: report, pause, or let the core run.                    *)
Loop ==
    /\ pc = "loop"
    /\ \/ /\ driver.playing /\ driver.steps > 0 /\ driver.queue # <<>>
          /\ driver' = Consume(driver) /\ UNCHANGED pc
       \/ /\ ~driver.playing /\ pc' = "out" /\ UNCHANGED driver
       \/ /\ driver.playing /\ driver.steps <= 0
          /\ driver' = [driver EXCEPT !.playing = FALSE] /\ pc' = "out"
       \/ /\ driver.playing /\ driver.steps > 0 /\ driver.queue = <<>>
          /\ driver' = [driver EXCEPT !.signal = "running"] /\ pc' = "core"
    /\ UNCHANGED <<core, wake, play, commands>>

OneAtATime == (driver.auto_pause \cup driver.verbose) \cap Stepping # {}
              \/ driver.steps # Unlimited

(* h_run_loop executes one instruction, or all it can; an instruction may  *)
(* end a transaction, which the driver is told of at once.  The signal     *)
(* stays at "running" until the deferred callbacks have run too.  An event *)
(* of the root sponsor that cannot be handled, for want of memory or since *)
(* its actor ends with `end stop`, is put back, and the core gives up.     *)
Core ==
    /\ pc = "core"
    /\ \/ core.work = 0 /\ pc' = "idle" /\ UNCHANGED <<driver, core>>
       \/ core.work > 0 /\ core.quota = 0 /\ pc' = "limit" /\ UNCHANGED <<driver, core>>
       \/ core.work > 0 /\ core.quota > 0 /\ pc' = "fault" /\ UNCHANGED <<driver, core>>
       \/ /\ core.work > 0 /\ core.quota > 0
          /\ core' = [core EXCEPT !.work = @ - 1, !.quota = @ - 1]
          /\ driver' \in {driver, Step(driver, "txn")}
          /\ pc' = IF OneAtATime THEN "instr" ELSE "core"
    /\ UNCHANGED <<wake, play, commands>>

(* Mutant of Woken: the core is run at once, not in a turn of its own.     *)
WokenAtOnce ==
    /\ core.device > 0
    /\ core' = [core EXCEPT !.work = @ + 1, !.device = @ - 1]
    /\ driver' = Step(driver, "txn")
    /\ UNCHANGED wake

(* h_wakeup: a device has sent an event, and the driver is told.           *)
Woken ==
    /\ core.device > 0
    /\ core' = [core EXCEPT !.work = @ + 1, !.device = @ - 1]
    /\ driver' = Step(driver, "txn")
    /\ wake' = TRUE

Returns == {"idle", "limit", "fault", "instr"}

(* A callback of u_defer, run when h_run_loop has left the core.           *)
Deferred ==
    /\ pc \in Returns
    /\ Woken
    /\ UNCHANGED <<pc, play, commands>>

(* What run makes of the signal.  The client hears of a fault at once if   *)
(* it is reported: the playground refills the sponsor, and asks the driver *)
(* in a later turn to play on; of any other fault it disposes of the core. *)
(* The driver plays on, but nobody runs the core.                          *)
Returned ==
    LET d == [driver EXCEPT !.signal = pc] IN
    /\ pc \in Returns
    /\ \/ /\ pc = "idle" /\ driver' = Step(d, "idle") /\ pc' = "out"
          /\ UNCHANGED <<core, wake, play>>
       \/ /\ pc = "instr" /\ pc' = "loop"
          /\ \/ driver' = Step(d, "instr")
             \/ driver' = Step(Step(d, "instr"), "debug")       \* VM_DEBUG is next
          /\ UNCHANGED <<core, wake, play>>
       \/ /\ pc = "limit" /\ d.auto_refill
          /\ core' = [core EXCEPT !.quota = Quota]
          /\ driver' = d /\ pc' = "loop" /\ UNCHANGED <<wake, play>>
       \/ /\ pc = "limit" /\ ~d.auto_refill
          /\ driver' = Step(d, "fault") /\ pc' = "out"
          /\ IF Client = "playground"
             THEN core' = [core EXCEPT !.quota = Quota] /\ play' = TRUE
             ELSE UNCHANGED <<core, play>>
          /\ UNCHANGED wake
       \/ /\ pc = "fault"
          /\ driver' = Step(d, "fault") /\ pc' = "out"
          /\ IF Client = "playground"
             THEN core' = [core EXCEPT !.work = 0, !.device = 0] /\ wake' = FALSE
             ELSE UNCHANGED <<core, wake>>
          /\ UNCHANGED play
    /\ UNCHANGED commands

-----------------------------------------------------------------------------
(* Between turns: a device wakes the core, a timer fires, or a command     *)
(* arrives.                                                                *)
DeviceWakes ==
    /\ pc = "out" /\ Woken
    /\ UNCHANGED <<pc, play, commands>>

WakeTimer ==
    /\ pc = "out" /\ wake /\ wake' = FALSE
    /\ Run(driver)
    /\ UNCHANGED <<driver, core, play, commands>>

Play(steps) ==      \* commands.play
    IF driver.playing THEN UNCHANGED <<pc, driver>>
    ELSE /\ driver' = [driver EXCEPT !.playing = TRUE, !.steps = steps]
         /\ Run(driver')

PlayTimer ==
    /\ pc = "out" /\ play /\ play' = FALSE
    /\ Play(Unlimited)
    /\ UNCHANGED <<core, wake, commands>>

Command ==
    /\ pc = "out" /\ commands < MaxCommands /\ commands' = commands + 1
    /\ \/ Play(Unlimited) /\ UNCHANGED core
       \/ Play(2) /\ UNCHANGED core
       \/ driver' = [driver EXCEPT !.playing = FALSE] /\ UNCHANGED <<pc, core>>
       \/ core' = [core EXCEPT !.quota = Quota] /\ UNCHANGED <<pc, driver>>
       \/ \E on \in {{}, {"txn"}} :
             driver' = [driver EXCEPT !.auto_pause = on] /\ UNCHANGED <<pc, core>>
    /\ UNCHANGED <<wake, play>>

Turn == Loop \/ Core \/ Deferred \/ Returned
Next == Turn \/ DeviceWakes \/ WakeTimer \/ PlayTimer \/ Command

(* A turn ends, and timers fire.  Devices and clients need do nothing.     *)
Spec == Init /\ [][Next]_vars
FairSpec ==
    /\ Spec
    /\ WF_vars(Loop \/ Core \/ Returned) /\ WF_vars(WakeTimer) /\ WF_vars(PlayTimer)

-----------------------------------------------------------------------------
(* A driver that plays and refills the sponsor works off what the core is  *)
(* given, whenever devices wake the core, or stops playing, or the core    *)
(* halts with a fault that a refill does not cure, which signal then says  *)
(* until the core runs again, and no device has woken it since.            *)
Working == driver.playing /\ core.work > 0
WorkDone == (Working /\ driver.auto_refill) ~> (~Working \/ (driver.signal = "fault" /\ ~wake))

(* Violated with the playground, whose refill is meant to continue the     *)
(* execution "on the next turn" (apps/playground/tools_ui.js:369): play    *)
(* does nothing while the driver plays, and a fault does not pause it.     *)
Continues == Working ~> ~Working
=============================================================================
