----------------------------- MODULE TimerDevice -----------------------------
(***************************************************************************)
(* The timer device: the part in the core (vm/rs/src/timer_dev.rs), which  *)
(* reserves a stub for each timer and a proxy to cancel it with, and the   *)
(* part in JavaScript (vm/js/timer_dev.js), which keeps the timeouts by    *)
(* the address of the stub.  Stubs are cells of the memory, used again     *)
(* when they are free.                                                     *)
(***************************************************************************)
EXTENDS Naturals, Sequences, FiniteSets, SequencesExt

CONSTANTS
    Timers,      \* timer requests, each with a capability to cancel it
    Cells        \* the cells of memory considered

VARIABLE dev

(* stubs     : cells that hold a stub                                      *)
(* timer_map : [Cells -> the timer whose timeout is set, or 0]             *)
(* handle    : [Timers -> the cell its proxy names, or 0]                  *)
(* queue     : events of the core for the device: cancellations            *)
(* cancelled : timers whose cancellation was sent                          *)
(* fired, stopped : [Timers -> times]: history                             *)
Init ==
    dev = [stubs |-> {}, timer_map |-> [c \in Cells |-> 0],
           handle |-> [t \in Timers |-> 0], started |-> {}, queue |-> <<>>,
           cancelled |-> {}, fired |-> [t \in Timers |-> 0],
           stopped |-> [t \in Timers |-> 0]]

(* A request is dispatched: the stub takes a free cell.                    *)
Start(t, c) ==
    /\ t \notin dev.started
    /\ c \notin dev.stubs
    /\ dev' = [dev EXCEPT !.started = @ \cup {t}, !.stubs = @ \cup {c},
                          !.timer_map[c] = t, !.handle[t] = c]

(* The timeout: the event the stub carries is enqueued.                    *)
\* Mutant of Fire: the entry of the stub is not deleted.
FireKeepsEntry(c) ==
    /\ dev.timer_map[c] # 0
    /\ dev' = [dev EXCEPT !.stubs = @ \ {c},
                          !.fired[dev.timer_map[c]] = @ + 1]

Fire(c) ==
    /\ dev.timer_map[c] # 0
    /\ dev' = [dev EXCEPT !.timer_map[c] = 0, !.stubs = @ \ {c},
                          !.fired[dev.timer_map[c]] = @ + 1]

Cancel(t) ==
    /\ t \in dev.started \ dev.cancelled
    /\ dev' = [dev EXCEPT !.cancelled = @ \cup {t}, !.queue = Append(@, t)]

(* The proxy receives the cancellation.  Its handle still names the cell   *)
(* after the timer has fired, whatever the cell is by now.                 *)
Stop ==
    /\ dev.queue # <<>>
    /\ LET t == Head(dev.queue)
           c == dev.handle[t]
           d == [dev EXCEPT !.queue = Tail(@), !.handle[t] = 0]
       IN  dev' = IF c # 0 /\ dev.timer_map[c] # 0
                  THEN [d EXCEPT !.stubs = @ \ {c}, !.timer_map[c] = 0,
                                 !.stopped[dev.timer_map[c]] = @ + 1]
                  ELSE d

Next ==
    \/ \E t \in Timers, c \in Cells : Start(t, c)
    \/ \E c \in Cells : Fire(c)
    \/ \E t \in Timers : Cancel(t)
    \/ Stop

-----------------------------------------------------------------------------
TypeOK ==
    dev \in [stubs : SUBSET Cells, timer_map : [Cells -> Timers \cup {0}],
             handle : [Timers -> Cells \cup {0}], started : SUBSET Timers,
             queue : Seq(Timers), cancelled : SUBSET Timers,
             fired : [Timers -> Nat], stopped : [Timers -> Nat]]

(* However firing and cancelling race, a timer that was started is waiting,*)
(* or has fired, or was stopped, exactly one of these; and the stubs held  *)
(* are those of the timers that wait (timer_dev.rs:35-42, timer_dev.js).   *)
TimerOnce ==
    /\ dev.stubs = {c \in Cells : dev.timer_map[c] # 0}
    /\ \A t \in dev.started :
         dev.fired[t] + dev.stopped[t]
             + Cardinality({c \in Cells : dev.timer_map[c] = t}) = 1

(* timer_dev.md:18-20: after delay milliseconds the result is sent to the  *)
(* callback; only the timer's own cancellation prevents it.                *)
OnlyOwnCancel == \A t \in Timers : dev.stopped[t] > 0 => t \in dev.cancelled
=============================================================================
