------------------------------ MODULE Requestor ------------------------------
(***************************************************************************)
(* What a requestor promises the code that calls it (lib/parseq.js): it    *)
(* answers its callback once, with a value or with a failure, or it is     *)
(* cancelled and never answers.                                            *)
(***************************************************************************)
EXTENDS Naturals

CONSTANT MaxCalls      \* times the requestor is called, one call at a time

VARIABLES calls, status

Init == calls = 0 /\ status = "idle"

Call ==
    /\ calls < MaxCalls
    /\ status # "running"
    /\ calls' = calls + 1
    /\ status' \in {"running", "ok"}     \* an empty parallel answers at once

Answer ==
    /\ status = "running"
    /\ status' \in {"ok", "failed"}
    /\ UNCHANGED calls

Cancel ==
    /\ status = "running"
    /\ status' = "cancelled"
    /\ UNCHANGED calls

Next == Call \/ Answer \/ Cancel

Spec == Init /\ [][Next]_<<calls, status>>
=============================================================================
