------------------------------ MODULE SerialActor ------------------------------
(***************************************************************************)
(* What an actor created by a Scheme program promises (docs/scheme.md,     *)
(* Meta-Actor Facilities): messages are handled one at a time, each with   *)
(* the behavior that the one handled before it left.                       *)
(***************************************************************************)
CONSTANTS Message, Behavior, None

VARIABLES
    behavior,   \* the behavior for the next message
    handled     \* handled[m]: the behavior that handled m, or None

Init == behavior \in Behavior /\ handled = [m \in Message |-> None]

Handle(m) ==
    /\ handled[m] = None
    /\ handled' = [handled EXCEPT ![m] = behavior]
    /\ behavior' \in Behavior

Next == \E m \in Message : Handle(m)
Spec == Init /\ [][Next]_<<behavior, handled>>
=============================================================================
