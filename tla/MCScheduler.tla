----------------------------- MODULE MCScheduler -----------------------------
(***************************************************************************)
(* The events of the small instances of Scheduler that TLC checks.         *)
(***************************************************************************)
EXTENDS Scheduler

CONSTANTS a, c, d, p    \* actors, a device and a peripheral sponsor

Ev(s, t, n) == [spn |-> s, tgt |-> t, n |-> n]

(* The behaviours are interchangeable. *)
Symmetry == Permutations(Beh)

(* Enough for a busy actor with two events queued for it, beside another actor. *)
SafeEvents == {Ev(Root, a, 1), Ev(Root, a, 2), Ev(p, a, 1), Ev(Root, c, 1)}

(* Events of both sponsors to a busy actor, to another one and to the device. *)
DeviceEvents == {Ev(Root, a, 1), Ev(p, a, 1), Ev(Root, c, 1), Ev(p, d, 1)}
=============================================================================
