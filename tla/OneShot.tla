------------------------------- MODULE OneShot -------------------------------
(***************************************************************************)
(* What a locked-final experiment promises, whatever the number of operator *)
(* processes and wherever they are killed: the held-out partition is opened *)
(* by at most one attempt, that attempt was reserved beforehand, and nobody *)
(* reserves it before the validation gates have passed.                     *)
(*                                                                          *)
(* Both runners of scripts/ claim this (run_american_neural_pilot.py and    *)
(* run_european_replication.py); modules Pilot and Replication instantiate  *)
(* it with a refinement mapping.                                            *)
(***************************************************************************)
EXTENDS Naturals

VARIABLES
    validated,   \* the validation evidence passed its final-entry gates
    reserved,    \* the single final attempt has been taken
    accesses     \* number of attempts that opened the locked partition

vars == <<validated, reserved, accesses>>

Init ==
    /\ validated = FALSE
    /\ reserved = FALSE
    /\ accesses = 0

Validate ==
    /\ ~validated
    /\ validated' = TRUE
    /\ UNCHANGED <<reserved, accesses>>

Reserve ==
    /\ validated
    /\ ~reserved
    /\ reserved' = TRUE
    /\ UNCHANGED <<validated, accesses>>

Access ==
    /\ reserved
    /\ accesses = 0
    /\ accesses' = 1
    /\ UNCHANGED <<validated, reserved>>

Next == Validate \/ Reserve \/ Access

Spec == Init /\ [][Next]_vars
=============================================================================
