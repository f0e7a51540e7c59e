--------------------------- MODULE ReplicationCrew ---------------------------
(***************************************************************************)
(* The European runner in the hands of a crew: every operator at once, or   *)
(* one of them alone.  Several operators may open the locked partition more *)
(* than once (Replication!AtMostOneAccess is violated); one alone, killed   *)
(* and restarted at will, performs the one-shot experiment of OneShot.      *)
(***************************************************************************)
EXTENDS Replication

VARIABLE crew   \* the operators at work

CrewInit ==
    /\ Init
    /\ crew \in {Operators} \cup {{p} : p \in Operators}

CrewNext ==
    /\ UNCHANGED crew
    /\ \/ \E p \in crew : Step(p) \/ Crash(p)
       \/ \E x \in Alterable : Alter(x)

CrewSpec == CrewInit /\ [][CrewNext]_<<vars, crew>>

Alone == \E p \in Operators : crew = {p}

\* One operator at a time, killed and restarted at will, performs the one-shot
\* experiment: "a crash cannot turn one attempt into two" (module docstring of
\* run_european_replication.py).
AloneImplementsOneShot ==
    /\ Alone => Abstract!Init
    /\ [][Alone => Abstract!Next \/ UNCHANGED Abstract!vars]_<<vars, crew>>
=============================================================================
