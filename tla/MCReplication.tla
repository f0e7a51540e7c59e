---------------------------- MODULE MCReplication ----------------------------
(***************************************************************************)
(* Instance of ReplicationCrew for TLC: two operators at once, nothing else *)
(* going wrong.                                                             *)
(***************************************************************************)
EXTENDS ReplicationCrew

CONSTANTS o1, o2

TwoOperators == {o1, o2}

NoFaults == {}
EverythingAlters == Inputs
=============================================================================
