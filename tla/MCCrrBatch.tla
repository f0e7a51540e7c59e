------------------------------ MODULE MCCrrBatch ------------------------------
(***************************************************************************)
(* Instances of CrrBatch for TLC.  Every batch up to MaxRequests requests   *)
(* and every thread count, zero and one too many included, is an initial    *)
(* state.                                                                   *)
(***************************************************************************)
EXTENDS CrrBatch
=============================================================================
