------------------------------ MODULE MCSubreq ------------------------------
(***************************************************************************)
(* Instances of Subreq for TLC.                                            *)
(***************************************************************************)
EXTENDS Subreq, TLC

TaskSymmetry == Permutations(Task)
=============================================================================
