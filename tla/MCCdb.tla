------------------------------- MODULE MCCdb --------------------------------
(* Cdb for TLC.                                                             *)
EXTENDS Cdb, TLC

Symmetry == Permutations(Procs)
=============================================================================
