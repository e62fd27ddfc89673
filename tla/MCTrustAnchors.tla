--------------------------- MODULE MCTrustAnchors ---------------------------
(***************************************************************************)
(* TrustAnchors for TLC: a rollover from one key to the next, seen by two  *)
(* processes.  The unit of time is the hour of the code; a refresh is due  *)
(* every two of them and the hold-down time is two.                        *)
(***************************************************************************)
EXTENDS TrustAnchors, TLC

CONSTANTS k1, k2

MCKeys == {k1, k2}
MCInitial == {k1}
\* What the theorems about rollovers suppose.
ASSUME RolloverAssumption == Initial # {} /\ hold_down_time > 0

Symmetry == Permutations(Procs)
=============================================================================
