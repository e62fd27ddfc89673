----------------------------- MODULE MCUpstream -----------------------------
(* Upstream for TLC.  Tasks are interchangeable, and so are sessions.       *)
EXTENDS Upstream, TLC

UpstreamSymmetry == Permutations(Task) \cup Permutations(Session)
=============================================================================
