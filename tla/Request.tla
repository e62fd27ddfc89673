------------------------------ MODULE Request -------------------------------
(***************************************************************************)
(* What the worker promises of a request, whichever way it is resolved: it *)
(* is finished once, its memory is released only after that, and both      *)
(* happen in the end.  Modules Subreq and Upstream implement it.           *)
(*                                                                         *)
(* One callback of the event loop may finish many requests, when a         *)
(* connection they depend on is lost.                                      *)
(***************************************************************************)
CONSTANT Task

VARIABLE phase

Phase == {"new", "resolving", "finished", "released"}

Init == phase = [t \in Task |-> "new"]

\* worker_submit() or worker_resolve_start()
Receive(t) ==
  /\ phase[t] = "new"
  /\ phase' = [phase EXCEPT ![t] = "resolving"]

\* A callback finishes the requests of F, and releases those of R at once.
Finish(F, R) ==
  /\ \A t \in F : phase[t] = "resolving"
  /\ R \subseteq F
  /\ phase' = [t \in Task |-> IF t \in R THEN "released"
                              ELSE IF t \in F THEN "finished" ELSE phase[t]]

\* The last reference to a finished request goes.
Release(t) ==
  /\ phase[t] = "finished"
  /\ phase' = [phase EXCEPT ![t] = "released"]

Next ==
  \/ \E t \in Task : Receive(t) \/ Release(t)
  \/ \E F \in SUBSET Task : \E R \in SUBSET F : Finish(F, R)

\* Safety: the life of a request.
Spec == Init /\ [][Next]_phase

\* Liveness: no request is stuck.
LiveSpec ==
  /\ Spec
  /\ \A t \in Task : /\ WF_phase(\E F \in SUBSET Task : \E R \in SUBSET F :
                                   t \in F /\ Finish(F, R))
                     /\ WF_phase(Release(t))
=============================================================================
