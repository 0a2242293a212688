-------------------------- MODULE MCSandboxEngine --------------------------
(***************************************************************************)
(* Instances of SandboxEngine for TLC.  Every state space is finite as it  *)
(* stands: a submission is deployed once, so the ports, the containers and *)
(* the events are as many as the submissions.                              *)
(***************************************************************************)
EXTENDS SandboxEngine, TLC

CONSTANTS s1, s2, d1, d2, o1

TwoSubmissions == {s1, s2}
OneDeleter     == {d1}
TwoDeleters    == {d1, d2}
OneOrder       == {o1}

Symmetry == Permutations(TwoSubmissions) \cup Permutations(TwoDeleters)
=============================================================================
