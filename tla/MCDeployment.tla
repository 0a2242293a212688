---------------------------- MODULE MCDeployment ----------------------------
(* Instances of Deployment for TLC: two deployments at a time and one      *)
(* DELETE request.                                                         *)
EXTENDS Deployment

CONSTANTS s1, s2, d1

TwoSubmissions == {s1, s2}
OneDeleter     == {d1}
NoOrders       == {}
=============================================================================
