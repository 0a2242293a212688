----------------------------- MODULE MCLoadTest -----------------------------
(* An instance of LoadTest for TLC: three ticks before the deadline, and a *)
(* client that waits long enough for the two slots to be taken.            *)
EXTENDS LoadTest

MCPrices     == {1, 2}
MCQuantities == {2}
=============================================================================
