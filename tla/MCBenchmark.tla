---------------------------- MODULE MCBenchmark ----------------------------
(* An instance of Benchmark for TLC: no bots, for what they do is in       *)
(* Coordinator, and no orders through the proxy.                           *)
EXTENDS Benchmark

CONSTANTS s1, s2, d1

TwoSubmissions == {s1, s2}
OneDeleter     == {d1}
Nobody         == {}
=============================================================================
