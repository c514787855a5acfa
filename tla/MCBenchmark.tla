----------------------------- MODULE MCBenchmark ----------------------------
(* Instance of Benchmark for TLC; the bounds are in the .cfg file.          *)
EXTENDS Benchmark

CONSTANT d1

OneDevice == {d1}
Nobody    == {}
=============================================================================
