---------------------------- MODULE MCLatencyStats ---------------------------
(* Instance of LatencyStats for TLC; the bounds are in the .cfg file.       *)
EXTENDS LatencyStats

CONSTANTS d1, d2

TwoDevices   == {d1, d2}
SomeLatency  == 1 .. 3
SomePercents == {1, 34, 50, 75, 95, 99, 100}
=============================================================================
