----------------------------- MODULE MCHeartbeat -----------------------------
(* Instances of Heartbeat for TLC; the bounds are in the .cfg files.        *)
EXTENDS Heartbeat, TLC

CONSTANTS d1, d2

OneDevice  == {d1}
TwoDevices == {d1, d2}
Nobody     == {}
=============================================================================
