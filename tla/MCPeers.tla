------------------------------- MODULE MCPeers -------------------------------
(* Instances of Peers for TLC; the bounds are in the .cfg files.            *)
EXTENDS Peers, TLC

CONSTANTS d1, d2

OneDevice  == {d1}
TwoDevices == {d1, d2}
=============================================================================
