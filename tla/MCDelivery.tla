----------------------------- MODULE MCDelivery -----------------------------
(* Instances of Delivery for TLC; the bounds are in the .cfg files.         *)
EXTENDS Delivery, TLC

CONSTANTS d1, d2

OneDevice  == {d1}
TwoDevices == {d1, d2}
Nobody     == {}
TheSecond  == {d2}
TheFirst   == {d1}
=============================================================================
