------------------------------ MODULE MCFraming ------------------------------
(* Instance of Framing for TLC; the bounds are in the .cfg file.            *)
EXTENDS Framing

Senders == {"retry", "heartbeat"}
Pingers == {"heartbeat"}
=============================================================================
