------------------------------ MODULE Firmware -------------------------------
(***************************************************************************)
(* The boards of devices/led_device and devices/temp_device: the Arduino   *)
(* loop() instead of simulations/base.py.  It connects, sends AUTH and     *)
(* takes commands as the simulators do, so DeviceConnect, DeviceTakeCommand*)
(* and DeviceExecute stand for it too, and differs in what follows here.   *)
(* A board ignores the answer to its AUTH: it stays running and never      *)
(* counts as authenticated.                                                *)
(***************************************************************************)
EXTENDS SimulatedDevice

CONSTANT Board   \* the devices that are boards, the others are simulators

ASSUME BoardAssumption == Board \subseteq Device

\* A frame without effect: AUTH_OK and AUTH_FAIL, one deserializeJson() refuses,
\* and any frame that readStringUntil() cut in two when it timed out.
BoardSkips(d, m) ==
  /\ Listening(d)
  /\ DeviceExchange(sock[d], m, << >>)
  /\ UNCHANGED deviceVars

\* The network ends the connection while the board is at a command, which it
\* executes all the same; at any other time this is BoardLost.
BoardCutOff(d) ==
  /\ job[d] # None /\ link[sock[d]] = "up"
  /\ Cut(sock[d])
  /\ UNCHANGED deviceVars

\* ensureServer() finds client.connected() false, between two messages only.
BoardLost(d) == job[d] = None /\ DeviceLost(d)
=============================================================================
