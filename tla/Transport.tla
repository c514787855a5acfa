----------------------------- MODULE Transport ------------------------------
(***************************************************************************)
(* TCP connections as the controller and the devices use them: one FIFO of *)
(* frames per direction, lost with the connection, never reordered.        *)
(*                                                                         *)
(* A connection is "unused", then "up".  It becomes "cut" when the device  *)
(* or the network ends it: the controller's socket object is still open,   *)
(* sendall() may go into the kernel's buffer or raise, and frames already  *)
(* sent to the controller may still be read.  It is "closed" once the      *)
(* controller called conn.close(): sendall() raises.                       *)
(***************************************************************************)
EXTENDS Protocol, Sequences

CONSTANT MaxConnections   \* bound: how many connections are ever opened

ASSUME MaxConnectionsAssumption == MaxConnections \in Nat

Conn == 1 .. MaxConnections

VARIABLES
  link,   \* connection -> its condition
  up,     \* connection -> frames on the way to the controller
  down    \* connection -> frames on the way to the device

transportVars == <<link, up, down>>

TransportTypeOK ==
  /\ link \in [Conn -> {"unused", "up", "cut", "closed"}]
  /\ up   \in [Conn -> Seq(ToController)]
  /\ down \in [Conn -> Seq(ToDevice)]

TransportInit ==
  /\ link = [c \in Conn |-> "unused"]
  /\ up   = [c \in Conn |-> << >>]
  /\ down = [c \in Conn |-> << >>]

\* The connection the next connect() opens.
Fresh(c) == link[c] = "unused" /\ \A k \in Conn : k < c => link[k] # "unused"

\* create_connection() and the first send() of the device.
Connect(c, frame) ==
  /\ Fresh(c)
  /\ link' = [link EXCEPT ![c] = "up"]
  /\ up'   = [up EXCEPT ![c] = <<frame>>]
  /\ UNCHANGED down

\* The two outcomes of conn.sendall(encode(m)) on the controller.
SendOk(c, m) ==
  /\ link[c] \in {"up", "cut"}
  /\ down' = IF link[c] = "up" THEN [down EXCEPT ![c] = Append(@, m)] ELSE down
  /\ UNCHANGED <<link, up>>

SendRaises(c) == link[c] \in {"cut", "closed"} /\ UNCHANGED transportVars

\* Next line of _recv_lines(conn), with the buffering of partial lines abstracted.
RecvLine(c, m) ==
  /\ link[c] # "closed"
  /\ up[c] # << >>
  /\ m = Head(up[c])
  /\ up' = [up EXCEPT ![c] = Tail(@)]
  /\ UNCHANGED <<link, down>>

\* The device's end: read one frame, write at most one reply.  A reply on a
\* connection that is gone is lost.
DeviceExchange(c, m, reply) ==
  /\ down[c] # << >>
  /\ m = Head(down[c])
  /\ down' = [down EXCEPT ![c] = Tail(@)]
  /\ up' = IF link[c] = "up" THEN [up EXCEPT ![c] = @ \o reply] ELSE up
  /\ UNCHANGED link

DeviceSend(c, m) ==
  /\ up' = IF link[c] = "up" THEN [up EXCEPT ![c] = Append(@, m)] ELSE up
  /\ UNCHANGED <<link, down>>

\* The connection ends on the device's side; what the device did not read is lost.
Cut(c) ==
  /\ link[c] \in {"up", "cut", "closed"}
  /\ link' = IF link[c] = "up" THEN [link EXCEPT ![c] = "cut"] ELSE link
  /\ down' = [down EXCEPT ![c] = << >>]
  /\ UNCHANGED up

\* conn.close() on the controller; the device may still read what was sent.
CloseConn(c) ==
  /\ link' = [link EXCEPT ![c] = "closed"]
  /\ up'   = [up EXCEPT ![c] = << >>]
  /\ UNCHANGED down
=============================================================================
