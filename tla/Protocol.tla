------------------------------ MODULE Protocol ------------------------------
(***************************************************************************)
(* The frames of controller/protocol/message_format.py.                    *)
(*                                                                         *)
(* encode() and decode() are inverse on every frame a builder makes (one   *)
(* line of ASCII JSON), so a frame travels as the record it encodes.       *)
(* Timestamps, params and texts are left out.  The token is abstracted to  *)
(* whether it equals AUTH_TOKEN, a device state to a version number.       *)
(***************************************************************************)
EXTENDS Integers

CONSTANTS
  Device,        \* the device ids
  None,          \* Python's None
  MaxCommands    \* bound: how many commands the operator sends

ASSUME NoneAssumption == None \notin Device /\ None \notin Int
ASSUME MaxCommandsAssumption == MaxCommands \in Nat

\* cmd_ids in the order new_cmd_id() makes them; uuid4 prefixes taken as distinct.
Cmd == 1 .. MaxCommands

make_auth(d, valid) == [msg_type |-> "AUTH", device_id |-> d, token |-> valid]
make_auth_ok        == [msg_type |-> "AUTH_OK"]
make_auth_fail      == [msg_type |-> "AUTH_FAIL"]
make_heartbeat      == [msg_type |-> "HEARTBEAT"]
make_heartbeat_ack  == [msg_type |-> "HEARTBEAT_ACK"]

\* attempt is a history field, not on the wire: 0 on the first transmission of
\* a command, n on its n-th retry.  Replies carry the attempt they answer.
make_command(d, c, n)      == [msg_type |-> "COMMAND", device_id |-> d, cmd_id |-> c,
                               attempt |-> n]
make_received_ack(c, n)    == [msg_type |-> "RECEIVED_ACK", cmd_id |-> c, attempt |-> n]
make_status(state, c, n)   == [msg_type |-> "STATUS", state |-> state,
                               cmd_id |-> c, attempt |-> n]

\* A line json.loads refuses, or one that is not an object.
Garbage == [msg_type |-> "GARBAGE"]

\* A COMMAND, a HEARTBEAT or a type the controller does not know.
Unexpected == [msg_type |-> "UNEXPECTED"]

ToDevice ==
  {make_auth_ok, make_auth_fail, make_heartbeat}
    \cup [msg_type : {"COMMAND"}, device_id : Device, cmd_id : Cmd, attempt : Nat]

ToController ==
  [msg_type : {"AUTH"}, device_id : Device \cup {None}, token : BOOLEAN]
    \cup {make_heartbeat_ack, Unexpected, Garbage}
    \cup [msg_type : {"RECEIVED_ACK"}, cmd_id : Cmd, attempt : Nat]
    \cup [msg_type : {"STATUS"}, state : Nat, cmd_id : Cmd \cup {None},
          attempt : Nat]
=============================================================================
