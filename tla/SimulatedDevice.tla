--------------------------- MODULE SimulatedDevice --------------------------
(***************************************************************************)
(* The device side: simulations/base.py with the two hooks of the LED and  *)
(* of the temperature sensor.  One single-threaded process per device id;  *)
(* it takes the frames of its connection in order and executes every       *)
(* COMMAND it takes, a repeated one again.                                 *)
(***************************************************************************)
EXTENDS Transport

CONSTANTS
  Misconfigured,   \* devices started with another AUTH_TOKEN
  Sensor,          \* temperature sensors: they push readings on their own
  MaxReadings      \* bound: unsolicited readings per sensor

ASSUME MisconfiguredAssumption == Misconfigured \subseteq Device
ASSUME SensorAssumption == Sensor \subseteq Device
ASSUME MaxReadingsAssumption == MaxReadings \in Nat

VARIABLES
  running,         \* device -> self.running
  authenticated,   \* device -> self.authenticated
  sock,            \* device -> its connection, None between two connections
  job,             \* device -> the COMMAND it acked and has not executed yet
  readings,        \* device -> unsolicited readings sent
  level            \* device -> version of its state, moved by execute and tick

deviceVars == <<running, authenticated, sock, job, readings, level>>

DeviceTypeOK ==
  /\ running \in [Device -> BOOLEAN]
  /\ authenticated \in [Device -> BOOLEAN]
  /\ sock \in [Device -> Conn \cup {None}]
  /\ job \in [Device -> [cmd_id : Cmd, attempt : Nat] \cup {None}]
  /\ readings \in [Device -> Nat]
  /\ level \in [Device -> Nat]

DeviceInit ==
  /\ running = [d \in Device |-> TRUE]
  /\ authenticated = [d \in Device |-> FALSE]
  /\ sock = [d \in Device |-> None]
  /\ job = [d \in Device |-> None]
  /\ readings = [d \in Device |-> 0]
  /\ level = [d \in Device |-> 0]

\* _connect_once(), up to the listen loop.
DeviceConnect(d, c) ==
  /\ running[d] /\ sock[d] = None
  /\ Connect(c, make_auth(d, d \notin Misconfigured))
  /\ sock' = [sock EXCEPT ![d] = c]
  /\ UNCHANGED <<running, authenticated, job, readings, level>>

\* The listen loop handles the next frame only when the last one is done with.
Listening(d) == running[d] /\ sock[d] # None /\ job[d] = None

DeviceAuthOk(d) ==
  /\ Listening(d)
  /\ DeviceExchange(sock[d], make_auth_ok, << >>)
  /\ authenticated' = [authenticated EXCEPT ![d] = TRUE]
  /\ UNCHANGED <<running, sock, job, readings, level>>

\* The loop ends on running = False; DeviceLost is the close that follows.
DeviceAuthFail(d) ==
  /\ Listening(d)
  /\ DeviceExchange(sock[d], make_auth_fail, << >>)
  /\ running' = [running EXCEPT ![d] = FALSE]
  /\ UNCHANGED <<authenticated, sock, job, readings, level>>

DeviceHeartbeat(d) ==
  /\ Listening(d)
  /\ DeviceExchange(sock[d], make_heartbeat, <<make_heartbeat_ack>>)
  /\ UNCHANGED deviceVars

\* _handle_command(): ack first, ...
DeviceTakeCommand(d, m) ==
  /\ Listening(d) /\ m.msg_type = "COMMAND"
  /\ DeviceExchange(sock[d], m, <<make_received_ack(m.cmd_id, m.attempt)>>)
  /\ job' = [job EXCEPT ![d] = [cmd_id |-> m.cmd_id, attempt |-> m.attempt]]
  /\ UNCHANGED <<running, authenticated, sock, readings, level>>

\* Mutant: the command stays to be done.
DeviceExecuteForgetful(d) ==
  /\ job[d] # None
  /\ level' = [level EXCEPT ![d] = @ + 1]
  /\ DeviceSend(sock[d], make_status(level[d] + 1, job[d].cmd_id, job[d].attempt))
  /\ UNCHANGED <<running, authenticated, sock, job, readings>>

\* ... then execute() and the STATUS with the state it left.
DeviceExecute(d) ==
  /\ job[d] # None
  /\ level' = [level EXCEPT ![d] = @ + 1]
  /\ DeviceSend(sock[d], make_status(level[d] + 1, job[d].cmd_id, job[d].attempt))
  /\ job' = [job EXCEPT ![d] = None]
  /\ UNCHANGED <<running, authenticated, sock, readings>>

\* An unsolicited STATUS, when a reading is due.
SendReading(d) ==
  /\ d \in Sensor /\ Listening(d)
  /\ readings[d] < MaxReadings
  /\ readings' = [readings EXCEPT ![d] = @ + 1]
  /\ level' = [level EXCEPT ![d] = @ + 1]
  /\ DeviceSend(sock[d], make_status(level[d] + 1, None, 0))
  /\ UNCHANGED <<running, authenticated, sock, job>>

\* TempDevice.tick()
DeviceTick(d) == authenticated[d] /\ SendReading(d)

\* recv() or sendall() fails, the controller closed, or the loop ended: _close().
\* Between RECEIVED_ACK and execute() nothing fails, so a command is dropped there
\* only with the process, which is started again.
DeviceLost(d) ==
  /\ sock[d] # None
  /\ Cut(sock[d])
  /\ sock' = [sock EXCEPT ![d] = None]
  /\ authenticated' = [authenticated EXCEPT ![d] = FALSE]
  /\ job' = [job EXCEPT ![d] = None]
  /\ UNCHANGED <<running, readings, level>>
=============================================================================
