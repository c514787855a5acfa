------------------------------ MODULE Heartbeat ------------------------------
(***************************************************************************)
(* The heartbeat loop of controller/server/server.py with the session      *)
(* threads and the devices, on a clock.  It works through a copy of the    *)
(* registry while sessions come and go.                                    *)
(*                                                                         *)
(* One clock stands for time.time() and time.perf_counter().  It may tick  *)
(* between any two steps, so every call may take any time.                 *)
(***************************************************************************)
EXTENDS Sessions, SimulatedDevice

CONSTANTS
  HEARTBEAT_EVERY,     \* HEARTBEAT_EVERY_SEC
  HEARTBEAT_TIMEOUT,   \* HEARTBEAT_TIMEOUT_SEC
  MaxTime              \* bound: the last clock reading

ASSUME HeartbeatAssumption ==
  HEARTBEAT_EVERY \in Nat /\ HEARTBEAT_TIMEOUT \in Nat /\ MaxTime \in Nat

VARIABLES
  now,     \* the clock
  loop,    \* where _heartbeat_loop() stands, with its locals dev_id and now
  round,   \* device -> its entry in the copy of all_devices(), None once dealt with
  due,     \* when _shutdown.wait(HEARTBEAT_EVERY_SEC) returns
  woke,    \* history: when the pass began
  asked    \* history: connection -> for each ping not yet answered, when the loop
           \* turned to the device to send it

heartbeatVars == <<loop, round, due, woke>>
vars == <<transportVars, registry, pending, samples, sessionVars, deviceVars,
          now, heartbeatVars, asked>>

Waiting == [at |-> "wait", dev_id |-> None, now |-> 0]
Between == [at |-> "next", dev_id |-> None, now |-> 0]

TypeOK ==
  /\ TransportTypeOK /\ RegistryTypeOK /\ PendingTypeOK /\ SamplesTypeOK
  /\ SessionTypeOK /\ DeviceTypeOK
  /\ now \in 0 .. MaxTime /\ due \in Nat /\ woke \in Nat
  /\ loop \in [at : {"wait", "next", "arm", "send", "clear", "drop", "check"},
               dev_id : Device \cup {None}, now : Nat]
  /\ round \in [Device -> Entry \cup {None}]
  /\ asked \in [Conn -> Seq(Nat)]

Init ==
  /\ TransportInit /\ RegistryInit /\ PendingInit /\ SamplesInit /\ SessionInit /\ DeviceInit
  /\ now = 0 /\ due = HEARTBEAT_EVERY /\ woke = 0
  /\ loop = Waiting
  /\ round = [d \in Device |-> None]
  /\ asked = [c \in Conn |-> << >>]
-----------------------------------------------------------------------------
(* _heartbeat_loop().  *)

PassOver == loop.at = "next" /\ \A d \in Device : round[d] = None

Wake ==
  /\ loop = Waiting /\ now >= due
  /\ loop' = Between /\ round' = registry /\ woke' = now
  /\ UNCHANGED <<transportVars, registry, due, asked>>

Sleep ==
  /\ PassOver
  /\ loop' = Waiting /\ due' = now + HEARTBEAT_EVERY
  /\ UNCHANGED <<transportVars, registry, round, woke, asked>>

NextDevice(d) ==
  /\ loop.at = "next" /\ round[d] # None
  /\ loop' = [at |-> "arm", dev_id |-> d, now |-> now]
  /\ UNCHANGED <<transportVars, registry, round, due, woke, asked>>

At(d, place) == loop.at = place /\ loop.dev_id = d

Arm(d) == mark_heartbeat_sent(d, now) /\ UNCHANGED <<transportVars, asked>>

\* sendall() of HEARTBEAT on the socket of the copy.
SendPing(c) ==
  /\ SendOk(c, make_heartbeat)
  /\ asked' = IF link[c] = "up"
              THEN [asked EXCEPT ![c] = Append(@, loop.now)]
              ELSE asked
  /\ UNCHANGED registry

PingFails(c) == SendRaises(c) /\ UNCHANGED <<registry, asked>>

Disarm(d) == clear_heartbeat_sent(d) /\ UNCHANGED <<transportVars, asked>>

Step(to) == loop' = [loop EXCEPT !.at = to] /\ UNCHANGED <<round, due, woke>>

\* Mutant: the timer is armed after the send.
ping_device_late(d) ==
  \/ At(d, "arm") /\ SendPing(round[d].conn) /\ Step("send")
  \/ At(d, "arm") /\ PingFails(round[d].conn) /\ Step("clear")
  \/ At(d, "send") /\ Arm(d) /\ Step("check")
  \/ At(d, "clear") /\ Disarm(d) /\ Step("drop")

\* Arm, then send; disarm when the send failed.
ping_device(d) ==
  \/ At(d, "arm") /\ Arm(d) /\ Step("send")
  \/ At(d, "send") /\ SendPing(round[d].conn) /\ Step("check")
  \/ At(d, "send") /\ PingFails(round[d].conn) /\ Step("clear")
  \/ At(d, "clear") /\ Disarm(d) /\ Step("drop")

Done(d) ==
  /\ loop' = Between /\ round' = [round EXCEPT ![d] = None]
  /\ UNCHANGED <<transportVars, due, woke, asked>>

\* The socket is gone.
Drop(d) == At(d, "drop") /\ unregister(d, round[d].conn) /\ Done(d)

\* Mutant: one interval of grace too many.
MissedOneMore(d) ==
  loop.now - round[d].last_heartbeat > 2 * HEARTBEAT_EVERY + HEARTBEAT_TIMEOUT

\* elapsed, between the local now and the last_heartbeat of the copy.
Missed(d) == loop.now - round[d].last_heartbeat > HEARTBEAT_EVERY + HEARTBEAT_TIMEOUT

Check(d) ==
  /\ At(d, "check")
  /\ IF Missed(d) THEN mark_stale(d) ELSE UNCHANGED registry
  /\ Done(d)

HeartbeatLoop ==
  /\ \/ Wake \/ Sleep
     \/ \E d \in Device : NextDevice(d) \/ ping_device(d) \/ Drop(d) \/ Check(d)
  /\ UNCHANGED <<pending, samples, sessionVars, deviceVars, now>>
-----------------------------------------------------------------------------
Tick ==
  /\ now < MaxTime /\ now' = now + 1
  /\ UNCHANGED <<transportVars, registry, pending, samples, sessionVars, deviceVars,
                 heartbeatVars, asked>>

Acks(c) ==
  /\ handler[c] = "open" /\ up[c] # << >> /\ Head(up[c]) = make_heartbeat_ack
  /\ up'[c] = Tail(up[c])

\* The oldest ping of a connection is the one the next HEARTBEAT_ACK answers.
SessionThread(c) ==
  /\ SessionStep(c, now)
  /\ asked' = IF Acks(c) THEN [asked EXCEPT ![c] = Tail(@)] ELSE asked
  /\ UNCHANGED <<deviceVars, now, heartbeatVars>>

AcceptLoop(c) == Accept(c) /\ UNCHANGED <<deviceVars, now, heartbeatVars, asked>>

DeviceStep(d) ==
  /\ \/ DeviceAuthOk(d) \/ DeviceAuthFail(d) \/ DeviceHeartbeat(d) \/ DeviceLost(d)
     \/ \E c \in Conn : DeviceConnect(d, c)
  /\ UNCHANGED <<registry, pending, samples, sessionVars, now, heartbeatVars, asked>>

Next ==
  \/ HeartbeatLoop
  \/ Tick
  \/ \E c \in Conn : AcceptLoop(c) \/ SessionThread(c)
  \/ \E d \in Device : DeviceStep(d)

Spec == Init /\ [][Next]_vars
-----------------------------------------------------------------------------
Recorded(c) == Acks(c) /\ HeartbeatRtt(device_id[c], now) # None

Newest(d) == LET s == samples'["heartbeat"][d] IN s[Len(s)].latency

\* A heartbeat sample is never longer than the round trip it stands for: an ack
\* that overtakes the loop, a late one, or one of an older connection is not
\* measured against an earlier ping.
RttNeverTooLong == [][\A c \in Conn :
  Recorded(c) => asked[c] # << >> /\ Newest(device_id[c]) <= now - Head(asked[c])]_vars

\* Whoever drops an entry, the heartbeat loop on its copy or the session of an old
\* connection, the socket it holds at that moment is dead.
OnlyDeadSocketsAreDropped == [][\A d \in Device :
  is_connected(d) /\ ~is_connected(d)' => link[get_conn(d)] # "up"]_vars

\* When a pass is over, no device that had been silent too long when it began
\* still shows as alive.
SilentIsFlagged ==
  PassOver => \A d \in Device :
    is_connected(d) /\ registry[d].last_heartbeat + HEARTBEAT_EVERY + HEARTBEAT_TIMEOUT < woke
      => ~registry[d].alive
=============================================================================
