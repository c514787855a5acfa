------------------------------ MODULE Delivery ------------------------------
(***************************************************************************)
(* Command delivery end to end: the operator's thread (send_command() and  *)
(* run_bench() of controller/cli/commands.py), the retry and housekeeping  *)
(* loops of controller/server/server.py, one session thread per connection *)
(* and the devices, over the shared registry and command table.            *)
(*                                                                         *)
(* The loops copy what they read under a lock and act on the copy later:   *)
(* todo is the rest of the list pending_items() returned, conn in cli and  *)
(* retry the socket get_conn() returned.  Every lock-protected call and    *)
(* every sendall() is a step, so all threads interleave between them.      *)
(* The heartbeat loop is in Heartbeat, not here.                           *)
(***************************************************************************)
EXTENDS Sessions, Firmware

CONSTANT COMMAND_MAX_RETRIES

ASSUME MaxRetriesAssumption == COMMAND_MAX_RETRIES \in Nat

\* What the retry loop uses of a copied item.
Copy == [retry_count : Nat, device_id : Device]

ASSUME NoneIsNoCopy == None \notin Copy

VARIABLES
  cli,      \* where send_command() stands, with its locals device_id and conn
  retry,    \* where the body of _retry_loop() stands, with its local conn
  todo,     \* command -> what the snapshot says of it, None once dealt with
  issued,   \* history: commands made so far
  sends,    \* history: command -> sendall() calls that returned
  runs      \* history: command -> times a device executed it

history == <<issued, sends, runs>>
tables  == <<registry, pending, samples>>

vars == <<transportVars, tables, sessionVars, deviceVars, cli, retry, todo, history>>

CliTypeOK ==
  /\ cli \in [at : {"idle", "add", "send", "fail"},
              device_id : Device \cup {None}, conn : Conn \cup {None}]
  /\ issued \in Nat /\ issued <= MaxCommands

RetryTypeOK ==
  /\ retry \in [at : {"loop", "send", "bump", "fail"}, conn : Conn \cup {None}]
  /\ todo \in [Cmd -> Copy \cup {None}]

TypeOK ==
  /\ TransportTypeOK /\ RegistryTypeOK /\ PendingTypeOK /\ SamplesTypeOK
  /\ SessionTypeOK /\ DeviceTypeOK /\ CliTypeOK /\ RetryTypeOK
  /\ sends \in [Cmd -> Nat]
  /\ runs \in [Cmd -> Nat]

Idle == [at |-> "idle", device_id |-> None, conn |-> None]
Loop == [at |-> "loop", conn |-> None]

Init ==
  /\ TransportInit /\ RegistryInit /\ PendingInit /\ SamplesInit
  /\ SessionInit /\ DeviceInit
  /\ cli = Idle
  /\ retry = Loop
  /\ todo = [c \in Cmd |-> None]
  /\ issued = 0
  /\ sends = [c \in Cmd |-> 0]
  /\ runs = [c \in Cmd |-> 0]
-----------------------------------------------------------------------------
(* send_command(), and one round of run_bench(). *)

\* dm.get_conn(); with None it only prints.
CliLookup(d) ==
  /\ cli = Idle /\ issued < MaxCommands
  /\ is_connected(d)
  /\ cli' = [at |-> "add", device_id |-> d, conn |-> get_conn(d)]
  /\ UNCHANGED <<transportVars, tables, sessionVars, deviceVars, retry, todo, history>>

\* make_command() and ct.add_command(): the table knows the command before the
\* device does.
CliAdd ==
  /\ cli.at = "add"
  /\ issued' = issued + 1
  /\ add_command(issued + 1, cli.device_id)
  /\ cli' = [cli EXCEPT !.at = "send"]
  /\ UNCHANGED <<transportVars, registry, samples, sessionVars, deviceVars, retry, todo,
                 sends, runs>>

CliSend ==
  /\ cli.at = "send"
  /\ \/ /\ SendOk(cli.conn, make_command(cli.device_id, issued, 0))
        /\ sends' = [sends EXCEPT ![issued] = @ + 1]
        /\ cli' = Idle
     \/ /\ SendRaises(cli.conn)
        /\ cli' = [cli EXCEPT !.at = "fail"]
        /\ UNCHANGED sends
  /\ UNCHANGED <<tables, sessionVars, deviceVars, retry, todo, issued, runs>>

CliFail ==
  /\ cli.at = "fail"
  /\ mark_failed(issued)
  /\ cli' = Idle
  /\ UNCHANGED <<transportVars, registry, samples, sessionVars, deviceVars, retry, todo,
                 history>>

CliStep == (\E d \in Device : CliLookup(d)) \/ CliAdd \/ CliSend \/ CliFail
-----------------------------------------------------------------------------
(* One pass of _retry_loop(). *)

\* The snapshot of pending_items().
RetryScan ==
  /\ retry = Loop /\ \A c \in Cmd : todo[c] = None
  /\ todo' = [c \in Cmd |->
       IF c \in Unfinished
       THEN [retry_count |-> pending[c].retry_count, device_id |-> pending[c].device_id]
       ELSE None]
  /\ UNCHANGED <<transportVars, tables, sessionVars, deviceVars, cli, retry, history>>

\* The command the body of the loop is at.
Current(c) == todo[c] # None /\ \A b \in Cmd : b < c => todo[b] = None

Next_item(c) == todo' = [todo EXCEPT ![c] = None] /\ retry' = Loop

\* last_sent of the snapshot is that of the table, only this loop changes it;
\* for a command that was pruned since, both outcomes are possible.
RetrySkip(c) ==
  /\ retry = Loop /\ Current(c)
  /\ Tracked(c) => ~pending[c].overdue
  /\ Next_item(c)
  /\ UNCHANGED <<transportVars, tables, sessionVars, deviceVars, cli, history>>

Due(c) == retry = Loop /\ Current(c) /\ (Tracked(c) => pending[c].overdue)

RetryGiveUp(c) ==
  /\ Due(c) /\ todo[c].retry_count >= COMMAND_MAX_RETRIES
  /\ mark_failed(c)
  /\ Next_item(c)
  /\ UNCHANGED <<transportVars, registry, samples, sessionVars, deviceVars, cli, history>>

RetryTo(c, conn) ==
  /\ Due(c) /\ todo[c].retry_count < COMMAND_MAX_RETRIES
  /\ retry' = [at |-> IF conn = None THEN "fail" ELSE "send", conn |-> conn]
  /\ UNCHANGED <<transportVars, tables, sessionVars, deviceVars, cli, todo, history>>

\* Mutant: the socket of any device.
RetryLookupAny(c) == \E d \in Device : RetryTo(c, get_conn(d))

RetryLookup(c) == RetryTo(c, get_conn(todo[c].device_id))

RetryFail(c) ==
  /\ retry.at = "fail" /\ Current(c)
  /\ mark_failed(c)
  /\ Next_item(c)
  /\ UNCHANGED <<transportVars, registry, samples, sessionVars, deviceVars, cli, history>>

RetrySend(c) ==
  /\ retry.at = "send" /\ Current(c)
  /\ \/ /\ SendOk(retry.conn, make_command(todo[c].device_id, c, todo[c].retry_count + 1))
        /\ sends' = [sends EXCEPT ![c] = @ + 1]
        /\ retry' = [retry EXCEPT !.at = "bump"]
        /\ UNCHANGED todo
     \/ SendRaises(retry.conn) /\ Next_item(c) /\ UNCHANGED sends
  /\ UNCHANGED <<tables, sessionVars, deviceVars, cli, issued, runs>>

RetryBump(c) ==
  /\ retry.at = "bump" /\ Current(c)
  /\ bump_retry(c)
  /\ Next_item(c)
  /\ UNCHANGED <<transportVars, registry, samples, sessionVars, deviceVars, cli, history>>

RetryItem(c) ==
  \/ RetrySkip(c)
  \/ RetryGiveUp(c)
  \/ RetryLookup(c)
  \/ RetryFail(c)
  \/ RetrySend(c)
  \/ RetryBump(c)

RetryStep == RetryScan \/ \E c \in Cmd : RetryItem(c)
-----------------------------------------------------------------------------
Housekeeping ==
  /\ prune
  /\ UNCHANGED <<transportVars, registry, samples, sessionVars, deviceVars, cli, retry,
                 todo, history>>

TimePasses(c) ==
  /\ AckTimeout(c) \/ RetentionElapses(c)
  /\ UNCHANGED <<transportVars, registry, samples, sessionVars, deviceVars, cli, retry,
                 todo, history>>

SessionThread(c) ==
  /\ SessionStep(c, 0)
  /\ UNCHANGED <<deviceVars, cli, retry, todo, history>>

AcceptLoop(c) ==
  /\ Accept(c)
  /\ UNCHANGED <<deviceVars, cli, retry, todo, history>>

DeviceRuns(d) ==
  /\ DeviceExecute(d)
  /\ runs' = [runs EXCEPT ![job[d].cmd_id] = @ + 1]
  /\ UNCHANGED <<issued, sends>>

\* The frame the device takes next.
NextFrame(d) ==
  IF sock[d] # None /\ down[sock[d]] # << >> THEN {Head(down[sock[d]])} ELSE {}

\* What a simulator and a board do differently with their connection.
SimulatorWorks(d) == DeviceAuthOk(d) \/ DeviceAuthFail(d) \/ DeviceTick(d)
BoardWorks(d) == SendReading(d) \/ \E m \in NextFrame(d) : BoardSkips(d, m)

DeviceWorks(d) ==
  \/ DeviceRuns(d)
  \/ /\ UNCHANGED history
     /\ \/ \E m \in NextFrame(d) : DeviceTakeCommand(d, m)
        \/ d \notin Board /\ SimulatorWorks(d)
        \/ d \in Board /\ BoardWorks(d)

DeviceComesAndGoes(d) ==
  /\ \/ \E c \in Conn : DeviceConnect(d, c)
     \/ d \notin Board /\ DeviceLost(d)
     \/ d \in Board /\ (BoardCutOff(d) \/ BoardLost(d))
  /\ UNCHANGED history

DeviceStep(d) ==
  /\ DeviceWorks(d) \/ DeviceComesAndGoes(d)
  /\ UNCHANGED <<tables, sessionVars, cli, retry, todo>>

Next ==
  \/ CliStep
  \/ RetryStep
  \/ Housekeeping
  \/ \E c \in Cmd : TimePasses(c)
  \/ \E c \in Conn : AcceptLoop(c) \/ SessionThread(c)
  \/ \E d \in Device : DeviceStep(d)

Spec == Init /\ [][Next]_vars

(* Every thread runs; a device works off what it received, reconnects, and  *)
(* notices when the controller closed its connection; timeouts elapse.      *)
(* Nothing makes the operator send or a link fail.                          *)
Notices(d) == sock[d] # None /\ (link[sock[d]] \in {"cut", "closed"} \/ ~running[d])

DeviceThread(d) ==
  /\ \/ DeviceWorks(d)
     \/ (sock[d] = None \/ Notices(d)) /\ DeviceComesAndGoes(d)
  /\ UNCHANGED <<tables, sessionVars, cli, retry, todo>>

Fairness ==
  /\ WF_vars(CliAdd \/ CliSend \/ CliFail)
  /\ WF_vars(RetryStep)
  /\ \A c \in Cmd : WF_vars(TimePasses(c))
  /\ \A c \in Conn : WF_vars(AcceptLoop(c) \/ SessionThread(c))
  /\ \A d \in Device : WF_vars(DeviceThread(d))

FairSpec == Spec /\ Fairness
-----------------------------------------------------------------------------
(* What delivery promises. *)

\* COMMAND_MAX_RETRIES bounds what is put on the wire: no race of the retry loop
\* with acks, reconnections or pruning sends a command more often, although each
\* round decides on a copy of retry_count made before the send.
BoundedSends == \A c \in Cmd : sends[c] <= 1 + COMMAND_MAX_RETRIES

\* Why that bound holds.  1 once the operator's thread has tried its send, ...
Given(c) == IF c > issued \/ (c = issued /\ cli.at = "send") THEN 0 ELSE 1

\* ... 1 while a retry is sent but not yet counted, ...
Unbumped(c) == IF retry.at = "bump" /\ Current(c) THEN 1 ELSE 0

\* ... and the retries the loop goes by: of its copy, else of the table; a
\* command that is in neither may have used them all.
Count(c) == IF todo[c] # None THEN todo[c].retry_count
            ELSE IF Tracked(c) THEN pending[c].retry_count ELSE COMMAND_MAX_RETRIES

\* The copy of retry_count is never out of date, and transmissions are accounted
\* for at every point of the retry loop, pruned commands included.
RetryBudget ==
  \A c \in Cmd :
    /\ sends[c] <= Given(c) + Count(c) + Unbumped(c)
    /\ Count(c) + Unbumped(c) <= COMMAND_MAX_RETRIES
    /\ todo[c] # None /\ Tracked(c) => todo[c].retry_count = pending[c].retry_count
    /\ retry.at = "send" /\ Current(c) => Count(c) < COMMAND_MAX_RETRIES
    /\ c > issued => ~Tracked(c) /\ todo[c] = None /\ sends[c] = 0

\* A device executes a command at most once per transmission: a reconnection in
\* the middle neither replays a frame nor restarts a command it had taken.
RunsBoundedBySends == \A c \in Cmd : runs[c] <= sends[c]

\* The `executed` of the table is the device's word: the command ran at least
\* once and its RECEIVED_ACK was processed before, over however many connections.
ExecutedMeansRan ==
  \A c \in TrackedCmds : pending[c].executed => pending[c].received /\ runs[c] >= 1

\* A COMMAND only travels on a connection whose session authenticated the device
\* it names, even when the socket was looked up before a reconnection.
NeverMisrouted ==
  \A k \in Conn : \A i \in DOMAIN down[k] :
    down[k][i].msg_type = "COMMAND" => down[k][i].device_id = device_id[k]

\* A retransmission's duplicate replies do not count twice in the statistics.
OneSamplePerCommand ==
  \A channel \in CHANNELS, d \in Device :
    LET s == samples[channel][d]
    IN  \A i, j \in DOMAIN s : i # j => s[i].cmd_id # s[j].cmd_id \/ s[i].cmd_id = None

\* The registry never holds a socket no session looks after: the entry's session
\* has registered this device, and has not yet run its finally clause.
EntryHasItsSession ==
  \A d \in Device : is_connected(d) =>
    /\ device_id[get_conn(d)] = d
    /\ handler[get_conn(d)] \in {"registered", "open", "status", "closing"}

\* Late acks, STATUS frames, retries and failures never bring a pruned command
\* back into the table.
PrunedStaysGone == [][\A c \in Cmd :
  c <= issued /\ ~Tracked(c) => ~Tracked(c)']_vars

\* A command still awaited is dropped only to make room, after every older one,
\* and only as far as MAX_TRACKED demands.
DroppedOnlyForRoom == [][\A c \in Cmd :
  Tracked(c) /\ ~Finished(c) /\ ~Tracked(c)' =>
    /\ Cardinality(TrackedCmds') = MAX_TRACKED
    /\ \A b \in TrackedCmds' : b > c]_vars

\* No command is awaited for ever: it is executed, failed or pruned.
EveryCommandSettles == \A c \in Cmd : []<>(Tracked(c) => Finished(c))

\* On links that hold, what was sent is executed and the table says so: a link
\* that failed does not come back, so that the links hold is looked at each time.
SteadyLinksDeliver ==
  \A c \in Cmd :
    []<>( (\A k \in Conn : link[k] \in {"unused", "up"}) /\ sends[c] > 0 /\ Tracked(c)
           => pending[c].executed )

\* A dead connection does not stay in the registry.
DeadLinkIsForgotten ==
  \A k \in Conn : []<>(link[k] = "cut" => \A d \in Device : get_conn(d) # k)

\* A device with the right token that stays connected is greeted.
ConnectedIsGreeted ==
  \A d \in Device \ Misconfigured : []<>(sock[d] # None => authenticated[d])

\* A device whose token is wrong is never in the registry, never greeted, and no
\* session takes its name.
UntrustedIsNeverServed ==
  \A d \in Misconfigured :
    ~is_connected(d) /\ ~authenticated[d] /\ \A k \in Conn : device_id[k] # d
-----------------------------------------------------------------------------
(* Delivery implements the Ledger. *)

Verdict(c) ==
  IF ~Tracked(c) THEN IF c > issued THEN "new" ELSE "forgotten"
  ELSE IF pending[c].executed THEN "done" ELSE IF pending[c].failed THEN "failed" ELSE "open"

\* A command of the loop's list is due until it is sent, dropped or given up.
DueNow ==
  {<<"operator", c>> : c \in {b \in Cmd : cli.at = "send" /\ b = issued}}
    \cup {<<"retry", c>> : c \in {b \in Cmd : todo[b] # None /\ Unbumped(b) = 0}}

AtLeastOnce == INSTANCE Ledger WITH
  Command <- Cmd, Limit <- 1 + COMMAND_MAX_RETRIES,
  verdict <- [c \in Cmd |-> Verdict(c)], due <- DueNow, sent <- sends, ran <- runs

\* README.md:91: seen from outside, the racing threads are an at-least-once
\* delivery with a limit.  Retransmission is decided on while a command is open, a
\* decision makes one transmission, done means run, and no verdict is taken back.
ImplementsLedger == AtLeastOnce!Spec
-----------------------------------------------------------------------------
(* What the documentation or a test says, and the code does not keep: each  *)
(* is refuted by a run.                                                     *)

\* README.md:171 "a retried command reports the latency of the attempt that
\* actually worked": the ack of a retry can be in before bump_retry() restarts
\* the clock, and the ack of the first attempt can come in after it.
LatencyIsOfAnsweredAttempt == [][\A k \in Conn : \A m \in NextLine(k) :
  SessionReceivedAck(k, m) /\ Tracked(m.cmd_id) /\ ~pending[m.cmd_id].received
    => pending'[m.cmd_id].ack_latency = m.attempt]_vars

\* tests/test_server.py:136 in_flight is what is neither executed nor failed
\* (command_tracker.py:127): a command can be both, and is then subtracted twice.
InFlightIsUnfinished == InFlight = Cardinality(Unfinished)

\* README.md:94 "devices reconnect on their own; the controller needs no restart":
\* a session that reads its AUTH late, on a connection that is gone, takes the entry
\* of the new connection over, and the entry goes with it for good.
GreetedIsListed ==
  \A k \in Conn :
    handler[k] = "open" /\ link[k] = "up" ~> link[k] # "up" \/ \E d \in Device : get_conn(d) = k
=============================================================================
