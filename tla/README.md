# Verification of the Remote Device Control and Monitoring System

TLA+ models of the controller (`src/controller`), of the devices
(`src/simulations`, `src/devices`) and of the benchmark (`src/scripts`), TLC configurations that check them on small instances, and
TLAPS proofs of the properties that hold for every instance. Paths below are
relative to the repository, which the models call `src/`.

    tlc -workers 2 -config MCDelivery_retries.cfg MCDelivery.tla
    tlapm DeliveryProofs.tla

## 1. The system

One controller process serves many devices over TCP with newline-delimited JSON.

| Part | State it keeps | Operations that change it | Used by |
| --- | --- | --- | --- |
| device registry (`device_manager.py`) | `_registry`: device id -> socket, `last_heartbeat`, `heartbeat_sent_at`, `alive`, `last_status` | `register`, `unregister`, `mark_heartbeat_sent`, `clear_heartbeat_sent`, `update_heartbeat`, `update_status`, `mark_stale` | sessions, operator, retry loop, heartbeat loop |
| command tracker (`command_tracker.py`) | `_pending`: cmd_id -> flags, retry count, clocks, latencies | `add_command`, `mark_received`, `mark_executed`, `mark_failed`, `bump_retry`, `prune`, `clear` | sessions, operator, retry loop, housekeeping, benchmark |
| latency monitor (`latency_monitor.py`) | `_samples`: a bounded ring for each channel and device | `record`, `clear` | sessions, through the tracker or directly; operator, benchmark |
| session threads (`connection_handler.py`) | per connection: `device_id`, `authenticated`, the receive buffer | one branch of `handle_device()` for each message | started by the accept loop |
| background loops (`server.py`) | copies of table entries for one pass | `_retry_loop`, `_heartbeat_loop`, `_housekeeping_loop`, `_accept_loop` | run for ever |
| operator (`cli/commands.py`) | locals of one command | `send_command`, `run_bench` | main thread |
| simulated devices (`simulations/`) | `running`, `authenticated`, `sock`, the device's own state | connect, `_handle`, `_handle_command`, `tick`, `stop`, `_close` | one process each; the benchmark runs them as threads |
| boards (`devices/`) | the connection, the device's own state | `loop`, `ensureServer`, `handleMessage` | one board each |
| benchmark (`scripts/latency_benchmark.py`) | locals of `run_benchmark()` | three phases over the tables, without the background loops | a process of its own |

Each of the three tables has its own lock; every public function is one critical
section, and readers get copies. So an interleaving happens between calls: a
thread copies an item, lets the lock go, writes to a socket, takes the lock
again. Everything hard in this program lives there:

- the retry loop and the heartbeat loop work through copies while sessions,
  operator and housekeeping change the tables;
- a socket looked up in the registry is used after the device reconnected;
- a device has two sessions for a while after it reconnected, and the old one
  unwinds late;
- a retry is written to the socket before it is counted and its clock restarted;
- a command can fail for the controller and be executed by the device;
- devices lose the connection between ack and execution;
- several threads write to one socket without a common lock, and a full buffer
  takes a frame in pieces; for a moment after `register()` the socket also has a
  timeout, which can end any thread's `sendall()` in the middle of a frame;
- a command is visibly executed before its latency sample is recorded;
- the tables and rings are bounded, and entries vanish under late replies.

What makes each part correct: the registry never holds a socket nobody looks
after, never loses the entry of a live socket, and forgets dead ones; commands
are sent a bounded number of times, only to the device they name, settle in the
end, and are counted once; a session acts only on what an authenticated peer
sends; staleness flags and round-trip samples mean what they say; percentiles
are the ones of the samples held. `PROJECT.json` lists the hazards with their
lines and the properties aimed at them.

## 2. The modules

| Module | Models | Notes |
| --- | --- | --- |
| `Protocol` | `message_format.py`, `constants.py` | frames as records; the token is whether it is the right one; `attempt` is history |
| `Transport` | TCP as both ends use it | two FIFOs per connection; up, cut (gone, not noticed by the controller), closed |
| `DeviceManager` | `device_manager.py` | one operator per critical section |
| `LatencyMonitor` | the rings of `latency_monitor.py` | the latency of a command is the number of the send it is measured from |
| `LatencyStats` | `_percentile`, `_summarise`, `stats`, `format_table` | integer arithmetic |
| `CommandTracker` | `command_tracker.py` | deadlines as the flags `overdue` and `expired` |
| `Sessions` | `handle_device()`, the accept loop | `handler[c]` is where the thread stands |
| `SimulatedDevice` | `simulations/` | one process per device id |
| `Firmware` | `devices/*.ino`, where the boards differ from the simulators | extends `SimulatedDevice` |
| `Delivery` | operator, retry loop, housekeeping, sessions, devices | the core composition |
| `Ledger` | what delivery promises: at-least-once, with a limit | abstract; `Delivery` implements it |
| `Heartbeat` | heartbeat loop, sessions, devices, clock | |
| `Peers` | sessions against peers that send anything | |
| `Framing` | `sendall()`, `recv()`, `_recv_lines()`, `_listen_loop()` on bytes | one connection, several writers, and the timeout its socket has until AUTH_OK is out |
| `LineChannel` | what a direction of a connection promises: whole frames in order | abstract; `Framing` implements it upstream |
| `Benchmark` | `run_benchmark()` with its sessions and devices | second composition of the controller's tables |
| `ComponentProofs` | lemmas about frames, queues, tables and sessions | used by all that follow |
| `DeliveryProofs`, `ReplyProofs` | theorems about `Delivery` | the second extends the first |
| `PeersProofs`, `HeartbeatProofs`, `LatencyStatsProofs`, `BenchmarkProofs`, `FramingProofs` | theorems about the module in the name | |
| `MCDelivery`, `MCHeartbeat`, `MCPeers`, `MCLatencyStats`, `MCFraming`, `MCBenchmark` | instances for TLC | one `.cfg` per question |

How actions correspond to code. A step is one critical section, one `sendall()`
or one read of a local copy; a handler that makes several of these is several
actions, tied together by a program counter (`cli`, `retry`, `loop`, `handler`).
Reading a frame from a thread's own buffer goes with the step that follows.
`lm.record()` goes with the critical section before it, because nothing in
`Delivery` reads the samples in between; the driver of `Benchmark` does, and there
`mark_executed()` is two steps (`SessionMarks`, `SessionRecords`). `register()` and `AUTH_OK` are two steps, and so are
`update_status()` and `mark_executed()` of a STATUS, since other threads do see
what is in between.

The copies: `todo[c]` is what the retry loop's list still says of command `c`,
`retry.conn` its local socket, `cli` the locals of `send_command()`, `round[d]`
the copied registry entry of the heartbeat loop.

A deadline is a flag that time sets at any moment it could pass (`AckTimeout`,
`RetentionElapses`), in `Heartbeat` a clock that may tick between any two steps.

Choices of the abstraction:

- ids of commands are numbers in the order they are made, taken as distinct;
- a device state is a version number that moves with every execution and every
  reading, so that "newer" is defined; what LED and sensor do with an action,
  its parameters and the `success` field are left out (`mark_executed()` does not
  look at `success`);
- frames are whole, except in `Framing`, which shows when that is so;
  `encode()` and `decode()` are inverse on them;
- `sendall()` returns or raises, it does not block, again except in `Framing`; and
  it raises on dead connections only. The code has one moment where a send can fail
  on a live one (next section). So `OnlyDeadSocketsAreDropped` and what `Delivery`
  says of links that hold are about connections whose buffers have room in that
  moment;
- a device puts its own id into its frames, so the sender in a message is the
  session's device (`msg.get("device_id") or device_id` in the code). `Peers`
  does not send other ids after AUTH either. The message types a session ignores
  there are a second AUTH and one for all the others (`Unexpected`).

### How the pieces fit

`Protocol`, `Transport`, `DeviceManager`, `LatencyMonitor`, `CommandTracker`,
`Sessions`, `SimulatedDevice` and `Firmware` are components. `Delivery`,
`Heartbeat`, `Peers` and `Benchmark` compose them with the threads that drive
them. `Framing` stands below `Transport`: the bytes from `register()` on, with a
thread in the middle of a `sendall()` as a state of its own.

`Framing` begins inside a window of the code. `handle_device()` sets
`AUTH_TIMEOUT_SEC` on the socket (`connection_handler.py:68`), puts the socket into
the registry (98), writes AUTH_OK and lifts the timeout (101). A `sendall()` that
the retry loop, the heartbeat loop or the operator begins between 98 and 101 has
the timeout as well (`timed`). When the buffers stay full it raises
`socket.timeout` with part of the frame written; `_send()` takes that for a dead
socket and nobody closes the connection (`SendTimesOut`). The half that was written
spoils that request (`givenUp`) and the one behind it (`glued`).

Two abstract specifications say what is promised, and a refinement mapping shows
each implemented:

- `Ledger`: a command is open, then done, failed or forgotten; somebody decides
  to transmit it while it is open and transmits it once for each decision, never
  more than the limit; a device runs what was transmitted; done means run.
  `Delivery` maps its table to the verdict, the loop's list and `send_command()`
  to the decisions (`Verdict`, `DueNow`): whether the retry loop, working on
  copies, ever does what its snapshot did not justify shows here.
- `LineChannel`: the frames written are read whole, in order, once, up to some
  point. `Framing` implements it from device to controller, where one thread
  writes under `_send_lock`. From controller to device it does not: frames
  written across one another are torn, and so are a frame given up half way and the
  one right behind it. `OnlyDisturbedFramesAreTorn` and `IntactRequestsAreAnswered`
  confine the damage to those frames.

## 3. The runs

Bounds are constants of the `.cfg` files: `MaxCommands`, `MaxConnections` (how
often devices connect in total), `COMMAND_MAX_RETRIES`, `MAX_TRACKED`,
`MAX_SAMPLES`, `MaxReadings`, `MaxFrames`, `SendBuffer`, `MaxTime`, `MaxRecords`,
`MaxLosses`, and the sizes `Warmup`, `Samples`, `Burst` of the benchmark's phases.

| Run | Instance | Shows |
| --- | --- | --- |
| `retries` | a simulator and a board, 1 command, 2 connections, 1 retry | bounded sends and their accounting, executions per transmission, `executed` implies it ran and was acked, one sample per command and channel, registry entries have a session, commands travel only to the device they name |
| `queue` | a simulated sensor, and a board with a sensor and a wrong token, 1 connection, 3 commands, table of 2, 1 reading each, no retry | a reading never counts as the answer to a command; an awaited command is dropped only for room and in order of age; the misconfigured device is never in the registry and never greeted |
| `settles` | 1 device, 1 command, 2 connections, 1 retry, fair | commands settle; on steady links they are executed; dead sockets leave the registry; a new connection is greeted; pruned commands stay away; `Delivery` implements `Ledger` |
| `peers` | 1 connection, any 3 frames naming 2 device ids, fair | the first JSON object decides for the whole connection; nobody else has effects; silent peers are dropped; sessions clean up |
| `heartbeats` | 1 device, 2 connections, 3 time units, interval and timeout 1 | samples never too long, silent devices flagged, only dead sockets dropped |
| `statistics` | 2 devices, 3 channels, 4 samples of 3 values, rings of 3, tables made at any time | rings, percentiles, and the rows of a table against each other |
| `framing` | 1 connection, AUTH_OK, 2 COMMANDs and 1 HEARTBEAT from three threads, frames of 2 and 3 bytes, 2 bytes of buffer each way, fair | only frames that overlap, time out half way or follow such a half are torn; replies form a `LineChannel`; no `sendall()` blocks for ever; requests that nothing came across are answered |
| `benchmark` | 1 device, 2 connections, 1 failing link, phases of 1 command each, fair | one command in flight while no wait runs out; the numbers of a report belong together; the benchmark ends and nothing stays registered |

Why these bounds are enough to be of interest. Two connections of one device give
a reconnection with an old and a new session alive together; one retry gives two
transmissions and so duplicate and late replies. One command is enough where the
property is about one command, since commands meet only in `prune()` and in the
order of the retry loop. `queue` has those: three commands in a table of two give
the overflow of `prune()` with a younger command to spare. Its sensors add STATUS
frames that answer no command, and its one connection, which either device may
take, is enough there, because a session looks at its own AUTH only and `prune()`
at no connection. The board of `retries` executes a command after its connection
is gone and skips frames on a connection that stays up. One connection is enough
for `peers`, whose properties are about one session each; two device ids let a
second AUTH try another name. In `heartbeats` three time units hold a device that
is silent for longer than interval plus timeout, and two pings under way at once.
In `framing` a buffer smaller than a COMMAND makes every `sendall()` of one partial
and lets both directions fill up at the same time; two COMMANDs of one thread make
lines that follow each other in one read; a COMMAND that times out and a HEARTBEAT
behind it make the other kind of torn line. In `benchmark` three phases of one
command, with a reconnection at any point, have a sample held back across each of
the two clears and each of the two reports, and a late answer from every phase in a later one; more commands or a
second device would only repeat these, at a size TLC cannot finish with fairness.
Its rings of two hold the samples of a phase with one to spare, and overflow when the
sessions of two connections record late samples of both earlier phases in the burst.
Where the bound could matter for the accounting of transmissions, the theorems of
section 5 remove it.

Deadlock is checked in the runs of `Delivery` and of `LatencyStats`, where
housekeeping, respectively making tables, can always step. The instances of
`Peers`, `Heartbeat`, `Framing` and `Benchmark` really come to an end, when their
bounds are used up or the benchmark is done, and there it is switched off.

Definitions commented as "Mutant" are plausible mistakes in the operation they
precede. No specification uses them; `PROJECT.json` says which property notices
when one takes the place of the operation.

### What the code does not keep

These runs end in a counterexample. Each property states what a document or a
test of the repository says; `PROJECT.json` quotes it under "findings".

| Run | Said | Done |
| --- | --- | --- |
| `latency_attempt` | the latency is that of the attempt that worked | it is measured from `bump_retry()`, which runs after the send, for whichever attempt's ack is processed |
| `in_flight` | in_flight is what still waits | a failed command that was executed later is subtracted twice |
| `drips` | an unauthenticated peer is dropped after the timeout | each line it sends renews the timeout |
| `reconnected` | devices reconnect on their own | when the session of the old connection reads its AUTH last, the device ends up connected, greeted and in no table |

Other things to know about the code, visible in the models and not held against
it by a run: the retry loop looks at `executed` and `failed`, so a command whose
ack is in is resent until its STATUS is in, and one that finishes while the loop
works on its copy is resent once more; a socket is in the registry before its
AUTH_OK is written, so a COMMAND can come first; the session of an old connection
may write an older `last_status` over a newer one; a HEARTBEAT_ACK that comes
after the next ping is measured from that one, and so reported too short; a device
whose ack comes in, or that reconnects, between the heartbeat loop's copy and its
check is flagged as not alive although it was just heard from; `mark_executed()`
records its sample after it released the lock, so the last warm-up sample can
survive `lm.clear()` in `run_benchmark()`, and the last one of a phase can be
missing from its report; a ping begun before the session lifts `AUTH_TIMEOUT_SEC`
can time out on a connection that lives on (`SendTimesOut`), and then the heartbeat
loop, which takes the socket for gone (`server.py:85`), removes the entry of a device
that has no reason to reconnect.

## 4. Fairness

Liveness runs use `FairSpec`. `Delivery` assumes weak fairness of

- the operator's thread inside `send_command()`: it runs to the end of a command
  it began, and nothing makes it begin one;
- the retry loop: a daemon thread that repeats until shutdown;
- the two deadlines of each command: time passes;
- each session thread, with its acceptance: the accept loop repeats and threads
  are scheduled;
- each device: it works off what it received, connects again after it lost its
  connection and notices that the controller closed (`recv()` returns nothing).

Links may fail at any time and need not. No fairness is given to housekeeping, so
settling does not rest on pruning. `MaxConnections` bounds how often connections
are opened; a device that used them up stays away, which for these properties is
one more device that does not come back. `sendall()` is assumed to return or
raise: a peer that stops reading blocks the loop that writes to it, which is
listed as a hazard.

`Peers` has weak fairness of the accept and session threads only; peers do as
they please.

`Framing` has weak fairness of the device, of the session, and of a call of
`sendall()` that was begun, which goes on while the kernel has room; nothing makes
a thread begin one. A device process that is stopped as a whole (not closed) is
outside this: it blocks whoever writes to it, for as long as TCP keeps the
connection. The timeout of the device's socket (`POLL_INTERVAL_SEC`) also applies to
its own `sendall()`, and the one before AUTH (`AUTH_TIMEOUT_SEC`) to the
`sendall()` of AUTH_OK, which is what resolves a device and a session that both
wait for room. Both elapse for sure. The timeout of another thread's call may
elapse and need not, since `settimeout(None)` may overtake the call. Each thread
has `MaxFrames` frames to send, so `IntactRequestsAreAnswered` may speak of the end:
once a request counts as answered, disturbed or cut off, it stays so.

`Benchmark` has weak fairness of the driver, whose waits run out, of the accept and
session threads, and of the devices, as in `Delivery`; links need not fail. The
listener takes connections for sure until the driver stops. It may take one after
that, since closing the listener does not wake a thread that is blocked in
`accept()`.

## 5. Proofs

The theorems hold for all constants: any set of devices, finite or not, any
numbers of commands, connections, retries, samples and frames, any intervals.
They rest on the named assumptions beside the constants: `None` is none of the
ids, numbers, frames, lists and records; the bounds are natural numbers;
`MAX_SAMPLES` is positive; the devices a benchmark starts are finitely many, and
its phases make no more commands than there are numbers for. Nothing else is
assumed, no fairness among it, and no theorem has assumptions of its own.

An invariant a run checks is seldom inductive. Each proof has an inductive
invariant that implies it: `Init` implies it, and every step of `Next` keeps it.
The proofs go by the action; where several invariants need the same facts, a lemma
first says what a step may do to one variable (`SessionMoves` to sessions and
registry, `EntryNext` to one entry, `AskedNext` to the pings of one connection),
and the invariants follow from that.

About `Delivery`:

| Theorem | Property | Inductive invariant and argument |
| --- | --- | --- |
| `DeliveryTypes` | `TypeOK` | `TypeInv` adds what a thread finds in its locals at the place where it stands (`CliCoherent`, `RetryCoherent`, `SessionCoherent`, `DeviceCoherent`) |
| `RetryAccounting`, `TransmissionsAreBounded` | `RetryBudget`, `BoundedSends` | the loop decides on a copied `retry_count`, the send comes before the count, and a pruned command has no count. `RetryBudget`: transmissions are at most the operator's one (`Given`), plus the retries the loop goes by (`Count`: those of its copy, else of the table, else all), plus the one sent and not yet counted (`Unbumped`) |
| `PrunedAreForgotten` | `PrunedStaysGone` | only `add_command()` makes an entry, and with a number not used before |
| `AwaitedMakeRoom` | `DroppedOnlyForRoom` | a counting argument about `prune()`: the commands that stay for age are the youngest, and as many as there is room for (`LeastAreMany`) |
| `EntriesHaveSessions`, `CommandsAreRouted`, `UntrustedAreRefused` | `EntryHasItsSession`, `NeverMisrouted`, `UntrustedIsNeverServed` | `RoutingInv`: for each connection, the device at the other end, the name the session took, the AUTH on its way and the sockets that the senders hold agree |
| `RunsAreBounded` | `RunsBoundedBySends` | `RunInv`: attempt n of a command is in one place at a time, a queue or the hands of a device (`OnePlace`), and runs and transmissions under way are at most the transmissions made |
| `ExecutedIsTrue` | `ExecutedMeansRan` | `ReplyInv`: a STATUS in a queue means that the command ran, and that its ack was processed or is ahead of it (`AckFirst`) |
| `SampledOnce` | `OneSamplePerCommand` | `SamplesInv`: a channel holds samples of those commands only whose flag is set or whose entry is gone, each once |
| `DeliveryImplementsLedger` | `ImplementsLedger` | step by step under `ReplyInv`: each action is one action of the `Ledger` for the command and the sender it is about, or leaves the mapped state as it is |

About the others:

| Theorem | Property | Inductive invariant and argument |
| --- | --- | --- |
| `PeersTyped`, `FirstFrameSettles`, `StrangersHaveNoEffect` | `TypeOK`, `FirstFrameDecides`, `OnlyGreetedPeersAct` | `PeersInv`: the first object of a connection is the first one in its queue, with refused lines only before it, until the session reads it; after that the session's state tells what it was |
| `HeartbeatTyped` | `Heartbeat!TypeOK` | part of `HeartbeatInv` |
| `SilentAreFlagged` | `SilentIsFlagged` | `SilentIsCopied`: whoever was silent too long when the pass began, and still shows as alive, is in the loop's copy with the socket and the clock the registry has |
| `LiveSocketsStay` | `OnlyDeadSocketsAreDropped` | `FailedIsGone` (the copied socket of a ping that failed is dead) and `SessionsLeave` (a session that leaves with a name leaves a dead connection); `unregister()` compares sockets |
| `RttIsNeverTooLong` | `RttNeverTooLong` | `PingsAsked` counts pings and answers under way on each connection against the pings sent; `TimerIsLate`: the timer of a device never runs from before one of its pings, though they may have gone to a connection it has left |
| `StatsTyped`, `RingsHoldNewest` | `LatencyStats!TypeOK`, `RingKeepsNewest` | `StatsInv`: a ring is the window of the newest samples in the history of its device and channel, as long as the history or full |
| `PercentilesAreNearestRanks` | `PercentileIsNearestRank` | the places of the sorted list are counted: each value has one of its own (`PlacesDiffer`, and no fewer places are taken than there are values), with fewer values below it than its place and at least that many at or below it (`PlaceCounts`, `Splits`) |
| `AllLiesBetweenDevices` | `AllDevicesBetweenDevices` | `Pooled`: a property that all values of every device's ring have, all values of the joined list have, by induction along the joining; the sum by induction over what is summed |
| `TablesAddUp` | `RowsAddUpToLessThanAll` | `RowsInv`: no device has two rows, so what the rows counted is at most what the rings held then; rings only grow while a table is made, and the row of all devices comes last |
| `BenchmarkTyped` | `Benchmark!TypeOK` | `TypeInv` adds the locals of the driver at each place (`DriverCoherent`); `IssuedInTime` ties the commands made to the phase and the index of its loop, which is what keeps `issued` within the sizes of the phases |
| `OneCommandInFlight` | `OneInFlight` | `FlightInv`: a command is in one queue or in the hands of one device, and answered only when it is there no more (`Flights`); a session in the middle of a STATUS still has that frame at the head of its queue (`StatusRead`); while no wait ran out, only the driver's own command is on its way or unfinished, and only where the driver is at its send or its wait (`Quiet`) |
| `ReportsOfBenchmarkAddUp` | `ReportsAddUp` | `CountInv`: a STATUS has its ack before it on the connection (`AckFirst`), so the wait that ends with a STATUS ends after the ack was booked; whatever left a trace in a table, a queue or a device was sent in this phase (`SentInv`); the lists of the driver hold what was sent and completed (`ListsInv`); each sample is booked once, and one that is missing is with the session that marked its command (`BooksInv`, `FoundInv`), or a ring is full. `AcksInv` adds, while no wait ran out, that the acks are those of the phase |
| `FramingTyped` | `Framing!TypeOK` | `TypeInv`: a thread in the middle of a frame is the last one that wrote to its direction |
| `FramesThatKeepClearAreWhole` | `OnlyDisturbedFramesAreTorn` | `ClearInv`, about the controller's bytes still to be read, in the buffer of the device and in the kernel's: a frame that no other sender cut into, that was not given up and that does not follow such a half stands there as its bytes in a row, up to where its sender has got (`Whole`), and whoever is in the middle of such a frame wrote the last byte there is (`MidFrameIsLast`) |
| `RepliesImplementLineChannel` | `RepliesAreAChannel` | `ReadsInOrder`: the bytes the session has not read are those of the replies not yet read, the next one first and without a gap, and of all of them unless the device closed; every step is a `Write`, a `Read` or a stutter of `LineChannel` |

`ReportsOfBenchmarkAddUp` assumes nothing about the sizes of the phases: by default
they do not fit into one ring (50 + 200 + 1000 commands, rings of 1000). A session
can hold an execute sample of the closed phase past `clear()` and record it in the
open phase, where it may push one of that phase out. So the theorem says what is
left when a ring is full (`RingFull`): the report still has the commands of its own
phase only, no ack of another phase, and acks for all of its commands or for as
many as a ring holds. While no ring is full, no sample is missing that a session is
not about to record. A full ring shows in the state and needs no assumption:
`PushKeepsFull` says that a ring once full stays so until `clear()`.

Left to TLC is all liveness (`EveryCommandSettles` and its like): fairness and
`ENABLED` are out of the prover's reach. Every invariant and every action property
of a passing run, and both refinements, are theorems. The library's
induction theorems take an operator as a parameter, which none of the provers can
instantiate; where a proof goes by induction over a sequence or a set
(`FramingProofs`, `LatencyStatsProofs`), it takes the least number with a
counterexample instead (`LeastNumber`). `LatencyStats` says itself what a stable sort
is, by the place of each value, because the provers cannot expand the library's
`SortSeq`.

## 6. Not modelled

- `cli.py`, `parser.py`, `logger.py`, `server_config.py`, the printing commands and
  the benchmark's report: input, output and settings without state that threads
  share. Environment variables are constants of the models.
- `bind_listener()` and `main()`: the loops are daemon threads, and end with the
  process.
- What an action does to an LED or an interval, its parameters and the `success`
  field: `mark_executed()` does not look at them.
- Frames that name another device than the one of their session: the code takes
  the name in the frame, devices only send their own.
- Of the firmware, Wi-Fi, pins and the sensor; and a board that loses power, which
  for the controller is a connection that ends.
- `MAX_TRACKED` between two passes of `prune()`, collisions of `cmd_id`s, and a
  `cmd_id` that is not hashable: listed as hazards, with the reasons.
- The heartbeat loop is not composed with command delivery. They meet in the
  registry only, where `unregister()` of a dead socket is what a session's `finally`
  clause does too, and at the sockets, which is `Framing`.

## 7. Plan

The plan of this project is done. What would extend it: the heartbeat loop composed
with command delivery, and with it the window of `Framing` in `Transport`, so that
what a timed-out send does to commands and registry would be seen in one model.
