----------------------------- MODULE Benchmark ------------------------------
(***************************************************************************)
(* run_benchmark() of scripts/latency_benchmark.py: one driver thread that *)
(* starts devices, sends commands in three phases (warm-up, closed loop,   *)
(* open loop) and reads the statistics after the last two, over the same   *)
(* registry, command table, sample store and sessions as the controller,   *)
(* without its loops.  Two things the other modules take as one step are   *)
(* two here, because the driver looks in between: mark_executed() sets     *)
(* `executed` under its lock and records the sample after releasing it,    *)
(* and a device is stopped while it may be in the middle of connecting.    *)
(***************************************************************************)
EXTENDS Sessions, SimulatedDevice, SequencesExt

CONSTANTS
  Warmup, Samples, Burst,  \* warmup, samples and throughput_commands
  MaxLosses                \* bound: links that fail by themselves

ASSUME MaxLossesAssumption == MaxLosses \in Nat
ASSUME DevicesAssumption == IsFiniteSet(Device)   \* the ones the driver starts
ASSUME SizesAssumption ==
  {Warmup, Samples, Burst} \subseteq Nat /\ Warmup + Samples + Burst <= MaxCommands

VARIABLES
  driver,     \* where run_benchmark() stands, and its locals
  issued,     \* history: commands made so far
  overrun,    \* history: a wait for a STATUS timed out
  reports,    \* phase -> what its report is made of, until it is returned
  dialing,    \* device -> its thread is in create_connection()
  holding     \* connection -> the command whose sample mark_executed() still holds

benchVars == <<driver, issued, overrun, reports>>
controllerVars == <<transportVars, registry, pending, samples, sessionVars, holding>>
vars == <<controllerVars, deviceVars, dialing, benchVars>>

Phases == {"warmup", "closed", "open"}

Size(phase) == [warmup |-> Warmup, closed |-> Samples, open |-> Burst][phase]

Report == [sent : SUBSET Cmd, completed : SUBSET Cmd,
           ack : SUBSET Cmd, execute : SUBSET Cmd]

TypeOK ==
  /\ TransportTypeOK /\ RegistryTypeOK /\ PendingTypeOK /\ SamplesTypeOK
  /\ SessionTypeOK /\ DeviceTypeOK
  /\ driver \in [at : {"connect", "collect", "look", "make", "send", "fail", "wait", "drain",
                       "ack_stats", "execute_stats", "clear_lm", "clear_ct",
                       "return", "stop", "done"},
                 phase : Phases, ids : Seq(Device), i : Nat, conn : Conn \cup {None},
                 sent : SUBSET Cmd, completed : SUBSET Cmd, ack : SUBSET Cmd,
                 stopped : SUBSET Device]
  /\ issued \in 0 .. Warmup + Samples + Burst /\ overrun \in BOOLEAN
  /\ reports \in [{"closed", "open"} -> Report \cup {None}]
  /\ dialing \in [Device -> BOOLEAN]
  /\ holding \in [Conn -> Cmd \cup {None}]

Start == [at |-> "connect", phase |-> "warmup", ids |-> << >>, i |-> 0, conn |-> None,
          sent |-> {}, completed |-> {}, ack |-> {},
          stopped |-> {}]

Init ==
  /\ TransportInit /\ RegistryInit /\ PendingInit /\ SamplesInit
  /\ SessionInit /\ DeviceInit
  /\ driver = Start /\ issued = 0 /\ overrun = FALSE
  /\ reports = [phase \in {"closed", "open"} |-> None]
  /\ dialing = [d \in Device |-> FALSE]
  /\ holding = [c \in Conn |-> None]
-----------------------------------------------------------------------------
(* Waiting for the devices. *)

Connected == {d \in Device : is_connected(d)}

Goes(at) == driver' = [driver EXCEPT !.at = at]

\* All are there within ten seconds, or RuntimeError.
DriverWaitsForDevices ==
  /\ driver.at = "connect"
  /\ Goes(IF Connected = Device THEN "collect" ELSE "stop")
  /\ UNCHANGED <<controllerVars, deviceVars, dialing, issued, overrun, reports>>

\* Where the loop of a phase goes on before its i-th command.
From(phase, i) ==
  IF i < Size(phase) THEN "look"
  ELSE [warmup |-> "clear_lm", closed |-> "ack_stats", open |-> "drain"][phase]

\* device_ids: whoever is still there; i % 0 raises when nobody is.
DriverCollects ==
  /\ driver.at = "collect"
  /\ driver' = [driver EXCEPT !.ids = SetToSeq(Connected),
                              !.at = IF Connected = {} THEN "stop" ELSE From("warmup", 0)]
  /\ UNCHANGED <<controllerVars, deviceVars, dialing, issued, overrun, reports>>
-----------------------------------------------------------------------------
(* _send_one() *)

Target == driver.ids[(driver.i % Len(driver.ids)) + 1]

\* The next round of the loop, with new lists of what was sent and completed.
Round(sent, completed) ==
  driver' = [driver EXCEPT !.i = @ + 1, !.at = From(driver.phase, driver.i + 1),
                           !.conn = None, !.sent = sent, !.completed = completed]

DriverLooksUp ==
  /\ driver.at = "look"
  /\ IF is_connected(Target)
     THEN driver' = [driver EXCEPT !.at = "make", !.conn = get_conn(Target)]
     ELSE Round(driver.sent, driver.completed)
  /\ UNCHANGED <<controllerVars, deviceVars, dialing, issued, overrun, reports>>

DriverMakes ==
  /\ driver.at = "make"
  /\ issued' = issued + 1
  /\ add_command(issued + 1, Target)
  /\ Goes("send")
  /\ UNCHANGED <<transportVars, registry, samples, sessionVars, holding, deviceVars, dialing,
                 overrun, reports>>

\* The closed loop waits, the open one goes on.
DriverSends ==
  /\ driver.at = "send"
  /\ \/ /\ SendOk(driver.conn, make_command(Target, issued, 0))
        /\ IF driver.phase = "open"
           THEN Round(driver.sent \cup {issued}, {})
           ELSE driver' = [driver EXCEPT !.at = "wait", !.sent = @ \cup {issued}]
     \/ SendRaises(driver.conn) /\ Goes("fail")
  /\ UNCHANGED <<registry, pending, samples, sessionVars, holding, deviceVars, dialing,
                 issued, overrun, reports>>

DriverFails ==
  /\ driver.at = "fail"
  /\ mark_failed(issued)
  /\ Round(driver.sent, driver.completed)
  /\ UNCHANGED <<transportVars, registry, samples, sessionVars, holding, deviceVars, dialing,
                 issued, overrun, reports>>
-----------------------------------------------------------------------------
(* The waits, and the reports. *)

\* Mutant: an acked command counts as executed.
AnsweredOf(S) == {c \in S : Tracked(c) /\ pending[c].received}

\* Those of S for which _executed() is true.
ExecutedOf(S) == {c \in S : Tracked(c) /\ pending[c].executed}

\* _wait_until(): the STATUS is in, or the time is over.
DriverWaits ==
  /\ driver.at = "wait"
  /\ LET done == ExecutedOf({issued})
     IN  Round(driver.sent, driver.completed \cup done) /\ overrun' = (overrun \/ done = {})
  /\ UNCHANGED <<controllerVars, deviceVars, dialing, issued, reports>>

DriverDrains ==
  /\ driver.at = "drain"
  /\ LET done == ExecutedOf(driver.sent)
     IN  /\ driver' = [driver EXCEPT !.at = "ack_stats", !.completed = done]
         /\ overrun' = (overrun \/ done # driver.sent)
  /\ UNCHANGED <<controllerVars, deviceVars, dialing, issued, reports>>

\* The commands whose samples stats(channel) finds.
Sampled(channel) == {x.cmd_id : x \in UNION {ToSet(samples[channel][d]) : d \in Device}}

\* all_stats() takes the lock once per channel.
DriverReads ==
  /\ \/ /\ driver.at = "ack_stats"
        /\ driver' = [driver EXCEPT !.at = "execute_stats", !.ack = Sampled("ack")]
        /\ UNCHANGED reports
     \/ /\ driver.at = "execute_stats"
        /\ reports' = [reports EXCEPT ![driver.phase] =
             [sent |-> driver.sent, completed |-> driver.completed,
              ack |-> driver.ack, execute |-> Sampled("execute")]]
        /\ Goes(IF driver.phase = "closed" THEN "clear_lm" ELSE "return")
  /\ UNCHANGED <<controllerVars, deviceVars, dialing, issued, overrun>>

\* Mutant: the statistics go on from phase to phase.
DriverKeepsSamples ==
  /\ driver.at = "clear_lm"
  /\ Goes("clear_ct")
  /\ UNCHANGED <<controllerVars, deviceVars, dialing, issued, overrun, reports>>

\* lm.clear() ...
DriverClearsSamples ==
  /\ driver.at = "clear_lm"
  /\ clear
  /\ Goes("clear_ct")
  /\ UNCHANGED <<transportVars, registry, pending, sessionVars, holding, deviceVars, dialing,
                 issued, overrun, reports>>

\* ... then ct.clear(), and the next phase.
DriverClearsTable ==
  /\ driver.at = "clear_ct"
  /\ clear_pending
  /\ LET next == IF driver.phase = "warmup" THEN "closed" ELSE "open"
     IN  driver' = [Start EXCEPT !.ids = driver.ids, !.phase = next, !.at = From(next, 0)]
  /\ UNCHANGED <<transportVars, registry, samples, sessionVars, holding, deviceVars, dialing,
                 issued, overrun, reports>>
-----------------------------------------------------------------------------
(* The result is returned, and the finally clause runs. *)

DriverReturns ==
  /\ driver.at = "return"
  /\ driver' = [Start EXCEPT !.at = "stop", !.phase = "open"]
  /\ overrun' = FALSE
  /\ reports' = [phase \in {"closed", "open"} |-> None]
  /\ UNCHANGED <<controllerVars, deviceVars, dialing, issued>>

\* Mutant: the socket is closed, and the device connects again.
DeviceCloses(d) ==
  /\ IF sock[d] # None THEN Cut(sock[d]) ELSE UNCHANGED transportVars
  /\ sock' = [sock EXCEPT ![d] = None]
  /\ authenticated' = [authenticated EXCEPT ![d] = FALSE]
  /\ job' = [job EXCEPT ![d] = None]
  /\ UNCHANGED <<running, readings, level>>

\* stop(), called by the driver; what the device's thread still does without a
\* socket reaches nobody.
DeviceStops(d) ==
  /\ running' = [running EXCEPT ![d] = FALSE]
  /\ IF sock[d] # None THEN Cut(sock[d]) ELSE UNCHANGED transportVars
  /\ sock' = [sock EXCEPT ![d] = None]
  /\ authenticated' = [authenticated EXCEPT ![d] = FALSE]
  /\ job' = [job EXCEPT ![d] = None]
  /\ UNCHANGED <<readings, level>>

\* In any order: the devices are alike.
DriverStops ==
  /\ driver.at = "stop"
  /\ \E d \in Device \ driver.stopped :
       DeviceStops(d) /\ driver' = [driver EXCEPT !.stopped = @ \cup {d}]
  /\ UNCHANGED <<registry, pending, samples, sessionVars, holding, dialing,
                 issued, overrun, reports>>

DriverClosesListener ==
  /\ driver.at = "stop" /\ driver.stopped = Device
  /\ Goes("done")
  /\ UNCHANGED <<controllerVars, deviceVars, dialing, issued, overrun, reports>>

Driver ==
  \/ DriverWaitsForDevices
  \/ DriverCollects
  \/ DriverLooksUp
  \/ DriverMakes
  \/ DriverSends
  \/ DriverFails
  \/ DriverWaits
  \/ DriverDrains
  \/ DriverReads
  \/ DriverClearsSamples
  \/ DriverClearsTable
  \/ DriverReturns
  \/ DriverStops
  \/ DriverClosesListener
-----------------------------------------------------------------------------
(* The threads of the controller and the devices. *)

\* _accept_forever(): closing the listener does not wake accept(), so a connection
\* may still be taken afterwards.
AcceptForever(c) ==
  /\ Accept(c)
  /\ UNCHANGED <<holding, deviceVars, dialing, benchVars>>

\* Those mark_executed() does something for.
Unexecuted == {c \in TrackedCmds : ~pending[c].executed}

\* mark_executed() up to the end of its critical section ...
SessionMarks(c, m) ==
  /\ handler[c] = "status" /\ holding[c] = None
  /\ m.cmd_id \in Unexecuted
  /\ SetExecuted(m.cmd_id)
  /\ holding' = [holding EXCEPT ![c] = m.cmd_id]
  /\ UNCHANGED <<transportVars, registry, samples, sessionVars>>

\* ... and its lm.record(), with the values it kept.
SessionRecords(c, m) ==
  /\ Goto(c, "status", "open") /\ holding[c] # None
  /\ RecvLine(c, m)
  /\ record("execute", device_id[c], [cmd_id |-> holding[c], latency |-> 0])
  /\ holding' = [holding EXCEPT ![c] = None]
  /\ UNCHANGED <<registry, pending, device_id>>

\* A STATUS of a command that is done with, or not in the table any more.
SessionPasses(c, m) ==
  /\ Goto(c, "status", "open") /\ holding[c] = None
  /\ m.cmd_id \notin Unexecuted
  /\ RecvLine(c, m)
  /\ UNCHANGED <<registry, pending, samples, device_id, holding>>

SessionThread(c) ==
  /\ \/ handler[c] # "status" /\ SessionStep(c, 0) /\ UNCHANGED holding
     \/ \E m \in NextLine(c) : SessionMarks(c, m) \/ SessionRecords(c, m) \/ SessionPasses(c, m)
  /\ UNCHANGED <<deviceVars, dialing, benchVars>>

NextFrame(d) ==
  IF sock[d] # None /\ down[sock[d]] # << >> THEN {Head(down[sock[d]])} ELSE {}

\* run() got past `while self.running`.
DeviceDials(d) ==
  /\ running[d] /\ sock[d] = None /\ ~dialing[d]
  /\ dialing' = [dialing EXCEPT ![d] = TRUE]
  /\ UNCHANGED <<transportVars, deviceVars>>

\* _connect_once(): stop() may have been called in the meantime.
DeviceConnects(d, c) ==
  /\ dialing[d]
  /\ Connect(c, make_auth(d, TRUE))
  /\ sock' = [sock EXCEPT ![d] = c]
  /\ dialing' = [dialing EXCEPT ![d] = FALSE]
  /\ UNCHANGED <<running, authenticated, job, readings, level>>

DeviceWorks(d) ==
  /\ \/ DeviceAuthOk(d) \/ DeviceAuthFail(d) \/ DeviceExecute(d)
     \/ \E m \in NextFrame(d) : DeviceTakeCommand(d, m)
  /\ UNCHANGED dialing

\* Its connection ended or it was stopped.
Notices(d) == sock[d] # None /\ (link[sock[d]] \in {"cut", "closed"} \/ ~running[d])

Failed == {k \in Conn : link[k] \in {"cut", "closed"}}

DeviceComesAndGoes(d) ==
  \/ DeviceDials(d)
  \/ \E c \in Conn : DeviceConnects(d, c)
  \/ /\ Notices(d) \/ Cardinality(Failed) < MaxLosses
     /\ DeviceLost(d) /\ UNCHANGED dialing

DeviceThread(d) ==
  /\ DeviceWorks(d) \/ DeviceComesAndGoes(d)
  /\ UNCHANGED <<registry, pending, samples, sessionVars, holding, benchVars>>

Next ==
  \/ Driver
  \/ \E c \in Conn : AcceptForever(c) \/ SessionThread(c)
  \/ \E d \in Device : DeviceThread(d)

Spec == Init /\ [][Next]_vars

\* All threads run; a device notices that its connection ended or that it was
\* stopped.  Nothing makes a link fail, and the listener takes connections for sure
\* until the driver stops.
FairSpec ==
  /\ Spec
  /\ WF_vars(Driver)
  /\ \A c \in Conn :
       WF_vars(SessionThread(c) \/ (driver.at \notin {"stop", "done"} /\ AcceptForever(c)))
  /\ \A d \in Device :
       WF_vars(DeviceThread(d)
                 /\ (DeviceWorks(d) \/ Notices(d) \/ (sock[d] = None /\ driver.at # "done")))
-----------------------------------------------------------------------------
\* "one command in flight at a time" (latency_benchmark.py:11), in the tables and
\* on every connection, as long as no wait ran out: also across phases, devices
\* and reconnections.
OneInFlight ==
  driver.phase # "open" /\ ~overrun =>
    /\ Unfinished \subseteq {issued}
    /\ \A k \in Conn : \A i \in DOMAIN down[k] :
         down[k][i].msg_type = "COMMAND" => down[k][i].cmd_id = issued
    /\ \A d \in Device : job[d] # None => job[d].cmd_id = issued

Held == {holding[k] : k \in Conn} \ {None}

\* A full ring gives up its oldest sample for the next one.
RingFull(channel) == \E d \in Device : Len(samples[channel][d]) >= MAX_SAMPLES

\* When no wait ran out, every command completed, no ack sample is of another phase,
\* and every command has its ack sample unless a ring was full.
ReportsAgree ==
  \A phase \in {"closed", "open"} :
    LET r == reports[phase]
    IN  r # None /\ ~overrun =>
          /\ r.sent = r.completed
          /\ r.ack \subseteq r.sent
          /\ r.ack = r.sent \/ Cardinality(r.ack) >= MAX_SAMPLES

\* The execute samples that are missing when they are read are those a session is
\* still to record, at most one each, or a full ring gave them up: a sample that is
\* recorded after clear() takes a place among those of the next phase.
MissingAreHeld ==
  driver.at = "execute_stats" =>
    driver.completed \subseteq Sampled("execute") \cup Held \/ RingFull("execute")

\* The numbers of a report agree, as far as the waits of the driver and the size of
\* the rings can make them.
ReportsAddUp == ReportsAgree /\ MissingAreHeld

\* Whatever goes wrong, the benchmark ends and takes its devices along: none stays
\* connected or registered, not even one that was connecting when it was stopped.
BenchmarkLeavesNothing ==
  <>[](driver.at = "done" /\ \A d \in Device : sock[d] = None /\ ~is_connected(d))
=============================================================================
