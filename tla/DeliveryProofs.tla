--------------------------- MODULE DeliveryProofs ---------------------------
(***************************************************************************)
(* Proofs about Delivery for every number of devices, connections and      *)
(* commands, and every COMMAND_MAX_RETRIES: the types with the locals of   *)
(* every thread, the accounts of the retry loop, and what may leave the    *)
(* command table; then whose a connection is, and how often a command is   *)
(* executed.                                                               *)
(***************************************************************************)
EXTENDS Delivery, ComponentProofs, FiniteSetTheorems, SequenceTheorems

-----------------------------------------------------------------------------
(* The locals of a thread make sense where the thread uses them.            *)

CliCoherent ==
  /\ cli.at # "idle" => cli.device_id \in Device /\ cli.conn \in Conn
  /\ cli.at = "add" => issued < MaxCommands
  /\ cli.at \in {"send", "fail"} => issued \in Cmd

RetryCoherent == retry.at \in {"send", "bump"} => retry.conn \in Conn

DeviceCoherent == \A d \in Device : job[d] # None => sock[d] \in Conn

TypeInv == TypeOK /\ CliCoherent /\ RetryCoherent /\ DeviceCoherent /\ SessionCoherent

LEMMA InitTypes == Init => TypeInv
<1> SUFFICES ASSUME Init PROVE TypeInv
  OBVIOUS
<1> USE DEF Init
<1>1. TransportTypeOK
  BY DEF TransportInit, TransportTypeOK
<1>2. RegistryTypeOK /\ PendingTypeOK
  BY DEF RegistryInit, RegistryTypeOK, PendingInit, PendingTypeOK
<1>3. SamplesTypeOK
  BY DEF SamplesInit, SamplesTypeOK
<1>4. SessionTypeOK /\ SessionCoherent
  BY DEF SessionInit, SessionTypeOK, SessionCoherent
<1>5. DeviceTypeOK /\ DeviceCoherent
  BY DEF DeviceInit, DeviceTypeOK, DeviceCoherent
<1>6. CliTypeOK /\ CliCoherent
  BY MaxCommandsAssumption DEF Idle, CliTypeOK, CliCoherent
<1>7. RetryTypeOK /\ RetryCoherent
  BY DEF Loop, RetryTypeOK, RetryCoherent
<1> QED BY <1>1, <1>2, <1>3, <1>4, <1>5, <1>6, <1>7 DEF TypeOK, TypeInv

\* What a step leaves alone keeps its type.
LEMMA UnchangedTypes ==
  ASSUME TypeInv
  PROVE  /\ UNCHANGED registry => RegistryTypeOK'
         /\ UNCHANGED samples => SamplesTypeOK'
         /\ UNCHANGED pending => PendingTypeOK'
         /\ UNCHANGED transportVars => TransportTypeOK'
         /\ UNCHANGED sessionVars => SessionTypeOK' /\ SessionCoherent'
         /\ UNCHANGED deviceVars => DeviceTypeOK' /\ DeviceCoherent'
         /\ UNCHANGED <<cli, issued>> => CliTypeOK' /\ CliCoherent'
         /\ UNCHANGED <<retry, todo>> => RetryTypeOK' /\ RetryCoherent'
BY DEF TypeInv, TypeOK, RegistryTypeOK, SamplesTypeOK, PendingTypeOK, transportVars,
       TransportTypeOK, sessionVars, SessionTypeOK, SessionCoherent, deviceVars,
       DeviceTypeOK, DeviceCoherent, CliTypeOK, CliCoherent, RetryTypeOK, RetryCoherent

LEMMA CliTypes == ASSUME TypeInv, CliStep PROVE TypeInv'
<1> USE DEF TypeInv, TypeOK
<1>1. ASSUME NEW d \in Device, CliLookup(d) PROVE TypeInv'
  <2>1. get_conn(d) \in Conn
    BY <1>1 DEF CliLookup, get_conn, is_connected, RegistryTypeOK, Entry
  <2>2. CliTypeOK' /\ CliCoherent'
    BY <1>1, <2>1 DEF CliLookup, CliTypeOK, CliCoherent, Idle, history
  <2> QED BY <1>1, UnchangedTypes, <2>2 DEF CliLookup, tables, history
<1>2. ASSUME CliAdd PROVE TypeInv'
  <2>1. issued + 1 \in Cmd /\ cli.device_id \in Device
    BY <1>2, MaxCommandsAssumption DEF CliAdd, CliTypeOK, CliCoherent, Cmd
  <2>2. PendingTypeOK'
    BY <1>2, <2>1, AddTypes DEF CliAdd
  <2>3. CliTypeOK' /\ CliCoherent'
    BY <1>2, <2>1, MaxCommandsAssumption DEF CliAdd, CliTypeOK, CliCoherent, Cmd
  <2> QED BY <1>2, UnchangedTypes, <2>2, <2>3 DEF CliAdd
<1>3. ASSUME CliSend PROVE TypeInv'
  <2>1. cli.conn \in Conn /\ cli.device_id \in Device /\ issued \in Cmd
    BY <1>3 DEF CliSend, CliCoherent
  <2>2. TransportTypeOK'
    BY <1>3, <2>1, FrameTypes, SendTypes, SendRaisesTypes DEF CliSend
  <2>3. sends' \in [Cmd -> Nat]
    BY <1>3, <2>1 DEF CliSend
  <2>4. CliTypeOK' /\ CliCoherent'
    BY <1>3, <2>1 DEF CliSend, CliTypeOK, CliCoherent, Idle
  <2> QED BY <1>3, UnchangedTypes, <2>2, <2>3, <2>4 DEF CliSend, tables
<1>4. ASSUME CliFail PROVE TypeInv'
  <2>1. PendingTypeOK'
    BY <1>4, UpdateTypes DEF CliFail, CliCoherent
  <2>2. CliTypeOK' /\ CliCoherent'
    BY <1>4 DEF CliFail, CliTypeOK, CliCoherent, Idle, history
  <2> QED BY <1>4, UnchangedTypes, <2>1, <2>2 DEF CliFail, history
<1> QED BY <1>1, <1>2, <1>3, <1>4 DEF CliStep

LEMMA RetryTypes == ASSUME TypeInv, RetryStep PROVE TypeInv'
<1> USE DEF TypeInv, TypeOK
<1>0. Loop \in [at : {"loop", "send", "bump", "fail"}, conn : Conn \cup {None}]
  BY DEF Loop
<1>1. ASSUME NEW c \in Cmd, Next_item(c) PROVE RetryTypeOK' /\ RetryCoherent'
  BY <1>0, <1>1 DEF Next_item, RetryTypeOK, RetryCoherent, Loop
<1>2. ASSUME RetryScan PROVE TypeInv'
  <2>1. \A c \in Unfinished : pending[c].retry_count \in Nat /\ pending[c].device_id \in Device
    BY ItemTypes DEF Unfinished, TrackedCmds
  <2>2. RetryTypeOK' /\ RetryCoherent'
    BY <1>2, <2>1 DEF RetryScan, RetryTypeOK, RetryCoherent, Copy
  <2> QED BY <1>2, <2>2, UnchangedTypes DEF RetryScan, tables, history
<1>3. ASSUME NEW c \in Cmd, RetryItem(c) PROVE TypeInv'
  <2>1. CASE RetrySkip(c)
    BY <1>1, <2>1, UnchangedTypes DEF RetrySkip, tables, history
  <2>2. CASE RetryGiveUp(c) \/ RetryFail(c) \/ RetryBump(c)
    <3>1. PendingTypeOK'
      BY <2>2, UpdateTypes DEF RetryGiveUp, RetryFail, RetryBump
    <3> QED BY <1>1, <2>2, <3>1, UnchangedTypes
            DEF RetryGiveUp, RetryFail, RetryBump, history
  <2>3. CASE RetryLookup(c)
    <3>1. todo[c].device_id \in Device
      BY <2>3 DEF RetryLookup, RetryTo, Due, Current, RetryTypeOK, Copy
    <3>2. get_conn(todo[c].device_id) \in Conn \cup {None}
      BY <3>1 DEF get_conn, is_connected, RegistryTypeOK, Entry
    <3>3. RetryTypeOK' /\ RetryCoherent'
      BY <2>3, <3>2 DEF RetryLookup, RetryTo, RetryTypeOK, RetryCoherent
    <3> QED BY <2>3, <3>3, UnchangedTypes DEF RetryLookup, RetryTo, tables, history
  <2>4. CASE RetrySend(c)
    <3>1. retry.conn \in Conn /\ todo[c].device_id \in Device /\ todo[c].retry_count + 1 \in Nat
      BY <2>4 DEF RetrySend, Current, RetryTypeOK, RetryCoherent, Copy
    <3>2. make_command(todo[c].device_id, c, todo[c].retry_count + 1) \in ToDevice
      BY <3>1, FrameTypes
    <3>3. TransportTypeOK'
      BY <2>4, <3>1, <3>2, SendTypes, SendRaisesTypes DEF RetrySend
    <3>4. sends' \in [Cmd -> Nat]
      BY <2>4 DEF RetrySend
    <3>5. RetryTypeOK' /\ RetryCoherent'
      BY <1>1, <2>4, <3>1 DEF RetrySend, RetryTypeOK, RetryCoherent
    <3> QED BY <2>4, <3>3, <3>4, <3>5, UnchangedTypes DEF RetrySend, tables
  <2> QED BY <1>3, <2>1, <2>2, <2>3, <2>4 DEF RetryItem
<1> QED BY <1>2, <1>3 DEF RetryStep

LEMMA SessionTypes ==
  ASSUME TypeInv, NEW c \in Conn, SessionStep(c, 0)
  PROVE  /\ TransportTypeOK' /\ RegistryTypeOK' /\ PendingTypeOK' /\ SamplesTypeOK'
         /\ SessionTypeOK' /\ SessionCoherent'
BY ServerTypes DEF TypeInv, TypeOK, ServerTypeOK

LEMMA DeviceTypes ==
  ASSUME TypeInv, NEW d \in Device, DeviceWorks(d) \/ DeviceComesAndGoes(d)
  PROVE  /\ TransportTypeOK' /\ DeviceTypeOK' /\ DeviceCoherent'
         /\ sends' \in [Cmd -> Nat] /\ runs' \in [Cmd -> Nat]
<1> DEFINE Goal == /\ TransportTypeOK' /\ DeviceTypeOK' /\ DeviceCoherent'
                   /\ sends' \in [Cmd -> Nat] /\ runs' \in [Cmd -> Nat]
<1> USE DEF TypeInv, TypeOK
<1>0. Listening(d) => sock[d] \in Conn
  BY DEF Listening, DeviceTypeOK
<1>e. << >> \in Seq(ToController)
  OBVIOUS
<1>1. CASE DeviceRuns(d)
  <2>1. /\ sock[d] \in Conn
        /\ job[d].cmd_id \in Cmd /\ job[d].attempt \in Nat /\ level[d] + 1 \in Nat
    BY <1>1 DEF DeviceRuns, DeviceExecute, DeviceTypeOK, DeviceCoherent
  <2>2. make_status(level[d] + 1, job[d].cmd_id, job[d].attempt) \in ToController
    BY <2>1, FrameTypes
  <2>3. TransportTypeOK'
    BY <1>1, <2>1, <2>2, DeviceSendTypes DEF DeviceRuns, DeviceExecute
  <2>4. DeviceTypeOK' /\ DeviceCoherent'
    BY <1>1, <2>1 DEF DeviceRuns, DeviceExecute, DeviceTypeOK, DeviceCoherent
  <2> QED BY <1>1, <2>1, <2>3, <2>4 DEF DeviceRuns
<1>2. CASE DeviceAuthOk(d) /\ UNCHANGED history
  <2>1. TransportTypeOK'
    BY <1>0, <1>e, <1>2, ExchangeTypes DEF DeviceAuthOk
  <2> QED BY <1>2, <2>1 DEF DeviceAuthOk, DeviceTypeOK, DeviceCoherent, history
<1>3. CASE DeviceAuthFail(d) /\ UNCHANGED history
  <2>1. TransportTypeOK'
    BY <1>0, <1>e, <1>3, ExchangeTypes DEF DeviceAuthFail
  <2> QED BY <1>3, <2>1 DEF DeviceAuthFail, DeviceTypeOK, DeviceCoherent, history
<1>4. CASE SendReading(d) /\ UNCHANGED history
  <2>1. level[d] + 1 \in Nat /\ readings[d] + 1 \in Nat
    BY DEF DeviceTypeOK
  <2>2. make_status(level[d] + 1, None, 0) \in ToController
    BY <2>1, FrameTypes
  <2>3. TransportTypeOK'
    BY <1>0, <1>4, <2>2, DeviceSendTypes DEF SendReading
  <2> QED BY <1>4, <2>1, <2>3 DEF SendReading, DeviceTypeOK, DeviceCoherent, history
<1>5. ASSUME NEW m \in NextFrame(d), DeviceTakeCommand(d, m), UNCHANGED history PROVE Goal
  <2>1. m \in ToDevice /\ m.msg_type = "COMMAND"
    BY <1>0, <1>5 DEF DeviceTakeCommand, DeviceExchange, TransportTypeOK
  <2>2. m.cmd_id \in Cmd /\ m.attempt \in Nat
    BY <2>1, Fields
  <2>3. <<make_received_ack(m.cmd_id, m.attempt)>> \in Seq(ToController)
    BY <2>2, FrameTypes
  <2>4. TransportTypeOK'
    BY <1>0, <1>5, <2>3, ExchangeTypes DEF DeviceTakeCommand
  <2>5. DeviceTypeOK' /\ DeviceCoherent'
    BY <1>0, <1>5, <2>2 DEF DeviceTakeCommand, DeviceTypeOK, DeviceCoherent
  <2> QED BY <1>5, <2>4, <2>5 DEF history
<1>6. CASE DeviceLost(d) /\ UNCHANGED history
  <2>1. TransportTypeOK'
    BY <1>6, FrameTypes, ConnectionTypes DEF DeviceLost, DeviceTypeOK
  <2> QED BY <1>6, <2>1 DEF DeviceLost, DeviceTypeOK, DeviceCoherent, history
<1>7. ASSUME NEW c \in Conn, DeviceConnect(d, c), UNCHANGED history PROVE Goal
  <2>1. TransportTypeOK'
    BY <1>7, FrameTypes, ConnectionTypes DEF DeviceConnect
  <2> QED BY <1>7, <2>1 DEF DeviceConnect, DeviceTypeOK, DeviceCoherent, history
<1>8. ASSUME NEW m \in NextFrame(d), BoardSkips(d, m), UNCHANGED history PROVE Goal
  <2>1. TransportTypeOK'
    BY <1>0, <1>e, <1>8, ExchangeTypes DEF BoardSkips
  <2> QED BY <1>8, <2>1, UnchangedTypes DEF BoardSkips, history
<1>9. CASE BoardCutOff(d) /\ UNCHANGED history
  <2>1. sock[d] \in Conn
    BY <1>9 DEF BoardCutOff, DeviceCoherent
  <2>2. TransportTypeOK'
    BY <1>9, <2>1, FrameTypes, ConnectionTypes DEF BoardCutOff
  <2> QED BY <1>9, <2>2, UnchangedTypes DEF BoardCutOff, history
<1>10. CASE DeviceWorks(d)
  BY <1>1, <1>2, <1>3, <1>4, <1>5, <1>8, <1>10
     DEF DeviceWorks, SimulatorWorks, BoardWorks, DeviceTick
<1>11. CASE DeviceComesAndGoes(d)
  BY <1>6, <1>7, <1>9, <1>11 DEF DeviceComesAndGoes, BoardLost
<1> QED BY <1>10, <1>11

LEMMA NextTypes == TypeInv /\ [Next]_vars => TypeInv'
<1> SUFFICES ASSUME TypeInv, [Next]_vars PROVE TypeInv'
  OBVIOUS
<1> USE DEF TypeInv, TypeOK
<1>1. CASE CliStep
  BY <1>1, CliTypes
<1>2. CASE RetryStep
  BY <1>2, RetryTypes
<1>3. CASE Housekeeping
  BY <1>3, PruneTypes, UnchangedTypes DEF Housekeeping, history
<1>4. ASSUME NEW c \in Cmd, TimePasses(c) PROVE TypeInv'
  BY <1>4, UpdateTypes, UnchangedTypes DEF TimePasses, history
<1>5. ASSUME NEW c \in Conn, AcceptLoop(c) PROVE TypeInv'
  <2>1. SessionTypeOK' /\ SessionCoherent'
    BY <1>5 DEF AcceptLoop, Accept, Goto, SessionTypeOK, SessionCoherent
  <2> QED BY <1>5, <2>1, UnchangedTypes DEF AcceptLoop, Accept, history
<1>6. ASSUME NEW c \in Conn, SessionThread(c) PROVE TypeInv'
  BY <1>6, SessionTypes, UnchangedTypes DEF SessionThread, history
<1>7. ASSUME NEW d \in Device, DeviceStep(d) PROVE TypeInv'
  <2>1. DeviceWorks(d) \/ DeviceComesAndGoes(d)
    BY <1>7 DEF DeviceStep
  <2>2. UNCHANGED issued
    BY <2>1 DEF DeviceWorks, DeviceComesAndGoes, DeviceRuns, history
  <2> QED BY <1>7, <2>1, <2>2, DeviceTypes, UnchangedTypes DEF DeviceStep, tables
<1>8. CASE UNCHANGED vars
  BY <1>8, UnchangedTypes DEF vars, tables, history
<1> QED BY <1>1, <1>2, <1>3, <1>4, <1>5, <1>6, <1>7, <1>8 DEF Next

\* The state of every component keeps its type, and every thread finds in its
\* locals what it needs, in all interleavings.
THEOREM DeliveryTypes == Spec => []TypeOK
<1>1. TypeInv => TypeOK
  BY DEF TypeInv
<1> QED BY InitTypes, NextTypes, <1>1, PTL DEF Spec
-----------------------------------------------------------------------------
(* COMMAND_MAX_RETRIES bounds the transmissions of every command.  The       *)
(* inductive invariant is RetryBudget with the type invariant.              *)

\* The conjuncts of RetryBudget for one command.
Within(c) ==
  /\ sends[c] <= Given(c) + Count(c) + Unbumped(c)
  /\ Count(c) + Unbumped(c) <= COMMAND_MAX_RETRIES
  /\ todo[c] # None /\ Tracked(c) => todo[c].retry_count = pending[c].retry_count
  /\ retry.at = "send" /\ Current(c) => Count(c) < COMMAND_MAX_RETRIES
  /\ c > issued => ~Tracked(c) /\ todo[c] = None /\ sends[c] = 0

\* A step that neither adds a command to the table nor counts a retry.
CountsKept ==
  \A c \in Cmd : Tracked(c)' => Tracked(c) /\ pending'[c].retry_count = pending[c].retry_count

\* What the other threads do to the table keeps its counts.
LEMMA OtherUpdates ==
  ASSUME PendingTypeOK, NEW c \in Cmd,
         \/ mark_received(c) \/ mark_executed(c) \/ mark_failed(c)
         \/ AckTimeout(c) \/ RetentionElapses(c) \/ prune \/ UNCHANGED pending
  PROVE  CountsKept
<1> USE DEF CountsKept, Tracked, PendingTypeOK
<1>1. CASE mark_received(c)
  BY <1>1, NoneIsNoItem DEF mark_received, Receive, Item
<1>2. CASE mark_executed(c)
  BY <1>2, NoneIsNoItem DEF mark_executed, Execute, SetExecuted, Item
<1>3. CASE mark_failed(c)
  BY <1>3, NoneIsNoItem DEF mark_failed, Item
<1>4. CASE AckTimeout(c) \/ RetentionElapses(c)
  BY <1>4, NoneIsNoItem DEF AckTimeout, RetentionElapses, Item
<1>5. CASE prune
  BY <1>5 DEF prune
<1>6. CASE UNCHANGED pending
  BY <1>6
<1> QED BY <1>1, <1>2, <1>3, <1>4, <1>5, <1>6

LEMMA BudgetNumbers ==
  ASSUME TypeInv, NEW c \in Cmd
  PROVE  /\ c \in Nat /\ issued \in Nat /\ COMMAND_MAX_RETRIES \in Nat
         /\ sends[c] \in Nat /\ Count(c) \in Nat
         /\ Given(c) \in {0, 1} /\ Unbumped(c) \in {0, 1}
BY ItemTypes, MaxRetriesAssumption, MaxCommandsAssumption
   DEF TypeInv, TypeOK, RetryTypeOK, Copy, CliTypeOK, Cmd, Count, Given, Unbumped

\* While the retry loop stands still and nothing is sent, nothing is spent.
LEMMA BudgetFrame ==
  ASSUME TypeInv, RetryBudget, CountsKept, UNCHANGED <<retry, todo, issued, sends>>,
         cli'.at = "send" <=> cli.at = "send"
  PROVE  RetryBudget'
<1> SUFFICES ASSUME NEW c \in Cmd PROVE Within(c)'
  BY DEF RetryBudget, Within
<1>0. Within(c)
  BY DEF RetryBudget, Within
<1>1. /\ Given(c)' = Given(c) /\ Given(c) \in {0, 1}
      /\ Current(c)' = Current(c)
      /\ Unbumped(c)' = Unbumped(c) /\ Unbumped(c) \in {0, 1}
      /\ todo[c] = None => Unbumped(c) = 0
  BY DEF Given, Current, Unbumped
<1>2. Count(c) \in Nat /\ sends[c] \in Nat
  BY BudgetNumbers
<1>3. CASE todo[c] # None
  <2>1. Count(c)' = Count(c)
    BY <1>3 DEF Count
  <2> QED BY <1>0, <1>1, <1>3, <2>1 DEF Within, CountsKept
<1>4. CASE todo[c] = None
  <2>1. Count(c)' \in {Count(c), COMMAND_MAX_RETRIES}
    BY <1>4 DEF Count, CountsKept
  <2>2. ~Current(c)
    BY <1>4 DEF Current
  <2> QED BY <1>0, <1>1, <1>2, <1>4, <2>1, <2>2, MaxRetriesAssumption DEF Within, CountsKept
<1> QED BY <1>3, <1>4

\* The send of the operator's thread is the one Given(c) stands for.
LEMMA CliBudget == ASSUME TypeInv, RetryBudget, CliStep PROVE RetryBudget'
<1> SUFFICES ASSUME NEW c \in Cmd PROVE Within(c)'
  BY DEF RetryBudget, Within
<1>0. Within(c)
  BY DEF RetryBudget, Within
<1>1. ASSUME NEW d \in Device, CliLookup(d) PROVE Within(c)'
  BY <1>1, BudgetFrame
     DEF CliLookup, CountsKept, Tracked, Idle, tables, history, RetryBudget, Within
<1>2. CASE CliAdd
  <2>1. /\ issued' = issued + 1 /\ cli'.at = "send" /\ cli.at = "add"
        /\ UNCHANGED <<retry, todo, sends>>
    BY <1>2 DEF CliAdd, TypeInv, TypeOK, CliTypeOK
  <2>2. CASE c = issued + 1
    <3>1. sends[c] = 0 /\ todo[c] = None
      BY <1>0, <2>2, BudgetNumbers DEF Within
    <3>2. pending'[c] = NewItem(cli.device_id) /\ cli.device_id \in Device
      BY <1>2, <2>2 DEF CliAdd, add_command, TypeInv, TypeOK, PendingTypeOK, CliCoherent
    <3>3. NewItem(cli.device_id) \in Item /\ NewItem(cli.device_id).retry_count = 0
      BY <3>2 DEF NewItem, Item
    <3>4. pending'[c].retry_count = 0 /\ Tracked(c)'
      BY <3>2, <3>3, NoneIsNoItem DEF Tracked
    <3>5. Count(c)' = 0 /\ Unbumped(c)' = 0
      BY <2>1, <3>1, <3>4 DEF Count, Unbumped, Current
    <3> QED BY <2>1, <2>2, <3>1, <3>5, BudgetNumbers DEF Within, Given, Current
  <2>3. CASE c # issued + 1
    <3>1. pending'[c] = pending[c]
      BY <1>2, <2>3 DEF CliAdd, add_command, TypeInv, TypeOK, PendingTypeOK
    <3>2. Given(c)' = Given(c)
      BY <2>1, <2>3, BudgetNumbers DEF Given
    <3>3. Count(c)' = Count(c) /\ Unbumped(c)' = Unbumped(c)
      BY <2>1, <3>1 DEF Count, Unbumped, Current, Tracked
    <3> QED BY <1>0, <2>1, <3>1, <3>2, <3>3, BudgetNumbers DEF Within, Current, Tracked
  <2> QED BY <2>2, <2>3
<1>3. CASE CliSend
  <2>1. /\ cli.at = "send" /\ cli'.at # "send" /\ UNCHANGED <<retry, todo, issued, pending>>
        /\ sends' = sends \/ sends' = [sends EXCEPT ![issued] = @ + 1]
    BY <1>3 DEF CliSend, Idle, tables, TypeInv, TypeOK, CliTypeOK
  <2>2. Count(c)' = Count(c) /\ Unbumped(c)' = Unbumped(c) /\ Current(c)' = Current(c)
    BY <2>1 DEF Count, Unbumped, Current, Tracked
  <2>3. CASE c = issued
    <3>1. Given(c) = 0 /\ Given(c)' = 1
      BY <2>1, <2>3, BudgetNumbers DEF Given
    <3>2. sends'[c] <= sends[c] + 1
      BY <2>1, <2>3, BudgetNumbers DEF TypeInv, TypeOK
    <3>3. sends'[c] \in Nat
      BY <2>1, <2>3, BudgetNumbers DEF TypeInv, TypeOK
    <3> QED BY <1>0, <2>1, <2>2, <2>3, <3>1, <3>2, <3>3, BudgetNumbers DEF Within, Tracked
  <2>4. CASE c # issued
    <3>1. Given(c)' = Given(c) /\ sends'[c] = sends[c]
      BY <2>1, <2>4 DEF Given, TypeInv, TypeOK
    <3> QED BY <1>0, <2>1, <2>2, <3>1 DEF Within, Tracked
  <2> QED BY <2>3, <2>4
<1>4. CASE CliFail
  <2>1. CountsKept
    BY <1>4, OtherUpdates DEF CliFail, TypeInv, TypeOK, CliCoherent
  <2> QED BY <1>4, <2>1, BudgetFrame DEF CliFail, Idle, history, RetryBudget, Within
<1> QED BY <1>1, <1>2, <1>3, <1>4 DEF CliStep

\* Leaving an item with k retries known for it, when its count is k or it is no
\* longer in the table.
LEMMA LeaveItem ==
  ASSUME TypeInv, RetryBudget, NEW b \in Cmd, Current(b), Next_item(b),
         UNCHANGED <<cli, issued, sends>>,
         \A c \in Cmd \ {b} : pending'[c] = pending[c],
         Tracked(b)' => Tracked(b),
         Tracked(b)' => pending'[b].retry_count = todo[b].retry_count + Unbumped(b)
  PROVE  RetryBudget'
<1> SUFFICES ASSUME NEW c \in Cmd PROVE Within(c)'
  BY DEF RetryBudget, Within
<1>0. Within(c) /\ Within(b)
  BY DEF RetryBudget, Within
<1>1. /\ todo[b] # None /\ todo' = [todo EXCEPT ![b] = None] /\ retry' = Loop
      /\ todo[b].retry_count \in Nat
  BY DEF Current, Next_item, TypeInv, TypeOK, RetryTypeOK, Copy
<1>2. Unbumped(c)' = 0 /\ retry'.at # "send" /\ Given(c)' = Given(c)
  BY <1>1 DEF Unbumped, Loop, Given
<1>3. CASE c = b
  <2>1. todo'[c] = None
    BY <1>1, <1>3 DEF TypeInv, TypeOK, RetryTypeOK
  <2>2. Count(c)' = IF Tracked(c)' THEN todo[c].retry_count + Unbumped(c) ELSE COMMAND_MAX_RETRIES
    BY <1>3, <2>1 DEF Count, Tracked
  <2>3. Count(c) = todo[c].retry_count
    BY <1>1, <1>3 DEF Count
  <2> QED BY <1>0, <1>1, <1>2, <1>3, <2>1, <2>2, <2>3, BudgetNumbers DEF Within
<1>4. CASE c # b
  <2>1. todo'[c] = todo[c] /\ pending'[c] = pending[c]
    BY <1>1, <1>4 DEF TypeInv, TypeOK, RetryTypeOK
  <2>2. Count(c)' = Count(c)
    BY <2>1 DEF Count, Tracked
  <2>3. sends[c] \in Nat /\ Given(c) \in Nat /\ Count(c) \in Nat /\ Unbumped(c) \in {0, 1}
    BY BudgetNumbers DEF Unbumped
  <2>4. Unbumped(c) = 0
    BY <1>4, BudgetNumbers DEF Unbumped, Current
  <2>5. sends'[c] <= Given(c)' + Count(c)' + Unbumped(c)'
    BY <1>0, <1>2, <2>2, <2>3, <2>4 DEF Within
  <2>6. Count(c)' + Unbumped(c)' <= COMMAND_MAX_RETRIES
    BY <1>0, <1>2, <2>2, <2>3, <2>4 DEF Within
  <2> QED BY <1>0, <1>2, <2>1, <2>5, <2>6 DEF Within, Tracked
<1> QED BY <1>3, <1>4

LEMMA RetryStepBudget == ASSUME TypeInv, RetryBudget, RetryStep PROVE RetryBudget'
<1>1. CASE RetryScan
  <2> SUFFICES ASSUME NEW c \in Cmd PROVE Within(c)'
    BY DEF RetryBudget, Within
  <2>0. Within(c) /\ todo[c] = None /\ retry = Loop /\ UNCHANGED <<retry, cli, pending, issued, sends>>
    BY <1>1 DEF RetryScan, RetryBudget, Within, tables, history
  <2>1. Unbumped(c)' = 0 /\ Unbumped(c) = 0 /\ Given(c)' = Given(c) /\ retry'.at # "send"
    BY <2>0 DEF Unbumped, Given, Loop
  <2>2. CASE c \in Unfinished
    <3>1. Tracked(c) /\ todo'[c] # None /\ todo'[c].retry_count = pending[c].retry_count
      <4>1. todo'[c] = [retry_count |-> pending[c].retry_count, device_id |-> pending[c].device_id]
        BY <1>1, <2>2 DEF RetryScan
      <4>2. todo'[c] \in Copy
        BY <2>2, <4>1, ItemTypes DEF Unfinished, TrackedCmds, TypeInv, TypeOK, Copy
      <4> QED BY <2>2, <4>1, <4>2, NoneIsNoCopy DEF Unfinished, TrackedCmds
    <3>2. Count(c)' = Count(c)
      BY <2>0, <3>1 DEF Count
    <3> QED BY <2>0, <2>1, <3>1, <3>2, BudgetNumbers DEF Within, Tracked
  <2>3. CASE c \notin Unfinished
    <3>1. todo'[c] = None
      BY <1>1, <2>3 DEF RetryScan
    <3>2. Count(c)' = Count(c)
      BY <2>0, <3>1 DEF Count, Tracked
    <3> QED BY <2>0, <2>1, <3>1, <3>2, BudgetNumbers DEF Within, Tracked
  <2> QED BY <2>2, <2>3
<1>2. ASSUME NEW b \in Cmd, RetryItem(b) PROVE RetryBudget'
  <2>1. CASE RetrySkip(b) \/ RetryGiveUp(b) \/ RetryFail(b)
    <3>1. /\ Current(b) /\ Next_item(b) /\ retry.at # "bump" /\ UNCHANGED <<cli, issued, sends>>
      BY <2>1 DEF RetrySkip, RetryGiveUp, RetryFail, Due, Loop, history
    <3>2. UNCHANGED pending \/ mark_failed(b)
      BY <2>1 DEF RetrySkip, RetryGiveUp, RetryFail, tables
    <3>3. CountsKept
      BY <3>2, OtherUpdates DEF TypeInv, TypeOK
    <3>4. \A c \in Cmd \ {b} : pending'[c] = pending[c]
      BY <3>2 DEF mark_failed, TypeInv, TypeOK, PendingTypeOK
    <3>5. Tracked(b) => pending[b].retry_count = todo[b].retry_count + Unbumped(b)
      BY <3>1, BudgetNumbers DEF RetryBudget, Unbumped, Current, TypeInv, TypeOK, RetryTypeOK, Copy
    <3> QED BY <3>1, <3>3, <3>4, <3>5, LeaveItem DEF CountsKept
  <2>2. CASE RetryBump(b)
    <3>1. /\ Current(b) /\ Next_item(b) /\ retry.at = "bump" /\ UNCHANGED <<cli, issued, sends>>
          /\ bump_retry(b)
      BY <2>2 DEF RetryBump, history
    <3>2. \A c \in Cmd \ {b} : pending'[c] = pending[c]
      BY <3>1 DEF bump_retry, TypeInv, TypeOK, PendingTypeOK
    <3>3. ~Tracked(b) => ~Tracked(b)'
      BY <3>1 DEF bump_retry, Tracked
    <3>4. Tracked(b) => pending'[b].retry_count = pending[b].retry_count + 1
      BY <3>1, ItemTypes DEF bump_retry, TypeInv, TypeOK, PendingTypeOK, Item
    <3>5. Unbumped(b) = 1 /\ todo[b] # None
      BY <3>1 DEF Unbumped, Current
    <3> QED BY <3>1, <3>2, <3>3, <3>4, <3>5, LeaveItem DEF RetryBudget
  <2>3. CASE RetryLookup(b)
    <3> SUFFICES ASSUME NEW c \in Cmd PROVE Within(c)'
      BY DEF RetryBudget, Within
    <3>1. /\ Current(b) /\ todo[b].retry_count < COMMAND_MAX_RETRIES
          /\ retry'.at \in {"send", "fail"} /\ UNCHANGED <<cli, todo, pending, issued, sends>>
          /\ retry.at = "loop"
      BY <2>3 DEF RetryLookup, RetryTo, Due, Loop, tables, history
    <3>2. /\ Unbumped(c)' = 0 /\ Unbumped(c) = 0 /\ Given(c)' = Given(c)
          /\ Count(c)' = Count(c) /\ Current(c)' = Current(c)
      BY <3>1 DEF Unbumped, Given, Count, Current, Tracked
    <3>3. Current(c) => c = b
      BY <3>1, BudgetNumbers DEF Current
    <3>4. Current(c) => Count(c) = todo[b].retry_count
      BY <3>3 DEF Count, Current
    <3> QED BY <3>1, <3>2, <3>3, <3>4 DEF RetryBudget, Within, Tracked
  <2>4. CASE RetrySend(b)
    <3>1. /\ Current(b) /\ retry.at = "send" /\ UNCHANGED <<cli, pending, issued>>
      BY <2>4 DEF RetrySend, tables
    <3>2. CASE Next_item(b) /\ UNCHANGED sends
      <4>1. Tracked(b) => pending[b].retry_count = todo[b].retry_count + Unbumped(b)
        BY <3>1, BudgetNumbers DEF RetryBudget, Unbumped, Current, TypeInv, TypeOK, RetryTypeOK, Copy
      <4> QED BY <3>1, <3>2, <4>1, LeaveItem DEF Tracked
    <3>3. CASE /\ retry' = [retry EXCEPT !.at = "bump"]
               /\ sends' = [sends EXCEPT ![b] = @ + 1] /\ UNCHANGED todo
      <4> SUFFICES ASSUME NEW c \in Cmd PROVE Within(c)'
        BY DEF RetryBudget, Within
      <4>1. /\ Given(c)' = Given(c) /\ Count(c)' = Count(c) /\ Current(c)' = Current(c)
            /\ Unbumped(c) = 0 /\ retry'.at = "bump"
        BY <3>1, <3>3 DEF Given, Count, Current, Tracked, Unbumped, TypeInv, TypeOK, RetryTypeOK
      <4>2. CASE c = b
        <5>1. Unbumped(c)' = 1 /\ sends'[c] = sends[c] + 1 /\ todo[c] # None
          BY <3>1, <3>3, <4>1, <4>2 DEF Unbumped, Current, TypeInv, TypeOK
        <5>2. Count(c) < COMMAND_MAX_RETRIES
          BY <3>1, <4>2 DEF RetryBudget
        <5> QED BY <3>1, <3>3, <4>1, <5>1, <5>2, BudgetNumbers DEF RetryBudget, Within, Tracked
      <4>3. CASE c # b
        <5>1. ~Current(c)
          BY <3>1, <4>3, BudgetNumbers DEF Current
        <5>2. Unbumped(c)' = 0 /\ sends'[c] = sends[c]
          BY <3>3, <4>1, <4>3, <5>1 DEF Unbumped, TypeInv, TypeOK
        <5> QED BY <3>1, <3>3, <4>1, <5>2 DEF RetryBudget, Within, Tracked
      <4> QED BY <4>2, <4>3
    <3> QED BY <2>4, <3>2, <3>3 DEF RetrySend
  <2> QED BY <1>2, <2>1, <2>2, <2>3, <2>4 DEF RetryItem
<1> QED BY <1>1, <1>2 DEF RetryStep

LEMMA InitBudget == Init => RetryBudget
BY MaxRetriesAssumption
   DEF Init, RetryBudget, Given, Count, Unbumped, PendingInit, Tracked, Loop, Idle, Cmd

LEMMA NextBudget == TypeInv /\ RetryBudget /\ [Next]_vars => RetryBudget'
<1> SUFFICES ASSUME TypeInv, RetryBudget, [Next]_vars PROVE RetryBudget'
  OBVIOUS
<1>1. CASE CliStep
  BY <1>1, CliBudget
<1>2. CASE RetryStep
  BY <1>2, RetryStepBudget
<1>3. CASE Housekeeping
  BY <1>3, BudgetFrame DEF Housekeeping, prune, CountsKept, Tracked, history
<1>4. ASSUME NEW c \in Cmd, TimePasses(c) PROVE RetryBudget'
  BY <1>4, OtherUpdates, BudgetFrame DEF TimePasses, history, TypeInv, TypeOK
<1>5. ASSUME NEW c \in Conn, AcceptLoop(c) \/ SessionThread(c) PROVE RetryBudget'
  <2>1. CountsKept
    <3>1. CASE UNCHANGED pending
      BY <3>1 DEF CountsKept, Tracked
    <3>2. CASE \E m \in NextLine(c) : SessionReceivedAck(c, m) \/ SessionStatusDone(c, m)
      <4>1. PICK m \in NextLine(c) : SessionReceivedAck(c, m) \/ SessionStatusDone(c, m)
        BY <3>2
      <4>2. m \in ToController
        BY <4>1, RecvTypes DEF SessionReceivedAck, SessionStatusDone, TypeInv, TypeOK
      <4> QED BY <3>1, <4>1, <4>2, Fields, OtherUpdates
              DEF SessionReceivedAck, SessionStatusDone, TypeInv, TypeOK
    <3>3. UNCHANGED pending \/ \E m \in NextLine(c) : SessionReceivedAck(c, m) \/ SessionStatusDone(c, m)
      BY <1>5 DEF AcceptLoop, Accept, SessionThread, SessionStep, SessionGarbage, SessionReject,
         SessionGreet, SessionTimeout, SessionHangup, SessionHeartbeatAck, SessionUnregister,
         SessionClose, SessionRefuse, SessionRegister, SessionStatus, SessionIgnore
    <3> QED BY <3>1, <3>2, <3>3
  <2> QED BY <1>5, <2>1, BudgetFrame DEF AcceptLoop, SessionThread, history
<1>6. ASSUME NEW d \in Device, DeviceStep(d) PROVE RetryBudget'
  <2>1. UNCHANGED <<pending, cli, retry, todo, issued, sends>>
    BY <1>6 DEF DeviceStep, DeviceWorks, DeviceComesAndGoes, DeviceRuns, history, tables
  <2> QED BY <2>1, BudgetFrame DEF CountsKept, Tracked
<1>7. CASE UNCHANGED vars
  BY <1>7, BudgetFrame DEF vars, tables, history, CountsKept, Tracked
<1> QED BY <1>1, <1>2, <1>3, <1>4, <1>5, <1>6, <1>7 DEF Next

\* However the retry loop races with acks, failures, reconnections and pruning, its
\* accounts are right: the copy it decides on is current.
THEOREM RetryAccounting == Spec => []RetryBudget
BY InitTypes, NextTypes, InitBudget, NextBudget, PTL DEF Spec

\* No command is put on the wire more than 1 + COMMAND_MAX_RETRIES times.
THEOREM TransmissionsAreBounded == Spec => []BoundedSends
<1>1. TypeInv /\ RetryBudget => BoundedSends
  BY BudgetNumbers DEF RetryBudget, BoundedSends
<1> QED BY InitTypes, NextTypes, InitBudget, NextBudget, <1>1, PTL DEF Spec
-----------------------------------------------------------------------------
(* What a step may do to the command table. *)

\* The entry of c goes on, and what it says of the device is not taken back.
EntryProgresses(c) ==
  /\ Tracked(c) /\ Tracked(c)'
  /\ pending'[c].device_id = pending[c].device_id
  /\ pending'[c].retry_count = pending[c].retry_count \/ RetryBump(c)
  /\ pending[c].received => pending'[c].received
  /\ pending[c].executed => pending'[c].executed
  /\ pending[c].failed => pending'[c].failed
  /\ pending'[c].executed /\ ~pending[c].executed =>
       \E k \in Conn : \E m \in NextLine(k) :
         SessionStatusDone(k, m) /\ m.cmd_id = c /\ mark_executed(c)

\* Only send_command() makes an entry, for the newest command, and only prune()
\* drops one.
TableMoves(c) ==
  \/ ~Tracked(c)' /\ (Tracked(c) => Housekeeping)
  \/ EntryProgresses(c)
  \/ CliAdd /\ c = issued + 1 /\ pending'[c] = NewItem(cli.device_id)

LEMMA QuietEntry ==
  ASSUME NEW c \in Cmd, pending'[c] = pending[c] PROVE TableMoves(c)
BY DEF TableMoves, EntryProgresses, Tracked

LEMMA MarkMoves ==
  ASSUME PendingTypeOK, NEW b \in Cmd, NEW c \in Cmd,
         \/ mark_received(b) \/ mark_failed(b) \/ AckTimeout(b) \/ RetentionElapses(b)
         \/ bump_retry(b) /\ RetryBump(b)
         \/ /\ mark_executed(b)
            /\ \E k \in Conn : \E m \in NextLine(k) :
                 SessionStatusDone(k, m) /\ m.cmd_id = b /\ mark_executed(b)
  PROVE  TableMoves(c)
<1>1. CASE pending'[c] = pending[c]
  BY <1>1, QuietEntry
<1>2. CASE pending'[c] # pending[c]
  <2>1. c = b /\ Tracked(b)
    BY <1>2 DEF mark_received, Receive, mark_failed, AckTimeout, RetentionElapses, bump_retry,
                mark_executed, Execute, SetExecuted, PendingTypeOK
  <2>2. pending[b] \in Item /\ pending[b].retry_count \in Nat
    BY <2>1, ItemTypes
  <2>3. CASE mark_received(b)
    <3>1. pending' = [pending EXCEPT ![b].received = TRUE,
                                     ![b].ack_latency = pending[b].retry_count]
      BY <1>2, <2>1, <2>3 DEF mark_received, Receive
    <3>2. pending'[b] = [pending[b] EXCEPT !.received = TRUE,
                                           !.ack_latency = pending[b].retry_count]
      BY <3>1 DEF PendingTypeOK
    <3>3. EntryProgresses(b)
      BY <2>1, <2>2, <3>2, NoneIsNoItem DEF EntryProgresses, Tracked, Item
    <3> QED BY <2>1, <3>3 DEF TableMoves
  <2>4. CASE mark_failed(b) \/ AckTimeout(b) \/ RetentionElapses(b)
    <3>1. \E f, o, x \in BOOLEAN :
            /\ pending'[b] = [pending[b] EXCEPT !.failed = f, !.overdue = o, !.expired = x]
            /\ pending[b].failed => f
      <4>1. CASE mark_failed(b)
        <5>1. pending'[b] = [pending[b] EXCEPT !.failed = TRUE, !.overdue = pending[b].overdue,
                               !.expired = pending[b].expired /\ pending[b].executed]
          BY <2>1, <2>2, <4>1 DEF mark_failed, PendingTypeOK, Item
        <5> QED BY <2>2, <5>1 DEF Item
      <4>2. CASE AckTimeout(b)
        <5>1. pending'[b] = [pending[b] EXCEPT !.failed = pending[b].failed, !.overdue = TRUE,
                               !.expired = pending[b].expired]
          BY <2>1, <2>2, <4>2 DEF AckTimeout, PendingTypeOK, Item
        <5> QED BY <2>2, <5>1 DEF Item
      <4>3. CASE RetentionElapses(b)
        <5>1. pending'[b] = [pending[b] EXCEPT !.failed = pending[b].failed,
                               !.overdue = pending[b].overdue, !.expired = TRUE]
          BY <2>1, <2>2, <4>3 DEF RetentionElapses, PendingTypeOK, Item
        <5> QED BY <2>2, <5>1 DEF Item
      <4> QED BY <2>4, <4>1, <4>2, <4>3
    <3>2. /\ pending'[b] \in Item /\ pending'[b].device_id = pending[b].device_id
          /\ pending'[b].retry_count = pending[b].retry_count
          /\ pending'[b].received = pending[b].received
          /\ pending'[b].executed = pending[b].executed
          /\ pending[b].failed => pending'[b].failed
      BY <2>2, <3>1 DEF Item
    <3>3. EntryProgresses(b)
      BY <2>1, <3>2, NoneIsNoItem DEF EntryProgresses, Tracked
    <3> QED BY <2>1, <3>3 DEF TableMoves
  <2>5. CASE bump_retry(b) /\ RetryBump(b)
    <3>1. pending'[b] = [pending[b] EXCEPT !.retry_count = pending[b].retry_count + 1,
                                           !.overdue = FALSE]
      BY <2>1, <2>2, <2>5 DEF bump_retry, PendingTypeOK
    <3>0. pending[b].retry_count + 1 \in Nat
      BY <2>2
    <3>2. /\ pending'[b] \in Item /\ pending'[b].device_id = pending[b].device_id
          /\ pending'[b].received = pending[b].received
          /\ pending'[b].executed = pending[b].executed
          /\ pending'[b].failed = pending[b].failed
      BY <2>2, <3>0, <3>1 DEF Item
    <3>3. EntryProgresses(b)
      BY <2>1, <2>5, <3>2, NoneIsNoItem DEF EntryProgresses, Tracked
    <3> QED BY <2>1, <3>3 DEF TableMoves
  <2>6. CASE /\ mark_executed(b)
             /\ \E k \in Conn : \E m \in NextLine(k) :
                  SessionStatusDone(k, m) /\ m.cmd_id = b /\ mark_executed(b)
    <3>1. pending' = [pending EXCEPT ![b].executed = TRUE, ![b].expired = FALSE,
                                     ![b].execute_latency = pending[b].retry_count]
      BY <1>2, <2>1, <2>6 DEF mark_executed, Execute, SetExecuted
    <3>2. pending'[b] = [pending[b] EXCEPT !.executed = TRUE, !.expired = FALSE,
                                           !.execute_latency = pending[b].retry_count]
      BY <3>1 DEF PendingTypeOK
    <3>3. EntryProgresses(b)
      BY <2>1, <2>2, <2>6, <3>2, NoneIsNoItem DEF EntryProgresses, Tracked, Item
    <3> QED BY <2>1, <3>3 DEF TableMoves
  <2> QED BY <2>3, <2>4, <2>5, <2>6
<1> QED BY <1>1, <1>2

LEMMA NextTable == ASSUME TypeInv, [Next]_vars, NEW c \in Cmd PROVE TableMoves(c)
<1> USE DEF TypeInv, TypeOK
<1>1. CASE CliStep
  <2>1. CASE CliAdd
    <3>1. issued + 1 \in Cmd
      BY <2>1, MaxCommandsAssumption DEF CliAdd, CliTypeOK, CliCoherent, Cmd
    <3>2. pending'[c] = IF c = issued + 1 THEN NewItem(cli.device_id) ELSE pending[c]
      BY <2>1, <3>1 DEF CliAdd, add_command, PendingTypeOK
    <3> QED BY <2>1, <3>2, QuietEntry DEF TableMoves
  <2>2. CASE CliFail
    BY <2>2, MarkMoves DEF CliFail, CliCoherent
  <2> QED BY <1>1, <2>1, <2>2, QuietEntry DEF CliStep, CliLookup, CliSend, tables
<1>2. CASE RetryStep
  <2>1. ASSUME NEW b \in Cmd, RetryItem(b) PROVE TableMoves(c)
    BY <2>1, MarkMoves, QuietEntry
       DEF RetryItem, RetrySkip, RetryGiveUp, RetryLookup, RetryTo, RetryFail, RetrySend,
           RetryBump, tables
  <2> QED BY <1>2, <2>1, QuietEntry DEF RetryStep, RetryScan, tables
<1>3. CASE Housekeeping
  BY <1>3, QuietEntry DEF Housekeeping, prune, TableMoves, Tracked
<1>4. ASSUME NEW b \in Cmd, TimePasses(b) PROVE TableMoves(c)
  BY <1>4, MarkMoves DEF TimePasses
<1>5. ASSUME NEW k \in Conn, AcceptLoop(k) \/ SessionThread(k) PROVE TableMoves(c)
  <2>1. ASSUME NEW m \in NextLine(k), SessionReceivedAck(k, m) PROVE TableMoves(c)
    <3>1. m \in ToController
      BY <2>1, RecvTypes DEF SessionReceivedAck
    <3> QED BY <2>1, <3>1, Fields, MarkMoves DEF SessionReceivedAck
  <2>2. ASSUME NEW m \in NextLine(k), SessionStatusDone(k, m) PROVE TableMoves(c)
    <3>1. m \in ToController
      BY <2>2, RecvTypes DEF SessionStatusDone
    <3>2. CASE m.cmd_id = None
      BY <2>2, <3>2, QuietEntry DEF SessionStatusDone
    <3>3. CASE m.cmd_id # None
      <4>1. m.cmd_id \in Cmd /\ mark_executed(m.cmd_id)
        BY <2>2, <3>1, <3>3, Fields DEF SessionStatusDone
      <4> QED BY <2>2, <4>1, MarkMoves
    <3> QED BY <3>2, <3>3
  <2>3. \/ UNCHANGED pending
        \/ \E m \in NextLine(k) : SessionReceivedAck(k, m) \/ SessionStatusDone(k, m)
    BY <1>5 DEF AcceptLoop, Accept, SessionThread, SessionStep, SessionGarbage, SessionReject,
       SessionGreet, SessionTimeout, SessionHangup, SessionHeartbeatAck, SessionUnregister,
       SessionClose, SessionRefuse, SessionRegister, SessionStatus, SessionIgnore
  <2> QED BY <2>1, <2>2, <2>3, QuietEntry
<1>6. ASSUME NEW d \in Device, DeviceStep(d) PROVE TableMoves(c)
  BY <1>6, QuietEntry DEF DeviceStep, tables
<1>7. CASE UNCHANGED vars
  BY <1>7, QuietEntry DEF vars, tables
<1> QED BY <1>1, <1>2, <1>3, <1>4, <1>5, <1>6, <1>7 DEF Next

\* What the senders know of a command they have sent only grows.
LEMMA BudgetGrows ==
  ASSUME TypeInv, RetryBudget, [Next]_vars, NEW c \in Cmd, c <= issued
  PROVE  /\ c <= issued'
         /\ Count(c) + Unbumped(c) <= Count(c)' + Unbumped(c)'
         /\ Count(c)' \in Nat /\ Unbumped(c)' \in {0, 1}
         /\ Given(c) = 1 => Given(c)' = 1
<1>n. Count(c)' \in Nat
  <2>1. TypeInv'
    BY NextTypes
  <2>2. todo'[c] \in Copy \cup {None} /\ pending'[c] \in Item \cup {None}
    BY <2>1 DEF TypeInv, TypeOK, RetryTypeOK, PendingTypeOK
  <2> QED BY <2>2, MaxRetriesAssumption DEF Count, Tracked, Copy, Item
<1>0. /\ c \in Nat /\ issued \in Nat /\ Count(c) \in Nat /\ Unbumped(c) \in {0, 1}
      /\ COMMAND_MAX_RETRIES \in Nat /\ Count(c) + Unbumped(c) <= COMMAND_MAX_RETRIES
      /\ todo[c] # None /\ Tracked(c) => todo[c].retry_count = pending[c].retry_count
  BY BudgetNumbers DEF RetryBudget
<1>1. \/ issued' = issued + 1 /\ cli'.at = "send"
      \/ issued' = issued /\ (cli'.at = "send" => cli.at = "send")
  BY DEF Next, CliStep, CliLookup, CliAdd, CliSend, CliFail, Idle, RetryStep, RetryScan, RetryItem,
         RetrySkip, RetryGiveUp, RetryLookup, RetryTo, RetryFail, RetrySend, RetryBump,
         Housekeeping, TimePasses, AcceptLoop, SessionThread, DeviceStep, DeviceWorks,
         DeviceComesAndGoes, DeviceRuns, history, vars, TypeInv, TypeOK, CliTypeOK
<1>2. c <= issued' /\ (Given(c) = 1 => Given(c)' = 1)
  BY <1>0, <1>1 DEF Given
<1>3. Tracked(c)' => /\ Tracked(c)
                     /\ pending'[c].retry_count = pending[c].retry_count \/ RetryBump(c)
  BY <1>0, NextTable DEF TableMoves, EntryProgresses
<1>4. Unbumped(c)' \in {0, 1}
  BY DEF Unbumped
<1>5. CASE UNCHANGED <<retry, todo>>
  <2>1. Unbumped(c)' = Unbumped(c)
    BY <1>5 DEF Unbumped, Current
  <2>2. RetryBump(c) => FALSE
    BY <1>5 DEF RetryBump, Next_item, Loop
  <2>3. Count(c)' \in {Count(c), COMMAND_MAX_RETRIES}
    BY <1>3, <1>5, <2>2 DEF Count, Tracked
  <2>4. Count(c) <= COMMAND_MAX_RETRIES
    BY <1>0
  <2>5. Unbumped(c) = 1 => todo[c] # None
    BY DEF Unbumped, Current
  <2>6. todo[c] # None => Count(c)' = Count(c)
    BY <1>5 DEF Count
  <2>7. Unbumped(c) = 1 => Count(c)' = Count(c)
    BY <2>5, <2>6
  <2>8. Count(c) <= Count(c)' /\ Count(c)' \in Nat
    BY <1>0, <2>3, <2>4
  <2>9. Count(c) + Unbumped(c) <= Count(c)' + Unbumped(c)'
    BY <1>0, <1>4, <2>1, <2>8
  <2> QED BY <1>n, <1>2, <1>4, <2>9
<1>6. CASE RetryScan
  <2>1. Unbumped(c) = 0 /\ todo[c] = None /\ UNCHANGED pending
    BY <1>6 DEF RetryScan, Unbumped, Loop, tables
  <2>2. CASE c \in Unfinished
    <3>1. todo'[c] = [retry_count |-> pending[c].retry_count, device_id |-> pending[c].device_id]
      BY <1>6, <2>2 DEF RetryScan
    <3>2. Tracked(c) /\ todo'[c] \in Copy
      BY <2>2, <3>1, ItemTypes DEF Unfinished, TrackedCmds, TypeInv, TypeOK, Copy
    <3>3. Count(c)' = Count(c)
      BY <2>1, <3>1, <3>2, NoneIsNoCopy DEF Count
    <3> QED BY <1>0, <1>2, <1>4, <2>1, <3>3
  <2>3. CASE c \notin Unfinished
    <3>1. Count(c)' = Count(c)
      BY <1>6, <2>1, <2>3 DEF RetryScan, Count, Tracked
    <3> QED BY <1>0, <1>2, <1>4, <2>1, <3>1
  <2> QED BY <2>2, <2>3
<1>7. ASSUME NEW b \in Cmd, RetryItem(b), Current(b), Next_item(b)
      PROVE  Count(c) + Unbumped(c) <= Count(c)' + Unbumped(c)'
  <2>1. todo' = [todo EXCEPT ![b] = None] /\ Unbumped(c)' = 0
    BY <1>7 DEF Next_item, Unbumped, Loop
  <2>2. CASE c = b
    <3>1. todo'[c] = None /\ todo[c] # None
      BY <1>7, <2>1, <2>2 DEF TypeInv, TypeOK, RetryTypeOK, Current
    <3>2. CASE ~Tracked(c)'
      <4>1. Count(c)' = COMMAND_MAX_RETRIES
        BY <3>1, <3>2 DEF Count, Tracked
      <4> QED BY <1>0, <2>1, <4>1
    <3>3. CASE Tracked(c)'
      <4>1. Count(c) = pending[c].retry_count /\ Count(c)' = pending'[c].retry_count
        BY <1>0, <1>3, <3>1, <3>3 DEF Count, Tracked
      <4>2. CASE Unbumped(c) = 0
        <5>1. ~RetryBump(c)
          BY <4>2 DEF RetryBump, Unbumped
        <5> QED BY <1>0, <1>3, <2>1, <3>3, <4>1, <4>2, <5>1
      <4>3. CASE Unbumped(c) = 1
        <5>1. retry.at = "bump" /\ Current(c)
          BY <4>3 DEF Unbumped
        <5>2. RetryBump(c)
          BY <1>7, <2>2, <5>1 DEF RetryItem, RetrySkip, RetryGiveUp, RetryLookup, RetryTo,
                                  RetryFail, RetrySend, Due, Loop
        <5>3. pending'[c].retry_count = pending[c].retry_count + 1
          BY <3>3, <5>2, <1>3, ItemTypes DEF RetryBump, bump_retry, TypeInv, TypeOK, PendingTypeOK, Item
        <5> QED BY <1>0, <2>1, <4>1, <4>3, <5>3
      <4> QED BY <1>0, <4>2, <4>3
    <3> QED BY <3>2, <3>3
  <2>3. CASE c # b
    <3>1. Unbumped(c) = 0
      BY <1>7, <2>3, BudgetNumbers DEF Unbumped, Current
    <3>2. todo'[c] = todo[c]
      BY <2>1, <2>3 DEF TypeInv, TypeOK, RetryTypeOK
    <3>3. Tracked(c)' => pending'[c].retry_count = pending[c].retry_count
      <4>1. ~RetryBump(c)
        BY <1>7, <2>3, BudgetNumbers DEF RetryBump, Current
      <4> QED BY <1>3, <4>1
    <3>4. Count(c)' \in {Count(c), COMMAND_MAX_RETRIES}
      BY <1>3, <3>2, <3>3 DEF Count
    <3> QED BY <1>0, <2>1, <3>1, <3>4
  <2> QED BY <2>2, <2>3
<1>8. ASSUME NEW b \in Cmd, UNCHANGED <<todo, pending>>, retry.at # "bump"
      PROVE  Count(c) + Unbumped(c) <= Count(c)' + Unbumped(c)'
  <2>1. Count(c)' = Count(c) /\ Unbumped(c) = 0
    BY <1>8 DEF Count, Tracked, Unbumped
  <2> QED BY <1>0, <1>4, <2>1
<1>9. RetryStep \/ UNCHANGED <<retry, todo>>
  BY DEF Next, CliStep, CliLookup, CliAdd, CliSend, CliFail,
         Housekeeping, TimePasses, AcceptLoop, SessionThread, DeviceStep, vars
<1>10. ASSUME NEW b \in Cmd, RetryItem(b)
       PROVE  Count(c) + Unbumped(c) <= Count(c)' + Unbumped(c)'
  <2>1. CASE Next_item(b)
    BY <1>7, <1>10, <2>1 DEF RetryItem, RetrySkip, RetryGiveUp, RetryLookup, RetryTo, RetryFail,
                              RetrySend, RetryBump, Due
  <2>2. CASE ~Next_item(b)
    BY <1>8, <1>10, <2>2 DEF RetryItem, RetrySkip, RetryGiveUp, RetryLookup, RetryTo, RetryFail,
                              RetrySend, RetryBump, Due, Loop, tables
  <2> QED BY <2>1, <2>2
<1> QED BY <1>n, <1>2, <1>4, <1>5, <1>6, <1>9, <1>10 DEF RetryStep

\* No late ack, STATUS, retry or failure brings a pruned command back.
THEOREM PrunedAreForgotten == Spec => PrunedStaysGone
<1>1. ASSUME TypeInv, [Next]_vars PROVE \A c \in Cmd : c <= issued /\ ~Tracked(c) => ~Tracked(c)'
  <2> SUFFICES ASSUME NEW c \in Cmd, c <= issued, ~Tracked(c) PROVE ~Tracked(c)'
    OBVIOUS
  <2>1. c # issued + 1
    BY <1>1, BudgetNumbers
  <2> QED BY <1>1, <2>1, NextTable DEF TableMoves, EntryProgresses
<1> QED BY InitTypes, NextTypes, <1>1, PTL DEF Spec, PrunedStaysGone
-----------------------------------------------------------------------------
(* What prune() drops. *)

\* The n least elements of a set of numbers are n.
LEMMA LeastAreMany ==
  ASSUME NEW K \in SUBSET Int, IsFiniteSet(K), NEW n \in Nat, n <= Cardinality(K)
  PROVE  Cardinality({c \in K : Cardinality({b \in K : b < c}) < n}) = n
<1> DEFINE N == Cardinality(K)
           Before(c) == {b \in K : b < c}
           rank == [c \in K |-> Cardinality(Before(c))]
           Low == {c \in K : rank[c] < n}
<1>1. /\ N \in Nat /\ n \in Nat /\ n <= N
      /\ \A c \in K : IsFiniteSet(Before(c)) /\ Cardinality(Before(c)) \in Nat
  BY FS_CardinalityType, FS_Subset
<1>i. \A m \in Nat : IsFiniteSet(0 .. m - 1) /\ Cardinality(0 .. m - 1) = m
  <2> SUFFICES ASSUME NEW m \in Nat
               PROVE  IsFiniteSet(0 .. m - 1) /\ Cardinality(0 .. m - 1) = m
    OBVIOUS
  <2>1. 0 \in Int /\ m - 1 \in Int /\ (0 > m - 1 => m = 0) /\ (m - 1) - 0 + 1 = m
    OBVIOUS
  <2> QED BY <2>1, FS_Interval
<1>2. ASSUME NEW c \in K PROVE rank[c] \in 0 .. N - 1
  <2>1. Cardinality(K \ {c}) = N - 1 /\ IsFiniteSet(K \ {c})
    BY FS_RemoveElement
  <2>2. Cardinality(Before(c)) <= N - 1
    BY <2>1, FS_Subset
  <2> QED BY <1>1, <2>2
<1>3. ASSUME NEW b \in K, NEW c \in K, b < c PROVE rank[b] < rank[c]
  <2>1. Cardinality(Before(b) \cup {b}) = Cardinality(Before(b)) + 1
    <3>1. b \notin Before(b) /\ IsFiniteSet(Before(b))
      BY <1>1
    <3> HIDE DEF Before
    <3> QED BY <3>1, FS_AddElement
  <2>2. Before(b) \cup {b} \subseteq Before(c)
    <3>1. \A x \in K : x < b => x < c
      BY <1>3
    <3> QED BY <1>3, <3>1
  <2>3. Cardinality(Before(b) \cup {b}) <= Cardinality(Before(c))
    BY <1>1, <2>2, FS_Subset
  <2> QED BY <1>1, <2>1, <2>3
<1> HIDE DEF rank, N
<1>4. rank \in Injection(K, 0 .. N - 1)
  <2>1. rank \in [K -> 0 .. N - 1]
    BY <1>2 DEF rank
  <2>2. \A b, c \in K : rank[b] = rank[c] => b = c
    <3> SUFFICES ASSUME NEW b \in K, NEW c \in K, rank[b] = rank[c], b # c PROVE FALSE
      OBVIOUS
    <3>1. rank[b] \in Int /\ (b < c \/ c < b)
      BY <1>1, <1>2
    <3> QED BY <1>3, <3>1
  <2> QED BY <2>1, <2>2 DEF Injection, IsInjective
<1>5. rank \in Surjection(K, 0 .. N - 1)
  <2>1. IsFiniteSet(0 .. N - 1) /\ Cardinality(0 .. N - 1) = N
    BY <1>1, <1>i
  <2> QED BY <1>4, <2>1, FS_Injection DEF N
<1> DEFINE f == [c \in Low |-> rank[c]]
<1>6. f \in Bijection(Low, 0 .. n - 1)
  <2>1. \A c \in Low : rank[c] \in 0 .. n - 1
    <3> SUFFICES ASSUME NEW c \in Low PROVE rank[c] \in 0 .. n - 1
      OBVIOUS
    <3>1. rank[c] \in 0 .. N - 1 /\ rank[c] < n
      BY <1>2
    <3> QED BY <1>1, <3>1
  <2>2. \A b, c \in Low : f[b] = f[c] => b = c
    BY <1>4 DEF Injection, IsInjective
  <2>3. \A i \in 0 .. n - 1 : \E c \in Low : f[c] = i
    BY <1>1, <1>5 DEF Surjection
  <2> QED BY <2>1, <2>2, <2>3 DEF Bijection, Injection, IsInjective, Surjection
<1>7. /\ IsFiniteSet(Low)
      /\ IsFiniteSet(0 .. n - 1) /\ Cardinality(0 .. n - 1) = n
  <2>1. Low \in SUBSET K
    OBVIOUS
  <2> HIDE DEF Low
  <2>2. IsFiniteSet(Low)
    BY <2>1, FS_Subset
  <2> QED BY <1>1, <1>i, <2>2
<1>8. Cardinality(Low) = n
  BY <1>6, <1>7, FS_Bijection DEF ExistsBijection
<1>9. Low = {c \in K : Cardinality({b \in K : b < c}) < n}
  BY DEF rank
<1> QED BY <1>8, <1>9

LEMMA PruneDrops ==
  ASSUME PendingTypeOK, prune, NEW c \in Cmd, Tracked(c), ~Finished(c), ~Tracked(c)'
  PROVE  /\ Cardinality(TrackedCmds') = MAX_TRACKED
         /\ \A b \in TrackedCmds' : b > c
<1> DEFINE K == TrackedCmds \ Stale
           n == Cardinality(K) - MAX_TRACKED
           rank(b) == Cardinality({x \in K : x < b})
<1>1. K \in SUBSET Int /\ IsFiniteSet(K)
  <2>1. IsFiniteSet(Cmd)
    BY MaxCommandsAssumption, FS_Interval DEF Cmd
  <2>2. K \in SUBSET Cmd
    BY DEF TrackedCmds
  <2>3. Cmd \subseteq Int
    BY DEF Cmd
  <2> HIDE DEF K
  <2>4. IsFiniteSet(K)
    BY <2>1, <2>2, FS_Subset
  <2> QED BY <2>2, <2>3, <2>4
<1>2. \A b \in K : rank(b) \in Nat /\ IsFiniteSet({x \in K : x < b})
  BY <1>1, FS_Subset, FS_CardinalityType
<1>3. Overflow = {b \in K : rank(b) < n}
  BY DEF Overflow
<1>4. \A b \in Cmd : Tracked(b)' <=> Tracked(b) /\ b \notin Stale \cup Overflow
  BY DEF prune, Tracked, PendingTypeOK
<1>5. TrackedCmds' = K \ Overflow /\ Overflow \subseteq K
  BY <1>4 DEF TrackedCmds, Overflow
<1>6. c \in K /\ rank(c) < n
  BY <1>3, <1>4 DEF Stale, TrackedCmds
<1>7. Cardinality(K) \in Nat /\ MAX_TRACKED \in Nat /\ n \in Nat /\ n <= Cardinality(K)
  BY <1>1, <1>2, <1>6, FS_CardinalityType, MaxTrackedAssumption
<1>8. Cardinality(Overflow) = n
  BY <1>1, <1>3, <1>7, LeastAreMany
<1>9. Cardinality(K \ Overflow) = MAX_TRACKED
  <2>1. K \cap Overflow = Overflow
    BY <1>5
  <2>2. Cardinality(K \ Overflow) = Cardinality(K) - Cardinality(Overflow)
    BY <1>1, <2>1, FS_Difference
  <2> QED BY <1>7, <1>8, <2>2
<1>10. ASSUME NEW b \in K \ Overflow PROVE b > c
  <2>1. rank(b) >= n
    BY <1>2, <1>3, <1>7, <1>10
  <2>2. ASSUME b <= c PROVE FALSE
    <3>1. {x \in K : x < b} \subseteq {x \in K : x < c}
      BY <1>1, <1>6, <2>2
    <3>2. rank(b) <= rank(c)
      BY <1>2, <1>6, <3>1, FS_Subset
    <3> QED BY <1>2, <1>6, <1>7, <2>1, <3>2
  <2> QED BY <1>1, <1>6, <2>2
<1> QED BY <1>5, <1>9, <1>10

\* The table loses an awaited command in prune() only, as the oldest of more than
\* MAX_TRACKED, and keeps MAX_TRACKED that are younger.
THEOREM AwaitedMakeRoom == Spec => DroppedOnlyForRoom
<1>1. ASSUME TypeInv, [Next]_vars
      PROVE  \A c \in Cmd : Tracked(c) /\ ~Finished(c) /\ ~Tracked(c)' =>
               /\ Cardinality(TrackedCmds') = MAX_TRACKED
               /\ \A b \in TrackedCmds' : b > c
  <2> SUFFICES ASSUME NEW c \in Cmd, Tracked(c), ~Finished(c), ~Tracked(c)'
               PROVE  /\ Cardinality(TrackedCmds') = MAX_TRACKED
                      /\ \A b \in TrackedCmds' : b > c
    OBVIOUS
  <2>1. Housekeeping
    <3>1. TableMoves(c)
      BY <1>1, NextTable
    <3>2. ASSUME CliAdd, pending'[c] = NewItem(cli.device_id) PROVE Tracked(c)'
      <4>1. NewItem(cli.device_id) \in Item
        BY <1>1, <3>2 DEF TypeInv, CliCoherent, CliAdd, NewItem, Item
      <4> QED BY <3>2, <4>1, NoneIsNoItem DEF Tracked
    <3> QED BY <3>1, <3>2 DEF TableMoves, EntryProgresses
  <2> QED BY <1>1, <2>1, PruneDrops DEF Housekeeping, TypeInv, TypeOK
<1> QED BY InitTypes, NextTypes, <1>1, PTL DEF Spec, DroppedOnlyForRoom
-----------------------------------------------------------------------------
(* Who a connection belongs to: the registry, the sessions and the frames   *)
(* in flight agree on it, and what is transmitted is executed at most once. *)
(* First what a step may do to one variable (see ComponentProofs), then     *)
(* invariants from that.                                                    *)

LEMMA NextMoves == ASSUME TypeInv, [Next]_vars PROVE SessionMoves
<1>1. CASE CliStep \/ RetryStep
  BY <1>1, QuietSessions
     DEF CliStep, CliLookup, CliAdd, CliSend, CliFail, RetryStep, RetryScan, RetryItem, RetrySkip,
         RetryGiveUp, RetryLookup, RetryTo, RetryFail, RetrySend, RetryBump, tables
<1>2. CASE Housekeeping \/ \E c \in Cmd : TimePasses(c)
  BY <1>2, QuietSessions DEF Housekeeping, TimePasses
<1>3. ASSUME NEW c \in Conn, AcceptLoop(c) PROVE SessionMoves
  BY <1>3, AcceptMoves DEF AcceptLoop, TypeInv, TypeOK, ServerTypeOK
<1>4. ASSUME NEW c \in Conn, SessionThread(c) PROVE SessionMoves
  BY <1>4, SessionStepMoves DEF SessionThread, TypeInv, TypeOK, ServerTypeOK
<1>5. ASSUME NEW d \in Device, DeviceStep(d) PROVE SessionMoves
  BY <1>5, QuietSessions DEF DeviceStep, tables
<1>6. CASE UNCHANGED vars
  BY <1>6, QuietSessions DEF vars, tables
<1> QED BY <1>1, <1>2, <1>3, <1>4, <1>5, <1>6 DEF Next
-----------------------------------------------------------------------------
(* A device has one socket, and what it reads and writes there is its own.  *)

\* Nothing happens on a connection before connect().
UnusedIsSilent ==
  \A k \in Conn : link[k] = "unused" => handler[k] = "none" /\ up[k] = << >> /\ down[k] = << >>

\* The local device_id is None until the AUTH is accepted.
NamedWhenAccepted ==
  \A k \in Conn : device_id[k] # None => handler[k] \notin {"none", "accepted", "refusing"}

\* Every AUTH in flight carries the token of the device it names.
AuthIsHonest ==
  \A k \in Conn : \A i \in DOMAIN up[k] :
    LET m == up[k][i]
    IN  m.msg_type = "AUTH" => m.device_id \in Device /\ m.token = (m.device_id \notin Misconfigured)

OwnSocket ==
  \A d \in Device : sock[d] # None =>
    /\ link[sock[d]] # "unused"
    /\ device_id[sock[d]] \in {None, d}
    /\ \A i \in DOMAIN up[sock[d]] :
         up[sock[d]][i].msg_type = "AUTH" => up[sock[d]][i].device_id = d
    /\ \A e \in Device : sock[e] = sock[d] => e = d

\* The locals of the operator's thread and of the retry loop name the session's
\* device for as long as they are used.
SocketsNamed ==
  /\ cli.at # "idle" => device_id[cli.conn] = cli.device_id
  /\ retry.at \in {"send", "bump"} =>
       \A c \in Cmd : Current(c) => device_id[retry.conn] = todo[c].device_id

\* AUTH_OK is only ever sent by a session that has taken a name.
GreetedIsNamed ==
  \A k \in Conn : \A i \in DOMAIN down[k] :
    down[k][i].msg_type = "AUTH_OK" => device_id[k] # None

NamesAreTrusted ==
  /\ \A k \in Conn : device_id[k] \notin Misconfigured
  /\ \A d \in Misconfigured : ~authenticated[d]

RoutingInv ==
  /\ TypeInv
  /\ UnusedIsSilent /\ NamedWhenAccepted /\ EntryHasItsSession
  /\ SocketsNamed /\ NeverMisrouted
  /\ AuthIsHonest /\ OwnSocket /\ GreetedIsNamed /\ NamesAreTrusted
-----------------------------------------------------------------------------
(* What a step may do to a connection. *)

DownGrows(k, m) == link[k] = "up" /\ m \in ToDevice /\ down'[k] = Append(down[k], m)

UpGrows(k, m) == link[k] = "up" /\ m \in ToController /\ up'[k] = Append(up[k], m)

DownMoves(k) ==
  \/ Shrinks(down[k], down'[k])
  \/ SessionGreet(k) /\ DownGrows(k, make_auth_ok)
  \/ SessionReject(k) /\ DownGrows(k, make_auth_fail)
  \/ CliSend /\ cli.conn = k /\ DownGrows(k, make_command(cli.device_id, issued, 0))
  \/ \E c \in Cmd : /\ RetrySend(c) /\ retry.conn = k
                    /\ DownGrows(k, make_command(todo[c].device_id, c, todo[c].retry_count + 1))

UpMoves(k) ==
  \/ Shrinks(up[k], up'[k])
  \/ \E d \in Device : /\ DeviceConnect(d, k)
                       /\ up'[k] = <<make_auth(d, d \notin Misconfigured)>>
  \/ \E d \in Device :
       /\ sock[d] = k
       /\ \/ \E m \in NextFrame(d) : /\ DeviceTakeCommand(d, m)
                                     /\ UpGrows(k, make_received_ack(m.cmd_id, m.attempt))
          \/ /\ DeviceRuns(d)
             /\ UpGrows(k, make_status(level[d] + 1, job[d].cmd_id, job[d].attempt))
          \/ SendReading(d) /\ UpGrows(k, make_status(level[d] + 1, None, 0))

LinkMoves(k) ==
  \/ link'[k] = link[k]
  \/ link[k] = "unused" /\ link'[k] = "up" /\ \E d \in Device : DeviceConnect(d, k)
  \/ link[k] # "unused" /\ link'[k] \in {"cut", "closed"}

QueueMoves == \A k \in Conn : DownMoves(k) /\ UpMoves(k) /\ LinkMoves(k)

LEMMA QuietQueues == ASSUME UNCHANGED transportVars PROVE QueueMoves
BY DEF QueueMoves, DownMoves, UpMoves, LinkMoves, Shrinks, transportVars

LEMMA SendMoves ==
  ASSUME TransportTypeOK, NEW c \in Conn, NEW m \in ToDevice, SendOk(c, m),
         DownGrows(c, m) => DownMoves(c)
  PROVE  QueueMoves
<1>1. UNCHANGED <<link, up>> /\ \A k \in Conn \ {c} : down'[k] = down[k]
  BY DEF SendOk, TransportTypeOK
<1>2. down'[c] = down[c] \/ DownGrows(c, m)
  BY DEF SendOk, TransportTypeOK, DownGrows
<1>3. \A k \in Conn : UpMoves(k) /\ LinkMoves(k)
  BY <1>1 DEF UpMoves, LinkMoves, Shrinks
<1>4. \A k \in Conn : DownMoves(k)
  BY <1>1, <1>2 DEF DownMoves, Shrinks
<1> QED BY <1>3, <1>4 DEF QueueMoves

LEMMA RecvMoves ==
  ASSUME TransportTypeOK, NEW c \in Conn, NEW m, RecvLine(c, m)
  PROVE  QueueMoves
<1>1. UNCHANGED <<link, down>> /\ \A k \in Conn \ {c} : up'[k] = up[k]
  BY DEF RecvLine, TransportTypeOK
<1>2. up[c] # << >> /\ up'[c] = Tail(up[c])
  BY DEF RecvLine, TransportTypeOK
<1>3. \A k \in Conn : UpMoves(k)
  BY <1>1, <1>2 DEF UpMoves, Shrinks
<1>4. \A k \in Conn : DownMoves(k) /\ LinkMoves(k)
  BY <1>1 DEF DownMoves, LinkMoves, Shrinks
<1> QED BY <1>3, <1>4 DEF QueueMoves

LEMMA ExchangeMoves ==
  ASSUME TransportTypeOK, NEW c \in Conn, NEW m, NEW reply, DeviceExchange(c, m, reply),
         \/ reply = << >>
         \/ \E r \in ToController : reply = <<r>> /\ (UpGrows(c, r) => UpMoves(c))
  PROVE  QueueMoves
<1>1. UNCHANGED link /\ \A k \in Conn \ {c} : up'[k] = up[k] /\ down'[k] = down[k]
  BY DEF DeviceExchange, TransportTypeOK
<1>2. down[c] # << >> /\ down'[c] = Tail(down[c])
  BY DEF DeviceExchange, TransportTypeOK
<1>3. up[c] \in Seq(ToController) /\ up'[c] \in {up[c], up[c] \o reply}
      /\ (up'[c] # up[c] => link[c] = "up")
  BY DEF DeviceExchange, TransportTypeOK
<1>4. UpMoves(c)
  <2>1. CASE reply = << >>
    BY <1>3, <2>1, ConcatOne DEF UpMoves, Shrinks
  <2>2. ASSUME NEW r \in ToController, reply = <<r>>, UpGrows(c, r) => UpMoves(c) PROVE UpMoves(c)
    <3>1. up[c] \o reply = Append(up[c], r)
      BY <1>3, <2>2, ConcatOne
    <3>2. CASE up'[c] = up[c]
      BY <3>2 DEF UpMoves, Shrinks
    <3>3. CASE up'[c] # up[c]
      BY <1>3, <2>2, <3>1, <3>3 DEF UpGrows
    <3> QED BY <3>2, <3>3
  <2> QED BY <2>1, <2>2
<1>5. \A k \in Conn : UpMoves(k)
  BY <1>1, <1>4 DEF UpMoves, Shrinks
<1>6. \A k \in Conn : DownMoves(k) /\ LinkMoves(k)
  BY <1>1, <1>2 DEF DownMoves, LinkMoves, Shrinks
<1> QED BY <1>5, <1>6 DEF QueueMoves

LEMMA DeviceSendMoves ==
  ASSUME TransportTypeOK, NEW c \in Conn, NEW m \in ToController, DeviceSend(c, m),
         UpGrows(c, m) => UpMoves(c)
  PROVE  QueueMoves
<1>1. UNCHANGED <<link, down>> /\ \A k \in Conn \ {c} : up'[k] = up[k]
  BY DEF DeviceSend, TransportTypeOK
<1>2. up'[c] = up[c] \/ UpGrows(c, m)
  BY DEF DeviceSend, TransportTypeOK, UpGrows
<1>3. \A k \in Conn : DownMoves(k) /\ LinkMoves(k)
  BY <1>1 DEF DownMoves, LinkMoves, Shrinks
<1>4. \A k \in Conn : UpMoves(k)
  BY <1>1, <1>2 DEF UpMoves, Shrinks
<1> QED BY <1>3, <1>4 DEF QueueMoves

LEMMA CutMoves ==
  ASSUME TransportTypeOK, NEW c \in Conn, Cut(c) \/ (CloseConn(c) /\ link[c] # "unused")
  PROVE  QueueMoves
<1>1. \A k \in Conn \ {c} : UNCHANGED <<link[k], up[k], down[k]>>
  BY DEF Cut, CloseConn, TransportTypeOK
<1>2. link[c] # "unused" /\ (link'[c] = link[c] \/ link'[c] \in {"cut", "closed"})
  BY DEF Cut, CloseConn, TransportTypeOK
<1>3. up'[c] \in {up[c], << >>} /\ down'[c] \in {down[c], << >>}
  BY DEF Cut, CloseConn, TransportTypeOK
<1> QED BY <1>1, <1>2, <1>3 DEF QueueMoves, DownMoves, UpMoves, LinkMoves, Shrinks

LEMMA ConnectMoves ==
  ASSUME TransportTypeOK, NEW d \in Device, NEW c \in Conn, DeviceConnect(d, c)
  PROVE  QueueMoves
<1>1. \A k \in Conn \ {c} : UNCHANGED <<link[k], up[k]>>
  BY DEF DeviceConnect, Connect, TransportTypeOK
<1>2. /\ link[c] = "unused" /\ link'[c] = "up" /\ UNCHANGED down
      /\ up'[c] = <<make_auth(d, d \notin Misconfigured)>>
  BY DEF DeviceConnect, Connect, Fresh, TransportTypeOK
<1> QED BY <1>1, <1>2 DEF QueueMoves, DownMoves, UpMoves, LinkMoves, Shrinks

LEMMA SessionQueues ==
  ASSUME TypeInv, UnusedIsSilent, NEW c \in Conn, SessionStep(c, 0) PROVE QueueMoves
<1> USE DEF TypeInv, TypeOK
<1>1. CASE SessionReject(c)
  BY <1>1, FrameTypes, SendMoves, QuietQueues DEF SessionReject, SendRaises, DownMoves
<1>2. CASE SessionGreet(c)
  BY <1>2, FrameTypes, SendMoves, QuietQueues DEF SessionGreet, SendRaises, DownMoves
<1>3. CASE SessionTimeout(c) \/ SessionHangup(c) \/ SessionUnregister(c)
  BY <1>3, QuietQueues DEF SessionTimeout, SessionHangup, SessionUnregister
<1>4. CASE SessionClose(c)
  BY <1>4, CutMoves DEF SessionClose, Goto, UnusedIsSilent
<1>5. CASE SessionGarbage(c) \/ SessionHeartbeatAck(c, 0)
  BY <1>5, RecvMoves DEF SessionGarbage, SessionHeartbeatAck
<1>6. ASSUME NEW m \in NextLine(c),
             \/ SessionRefuse(c, m) \/ SessionRegister(c, m, 0) \/ SessionReceivedAck(c, m)
             \/ SessionStatusDone(c, m) \/ SessionIgnore(c, m)
      PROVE  QueueMoves
  BY <1>6, RecvMoves
     DEF SessionRefuse, SessionRegister, SessionReceivedAck, SessionStatusDone, SessionIgnore
<1>7. ASSUME NEW m \in NextLine(c), SessionStatus(c, m) PROVE QueueMoves
  BY <1>7, QuietQueues DEF SessionStatus
<1> QED BY <1>1, <1>2, <1>3, <1>4, <1>5, <1>6, <1>7 DEF SessionStep

LEMMA DeviceQueues ==
  ASSUME TypeInv, NEW d \in Device, DeviceWorks(d) \/ DeviceComesAndGoes(d) PROVE QueueMoves
<1> USE DEF TypeInv, TypeOK
<1>0. (Listening(d) => sock[d] \in Conn) /\ (job[d] # None => sock[d] \in Conn)
  BY DEF Listening, DeviceTypeOK, DeviceCoherent
<1>1. CASE DeviceRuns(d)
  <2>1. /\ sock[d] \in Conn /\ job[d].cmd_id \in Cmd /\ job[d].attempt \in Nat
        /\ level[d] + 1 \in Nat
    BY <1>1, <1>0 DEF DeviceRuns, DeviceExecute, DeviceTypeOK
  <2>2. make_status(level[d] + 1, job[d].cmd_id, job[d].attempt) \in ToController
    BY <2>1, FrameTypes
  <2> QED BY <1>1, <2>1, <2>2, DeviceSendMoves DEF DeviceRuns, DeviceExecute, UpMoves
<1>2. CASE DeviceAuthOk(d) \/ DeviceAuthFail(d)
  BY <1>0, <1>2, ExchangeMoves DEF DeviceAuthOk, DeviceAuthFail
<1>3. CASE SendReading(d)
  <2>0. level[d] + 1 \in Nat
    BY DEF DeviceTypeOK
  <2>1. make_status(level[d] + 1, None, 0) \in ToController
    BY <2>0, FrameTypes
  <2> QED BY <1>0, <1>3, <2>1, DeviceSendMoves DEF SendReading, UpMoves
<1>4. ASSUME NEW m \in NextFrame(d), DeviceTakeCommand(d, m) PROVE QueueMoves
  <2>1. m \in ToDevice /\ m.msg_type = "COMMAND"
    BY <1>0, <1>4 DEF DeviceTakeCommand, DeviceExchange, TransportTypeOK
  <2>2. make_received_ack(m.cmd_id, m.attempt) \in ToController
    BY <2>1, FrameTypes, Fields
  <2>3. UpGrows(sock[d], make_received_ack(m.cmd_id, m.attempt)) => UpMoves(sock[d])
    BY <1>4 DEF UpMoves
  <2> QED BY <1>0, <1>4, <2>2, <2>3, ExchangeMoves DEF DeviceTakeCommand
<1>5. ASSUME NEW m \in NextFrame(d), BoardSkips(d, m) PROVE QueueMoves
  BY <1>0, <1>5, ExchangeMoves DEF BoardSkips
<1>6. CASE DeviceLost(d)
  BY <1>6, CutMoves DEF DeviceLost, DeviceTypeOK
<1>7. CASE BoardCutOff(d)
  BY <1>0, <1>7, CutMoves DEF BoardCutOff
<1>8. ASSUME NEW c \in Conn, DeviceConnect(d, c) PROVE QueueMoves
  BY <1>8, ConnectMoves
<1> QED BY <1>1, <1>2, <1>3, <1>4, <1>5, <1>6, <1>7, <1>8
        DEF DeviceWorks, DeviceComesAndGoes, SimulatorWorks, BoardWorks, DeviceTick, BoardLost

LEMMA NextQueues == ASSUME TypeInv, UnusedIsSilent, [Next]_vars PROVE QueueMoves
<1> USE DEF TypeInv, TypeOK
<1>1. CASE CliStep
  <2>1. CASE CliSend
    <3>1. cli.conn \in Conn /\ make_command(cli.device_id, issued, 0) \in ToDevice
      BY <2>1, FrameTypes DEF CliSend, CliCoherent
    <3> QED BY <2>1, <3>1, SendMoves, QuietQueues DEF CliSend, SendRaises, DownMoves
  <2> QED BY <1>1, <2>1, QuietQueues DEF CliStep, CliLookup, CliAdd, CliFail
<1>2. CASE RetryStep
  <2>1. ASSUME NEW c \in Cmd, RetrySend(c) PROVE QueueMoves
    <3>1. /\ retry.conn \in Conn
          /\ make_command(todo[c].device_id, c, todo[c].retry_count + 1) \in ToDevice
      BY <2>1, FrameTypes DEF RetrySend, RetryCoherent, Current, RetryTypeOK, Copy
    <3> QED BY <2>1, <3>1, SendMoves, QuietQueues DEF RetrySend, SendRaises, DownMoves
  <2> QED BY <1>2, <2>1, QuietQueues
          DEF RetryStep, RetryScan, RetryItem, RetrySkip, RetryGiveUp, RetryLookup, RetryTo,
              RetryFail, RetryBump
<1>3. CASE Housekeeping \/ \E c \in Cmd : TimePasses(c)
  BY <1>3, QuietQueues DEF Housekeeping, TimePasses
<1>4. ASSUME NEW c \in Conn, AcceptLoop(c) \/ SessionThread(c) PROVE QueueMoves
  BY <1>4, QuietQueues, SessionQueues DEF AcceptLoop, Accept, SessionThread
<1>5. ASSUME NEW d \in Device, DeviceStep(d) PROVE QueueMoves
  BY <1>5, DeviceQueues DEF DeviceStep
<1>6. CASE UNCHANGED vars
  BY <1>6, QuietQueues DEF vars
<1> QED BY <1>1, <1>2, <1>3, <1>4, <1>5, <1>6 DEF Next
-----------------------------------------------------------------------------
(* Frame by frame: what is in a queue was there before or was just sent.    *)

LEMMA ShrunkFrames ==
  ASSUME NEW S, NEW old \in Seq(S), NEW new, Shrinks(old, new)
  PROVE  new \in Seq(S) /\ \A i \in DOMAIN new : \E j \in DOMAIN old : new[i] = old[j]
<1>1. CASE new = old
  BY <1>1
<1>2. CASE new = << >>
  BY <1>2
<1>3. CASE old # << >> /\ new = Tail(old)
  BY <1>3, TailElements
<1> QED BY <1>1, <1>2, <1>3 DEF Shrinks

LEMMA DownFrames ==
  ASSUME TypeInv, QueueMoves, NEW k \in Conn, NEW i \in DOMAIN down'[k]
  PROVE  \/ \E j \in DOMAIN down[k] : down'[k][i] = down[k][j]
         \/ SessionGreet(k) /\ down'[k][i] = make_auth_ok
         \/ down'[k][i] = make_auth_fail
         \/ /\ CliSend /\ cli.conn = k
            /\ down'[k][i] = make_command(cli.device_id, issued, 0)
         \/ \E c \in Cmd :
              /\ RetrySend(c) /\ retry.conn = k
              /\ down'[k][i] = make_command(todo[c].device_id, c, todo[c].retry_count + 1)
<1>1. down[k] \in Seq(ToDevice)
  BY DEF TypeInv, TypeOK, TransportTypeOK
<1>2. CASE Shrinks(down[k], down'[k])
  BY <1>1, <1>2, ShrunkFrames
<1>3. ASSUME NEW m, DownGrows(k, m)
      PROVE  down'[k][i] = m \/ \E j \in DOMAIN down[k] : down'[k][i] = down[k][j]
  BY <1>1, <1>3, AppendElements DEF DownGrows
<1> QED BY <1>2, <1>3 DEF QueueMoves, DownMoves

LEMMA UpFrames ==
  ASSUME TypeInv, QueueMoves, NEW k \in Conn, NEW i \in DOMAIN up'[k]
  PROVE  \/ \E j \in DOMAIN up[k] : up'[k][i] = up[k][j]
         \/ \E d \in Device : /\ DeviceConnect(d, k)
                              /\ up'[k][i] = make_auth(d, d \notin Misconfigured)
         \/ \E d \in Device :
              /\ sock[d] = k /\ link[k] = "up"
              /\ \/ \E m \in NextFrame(d) : /\ DeviceTakeCommand(d, m)
                                            /\ up'[k][i] = make_received_ack(m.cmd_id, m.attempt)
                 \/ /\ DeviceRuns(d)
                    /\ up'[k][i] = make_status(level[d] + 1, job[d].cmd_id, job[d].attempt)
                 \/ up'[k][i] = make_status(level[d] + 1, None, 0)
<1>1. up[k] \in Seq(ToController)
  BY DEF TypeInv, TypeOK, TransportTypeOK
<1>2. CASE Shrinks(up[k], up'[k])
  BY <1>1, <1>2, ShrunkFrames
<1>3. ASSUME NEW m, UpGrows(k, m)
      PROVE  /\ up'[k][i] = m \/ \E j \in DOMAIN up[k] : up'[k][i] = up[k][j]
             /\ link[k] = "up"
  BY <1>1, <1>3, AppendElements DEF UpGrows
<1>4. ASSUME NEW m, up'[k] = <<m>> PROVE up'[k][i] = m
  BY <1>4
<1> QED BY <1>2, <1>3, <1>4 DEF QueueMoves, UpMoves

(* What a step may do to a device. *)
DeviceMoves(d) ==
  /\ \/ sock'[d] \in {sock[d], None}
     \/ \E k \in Conn : DeviceConnect(d, k) /\ sock[d] = None /\ sock' = [sock EXCEPT ![d] = k]
  /\ authenticated'[d] => authenticated[d] \/ DeviceAuthOk(d)
  /\ \/ job'[d] \in {job[d], None}
     \/ \E m \in NextFrame(d) :
          /\ DeviceTakeCommand(d, m) /\ UNCHANGED sock
          /\ job'[d] = [cmd_id |-> m.cmd_id, attempt |-> m.attempt]

LEMMA NextDevices == ASSUME TypeInv, [Next]_vars PROVE \A d \in Device : DeviceMoves(d)
<1> SUFFICES ASSUME NEW d \in Device PROVE DeviceMoves(d)
  OBVIOUS
<1> USE DEF TypeInv, TypeOK, DeviceTypeOK
<1>1. CASE UNCHANGED deviceVars
  BY <1>1 DEF DeviceMoves, deviceVars
<1>2. ASSUME NEW e \in Device, DeviceWorks(e) \/ DeviceComesAndGoes(e) PROVE DeviceMoves(d)
  <2>1. CASE DeviceRuns(e) \/ SendReading(e)
    BY <2>1 DEF DeviceRuns, DeviceExecute, SendReading, DeviceMoves
  <2>2. CASE DeviceAuthOk(e) \/ DeviceAuthFail(e)
    BY <2>2 DEF DeviceAuthOk, DeviceAuthFail, DeviceMoves
  <2>3. ASSUME NEW m \in NextFrame(e), DeviceTakeCommand(e, m) PROVE DeviceMoves(d)
    BY <2>3 DEF DeviceTakeCommand, DeviceMoves
  <2>4. CASE DeviceLost(e)
    BY <2>4 DEF DeviceLost, DeviceMoves
  <2>5. ASSUME NEW k \in Conn, DeviceConnect(e, k) PROVE DeviceMoves(d)
    BY <2>5 DEF DeviceConnect, DeviceMoves
  <2> QED BY <1>1, <1>2, <2>1, <2>2, <2>3, <2>4, <2>5
          DEF DeviceWorks, DeviceComesAndGoes, SimulatorWorks, BoardWorks, DeviceTick, BoardLost,
              BoardSkips, BoardCutOff
<1>3. (\E e \in Device : DeviceWorks(e) \/ DeviceComesAndGoes(e)) \/ UNCHANGED deviceVars
  BY DEF Next, CliStep, CliLookup, CliAdd, CliSend, CliFail, RetryStep, RetryScan, RetryItem,
         RetrySkip, RetryGiveUp, RetryLookup, RetryTo, RetryFail, RetrySend, RetryBump,
         Housekeeping, TimePasses, AcceptLoop, SessionThread, DeviceStep, vars
<1> QED BY <1>1, <1>2, <1>3
-----------------------------------------------------------------------------
(* The invariants. *)

LEMMA NamesStay ==
  ASSUME RoutingInv, [Next]_vars, NEW k \in Conn, device_id[k] # None
  PROVE  device_id'[k] = device_id[k]
BY NextMoves DEF RoutingInv, NamedWhenAccepted, SessionMoves, Named

LEMMA SilentStep == ASSUME RoutingInv, [Next]_vars PROVE UnusedIsSilent'
<1> SUFFICES ASSUME NEW k \in Conn, link'[k] = "unused"
             PROVE  handler'[k] = "none" /\ up'[k] = << >> /\ down'[k] = << >>
  BY DEF UnusedIsSilent
<1>1. QueueMoves /\ SessionMoves
  BY NextQueues, NextMoves DEF RoutingInv
<1>2. link[k] = "unused" /\ up[k] = << >> /\ down[k] = << >> /\ handler[k] = "none"
  BY <1>1 DEF QueueMoves, LinkMoves, RoutingInv, UnusedIsSilent
<1>3. \A d \in Device : ~DeviceConnect(d, k)
  BY DEF DeviceConnect, Connect, RoutingInv, TypeInv, TypeOK, TransportTypeOK
<1>4. Shrinks(up[k], up'[k]) /\ Shrinks(down[k], down'[k])
  BY <1>1, <1>2, <1>3 DEF QueueMoves, UpMoves, DownMoves, UpGrows, DownGrows
<1> QED BY <1>1, <1>2, <1>4 DEF Shrinks, SessionMoves, HandlerMoves

LEMMA EntryStep ==
  ASSUME RoutingInv, [Next]_vars PROVE NamedWhenAccepted' /\ EntryHasItsSession'
<1>1. SessionMoves
  BY NextMoves DEF RoutingInv
<1>2. NamedWhenAccepted'
  <2> SUFFICES ASSUME NEW k \in Conn, device_id'[k] # None
               PROVE  handler'[k] \notin {"none", "accepted", "refusing"}
    BY DEF NamedWhenAccepted
  <2>1. CASE Named(k)
    BY <2>1 DEF Named
  <2>2. CASE device_id'[k] = device_id[k]
    BY <1>1, <2>2 DEF SessionMoves, HandlerMoves, Moves, RoutingInv, NamedWhenAccepted
  <2> QED BY <1>1, <2>1, <2>2 DEF SessionMoves
<1>3. EntryHasItsSession'
  <2> SUFFICES ASSUME NEW d \in Device, is_connected(d)'
               PROVE  /\ device_id'[registry'[d].conn] = d
                      /\ handler'[registry'[d].conn] \in {"registered", "open", "status", "closing"}
    BY DEF EntryHasItsSession, get_conn
  <2>1. CASE EntryStays(d)
    <3> DEFINE k == registry[d].conn
    <3>1. /\ device_id[k] = d /\ handler[k] \in {"registered", "open", "status", "closing"}
          /\ k \in Conn /\ registry'[d].conn = k
      BY <2>1 DEF EntryStays, RoutingInv, EntryHasItsSession, get_conn, TypeInv, TypeOK,
                  RegistryTypeOK, Entry, is_connected
    <3>2. device_id'[k] = d
      BY <3>1, NamesStay, NoneAssumption
    <3>3. ~(handler[k] = "closing" /\ handler'[k] = "unregistered")
      BY <1>1, <3>1 DEF SessionMoves, EntryLeaves
    <3>4. handler'[k] = handler[k] \/ <<handler[k], handler'[k]>> \in Moves
      BY <1>1, <3>1 DEF SessionMoves, HandlerMoves
    <3> QED BY <3>1, <3>2, <3>3, <3>4 DEF Moves
  <2>2. CASE \E k \in Conn : Named(k) /\ device_id'[k] = d /\ registry'[d].conn = k
    BY <2>2 DEF Named
  <2> QED BY <1>1, <2>1, <2>2 DEF SessionMoves, EntryMoves
<1> QED BY <1>2, <1>3

LEMMA CliNamed ==
  ASSUME RoutingInv, [Next]_vars, cli'.at # "idle"
  PROVE  device_id'[cli'.conn] = cli'.device_id
<1> USE DEF RoutingInv, TypeInv, TypeOK
<1>1. CASE cli.at # "idle" /\ cli'.conn = cli.conn /\ cli'.device_id = cli.device_id
  <2>1. cli.conn \in Conn /\ cli.device_id \in Device /\ device_id[cli.conn] = cli.device_id
    BY <1>1 DEF CliCoherent, SocketsNamed
  <2> QED BY <1>1, <2>1, NamesStay, NoneAssumption
<1>2. ASSUME NEW d \in Device, CliLookup(d) PROVE device_id'[cli'.conn] = cli'.device_id
  <2>1. cli'.conn = get_conn(d) /\ cli'.device_id = d /\ device_id' = device_id
    BY <1>2 DEF CliLookup, sessionVars
  <2> QED BY <1>2, <2>1 DEF CliLookup, EntryHasItsSession
<1>3. CASE CliAdd \/ CliSend \/ CliFail
  <2>1. cli.at # "idle" /\ cli'.conn = cli.conn /\ cli'.device_id = cli.device_id
    BY <1>3 DEF CliAdd, CliSend, CliFail, Idle, CliTypeOK
  <2> QED BY <1>1, <2>1
<1>4. CASE UNCHANGED cli
  BY <1>1, <1>4
<1>5. CliStep \/ UNCHANGED cli
  BY DEF Next, RetryStep, RetryScan, RetryItem,
         RetrySkip, RetryGiveUp, RetryLookup, RetryTo, RetryFail, RetrySend, RetryBump,
         Housekeeping, TimePasses, AcceptLoop, SessionThread, DeviceStep, vars
<1> QED BY <1>2, <1>3, <1>4, <1>5 DEF CliStep

LEMMA RetryNamed ==
  ASSUME RoutingInv, [Next]_vars, retry'.at \in {"send", "bump"}, NEW c \in Cmd, Current(c)'
  PROVE  device_id'[retry'.conn] = todo'[c].device_id
<1> USE DEF RoutingInv, TypeInv, TypeOK
<1>1. CASE retry.at \in {"send", "bump"} /\ retry'.conn = retry.conn /\ todo' = todo
  <2>1. retry.conn \in Conn /\ Current(c) /\ todo[c].device_id \in Device
    BY <1>1 DEF RetryCoherent, Current, RetryTypeOK, Copy
  <2>2. device_id[retry.conn] = todo[c].device_id
    BY <1>1, <2>1 DEF SocketsNamed
  <2> QED BY <1>1, <2>1, <2>2, NamesStay, NoneAssumption
<1>2. ASSUME NEW b \in Cmd, RetryLookup(b) PROVE device_id'[retry'.conn] = todo'[c].device_id
  <2>1. /\ retry'.conn = get_conn(todo[b].device_id) /\ retry'.conn # None
        /\ todo' = todo /\ device_id' = device_id /\ Current(b) /\ Current(c)
    BY <1>2 DEF RetryLookup, RetryTo, Due, sessionVars, Current
  <2>2. b = c
    BY <2>1, MaxCommandsAssumption DEF Current, Cmd
  <2>3. todo[b].device_id \in Device
    BY <2>1 DEF Current, RetryTypeOK, Copy
  <2>4. is_connected(todo[b].device_id)
    BY <2>1 DEF get_conn
  <2> QED BY <2>1, <2>2, <2>3, <2>4 DEF EntryHasItsSession
<1>3. ASSUME NEW b \in Cmd, RetrySend(b), ~Next_item(b)
      PROVE  device_id'[retry'.conn] = todo'[c].device_id
  BY <1>1, <1>3 DEF RetrySend, RetryTypeOK
<1>4. CASE UNCHANGED <<retry, todo>>
  BY <1>1, <1>4
<1>5. CASE retry' = Loop
  BY <1>5 DEF Loop
<1>6. RetryStep \/ UNCHANGED <<retry, todo>>
  BY DEF Next, CliStep, CliLookup, CliAdd, CliSend, CliFail,
         Housekeeping, TimePasses, AcceptLoop, SessionThread, DeviceStep, vars
<1> QED BY <1>2, <1>3, <1>5, <1>4, <1>6
        DEF RetryStep, RetryScan, RetryItem, RetrySkip, RetryGiveUp, RetryFail, RetryBump,
            Next_item

\* A COMMAND is sent on the socket of the session that has its device's name.
LEMMA RouteStep == ASSUME RoutingInv, [Next]_vars PROVE NeverMisrouted'
<1> SUFFICES ASSUME NEW k \in Conn, NEW i \in DOMAIN down'[k], down'[k][i].msg_type = "COMMAND"
             PROVE  down'[k][i].device_id = device_id'[k]
  BY DEF NeverMisrouted
<1> USE DEF RoutingInv, TypeInv, TypeOK
<1>1. QueueMoves
  BY NextQueues
<1>2. ASSUME NEW j \in DOMAIN down[k], down'[k][i] = down[k][j]
      PROVE  down'[k][i].device_id = device_id'[k]
  <2>1. down[k][j] \in ToDevice
    BY DEF TransportTypeOK
  <2>2. down[k][j].device_id = device_id[k] /\ down[k][j].device_id \in Device
    BY <1>2, <2>1 DEF NeverMisrouted, ToDevice, make_auth_ok, make_auth_fail, make_heartbeat
  <2> QED BY <1>2, <2>2, NamesStay, NoneAssumption
<1>3. CASE CliSend /\ cli.conn = k /\ down'[k][i] = make_command(cli.device_id, issued, 0)
  <2>1. device_id[k] = cli.device_id /\ device_id' = device_id
    BY <1>3 DEF CliSend, SocketsNamed, sessionVars
  <2> QED BY <1>3, <2>1 DEF make_command
<1>4. ASSUME NEW c \in Cmd, RetrySend(c), retry.conn = k,
             down'[k][i] = make_command(todo[c].device_id, c, todo[c].retry_count + 1)
      PROVE  down'[k][i].device_id = device_id'[k]
  <2>1. device_id[k] = todo[c].device_id /\ device_id' = device_id
    BY <1>4 DEF RetrySend, SocketsNamed, sessionVars
  <2> QED BY <1>4, <2>1 DEF make_command
<1>5. down'[k][i] # make_auth_ok /\ down'[k][i] # make_auth_fail
  BY DEF make_auth_ok, make_auth_fail
<1> QED BY <1>1, <1>2, <1>3, <1>4, <1>5, DownFrames

LEMMA GreetedStep == ASSUME RoutingInv, [Next]_vars PROVE GreetedIsNamed'
<1> SUFFICES ASSUME NEW k \in Conn, NEW i \in DOMAIN down'[k], down'[k][i].msg_type = "AUTH_OK"
             PROVE  device_id'[k] # None
  BY DEF GreetedIsNamed
<1>1. QueueMoves
  BY NextQueues DEF RoutingInv
<1>2. ASSUME NEW j \in DOMAIN down[k], down'[k][i] = down[k][j] PROVE device_id[k] # None
  BY <1>2 DEF RoutingInv, GreetedIsNamed
<1>3. ASSUME SessionGreet(k) PROVE device_id[k] # None
  BY <1>3, NoneAssumption DEF SessionGreet, Goto, RoutingInv, TypeInv, SessionCoherent
<1>4. down'[k][i] # make_auth_fail
  BY DEF make_auth_fail
<1>5. \A d, c, n : down'[k][i] # make_command(d, c, n)
  BY DEF make_command
<1>6. (\E j \in DOMAIN down[k] : down'[k][i] = down[k][j]) \/ SessionGreet(k)
  BY <1>1, <1>4, <1>5, DownFrames DEF RoutingInv
<1>7. device_id[k] # None
  BY <1>2, <1>3, <1>6
<1> QED BY <1>7, NamesStay

LEMMA HonestStep == ASSUME RoutingInv, [Next]_vars PROVE AuthIsHonest'
<1> SUFFICES ASSUME NEW k \in Conn, NEW i \in DOMAIN up'[k], up'[k][i].msg_type = "AUTH"
             PROVE  /\ up'[k][i].device_id \in Device
                    /\ up'[k][i].token = (up'[k][i].device_id \notin Misconfigured)
  BY DEF AuthIsHonest
<1>1. QueueMoves
  BY NextQueues DEF RoutingInv
<1>2. ASSUME NEW j \in DOMAIN up[k], up'[k][i] = up[k][j]
      PROVE  /\ up'[k][i].device_id \in Device
             /\ up'[k][i].token = (up'[k][i].device_id \notin Misconfigured)
  BY <1>2 DEF RoutingInv, AuthIsHonest
<1>3. /\ \A c, n : make_received_ack(c, n).msg_type = "RECEIVED_ACK"
      /\ \A s, c, n : make_status(s, c, n).msg_type = "STATUS"
      /\ \A d, b : make_auth(d, b).device_id = d /\ make_auth(d, b).token = b
  BY DEF make_received_ack, make_status, make_auth
<1> QED BY <1>1, <1>2, <1>3, UpFrames DEF RoutingInv

\* The name a session takes is that of the device whose socket it reads.
LEMMA NameTaken ==
  ASSUME RoutingInv, NEW k \in Conn, Named(k)
  PROVE  /\ device_id'[k] \in Device \ Misconfigured
         /\ \A d \in Device : sock[d] = k => device_id'[k] = d
<1>1. up[k] \in Seq(ToController) /\ up[k] # << >>
  BY DEF Named, RoutingInv, TypeInv, TypeOK, TransportTypeOK
<1>2. 1 \in DOMAIN up[k] /\ Head(up[k]) = up[k][1]
  BY <1>1, TailElements
<1>3. /\ up[k][1].msg_type = "AUTH" /\ up[k][1].token
      /\ device_id'[k] = up[k][1].device_id
  BY <1>2 DEF Named, Acceptable
<1>4. up[k][1].device_id \in Device \ Misconfigured
  BY <1>2, <1>3 DEF RoutingInv, AuthIsHonest
<1>5. k # None
  BY NoneAssumption DEF Conn
<1> QED BY <1>2, <1>3, <1>4, <1>5 DEF RoutingInv, OwnSocket

LEMMA OwnSocketStep == ASSUME RoutingInv, [Next]_vars PROVE OwnSocket'
<1> USE DEF RoutingInv, TypeInv, TypeOK
<1>1. QueueMoves /\ SessionMoves /\ \A e \in Device : DeviceMoves(e)
  BY NextQueues, NextMoves, NextDevices
<1> SUFFICES ASSUME NEW d \in Device, sock'[d] # None
             PROVE  /\ link'[sock'[d]] # "unused"
                    /\ device_id'[sock'[d]] \in {None, d}
                    /\ \A i \in DOMAIN up'[sock'[d]] :
                         up'[sock'[d]][i].msg_type = "AUTH" => up'[sock'[d]][i].device_id = d
                    /\ \A e \in Device : sock'[e] = sock'[d] => e = d
  BY DEF OwnSocket
<1> DEFINE k == sock'[d]
<1>2. /\ \A c, n : make_received_ack(c, n).msg_type = "RECEIVED_ACK"
      /\ \A s, c, n : make_status(s, c, n).msg_type = "STATUS"
      /\ \A e, b : make_auth(e, b).device_id = e
  BY DEF make_received_ack, make_status, make_auth
<1>3. CASE sock'[d] = sock[d]
  <2>1. k \in Conn /\ sock[d] = k /\ link[k] # "unused" /\ device_id[k] \in {None, d}
    BY <1>3, NoneAssumption DEF OwnSocket, DeviceTypeOK
  <2>2. link'[k] # "unused"
    BY <1>1, <2>1 DEF QueueMoves, LinkMoves
  <2>3. device_id'[k] \in {None, d}
    BY <1>1, <2>1, NameTaken DEF SessionMoves
  <2>4. \A e \in Device : ~DeviceConnect(e, k)
    BY <2>1 DEF DeviceConnect, Connect, Fresh
  <2>5. ASSUME NEW i \in DOMAIN up'[k], up'[k][i].msg_type = "AUTH" PROVE up'[k][i].device_id = d
    BY <1>1, <1>2, <2>1, <2>4, <2>5, UpFrames DEF OwnSocket
  <2>6. ASSUME NEW e \in Device, sock'[e] = k PROVE e = d
    <3>1. sock'[e] = sock[e]
      BY <1>1, <2>1, <2>4, <2>6, NoneAssumption DEF DeviceMoves, DeviceConnect, DeviceTypeOK, Conn
    <3> QED BY <2>1, <2>6, <3>1 DEF OwnSocket
  <2> QED BY <2>2, <2>3, <2>5, <2>6
<1>4. ASSUME NEW c \in Conn, DeviceConnect(d, c), sock[d] = None, sock' = [sock EXCEPT ![d] = c]
      PROVE  /\ link'[k] # "unused"
             /\ device_id'[k] \in {None, d}
             /\ \A i \in DOMAIN up'[k] :
                  up'[k][i].msg_type = "AUTH" => up'[k][i].device_id = d
             /\ \A e \in Device : sock'[e] = sock'[d] => e = d
  <2>1. k = c /\ \A e \in Device \ {d} : sock'[e] = sock[e]
    BY <1>4 DEF DeviceTypeOK
  <2>2. link[c] = "unused" /\ link'[c] = "up" /\ up'[c] = <<make_auth(d, d \notin Misconfigured)>>
    BY <1>4 DEF DeviceConnect, Connect, Fresh, TransportTypeOK
  <2>3. handler[c] = "none" /\ device_id[c] = None
    BY <2>2 DEF UnusedIsSilent, NamedWhenAccepted
  <2>4. device_id'[c] = None
    BY <1>1, <2>3 DEF SessionMoves, Named
  <2>5. \A e \in Device : sock[e] # c
    BY <2>2, NoneAssumption DEF OwnSocket, Conn
  <2> QED BY <1>2, <2>1, <2>2, <2>4, <2>5
<1> QED BY <1>1, <1>3, <1>4 DEF DeviceMoves

LEMMA TrustedStep == ASSUME RoutingInv, [Next]_vars PROVE NamesAreTrusted'
<1> USE DEF RoutingInv, TypeInv, TypeOK
<1>1. SessionMoves /\ \A e \in Device : DeviceMoves(e)
  BY NextMoves, NextDevices
<1>2. ASSUME NEW k \in Conn PROVE device_id'[k] \notin Misconfigured
  BY <1>1, NameTaken DEF SessionMoves, NamesAreTrusted
<1>3. ASSUME NEW d \in Misconfigured PROVE ~authenticated'[d]
  <2>1. d \in Device
    BY MisconfiguredAssumption
  <2>2. ~DeviceAuthOk(d)
    <3> SUFFICES ASSUME DeviceAuthOk(d) PROVE FALSE
      OBVIOUS
    <3> DEFINE k == sock[d]
    <3>1. k \in Conn /\ sock[d] # None /\ down[k] # << >> /\ Head(down[k]) = make_auth_ok
      BY <2>1 DEF DeviceAuthOk, Listening, DeviceExchange, DeviceTypeOK
    <3>2. down[k] \in Seq(ToDevice)
      BY <3>1 DEF TransportTypeOK
    <3>3. 1 \in DOMAIN down[k] /\ down[k][1].msg_type = "AUTH_OK"
      BY <3>1, <3>2, TailElements DEF make_auth_ok
    <3>4. device_id[k] # None
      BY <3>1, <3>3 DEF GreetedIsNamed
    <3>5. device_id[k] = d
      BY <2>1, <3>1, <3>4 DEF OwnSocket
    <3> QED BY <3>1, <3>5 DEF NamesAreTrusted
  <2> QED BY <1>1, <2>1, <2>2 DEF DeviceMoves, NamesAreTrusted
<1> QED BY <1>2, <1>3 DEF NamesAreTrusted

LEMMA InitRouting == Init => RoutingInv
<1> SUFFICES ASSUME Init PROVE RoutingInv
  OBVIOUS
<1>1. UnusedIsSilent /\ AuthIsHonest /\ GreetedIsNamed /\ NeverMisrouted
  BY DEF Init, TransportInit, SessionInit, UnusedIsSilent, AuthIsHonest, GreetedIsNamed,
         NeverMisrouted
<1>2. NamedWhenAccepted /\ EntryHasItsSession /\ OwnSocket /\ SocketsNamed
  BY DEF Init, SessionInit, RegistryInit, DeviceInit, NamedWhenAccepted, EntryHasItsSession,
         is_connected, OwnSocket, SocketsNamed, Idle, Loop
<1>3. NamesAreTrusted
  BY MisconfiguredAssumption, NoneAssumption
     DEF Init, SessionInit, DeviceInit, NamesAreTrusted
<1> QED BY <1>1, <1>2, <1>3, InitTypes DEF RoutingInv

LEMMA NextRouting == RoutingInv /\ [Next]_vars => RoutingInv'
<1> SUFFICES ASSUME RoutingInv, [Next]_vars PROVE RoutingInv'
  OBVIOUS
<1>1. TypeInv'
  BY NextTypes DEF RoutingInv
<1>2. SocketsNamed'
  BY CliNamed, RetryNamed DEF SocketsNamed
<1> QED BY <1>1, <1>2, SilentStep, EntryStep, RouteStep, GreetedStep, HonestStep, OwnSocketStep,
           TrustedStep DEF RoutingInv

\* Whatever the order of reconnections, timeouts and hangups, an entry of the
\* registry belongs to a session that registered this device and has not yet run
\* its finally clause.
THEOREM EntriesHaveSessions == Spec => []EntryHasItsSession
<1>1. RoutingInv => EntryHasItsSession
  BY DEF RoutingInv
<1> QED BY InitRouting, NextRouting, <1>1, PTL DEF Spec

\* A COMMAND travels only to the device it names, although both senders use a
\* socket they looked up some time ago.
THEOREM CommandsAreRouted == Spec => []NeverMisrouted
<1>1. RoutingInv => NeverMisrouted
  BY DEF RoutingInv
<1> QED BY InitRouting, NextRouting, <1>1, PTL DEF Spec

\* A device with the wrong token is never greeted, never in the registry, and no
\* session takes its name.
THEOREM UntrustedAreRefused == Spec => []UntrustedIsNeverServed
<1>1. RoutingInv => UntrustedIsNeverServed
  <2> SUFFICES ASSUME RoutingInv, NEW d \in Misconfigured
               PROVE  ~is_connected(d) /\ ~authenticated[d] /\ \A k \in Conn : device_id[k] # d
    BY DEF UntrustedIsNeverServed
  <2>1. ~authenticated[d] /\ \A k \in Conn : device_id[k] # d
    BY DEF RoutingInv, NamesAreTrusted
  <2>2. ~is_connected(d)
    <3> SUFFICES ASSUME is_connected(d) PROVE FALSE
      OBVIOUS
    <3>1. d \in Device
      BY MisconfiguredAssumption
    <3>2. device_id[get_conn(d)] = d /\ get_conn(d) \in Conn
      BY <3>1 DEF RoutingInv, EntryHasItsSession, get_conn, is_connected, TypeInv, TypeOK,
                  RegistryTypeOK, Entry
    <3> QED BY <2>1, <3>2
  <2> QED BY <2>1, <2>2
<1> QED BY InitRouting, NextRouting, <1>1, PTL DEF Spec
-----------------------------------------------------------------------------
(* What is transmitted is executed at most once.  The unit of the argument *)
(* is a transmission: attempt n of command c.  It is counted when it is    *)
(* sent, is then in one place only (a queue or the hands of a device) and  *)
(* leaves that place when it is executed or lost.                          *)

IsCommand(k, i) == CommandAt(down, k, i)

OnePlace == InOnePlace(down, job)

\* Attempt n of c is on the wire or in the hands of a device.
Flying(c, n) == UnderWay(down, job, c, n)

Outstanding(c) == {n \in 0 .. COMMAND_MAX_RETRIES : Flying(c, n)}

\* The senders' counts know of every attempt that was sent.
Counted(c, n) ==
  c <= issued /\ n <= Count(c) + Unbumped(c) /\ (n = 0 => Given(c) = 1)

FlightsCounted ==
  /\ \A k \in Conn : \A i \in DOMAIN down[k] :
       IsCommand(k, i) => Counted(down[k][i].cmd_id, down[k][i].attempt)
  /\ \A d \in Device : job[d] # None => Counted(job[d].cmd_id, job[d].attempt)

\* Executions and transmissions that may still be executed.
RunsCounted == \A c \in Cmd : runs[c] + Cardinality(Outstanding(c)) <= sends[c]

LEMMA PlacesLost ==
  ASSUME TypeInv, OnePlace, \A k \in Conn : NoNewCommand(down[k], down'[k]),
         \A d \in Device : job'[d] \in {job[d], None}
  PROVE  OnePlace' /\ \A c, n : Flying(c, n)' => Flying(c, n)
BY CommandsLost DEF NoneNew, TypeInv, TypeOK, TransportTypeOK, OnePlace, Flying

LEMMA PlacesTaken ==
  ASSUME TypeInv, OnePlace, NEW d \in Device, NEW m, DeviceTakeCommand(d, m)
  PROVE  OnePlace' /\ \A c, n : Flying(c, n)' => Flying(c, n)
<1> DEFINE q == sock[d]
<1>1. /\ q \in Conn /\ job[d] = None /\ down[q] # << >> /\ m = Head(down[q])
      /\ m.msg_type = "COMMAND" /\ down' = [down EXCEPT ![q] = Tail(@)]
      /\ job' = [job EXCEPT ![d] = [cmd_id |-> m.cmd_id, attempt |-> m.attempt]]
  BY DEF DeviceTakeCommand, Listening, DeviceExchange, TypeInv, TypeOK, DeviceTypeOK
<1>2. /\ down \in [Conn -> Seq(ToDevice)]
      /\ job \in [Device -> [cmd_id : Cmd, attempt : Nat] \cup {None}]
  BY DEF TypeInv, TypeOK, TransportTypeOK, DeviceTypeOK
<1>3. Takes(down, job, q, d, down', job')
  BY <1>1, <1>2 DEF Takes
<1>4. InOnePlace(down, job)
  BY DEF OnePlace
<1> HIDE DEF q
<1>5. d \in Device /\ q \in Conn
  BY <1>1
<1>6. /\ InOnePlace(down', job')
      /\ \A c, n : UnderWay(down', job', c, n) => UnderWay(down, job, c, n)
  BY <1>2, <1>3, <1>4, <1>5, CommandTaken
<1> QED BY <1>6 DEF OnePlace, Flying

LEMMA PlacesSent ==
  ASSUME TypeInv, OnePlace, NEW q \in Conn, NEW m \in ToDevice, m.msg_type = "COMMAND",
         down' = [down EXCEPT ![q] = Append(@, m)], UNCHANGED job,
         ~Flying(m.cmd_id, m.attempt)
  PROVE  /\ OnePlace'
         /\ \A c, n : Flying(c, n)' => Flying(c, n) \/ (c = m.cmd_id /\ n = m.attempt)
<1>1. down \in [Conn -> Seq(ToDevice)]
  BY DEF TypeInv, TypeOK, TransportTypeOK
<1>2. Puts(down, q, m, down')
  BY <1>1 DEF Puts
<1>3. InOnePlace(down, job) /\ ~UnderWay(down, job, m.cmd_id, m.attempt)
  BY DEF OnePlace, Flying
<1>4. /\ InOnePlace(down', job)
      /\ \A c, n : UnderWay(down', job, c, n) =>
           UnderWay(down, job, c, n) \/ (c = m.cmd_id /\ n = m.attempt)
  <2>1. m \in ToDevice /\ m.msg_type = "COMMAND" /\ q \in Conn
    OBVIOUS
  <2> QED BY ONLY <1>1, <1>2, <1>3, <2>1, CommandSent, ZenonT(60)
<1> QED BY <1>4 DEF OnePlace, Flying
-----------------------------------------------------------------------------
(* What a step may do to the transmissions. *)

RunInv ==
  /\ RoutingInv /\ RetryBudget
  /\ OnePlace /\ FlightsCounted /\ RunsCounted

FlightsEnd ==
  /\ \A c, n : Flying(c, n)' => Flying(c, n)
  /\ UNCHANGED runs
  /\ \/ UNCHANGED sends
     \/ \E b \in Cmd : sends' = [sends EXCEPT ![b] = @ + 1]

FlightStarts(b, a) ==
  /\ ~Flying(b, a) /\ Counted(b, a)' /\ a \in Nat
  /\ \A c, n : Flying(c, n)' => Flying(c, n) \/ (c = b /\ n = a)
  /\ sends' = [sends EXCEPT ![b] = @ + 1] /\ UNCHANGED runs

FlightLands(b, a) ==
  /\ Flying(b, a) /\ a \in Nat
  /\ \A c, n : Flying(c, n)' => Flying(c, n) /\ ~(c = b /\ n = a)
  /\ runs' = [runs EXCEPT ![b] = @ + 1] /\ UNCHANGED sends

FlightMoves == FlightsEnd \/ \E b \in Cmd, a \in Nat : FlightStarts(b, a) \/ FlightLands(b, a)

LEMMA NextCounters ==
  ASSUME [Next]_vars
  PROVE  /\ UNCHANGED runs \/ \E d \in Device : DeviceRuns(d)
         /\ UNCHANGED sends \/ CliSend \/ \E c \in Cmd : RetrySend(c)
BY DEF Next, CliStep, CliLookup, CliAdd, CliSend, CliFail, RetryStep, RetryScan, RetryItem,
       RetrySkip, RetryGiveUp, RetryLookup, RetryTo, RetryFail, RetrySend, RetryBump, Housekeeping,
       TimePasses, AcceptLoop, SessionThread, DeviceStep, DeviceWorks, DeviceComesAndGoes,
       DeviceRuns, history, vars

LEMMA FlyingTypes ==
  ASSUME TypeInv, FlightsCounted, NEW c, NEW n, Flying(c, n)
  PROVE  Counted(c, n) /\ c \in Cmd /\ n \in Nat
<1>1. CASE \E k \in Conn : \E i \in DOMAIN down[k] :
             IsCommand(k, i) /\ down[k][i].cmd_id = c /\ down[k][i].attempt = n
  <2>0. PICK k \in Conn : \E i \in DOMAIN down[k] :
          IsCommand(k, i) /\ down[k][i].cmd_id = c /\ down[k][i].attempt = n
    BY <1>1
  <2>1. PICK i \in DOMAIN down[k] :
          IsCommand(k, i) /\ down[k][i].cmd_id = c /\ down[k][i].attempt = n
    BY <2>0
  <2>2. down[k][i] \in ToDevice
    BY DEF TypeInv, TypeOK, TransportTypeOK
  <2> QED BY <2>1, <2>2, Fields DEF FlightsCounted, IsCommand, CommandAt
<1>2. CASE \E d \in Device : job[d] # None /\ job[d].cmd_id = c /\ job[d].attempt = n
  BY <1>2 DEF FlightsCounted, TypeInv, TypeOK, DeviceTypeOK
<1> QED BY <1>1, <1>2 DEF Flying, UnderWay, IsCommand

LEMMA SendFlight ==
  ASSUME TypeInv, OnePlace, NEW q \in Conn, NEW m \in ToDevice, m.msg_type = "COMMAND",
         SendOk(q, m), UNCHANGED <<job, runs>>, sends' = [sends EXCEPT ![m.cmd_id] = @ + 1],
         ~Flying(m.cmd_id, m.attempt), Counted(m.cmd_id, m.attempt)'
  PROVE  OnePlace' /\ FlightMoves
<1>1. m.cmd_id \in Cmd /\ m.attempt \in Nat
  BY Fields
<1>2. CASE down' = [down EXCEPT ![q] = Append(@, m)]
  BY <1>1, <1>2, PlacesSent DEF FlightMoves, FlightStarts
<1>3. CASE down' = down
  <2>1. OnePlace' /\ \A c, n : Flying(c, n)' => Flying(c, n)
    BY <1>3, PlacesLost DEF NoNewCommand, Shrinks
  <2> QED BY <1>1, <2>1 DEF FlightMoves, FlightsEnd
<1> QED BY <1>2, <1>3 DEF SendOk

LEMMA NextFlights == ASSUME RunInv, [Next]_vars PROVE OnePlace' /\ FlightMoves
<1> USE DEF RunInv, RoutingInv
<1>0. QueueMoves /\ \A d \in Device : DeviceMoves(d)
  BY NextQueues, NextDevices
<1>1. CASE CliSend /\ sends' # sends
  <2> DEFINE m == make_command(cli.device_id, issued, 0)
  <2>1. /\ cli.at = "send" /\ SendOk(cli.conn, m)
        /\ sends' = [sends EXCEPT ![issued] = @ + 1] /\ cli' = Idle
        /\ UNCHANGED <<job, runs, retry, todo, issued, pending>>
    BY <1>1 DEF CliSend, deviceVars, tables
  <2>2. cli.conn \in Conn /\ issued \in Cmd /\ cli.device_id \in Device
    BY <2>1 DEF TypeInv, CliCoherent
  <2>3. /\ m \in ToDevice /\ m.msg_type = "COMMAND" /\ m.cmd_id = issued /\ m.attempt = 0
    BY <2>2, FrameTypes DEF make_command
  <2>4. Given(issued) = 0
    BY <2>1 DEF Given
  <2>5. ~Flying(issued, 0)
    BY <2>4, FlyingTypes DEF Counted
  <2>6. Counted(issued, 0)'
    <3>1. Given(issued)' = 1
      BY <2>1, <2>2, BudgetNumbers DEF Given, Idle
    <3>2. Count(issued)' = Count(issued) /\ Unbumped(issued)' = Unbumped(issued)
      BY <2>1 DEF Count, Unbumped, Tracked, Current
    <3> QED BY <2>1, <2>2, <3>1, <3>2, BudgetNumbers DEF Counted
  <2> QED BY <2>1, <2>2, <2>3, <2>5, <2>6, SendFlight
<1>2. ASSUME NEW c \in Cmd, RetrySend(c), sends' # sends PROVE OnePlace' /\ FlightMoves
  <2> DEFINE n == todo[c].retry_count + 1
             m == make_command(todo[c].device_id, c, n)
  <2>1. /\ retry.at = "send" /\ Current(c) /\ SendOk(retry.conn, m)
        /\ sends' = [sends EXCEPT ![c] = @ + 1] /\ retry' = [retry EXCEPT !.at = "bump"]
        /\ UNCHANGED <<job, runs, cli, todo, issued, pending>>
    BY <1>2 DEF RetrySend, deviceVars, tables
  <2>2. /\ retry.conn \in Conn /\ todo[c] # None /\ todo[c].device_id \in Device
        /\ todo[c].retry_count \in Nat
    BY <2>1 DEF TypeInv, TypeOK, RetryCoherent, RetryTypeOK, Current, Copy
  <2>3. m \in ToDevice /\ m.msg_type = "COMMAND" /\ m.cmd_id = c /\ m.attempt = n /\ n \in Nat
    BY <2>2, FrameTypes DEF make_command
  <2>4. Count(c) = todo[c].retry_count /\ Unbumped(c) = 0
    BY <2>1, <2>2 DEF Count, Unbumped
  <2>5. ~Flying(c, n)
    BY <2>2, <2>4, FlyingTypes DEF Counted
  <2>6. Counted(c, n)'
    <3>1. Count(c)' = todo[c].retry_count
      BY <2>1, <2>2 DEF Count
    <3>2. Unbumped(c)' = 1
      BY <2>1 DEF Unbumped, Current, TypeInv, TypeOK, RetryTypeOK
    <3>3. c <= issued
      BY <2>2, BudgetNumbers DEF RetryBudget
    <3> QED BY <2>1, <2>2, <3>1, <3>2, <3>3 DEF Counted
  <2> QED BY <2>1, <2>2, <2>3, <2>5, <2>6, SendFlight
<1>3. ASSUME NEW d \in Device, DeviceRuns(d) PROVE OnePlace' /\ FlightMoves
  <2>0. PICK c \in Cmd, n \in Nat : job[d] # None /\ job[d].cmd_id = c /\ job[d].attempt = n
    BY <1>3 DEF DeviceRuns, DeviceExecute, TypeInv, TypeOK, DeviceTypeOK
  <2>1. /\ job' = [job EXCEPT ![d] = None] /\ UNCHANGED <<down, sends>>
        /\ runs' = [runs EXCEPT ![c] = @ + 1]
    BY <1>3, <2>0 DEF DeviceRuns, DeviceExecute, DeviceSend
  <2>2. job \in [Device -> [cmd_id : Cmd, attempt : Nat] \cup {None}]
    BY DEF TypeInv, TypeOK, DeviceTypeOK
  <2>3. \A e \in Device : job'[e] \in {job[e], None}
    BY <2>1, <2>2
  <2>4. OnePlace' /\ \A b, a : Flying(b, a)' => Flying(b, a)
    BY <2>1, <2>3, PlacesLost DEF NoNewCommand, Shrinks
  <2>5. Flying(c, n)
    BY <2>0 DEF Flying, UnderWay
  <2>6. ~Flying(c, n)'
    <3>1. \A k \in Conn : \A i \in DOMAIN down[k] :
            ~(IsCommand(k, i) /\ down[k][i].cmd_id = c /\ down[k][i].attempt = n)
      BY <2>0 DEF IsCommand, OnePlace, InOnePlace, SameAttempt
    <3>2. \A e \in Device : ~(job'[e] # None /\ job'[e].cmd_id = c /\ job'[e].attempt = n)
      BY <2>0, <2>1, <2>2 DEF OnePlace, InOnePlace, SameAttempt
    <3> QED BY <2>1, <3>1, <3>2 DEF Flying, UnderWay, IsCommand
  <2>7. FlightLands(c, n)
    BY <2>1, <2>4, <2>5, <2>6 DEF FlightLands
  <2> QED BY <2>4, <2>7 DEF FlightMoves
<1>4. ASSUME NEW d \in Device, NEW m, DeviceTakeCommand(d, m), UNCHANGED <<runs, sends>>
      PROVE  OnePlace' /\ FlightMoves
  BY <1>4, PlacesTaken DEF FlightMoves, FlightsEnd
<1>5. CASE /\ UNCHANGED <<runs, sends>>
           /\ \A d \in Device : job'[d] \in {job[d], None}
           /\ \A k \in Conn : NoNewCommand(down[k], down'[k])
  BY <1>5, PlacesLost DEF FlightMoves, FlightsEnd
<1>6. ASSUME UNCHANGED sends, NEW k \in Conn PROVE NoNewCommand(down[k], down'[k])
  <2>1. \A m : CliSend /\ cli.conn = k => ~DownGrows(k, make_command(cli.device_id, issued, 0))
    <3> SUFFICES ASSUME CliSend, cli.conn = k,
                        DownGrows(k, make_command(cli.device_id, issued, 0))
                 PROVE  FALSE
      OBVIOUS
    <3>1. down[k] \in Seq(ToDevice) /\ sends[issued] \in Nat /\ issued \in Cmd
      BY DEF CliSend, TypeInv, CliCoherent, TypeOK, TransportTypeOK
    <3>2. down'[k] # down[k]
      BY <3>1, AppendElements DEF DownGrows
    <3>3. sends' = [sends EXCEPT ![issued] = @ + 1]
      BY <3>2 DEF CliSend, SendRaises, transportVars
    <3> QED BY <1>6, <3>1, <3>3 DEF TypeInv, TypeOK
  <2>2. \A c \in Cmd : RetrySend(c) /\ retry.conn = k =>
          ~DownGrows(k, make_command(todo[c].device_id, c, todo[c].retry_count + 1))
    <3> SUFFICES ASSUME NEW c \in Cmd, RetrySend(c), retry.conn = k,
                        DownGrows(k, make_command(todo[c].device_id, c, todo[c].retry_count + 1))
                 PROVE  FALSE
      OBVIOUS
    <3>1. down[k] \in Seq(ToDevice) /\ sends[c] \in Nat
      BY DEF TypeInv, TypeOK, TransportTypeOK
    <3>2. down'[k] # down[k]
      BY <3>1, AppendElements DEF DownGrows
    <3>3. sends' = [sends EXCEPT ![c] = @ + 1]
      BY <3>2 DEF RetrySend, SendRaises, transportVars
    <3> QED BY <1>6, <3>1, <3>3 DEF TypeInv, TypeOK
  <2>3. make_auth_ok.msg_type # "COMMAND" /\ make_auth_fail.msg_type # "COMMAND"
    BY DEF make_auth_ok, make_auth_fail
  <2> QED BY <1>0, <2>1, <2>2, <2>3 DEF QueueMoves, DownMoves, DownGrows, NoNewCommand
<1>7. ASSUME NEW d \in Device, job'[d] \notin {job[d], None}, UNCHANGED <<runs, sends>>
      PROVE  OnePlace' /\ FlightMoves
  BY <1>0, <1>4, <1>7 DEF DeviceMoves
<1> QED BY <1>1, <1>2, <1>3, <1>5, <1>6, <1>7, NextCounters
-----------------------------------------------------------------------------

LEMMA CountedStep == ASSUME RunInv, [Next]_vars PROVE FlightsCounted'
<1> USE DEF RunInv, RoutingInv
<1> SUFFICES ASSUME NEW c, NEW n, Flying(c, n)' PROVE Counted(c, n)'
  BY DEF FlightsCounted, Flying, UnderWay, IsCommand
<1>1. CASE Flying(c, n)
  <2>1. Counted(c, n) /\ c \in Cmd /\ n \in Nat
    BY <1>1, FlyingTypes
  <2>2. /\ c <= issued' /\ Count(c) + Unbumped(c) <= Count(c)' + Unbumped(c)'
        /\ Count(c)' \in Nat /\ Unbumped(c)' \in {0, 1} /\ (Given(c) = 1 => Given(c)' = 1)
    BY <2>1, BudgetGrows DEF Counted
  <2>3. Count(c) \in Nat /\ Unbumped(c) \in {0, 1}
    BY <2>1, BudgetNumbers
  <2>4. n <= Count(c)' + Unbumped(c)'
    BY <2>1, <2>2, <2>3 DEF Counted
  <2> QED BY <2>1, <2>2, <2>4 DEF Counted
<1>2. CASE ~Flying(c, n)
  <2>1. \E b \in Cmd, a \in Nat : FlightStarts(b, a) /\ c = b /\ n = a
    BY <1>2, NextFlights DEF FlightMoves, FlightsEnd, FlightStarts, FlightLands
  <2> QED BY <2>1 DEF FlightStarts
<1> QED BY <1>1, <1>2

LEMMA FiniteAttempts ==
  ASSUME NEW S \in SUBSET (0 .. COMMAND_MAX_RETRIES)
  PROVE  /\ IsFiniteSet(S) /\ Cardinality(S) \in Nat
         /\ \A T \in SUBSET S : Cardinality(T) <= Cardinality(S)
         /\ \A a \in S : Cardinality(S \ {a}) = Cardinality(S) - 1
         /\ \A a, T : T \subseteq S \cup {a} =>
              IsFiniteSet(T) /\ Cardinality(T) <= Cardinality(S) + 1
<1>1. IsFiniteSet(S)
  <2>1. IsFiniteSet(0 .. COMMAND_MAX_RETRIES)
    BY MaxRetriesAssumption, FS_Interval
  <2> QED BY <2>1, FS_Subset
<1>2. Cardinality(S) \in Nat
  BY <1>1, FS_CardinalityType
<1>3. \A T \in SUBSET S : Cardinality(T) <= Cardinality(S)
  BY <1>1, FS_Subset
<1>4. \A a \in S : Cardinality(S \ {a}) = Cardinality(S) - 1
  BY <1>1, FS_RemoveElement
<1>5. ASSUME NEW a, NEW T, T \subseteq S \cup {a}
      PROVE  IsFiniteSet(T) /\ Cardinality(T) <= Cardinality(S) + 1
  <2>1. IsFiniteSet(S \cup {a}) /\ Cardinality(S \cup {a}) \in {Cardinality(S), Cardinality(S) + 1}
    BY <1>1, FS_AddElement
  <2>2. IsFiniteSet(T) /\ Cardinality(T) <= Cardinality(S \cup {a})
    BY <1>5, <2>1, FS_Subset
  <2>3. Cardinality(T) \in Nat
    BY <2>2, FS_CardinalityType
  <2> QED BY <1>2, <2>1, <2>2, <2>3
<1> QED BY <1>1, <1>2, <1>3, <1>4, <1>5

LEMMA RunsStep == ASSUME RunInv, [Next]_vars PROVE RunsCounted'
<1> USE DEF RunInv, RoutingInv
<1> SUFFICES ASSUME NEW c \in Cmd PROVE runs'[c] + Cardinality(Outstanding(c)') <= sends'[c]
  BY DEF RunsCounted
<1> DEFINE S == Outstanding(c)
           T == Outstanding(c)'
<1>0. /\ runs \in [Cmd -> Nat] /\ sends \in [Cmd -> Nat]
      /\ runs[c] + Cardinality(S) <= sends[c]
      /\ S \in SUBSET (0 .. COMMAND_MAX_RETRIES) /\ T \in SUBSET (0 .. COMMAND_MAX_RETRIES)
  BY DEF TypeInv, TypeOK, RunsCounted, Outstanding
<1>t. Cardinality(S) \in Nat /\ Cardinality(T) \in Nat
  BY <1>0, FiniteAttempts
<1> HIDE DEF S, T
<1>1. ASSUME T \subseteq S, runs' = runs, sends'[c] \in Nat, sends'[c] >= sends[c]
      PROVE  runs'[c] + Cardinality(T) <= sends'[c]
  <2>1. Cardinality(T) <= Cardinality(S)
    BY <1>0, <1>1, FiniteAttempts
  <2> QED BY <1>0, <1>t, <1>1, <2>1
<1>2. ASSUME FlightsEnd PROVE runs'[c] + Cardinality(T) <= sends'[c]
  <2>1. T \subseteq S
    BY <1>2 DEF FlightsEnd, Outstanding, S, T
  <2>2. sends'[c] \in Nat /\ sends'[c] >= sends[c]
    BY <1>0, <1>2 DEF FlightsEnd
  <2> QED BY <1>1, <1>2, <2>1, <2>2 DEF FlightsEnd
<1>3. ASSUME NEW b \in Cmd, NEW a \in Nat, FlightStarts(b, a)
      PROVE  runs'[c] + Cardinality(T) <= sends'[c]
  <2>1. CASE b = c
    <3>1. T \subseteq S \cup {a}
      BY <1>3 DEF FlightStarts, Outstanding, S, T
    <3>2. Cardinality(T) <= Cardinality(S) + 1
      BY <1>0, <3>1, FiniteAttempts
    <3>3. sends'[c] = sends[c] + 1 /\ runs' = runs
      BY <1>0, <1>3, <2>1 DEF FlightStarts
    <3> QED BY <1>0, <1>t, <3>2, <3>3
  <2>2. CASE b # c
    <3>1. T \subseteq S
      BY <1>3, <2>2 DEF FlightStarts, Outstanding, S, T
    <3>2. sends'[c] = sends[c] /\ runs' = runs
      BY <1>0, <1>3, <2>2 DEF FlightStarts
    <3> QED BY <1>0, <1>1, <3>1, <3>2
  <2> QED BY <2>1, <2>2
<1>4. ASSUME NEW b \in Cmd, NEW a \in Nat, FlightLands(b, a)
      PROVE  runs'[c] + Cardinality(T) <= sends'[c]
  <2>1. CASE b = c
    <3>1. Flying(c, a)
      BY <1>4, <2>1 DEF FlightLands
    <3>2. Count(c) + Unbumped(c) <= COMMAND_MAX_RETRIES /\ a <= Count(c) + Unbumped(c)
      BY <3>1, FlyingTypes DEF RetryBudget, Counted
    <3>3. a \in 0 .. COMMAND_MAX_RETRIES
      BY <3>2, BudgetNumbers
    <3>4. a \in S /\ T \subseteq S \ {a}
      BY <1>4, <2>1, <3>1, <3>3 DEF FlightLands, Outstanding, S, T
    <3>5. Cardinality(S \ {a}) = Cardinality(S) - 1
      BY <1>0, <3>4, FiniteAttempts
    <3>6. S \ {a} \in SUBSET (0 .. COMMAND_MAX_RETRIES)
      BY <1>0
    <3>7. Cardinality(T) <= Cardinality(S \ {a})
      BY <3>4, <3>6, FiniteAttempts
    <3>8. runs'[c] = runs[c] + 1 /\ sends' = sends
      BY <1>0, <1>4, <2>1 DEF FlightLands
    <3> QED BY <1>0, <1>t, <3>5, <3>7, <3>8
  <2>2. CASE b # c
    <3>1. T \subseteq S
      BY <1>4 DEF FlightLands, Outstanding, S, T
    <3>2. runs'[c] = runs[c] /\ sends' = sends
      BY <1>0, <1>4, <2>2 DEF FlightLands
    <3>3. Cardinality(T) <= Cardinality(S)
      BY <1>0, <3>1, FiniteAttempts
    <3> QED BY <1>0, <1>t, <3>2, <3>3
  <2> QED BY <2>1, <2>2
<1>5. runs'[c] + Cardinality(T) <= sends'[c]
  BY <1>2, <1>3, <1>4, NextFlights DEF FlightMoves
<1> QED BY <1>5 DEF T

LEMMA InitRuns == Init => RunInv
<1> SUFFICES ASSUME Init PROVE RunInv
  OBVIOUS
<1>1. \A k \in Conn : down[k] = << >>
  BY DEF Init, TransportInit
<1>2. \A d \in Device : job[d] = None
  BY DEF Init, DeviceInit
<1>3. OnePlace /\ FlightsCounted
  BY <1>1, <1>2 DEF OnePlace, InOnePlace, FlightsCounted, IsCommand
<1>4. \A c \in Cmd : Outstanding(c) = {}
  BY <1>1, <1>2 DEF Outstanding, Flying, UnderWay
<1>5. RunsCounted
  <2>1. \A c \in Cmd : runs[c] = 0 /\ sends[c] = 0
    BY DEF Init
  <2> QED BY <1>4, <2>1, FS_EmptySet DEF RunsCounted
<1> QED BY <1>3, <1>5, InitRouting, InitBudget DEF RunInv

LEMMA NextRuns == RunInv /\ [Next]_vars => RunInv'
<1> SUFFICES ASSUME RunInv, [Next]_vars PROVE RunInv'
  OBVIOUS
<1> QED BY NextRouting, NextBudget, NextFlights, CountedStep, RunsStep DEF RunInv, RoutingInv

\* A device executes a command at most once per transmission: losing connections
\* and taking commands up again on the next one replays nothing.
THEOREM RunsAreBounded == Spec => []RunsBoundedBySends
<1>1. RunInv => RunsBoundedBySends
  <2> SUFFICES ASSUME RunInv, NEW c \in Cmd PROVE runs[c] <= sends[c]
    BY DEF RunsBoundedBySends
  <2>1. Cardinality(Outstanding(c)) \in Nat
    BY FiniteAttempts DEF Outstanding
  <2> QED BY <2>1 DEF RunInv, RoutingInv, RunsCounted, TypeInv, TypeOK
<1> QED BY InitRuns, NextRuns, <1>1, PTL DEF Spec
=============================================================================
