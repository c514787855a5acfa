---------------------------- MODULE ReplyProofs -----------------------------
(***************************************************************************)
(* What the controller says of a command is true: an entry marked executed *)
(* ran and was acked before, for any number of devices, connections and    *)
(* commands.  The argument follows the frames of one connection: the ack   *)
(* of a command is ahead of its STATUS wherever a session still reads.     *)
(* The flags also keep the samples apart: a channel gets one of a command  *)
(* when its flag is set, and flags are not unset.                          *)
(* At the end, Delivery implements the Ledger, for the same constants.     *)
(***************************************************************************)
EXTENDS DeliveryProofs

\* Sessions that read, or will.
Live == {"none", "accepted", "registered", "open", "status"}

IsStatusOf(k, i, c) == up[k][i].msg_type = "STATUS" /\ up[k][i].cmd_id = c

IsAckOf(k, i, c) == up[k][i].msg_type = "RECEIVED_ACK" /\ up[k][i].cmd_id = c

\* Nothing is missing from the entry of c.
Acked(c) == Tracked(c) => pending[c].received

\* The ack of c was processed, or is read before the n-th frame of k.
AckBefore(k, n, c) == Acked(c) \/ \E j \in DOMAIN up[k] : j < n /\ IsAckOf(k, j, c)

StatusMeansRan ==
  \A k \in Conn : \A i \in DOMAIN up[k], c \in Cmd : IsStatusOf(k, i, c) => runs[c] >= 1

\* A STATUS comes after the ack of its command, ...
AckFirst ==
  \A k \in Conn : handler[k] \in Live =>
    \A i \in DOMAIN up[k], c \in Cmd : IsStatusOf(k, i, c) => AckBefore(k, i, c)

\* ... which was sent when the device took the command.
JobAcked ==
  \A d \in Device : job[d] # None /\ link[sock[d]] = "up" /\ handler[sock[d]] \in Live =>
    AckBefore(sock[d], Len(up[sock[d]]) + 1, job[d].cmd_id)

ReplyInv == RunInv /\ StatusMeansRan /\ AckFirst /\ JobAcked /\ ExecutedMeansRan
-----------------------------------------------------------------------------
(* What a step may do to the frames a session is still to read. *)

\* The next frame is read; an ack is entered in the table.
ReadsUp(k) ==
  /\ up[k] # << >> /\ up'[k] = Tail(up[k])
  /\ Head(up[k]).msg_type = "RECEIVED_ACK" => mark_received(Head(up[k]).cmd_id)

Arrives(k, m) ==
  /\ m \in ToController /\ up'[k] = Append(up[k], m)
  /\ \/ m.msg_type # "STATUS"
     \/ m.cmd_id = None
     \/ \E d \in Device : /\ DeviceRuns(d) /\ sock[d] = k /\ link[k] = "up"
                          /\ m.cmd_id = job[d].cmd_id

LiveMoves(k) == up'[k] = up[k] \/ ReadsUp(k) \/ \E m : Arrives(k, m)

LEMMA SessionReads ==
  ASSUME TypeInv, NEW c \in Conn, SessionStep(c, 0), NEW k \in Conn, handler'[k] \in Live
  PROVE  up'[k] = up[k] \/ ReadsUp(k)
<1> USE DEF TypeInv, TypeOK, TransportTypeOK, SessionTypeOK
<1>1. CASE SessionGarbage(c)
  BY <1>1 DEF SessionGarbage, RecvLine, ReadsUp, Garbage
<1>2. CASE SessionReject(c) \/ SessionGreet(c)
  BY <1>2 DEF SessionReject, SessionGreet, SendOk, SendRaises, transportVars
<1>3. CASE SessionTimeout(c) \/ SessionHangup(c) \/ SessionUnregister(c)
  BY <1>3 DEF SessionTimeout, SessionHangup, SessionUnregister, transportVars
<1>4. CASE SessionHeartbeatAck(c, 0)
  BY <1>4 DEF SessionHeartbeatAck, RecvLine, ReadsUp, make_heartbeat_ack
<1>5. CASE SessionClose(c)
  BY <1>5 DEF SessionClose, CloseConn, Goto, Live
<1>6. ASSUME NEW m \in NextLine(c), SessionRefuse(c, m) PROVE up'[k] = up[k] \/ ReadsUp(k)
  BY <1>6 DEF SessionRefuse, RecvLine, Goto, Live
<1>7. ASSUME NEW m \in NextLine(c), SessionRegister(c, m, 0) \/ SessionIgnore(c, m)
      PROVE  up'[k] = up[k] \/ ReadsUp(k)
  BY <1>7 DEF SessionRegister, SessionIgnore, RecvLine, ReadsUp, Acceptable
<1>8. ASSUME NEW m \in NextLine(c), SessionReceivedAck(c, m) PROVE up'[k] = up[k] \/ ReadsUp(k)
  BY <1>8 DEF SessionReceivedAck, RecvLine, ReadsUp
<1>9. ASSUME NEW m \in NextLine(c), SessionStatus(c, m) PROVE up'[k] = up[k] \/ ReadsUp(k)
  BY <1>9 DEF SessionStatus, transportVars
<1>10. ASSUME NEW m \in NextLine(c), SessionStatusDone(c, m) PROVE up'[k] = up[k] \/ ReadsUp(k)
  BY <1>10 DEF SessionStatusDone, RecvLine, ReadsUp
<1> QED BY <1>1, <1>2, <1>3, <1>4, <1>5, <1>6, <1>7, <1>8, <1>9, <1>10 DEF SessionStep

\* A device only appends to its queue.
LEMMA DeviceAppends ==
  ASSUME TypeInv, UnusedIsSilent, NEW d \in Device, DeviceWorks(d) \/ DeviceComesAndGoes(d),
         NEW k \in Conn
  PROVE  up'[k] = up[k] \/ \E m \in ToController : up'[k] = Append(up[k], m)
<1> USE DEF TypeInv, TypeOK, TransportTypeOK
<1>0. up[k] \in Seq(ToController)
  OBVIOUS
<1>1. ASSUME NEW c \in Conn, NEW m, NEW reply, DeviceExchange(c, m, reply),
             reply = << >> \/ \E r \in ToController : reply = <<r>>
      PROVE  up'[k] = up[k] \/ \E r \in ToController : up'[k] = Append(up[k], r)
  <2>1. up'[k] = up[k] \/ up'[k] = up[k] \o reply
    BY <1>1 DEF DeviceExchange
  <2>2. CASE reply = << >>
    BY <1>0, <2>1, <2>2, ConcatOne
  <2>3. ASSUME NEW r \in ToController, reply = <<r>>
        PROVE  up'[k] = up[k] \/ up'[k] = Append(up[k], r)
    <3>1. up[k] \o reply = Append(up[k], r)
      BY <1>0, <2>3, ConcatOne
    <3> QED BY <2>1, <3>1
  <2> QED BY <1>1, <2>2, <2>3
<1>2. ASSUME NEW c \in Conn, NEW m \in ToController, DeviceSend(c, m)
      PROVE  up'[k] = up[k] \/ \E r \in ToController : up'[k] = Append(up[k], r)
  BY <1>2 DEF DeviceSend
<1>3. (Listening(d) => sock[d] \in Conn) /\ (job[d] # None => sock[d] \in Conn)
  BY DEF Listening, DeviceTypeOK, DeviceCoherent
<1>4. CASE DeviceRuns(d)
  <2>1. /\ job[d].cmd_id \in Cmd /\ job[d].attempt \in Nat /\ level[d] + 1 \in Nat
    BY <1>4 DEF DeviceRuns, DeviceExecute, DeviceTypeOK
  <2>2. make_status(level[d] + 1, job[d].cmd_id, job[d].attempt) \in ToController
    BY <2>1, FrameTypes
  <2> QED BY <1>2, <1>3, <1>4, <2>2 DEF DeviceRuns, DeviceExecute
<1>5. CASE DeviceAuthOk(d) \/ DeviceAuthFail(d)
  BY <1>1, <1>3, <1>5 DEF DeviceAuthOk, DeviceAuthFail
<1>6. CASE SendReading(d)
  <2>1. level[d] + 1 \in Nat
    BY DEF DeviceTypeOK
  <2>2. make_status(level[d] + 1, None, 0) \in ToController
    BY <2>1, FrameTypes
  <2> QED BY <1>2, <1>3, <1>6, <2>2 DEF SendReading
<1>7. ASSUME NEW m \in NextFrame(d), DeviceTakeCommand(d, m)
      PROVE  up'[k] = up[k] \/ \E r \in ToController : up'[k] = Append(up[k], r)
  <2>1. m \in ToDevice /\ m.msg_type = "COMMAND"
    BY <1>3, <1>7 DEF DeviceTakeCommand, DeviceExchange
  <2>2. make_received_ack(m.cmd_id, m.attempt) \in ToController
    BY <2>1, FrameTypes, Fields
  <2> QED BY <1>1, <1>3, <1>7, <2>2 DEF DeviceTakeCommand
<1>8. ASSUME NEW m \in NextFrame(d), BoardSkips(d, m)
      PROVE  up'[k] = up[k] \/ \E r \in ToController : up'[k] = Append(up[k], r)
  BY <1>1, <1>3, <1>8 DEF BoardSkips
<1>9. CASE DeviceLost(d) \/ BoardCutOff(d)
  BY <1>9 DEF DeviceLost, BoardCutOff, Cut
<1>10. ASSUME NEW c \in Conn, DeviceConnect(d, c)
       PROVE  up'[k] = up[k] \/ \E r \in ToController : up'[k] = Append(up[k], r)
  <2>1. make_auth(d, d \notin Misconfigured) \in ToController
    BY FrameTypes
  <2>2. up[c] = << >>
    BY <1>10 DEF DeviceConnect, Connect, Fresh, UnusedIsSilent
  <2>3. up'[c] = Append(up[c], make_auth(d, d \notin Misconfigured))
    BY <1>10, <2>2 DEF DeviceConnect, Connect
  <2> QED BY <1>10, <2>1, <2>3 DEF DeviceConnect, Connect
<1> QED BY <1>4, <1>5, <1>6, <1>7, <1>8, <1>9, <1>10
        DEF DeviceWorks, DeviceComesAndGoes, SimulatorWorks, BoardWorks, DeviceTick, BoardLost

LEMMA NextLive ==
  ASSUME RoutingInv, [Next]_vars, NEW k \in Conn, handler'[k] \in Live
  PROVE  LiveMoves(k)
<1> USE DEF RoutingInv
<1>0. up[k] \in Seq(ToController) /\ QueueMoves
  BY NextQueues DEF TypeInv, TypeOK, TransportTypeOK
<1>1. ASSUME NEW d \in Device, DeviceStep(d) PROVE LiveMoves(k)
  <2>1. CASE up'[k] = up[k]
    BY <2>1 DEF LiveMoves
  <2>2. ASSUME NEW m \in ToController, up'[k] = Append(up[k], m) PROVE LiveMoves(k)
    <3>1. Len(up[k]) + 1 \in DOMAIN up'[k] /\ up'[k][Len(up[k]) + 1] = m
      BY <1>0, <2>2, AppendElements
    <3>2. ~Shrinks(up[k], up'[k])
      BY <1>0, <2>2, <3>1, AppendElements, TailElements DEF Shrinks
    <3>3. \A e \in Device : make_auth(e, e \notin Misconfigured).msg_type # "STATUS"
      BY DEF make_auth
    <3>4. \A c, n : make_received_ack(c, n).msg_type # "STATUS"
      BY DEF make_received_ack
    <3>5. \A s, c, n : make_status(s, c, n).cmd_id = c
      BY DEF make_status
    <3>6. \/ m.msg_type # "STATUS"
          \/ m.cmd_id = None
          \/ \E e \in Device : /\ DeviceRuns(e) /\ sock[e] = k /\ link[k] = "up"
                               /\ m.cmd_id = job[e].cmd_id
      <4>1. ASSUME NEW x, up'[k] = <<x>> PROVE m = x
        BY <3>1, <4>1
      <4>2. ASSUME NEW x, UpGrows(k, x) PROVE m = x
        BY <1>0, <3>1, <4>2, AppendElements DEF UpGrows
      <4>3. CASE \E e \in Device : up'[k] = <<make_auth(e, e \notin Misconfigured)>>
        BY <3>3, <4>1, <4>3
      <4>4. ASSUME NEW e \in Device, NEW f \in NextFrame(e),
                   UpGrows(k, make_received_ack(f.cmd_id, f.attempt))
            PROVE  m.msg_type # "STATUS"
        BY <3>4, <4>2, <4>4
      <4>5. ASSUME NEW e \in Device, UpGrows(k, make_status(level[e] + 1, None, 0))
            PROVE  m.cmd_id = None
        BY <3>5, <4>2, <4>5
      <4>6. ASSUME NEW e \in Device, sock[e] = k, DeviceRuns(e),
                   UpGrows(k, make_status(level[e] + 1, job[e].cmd_id, job[e].attempt))
            PROVE  link[k] = "up" /\ m.cmd_id = job[e].cmd_id
        <5>1. m = make_status(level[e] + 1, job[e].cmd_id, job[e].attempt)
          BY <4>2, <4>6
        <5> QED BY <3>5, <4>6, <5>1 DEF UpGrows
      <4>7. UpMoves(k)
        BY <1>0 DEF QueueMoves
      <4> QED BY <3>2, <4>3, <4>4, <4>5, <4>6, <4>7 DEF UpMoves
    <3> QED BY <2>2, <3>6 DEF LiveMoves, Arrives
  <2> QED BY <1>1, <2>1, <2>2, DeviceAppends DEF DeviceStep
<1>2. ASSUME NEW c \in Conn, SessionThread(c) PROVE LiveMoves(k)
  BY <1>2, SessionReads DEF SessionThread, LiveMoves
<1>3. \/ UNCHANGED up
      \/ \E c \in Conn : SessionThread(c)
      \/ \E d \in Device : DeviceStep(d)
  BY DEF Next, CliStep, CliLookup, CliAdd, CliSend, CliFail, RetryStep, RetryScan, RetryItem,
         RetrySkip, RetryGiveUp, RetryLookup, RetryTo, RetryFail, RetrySend, RetryBump,
         Housekeeping, TimePasses, AcceptLoop, Accept, SendOk, SendRaises, transportVars, vars
<1> QED BY <1>1, <1>2, <1>3 DEF LiveMoves
-----------------------------------------------------------------------------
(* The table remembers an ack for as long as it knows the command.          *)

LEMMA AckedStays ==
  ASSUME TypeInv, [Next]_vars, NEW c \in Cmd, c <= issued, Acked(c) PROVE Acked(c)'
<1>1. c # issued + 1
  BY BudgetNumbers
<1> QED BY <1>1, NextTable DEF Acked, TableMoves, EntryProgresses

LEMMA MarkedAcked == ASSUME TypeInv, NEW c \in Cmd, mark_received(c) PROVE Acked(c)'
<1>1. CASE Tracked(c)
  <2>1. pending[c] \in Item
    BY <1>1, ItemTypes DEF TypeInv, TypeOK
  <2> QED BY <1>1, <2>1 DEF mark_received, Receive, Acked, Tracked, TypeInv, TypeOK, PendingTypeOK, Item
<1>2. CASE ~Tracked(c)
  BY <1>2 DEF mark_received, Acked, Tracked
<1> QED BY <1>1, <1>2

LEMMA RunsGrow ==
  ASSUME TypeInv, [Next]_vars, NEW c \in Cmd PROVE runs[c] \in Nat /\ runs'[c] \in Nat /\ runs'[c] >= runs[c]
<1>1. runs \in [Cmd -> Nat]
  BY DEF TypeInv, TypeOK
<1>2. ASSUME NEW d \in Device, DeviceRuns(d) PROVE runs'[c] \in Nat /\ runs'[c] >= runs[c]
  BY <1>1, <1>2 DEF DeviceRuns
<1> QED BY <1>1, <1>2, NextCounters

LEMMA MadeCommand ==
  ASSUME RunInv, NEW c \in Cmd, runs[c] >= 1 PROVE c <= issued
<1>1. sends[c] >= 1
  <2>1. Cardinality(Outstanding(c)) \in Nat
    BY FiniteAttempts DEF Outstanding
  <2> QED BY <2>1 DEF RunInv, RoutingInv, RunsCounted, TypeInv, TypeOK
<1> QED BY <1>1, BudgetNumbers DEF RunInv, RoutingInv, RetryBudget

\* The ack of c stays in front of what it was in front of.
LEMMA AckKept ==
  ASSUME RunInv, [Next]_vars, NEW k \in Conn, LiveMoves(k), NEW c \in Cmd, c <= issued,
         NEW n \in Nat, AckBefore(k, n, c)
  PROVE  LET s == Shift(up[k], up'[k])
         IN  s \in {0, 1} /\ \A a \in Nat : a = n - s => AckBefore(k, a, c)'
<1> USE DEF RunInv, RoutingInv
<1> DEFINE s == Shift(up[k], up'[k])
<1>1. up[k] \in Seq(ToController) /\ s \in {0, 1}
  BY DEF TypeInv, TypeOK, TransportTypeOK, Shift
<1>2. CASE Acked(c)
  BY <1>1, <1>2, AckedStays DEF AckBefore
<1>3. ASSUME NEW j \in DOMAIN up[k], j < n, IsAckOf(k, j, c), NEW a \in Nat, a = n - s
      PROVE  AckBefore(k, a, c)'
  <2>1. CASE up'[k] = up[k]
    <3>1. s = 0
      BY <1>1, <1>3, <2>1, TailDiffers DEF Shift
    <3> QED BY <1>1, <1>3, <2>1, <3>1 DEF AckBefore, IsAckOf
  <2>2. ASSUME NEW m, Arrives(k, m) PROVE AckBefore(k, a, c)'
    <3>1. j \in DOMAIN up'[k] /\ up'[k][j] = up[k][j]
      BY <1>1, <2>2, AppendElements DEF Arrives
    <3>2. s = 0
      <4>1. CASE up[k] = << >>
        BY <4>1 DEF Shift
      <4>2. CASE up[k] # << >>
        <5>1. Len(Append(up[k], m)) = Len(up[k]) + 1 /\ Len(Tail(up[k])) = Len(up[k]) - 1
              /\ Len(up[k]) \in Nat
          BY <1>1, <2>2, <4>2 DEF Arrives
        <5>2. up'[k] # Tail(up[k])
          BY <2>2, <5>1 DEF Arrives
        <5> QED BY <5>2 DEF Shift
      <4> QED BY <4>1, <4>2
    <3> QED BY <1>3, <3>1, <3>2 DEF AckBefore, IsAckOf
  <2>3. CASE ReadsUp(k)
    <3>1. s = 1
      BY <2>3 DEF ReadsUp, Shift
    <3>2. Head(up[k]) = up[k][1] /\ j \in Nat \ {0}
      BY <1>1, <1>3, <2>3, TailElements DEF ReadsUp
    <3>3. CASE j = 1
      <4>1. mark_received(c)
        BY <1>3, <2>3, <3>2, <3>3 DEF ReadsUp, IsAckOf
      <4> QED BY <4>1, MarkedAcked DEF AckBefore
    <3>4. CASE j # 1
      <4>1. j - 1 \in DOMAIN up'[k] /\ up'[k][j - 1] = up[k][j]
        BY <1>1, <1>3, <2>3, <3>2, <3>4 DEF ReadsUp
      <4>2. j - 1 < a
        BY <1>3, <3>1, <3>2
      <4> QED BY <1>3, <4>1, <4>2 DEF AckBefore, IsAckOf
    <3> QED BY <3>3, <3>4
  <2> QED BY <2>1, <2>2, <2>3 DEF LiveMoves
<1> QED BY <1>1, <1>2, <1>3 DEF AckBefore
-----------------------------------------------------------------------------
LEMMA StatusStep == ASSUME ReplyInv, [Next]_vars PROVE StatusMeansRan'
<1> USE DEF ReplyInv, RunInv, RoutingInv
<1> SUFFICES ASSUME NEW k \in Conn, NEW i \in DOMAIN up'[k], NEW c \in Cmd, IsStatusOf(k, i, c)'
             PROVE  runs'[c] >= 1
  BY DEF StatusMeansRan
<1>0. QueueMoves
  BY NextQueues
<1>1. ASSUME NEW j \in DOMAIN up[k], up'[k][i] = up[k][j] PROVE runs'[c] >= 1
  <2>1. runs[c] >= 1
    BY <1>1 DEF StatusMeansRan, IsStatusOf
  <2> QED BY <2>1, RunsGrow
<1>2. ASSUME NEW d \in Device, DeviceRuns(d),
             up'[k][i] = make_status(level[d] + 1, job[d].cmd_id, job[d].attempt)
      PROVE  runs'[c] >= 1
  <2>1. job[d].cmd_id = c
    BY <1>2 DEF IsStatusOf, make_status
  <2> QED BY <1>2, <2>1 DEF DeviceRuns, TypeInv, TypeOK
<1>3. \A e, v : make_auth(e, v).msg_type # "STATUS"
  BY DEF make_auth
<1>4. \A b, n : make_received_ack(b, n).msg_type # "STATUS"
  BY DEF make_received_ack
<1>5. \A s, b, n : make_status(s, b, n).cmd_id = b
  BY DEF make_status
<1>6. c # None
  BY NoneAssumption DEF Cmd
<1> QED BY <1>0, <1>1, <1>2, <1>3, <1>4, <1>5, <1>6, UpFrames DEF IsStatusOf

LEMMA AckFirstStep == ASSUME ReplyInv, [Next]_vars PROVE AckFirst'
<1> USE DEF ReplyInv, RunInv, RoutingInv
<1> SUFFICES ASSUME NEW k \in Conn, handler'[k] \in Live,
                    NEW i \in DOMAIN up'[k], NEW c \in Cmd, IsStatusOf(k, i, c)'
             PROVE  AckBefore(k, i, c)'
  BY DEF AckFirst
<1>1. up[k] \in Seq(ToController) /\ LiveMoves(k) /\ handler[k] \in Live
  <2>1. handler[k] \in Live
    BY NextMoves DEF SessionMoves, HandlerMoves, Moves, Live
  <2> QED BY <2>1, NextLive DEF TypeInv, TypeOK, TransportTypeOK
<1> DEFINE s == Shift(up[k], up'[k])
<1>2. ASSUME NEW n \in Nat, AckBefore(k, n, c), c <= issued, i = n - s, i \in Nat
      PROVE  AckBefore(k, i, c)'
  BY <1>1, <1>2, AckKept
<1>3. ASSUME NEW n \in DOMAIN up[k], IsStatusOf(k, n, c) PROVE AckBefore(k, n, c) /\ c <= issued
  BY <1>1, <1>3, MadeCommand DEF StatusMeansRan, AckFirst
<1>4. CASE up'[k] = up[k]
  <2>1. s = 0 /\ i \in Nat
    <3>1. s = 0
      BY <1>1, <1>4, TailDiffers DEF Shift
    <3>2. i \in Nat
      BY <1>1, <1>4
    <3> QED BY <3>1, <3>2
  <2>2. IsStatusOf(k, i, c)
    BY <1>4 DEF IsStatusOf
  <2> QED BY <1>2, <1>3, <1>4, <2>1, <2>2
<1>5. CASE ReadsUp(k)
  <2>1. s = 1 /\ i \in Nat /\ i + 1 \in DOMAIN up[k] /\ up'[k][i] = up[k][i + 1]
    BY <1>1, <1>5, TailElements DEF ReadsUp, Shift
  <2>2. IsStatusOf(k, i + 1, c)
    BY <2>1 DEF IsStatusOf
  <2> QED BY <1>2, <1>3, <2>1, <2>2
<1>6. ASSUME NEW m, Arrives(k, m) PROVE AckBefore(k, i, c)'
  <2>1. s = 0
    <3>1. CASE up[k] = << >>
      BY <3>1 DEF Shift
    <3>2. CASE up[k] # << >>
      <4>1. Len(Append(up[k], m)) = Len(up[k]) + 1 /\ Len(Tail(up[k])) = Len(up[k]) - 1
            /\ Len(up[k]) \in Nat
        BY <1>1, <1>6, <3>2 DEF Arrives
      <4>2. up'[k] # Tail(up[k])
        BY <1>6, <4>1 DEF Arrives
      <4> QED BY <4>2 DEF Shift
    <3> QED BY <3>1, <3>2
  <2>2. CASE i \in DOMAIN up[k]
    <3>1. up'[k][i] = up[k][i] /\ i \in Nat
      BY <1>1, <1>6, <2>2, AppendElements DEF Arrives
    <3>2. IsStatusOf(k, i, c)
      BY <3>1 DEF IsStatusOf
    <3> QED BY <1>2, <1>3, <2>1, <2>2, <3>1, <3>2
  <2>3. CASE i \notin DOMAIN up[k]
    <3>1. i = Len(up[k]) + 1 /\ i \in Nat /\ m.msg_type = "STATUS" /\ m.cmd_id = c
      BY <1>1, <1>6, <2>3, AppendElements DEF Arrives, IsStatusOf
    <3>2. PICK d \in Device : DeviceRuns(d) /\ sock[d] = k /\ link[k] = "up" /\ c = job[d].cmd_id
      BY <1>6, <3>1, NoneAssumption DEF Arrives, Cmd
    <3>3. AckBefore(k, i, c)
      BY <1>1, <3>1, <3>2 DEF DeviceRuns, DeviceExecute, JobAcked
    <3>4. c <= issued
      BY <3>2 DEF DeviceRuns, DeviceExecute, FlightsCounted, Counted
    <3> QED BY <1>2, <2>1, <3>1, <3>3, <3>4
  <2> QED BY <2>2, <2>3
<1> QED BY <1>1, <1>4, <1>5, <1>6 DEF LiveMoves

LEMMA JobAckedStep == ASSUME ReplyInv, [Next]_vars PROVE JobAcked'
<1> USE DEF ReplyInv, RunInv, RoutingInv
<1> SUFFICES ASSUME NEW d \in Device, job'[d] # None, link'[sock'[d]] = "up",
                    handler'[sock'[d]] \in Live
             PROVE  AckBefore(sock[d], Len(up[sock[d]]) + 1, job[d].cmd_id)'
  BY DEF JobAcked
<1> DEFINE k == sock[d]
<1>0. DeviceMoves(d) /\ QueueMoves /\ SessionMoves
  BY NextDevices, NextQueues, NextMoves
<1>1. CASE job'[d] = job[d]
  <2>0. TypeInv'
    BY NextTypes
  <2>1. sock[d] \in Conn /\ sock'[d] \in Conn
    BY <1>1, <2>0 DEF TypeInv, DeviceCoherent
  <2>2. PICK q \in Conn : sock[d] = q /\ sock'[d] = q
    BY <1>0, <2>1, NoneAssumption DEF DeviceMoves, Conn
  <2>3. PICK c \in Cmd : job[d].cmd_id = c /\ job'[d].cmd_id = c
    BY <1>1 DEF TypeInv, TypeOK, DeviceTypeOK
  <2>4. link[q] = "up" /\ handler[q] \in Live /\ handler'[q] \in Live
    <3>1. handler[q] \in Live /\ handler'[q] \in Live
      BY <1>0, <2>2 DEF SessionMoves, HandlerMoves, Moves, Live
    <3>2. link[q] = "up"
      BY <1>0, <2>2, NoneAssumption DEF QueueMoves, LinkMoves, OwnSocket, Conn
    <3> QED BY <3>1, <3>2
  <2>5. up[q] \in Seq(ToController) /\ up'[q] \in Seq(ToController)
    BY <2>0 DEF TypeInv, TypeOK, TransportTypeOK
  <2>6. PICK n \in Nat : n = Len(up[q]) + 1
    BY <2>5
  <2>7. AckBefore(q, n, c) /\ c <= issued
    <3>1. AckBefore(sock[d], Len(up[sock[d]]) + 1, job[d].cmd_id)
      BY <1>1, <2>2, <2>4 DEF JobAcked
    <3>2. c <= issued
      BY <1>1, <2>3 DEF FlightsCounted, Counted
    <3> QED BY <2>2, <2>3, <2>6, <3>1, <3>2 DEF AckBefore
  <2>8. Shift(up[q], up'[q]) \in {0, 1}
    BY DEF Shift
  <2>9. PICK a \in Nat : a = n - Shift(up[q], up'[q])
    BY <2>5, <2>6, <2>8
  <2>10. AckBefore(q, a, c)'
    BY <2>4, <2>7, <2>9, NextLive, AckKept
  <2>11. AckBefore(q, Len(up[q]) + 1, c)'
    BY <2>5, <2>10 DEF AckBefore
  <2> QED BY <2>2, <2>3, <2>11
<1>2. ASSUME NEW m \in NextFrame(d), DeviceTakeCommand(d, m), UNCHANGED sock,
             job'[d] = [cmd_id |-> m.cmd_id, attempt |-> m.attempt]
      PROVE  AckBefore(sock[d], Len(up[sock[d]]) + 1, job[d].cmd_id)'
  <2>1. /\ k \in Conn /\ link' = link /\ link[k] = "up"
        /\ up' = [up EXCEPT ![k] = @ \o <<make_received_ack(m.cmd_id, m.attempt)>>]
        /\ m = Head(down[k]) /\ down[k] # << >> /\ m.msg_type = "COMMAND"
    BY <1>2 DEF DeviceTakeCommand, DeviceExchange, Listening, TypeInv, TypeOK, DeviceTypeOK
  <2>2. up[k] \in Seq(ToController) /\ m \in ToDevice
    BY <2>1 DEF TypeInv, TypeOK, TransportTypeOK
  <2>3. make_received_ack(m.cmd_id, m.attempt) \in ToController
    BY <2>1, <2>2, FrameTypes, Fields
  <2>4. up'[k] = Append(up[k], make_received_ack(m.cmd_id, m.attempt))
    BY <2>1, <2>2, <2>3, ConcatOne DEF TypeInv, TypeOK, TransportTypeOK
  <2>5. /\ Len(up[k]) + 1 \in DOMAIN up'[k] /\ Len(up'[k]) = Len(up[k]) + 1 /\ Len(up[k]) \in Nat
        /\ up'[k][Len(up[k]) + 1] = make_received_ack(m.cmd_id, m.attempt)
    BY <2>2, <2>3, <2>4
  <2>6. PICK q \in Conn, n \in Nat : q = k /\ n = Len(up[k]) + 1
    BY <2>1, <2>5
  <2>7. n \in DOMAIN up'[q] /\ n < Len(up'[q]) + 1 /\ IsAckOf(q, n, job[d].cmd_id)'
    BY <1>2, <2>5, <2>6 DEF IsAckOf, make_received_ack
  <2>8. q = sock'[d]
    BY <1>2, <2>6
  <2> QED BY <2>7, <2>8 DEF AckBefore
<1>3. CASE job'[d] \in {job[d], None}
  BY <1>1, <1>3
<1> QED BY <1>0, <1>2, <1>3 DEF DeviceMoves

\* The STATUS that ends a command was read after the command's ack.
LEMMA ExecutedStep == ASSUME ReplyInv, [Next]_vars PROVE ExecutedMeansRan'
<1> USE DEF ReplyInv, RunInv, RoutingInv
<1> SUFFICES ASSUME NEW c \in Cmd, Tracked(c)', pending'[c].executed
             PROVE  pending'[c].received /\ runs'[c] >= 1
  BY DEF ExecutedMeansRan, TrackedCmds
<1>1. CASE EntryProgresses(c) /\ pending[c].executed
  <2>1. pending[c].received /\ runs[c] >= 1
    BY <1>1 DEF ExecutedMeansRan, TrackedCmds, EntryProgresses
  <2> QED BY <1>1, <2>1, RunsGrow DEF EntryProgresses
<1>2. CASE EntryProgresses(c) /\ ~pending[c].executed
  <2>1. PICK k \in Conn : \E m \in NextLine(k) : SessionStatusDone(k, m) /\ m.cmd_id = c
    BY <1>2 DEF EntryProgresses
  <2>2. /\ handler[k] = "status" /\ up[k] # << >> /\ Head(up[k]).msg_type = "STATUS"
        /\ Head(up[k]).cmd_id = c
    BY <2>1 DEF SessionStatusDone, Goto, RecvLine
  <2>3. up[k] \in Seq(ToController)
    BY DEF TypeInv, TypeOK, TransportTypeOK
  <2>4. 1 \in DOMAIN up[k] /\ IsStatusOf(k, 1, c)
    BY <2>2, <2>3, TailElements DEF IsStatusOf
  <2>5. runs[c] >= 1 /\ AckBefore(k, 1, c)
    BY <2>2, <2>4 DEF StatusMeansRan, AckFirst, Live
  <2>6. Acked(c)
    BY <2>3, <2>5 DEF AckBefore
  <2> QED BY <1>2, <2>5, <2>6, RunsGrow DEF EntryProgresses, Acked
<1>3. CASE pending'[c] = NewItem(cli.device_id)
  BY <1>3 DEF NewItem
<1> QED BY <1>1, <1>2, <1>3, NextTable DEF TableMoves

LEMMA InitReplies == Init => ReplyInv
<1> SUFFICES ASSUME Init PROVE ReplyInv
  OBVIOUS
<1>1. StatusMeansRan /\ AckFirst /\ JobAcked /\ ExecutedMeansRan
  BY DEF Init, TransportInit, DeviceInit, PendingInit, StatusMeansRan, AckFirst, JobAcked,
         ExecutedMeansRan, TrackedCmds, Tracked
<1> QED BY <1>1, InitRuns DEF ReplyInv

LEMMA NextReplies == ReplyInv /\ [Next]_vars => ReplyInv'
<1> SUFFICES ASSUME ReplyInv, [Next]_vars PROVE ReplyInv'
  OBVIOUS
<1> QED BY NextRuns, StatusStep, AckFirstStep, JobAckedStep, ExecutedStep DEF ReplyInv

\* The executed flag of the table is the device's word: the command ran, and its
\* RECEIVED_ACK was processed before its STATUS, over however many connections.
THEOREM ExecutedIsTrue == Spec => []ExecutedMeansRan
<1>1. ReplyInv => ExecutedMeansRan
  BY DEF ReplyInv
<1> QED BY InitReplies, NextReplies, <1>1, PTL DEF Spec
-----------------------------------------------------------------------------
(* The samples. *)

\* The entry of c, if there still is one, says that channel has its sample.
Booked(channel, c) ==
  Tracked(c) => \/ channel = "ack" /\ pending[c].received
                \/ channel = "execute" /\ pending[c].executed

BookedCmds(channel) == {c \in Cmd : c <= issued /\ Booked(channel, c)}

\* What is sampled is in S, once.
OnceFrom(S, s) ==
  /\ \A i \in DOMAIN s : s[i].cmd_id # None => s[i].cmd_id \in S
  /\ \A i, j \in DOMAIN s : i # j => s[i].cmd_id # s[j].cmd_id \/ s[i].cmd_id = None

SamplesBooked ==
  \A channel \in CHANNELS, d \in Device : OnceFrom(BookedCmds(channel), samples[channel][d])

SamplesInv == TypeInv /\ RetryBudget /\ SamplesBooked

\* The ring keeps the order of what it keeps, and adds one sample at its end.
\* A sample of a command is taken when its entry gets the mark, once.
TakesSample(channel, d, x) ==
  /\ record(channel, d, x)
  /\ \/ x.cmd_id = None
     \/ x.cmd_id \in Cmd /\ ~Booked(channel, x.cmd_id) /\ Booked(channel, x.cmd_id)'

LEMMA MarkSamples ==
  ASSUME TypeInv, NEW c \in Cmd, mark_received(c) \/ mark_executed(c), ~UNCHANGED samples
  PROVE  \E channel \in CHANNELS, d \in Device, x \in Sample : TakesSample(channel, d, x)
<1> USE DEF TypeInv, TypeOK
<1>1. Tracked(c)
  BY DEF mark_received, mark_executed
<1>2. /\ pending[c] \in Item /\ pending[c].device_id \in Device
      /\ pending[c].retry_count \in Nat /\ pending \in [Cmd -> Item \cup {None}]
  BY <1>1, ItemTypes DEF PendingTypeOK
<1> DEFINE x == [cmd_id |-> c, latency |-> pending[c].retry_count]
<1>3. x \in Sample /\ x.cmd_id = c
  BY <1>2 DEF Sample
<1>4. CASE mark_received(c)
  <2>1. /\ record("ack", pending[c].device_id, x)
        /\ ~pending[c].received
        /\ pending' = [pending EXCEPT ![c].received = TRUE,
                                      ![c].ack_latency = pending[c].retry_count]
    BY <1>4 DEF mark_received, Receive, record_since_send
  <2>2. pending'[c].received
    BY <1>2, <2>1 DEF Item
  <2>3. TakesSample("ack", pending[c].device_id, x)
    BY <1>1, <1>3, <2>1, <2>2 DEF TakesSample, Booked
  <2> QED BY <1>2, <1>3, <2>3 DEF CHANNELS
<1>5. CASE mark_executed(c)
  <2>1. /\ record("execute", pending[c].device_id, x)
        /\ ~pending[c].executed
        /\ pending' = [pending EXCEPT ![c].executed = TRUE, ![c].expired = FALSE,
                                      ![c].execute_latency = pending[c].retry_count]
    BY <1>5 DEF mark_executed, Execute, SetExecuted, record_since_send
  <2>2. pending'[c].executed
    BY <1>2, <2>1 DEF Item
  <2>3. TakesSample("execute", pending[c].device_id, x)
    BY <1>1, <1>3, <2>1, <2>2 DEF TakesSample, Booked
  <2> QED BY <1>2, <1>3, <2>3 DEF CHANNELS
<1> QED BY <1>4, <1>5

LEMMA NextSamples ==
  ASSUME TypeInv, [Next]_vars
  PROVE  \/ UNCHANGED samples
         \/ \E channel \in CHANNELS, d \in Device, x \in Sample : TakesSample(channel, d, x)
<1> USE DEF TypeInv, TypeOK
<1>1. ASSUME NEW k \in Conn, SessionHeartbeatAck(k, 0), ~UNCHANGED samples
      PROVE  \E channel \in CHANNELS, d \in Device, x \in Sample : TakesSample(channel, d, x)
  <2> DEFINE x == [cmd_id |-> None, latency |-> HeartbeatRtt(device_id[k], 0)]
  <2>1. device_id[k] \in Device /\ HeartbeatRtt(device_id[k], 0) # None
        /\ record("heartbeat", device_id[k], x)
    BY <1>1 DEF SessionHeartbeatAck, SessionCoherent
  <2>2. HeartbeatRtt(device_id[k], 0) \in Nat
    BY <2>1 DEF HeartbeatRtt, is_connected, RegistryTypeOK, Entry
  <2>3. x \in Sample /\ x.cmd_id = None
    BY <2>2 DEF Sample
  <2> QED BY <2>1, <2>3 DEF TakesSample, CHANNELS
<1>2. ASSUME NEW k \in Conn, NEW m \in NextLine(k),
             SessionReceivedAck(k, m) \/ SessionStatusDone(k, m), ~UNCHANGED samples
      PROVE  \E c \in Cmd : mark_received(c) \/ mark_executed(c)
  BY <1>2, RecvTypes, Fields DEF SessionReceivedAck, SessionStatusDone
<1>3. \/ UNCHANGED samples
      \/ \E k \in Conn : \/ SessionHeartbeatAck(k, 0)
                         \/ \E m \in NextLine(k) : SessionReceivedAck(k, m) \/ SessionStatusDone(k, m)
  BY DEF Next, CliStep, CliLookup, CliAdd, CliSend, CliFail, RetryStep, RetryScan, RetryItem,
         RetrySkip, RetryGiveUp, RetryLookup, RetryTo, RetryFail, RetrySend, RetryBump,
         Housekeeping, TimePasses, AcceptLoop, Accept, SessionThread, SessionStep, SessionGarbage,
         SessionReject, SessionGreet, SessionTimeout, SessionHangup, SessionUnregister,
         SessionClose, SessionRefuse, SessionRegister, SessionStatus, SessionIgnore, DeviceStep,
         tables, vars
<1> QED BY <1>1, <1>2, <1>3, MarkSamples

LEMMA BookedStays ==
  ASSUME TypeInv, [Next]_vars, NEW c \in Cmd, c <= issued, NEW channel, Booked(channel, c)
  PROVE  Booked(channel, c)' /\ c <= issued'
<1>1. c # issued + 1
  BY BudgetNumbers
<1>2. issued' \in {issued, issued + 1}
  BY DEF Next, CliStep, CliLookup, CliAdd, CliSend, CliFail, RetryStep, RetryScan, RetryItem,
         RetrySkip, RetryGiveUp, RetryLookup, RetryTo, RetryFail, RetrySend, RetryBump,
         Housekeeping, TimePasses, AcceptLoop, SessionThread, DeviceStep, DeviceWorks,
         DeviceComesAndGoes, DeviceRuns, history, vars
<1>3. c <= issued'
  BY <1>2, BudgetNumbers
<1> QED BY <1>1, <1>3, NextTable DEF Booked, TableMoves, EntryProgresses

LEMMA PushOnce ==
  ASSUME NEW S, NEW s \in Seq(Sample), NEW x \in Sample, OnceFrom(S, s),
         x.cmd_id # None => x.cmd_id \in S /\ \A i \in DOMAIN s : s[i].cmd_id # x.cmd_id
  PROVE  OnceFrom(S, PushRing(s, x))
<1> DEFINE r == PushRing(s, x)
<1>1. PICK t \in {0, 1} : \A i \in DOMAIN r :
        \/ i \in Nat /\ i + t \in DOMAIN s /\ r[i] = s[i + t]
        \/ i \in Nat /\ i + t = Len(s) + 1 /\ r[i] = x
  BY PushElements
<1> HIDE DEF r
<1>2. \A i \in DOMAIN r : r[i].cmd_id # None => r[i].cmd_id \in S
  BY <1>1 DEF OnceFrom
<1>3. ASSUME NEW i \in DOMAIN r, NEW j \in DOMAIN r, i # j
      PROVE  r[i].cmd_id # r[j].cmd_id \/ r[i].cmd_id = None
  <2>1. i \in Nat /\ j \in Nat /\ i + t # j + t
    BY <1>1, <1>3
  <2>2. CASE i + t \in DOMAIN s /\ r[i] = s[i + t]
    BY <1>1, <2>1, <2>2 DEF OnceFrom
  <2>3. CASE i + t = Len(s) + 1 /\ r[i] = x
    BY <1>1, <2>1, <2>3 DEF OnceFrom
  <2> QED BY <1>1, <2>2, <2>3
<1> QED BY <1>2, <1>3 DEF r, OnceFrom

LEMMA SamplesStep ==
  ASSUME SamplesInv, [Next]_vars PROVE SamplesBooked'
<1> USE DEF SamplesInv
<1> SUFFICES ASSUME NEW channel \in CHANNELS, NEW d \in Device
             PROVE  OnceFrom(BookedCmds(channel), samples[channel][d])'
  BY DEF SamplesBooked
<1>0. PICK S : S = BookedCmds(channel)'
  OBVIOUS
<1>1. OnceFrom(BookedCmds(channel), samples[channel][d]) /\ samples[channel][d] \in Seq(Sample)
  BY DEF SamplesBooked, TypeInv, TypeOK, SamplesTypeOK
<1>2. BookedCmds(channel) \subseteq S
  BY <1>0, BookedStays DEF BookedCmds
<1>3. OnceFrom(S, samples[channel][d])
  BY <1>1, <1>2 DEF OnceFrom
<1>4. CASE UNCHANGED samples
  BY <1>0, <1>3, <1>4 DEF OnceFrom
<1>5. ASSUME NEW ch \in CHANNELS, NEW e \in Device, NEW x \in Sample, TakesSample(ch, e, x)
      PROVE  OnceFrom(S, samples'[channel][d])
  <2>1. samples' = [samples EXCEPT ![ch][e] = PushRing(samples[ch][e], x)]
    BY <1>5 DEF TakesSample, record
  <2>2. CASE channel = ch /\ d = e
    <3>1. samples'[channel][d] = PushRing(samples[channel][d], x)
      BY <2>1, <2>2 DEF TypeInv, TypeOK, SamplesTypeOK
    <3>2. ASSUME x.cmd_id # None
          PROVE  x.cmd_id \in S /\ x.cmd_id \notin BookedCmds(channel)
      <4>1. PICK c \in Cmd : c = x.cmd_id /\ ~Booked(channel, c) /\ Booked(channel, c)'
        BY <1>5, <2>2, <3>2 DEF TakesSample
      <4>2. Tracked(c)
        BY <4>1 DEF Booked
      <4>3. c <= issued
        BY <4>2, BudgetNumbers DEF RetryBudget
      <4>4. issued' \in {issued, issued + 1}
        BY DEF Next, CliStep, CliLookup, CliAdd, CliSend, CliFail, RetryStep, RetryScan, RetryItem,
               RetrySkip, RetryGiveUp, RetryLookup, RetryTo, RetryFail, RetrySend, RetryBump,
               Housekeeping, TimePasses, AcceptLoop, SessionThread, DeviceStep, DeviceWorks,
               DeviceComesAndGoes, DeviceRuns, history, vars
      <4>5. c <= issued'
        BY <4>3, <4>4, BudgetNumbers
      <4> QED BY <1>0, <4>1, <4>5 DEF BookedCmds
    <3>3. x.cmd_id # None =>
            x.cmd_id \in S /\ \A i \in DOMAIN samples[channel][d] :
                                samples[channel][d][i].cmd_id # x.cmd_id
      BY <1>1, <3>2 DEF OnceFrom
    <3> QED BY <1>1, <1>3, <3>1, <3>3, PushOnce
  <2>3. CASE ~(channel = ch /\ d = e)
    <3>1. samples'[channel][d] = samples[channel][d]
      BY <2>1, <2>3 DEF TypeInv, TypeOK, SamplesTypeOK
    <3> QED BY <1>3, <3>1
  <2> QED BY <2>2, <2>3
<1>6. OnceFrom(S, samples'[channel][d])
  BY <1>3, <1>4, <1>5, NextSamples
<1> QED BY <1>0, <1>6 DEF OnceFrom

\* Duplicate acks and STATUS frames of a retransmitted command do not count twice:
\* every channel has at most one sample of a command.
THEOREM SampledOnce == Spec => []OneSamplePerCommand
<1>1. Init => SamplesInv
  BY InitTypes, InitBudget DEF Init, SamplesInit, SamplesInv, SamplesBooked, OnceFrom
<1>2. SamplesInv /\ [Next]_vars => SamplesInv'
  BY NextTypes, NextBudget, SamplesStep DEF SamplesInv
<1>3. SamplesInv => OneSamplePerCommand
  BY DEF SamplesInv, SamplesBooked, OnceFrom, OneSamplePerCommand
<1> QED BY <1>1, <1>2, <1>3, PTL DEF Spec
-----------------------------------------------------------------------------
(* Delivery implements the Ledger: every step of a thread, of a device or   *)
(* of time is a step of the Ledger or leaves it unchanged.                  *)

(* The transmissions decided on, by who decided. *)

OfOperator == {b \in Cmd : cli.at = "send" /\ b = issued}

OfRetry == {b \in Cmd : todo[b] # None /\ Unbumped(b) = 0}

Decided(A, B) == {<<"operator", c>> : c \in A} \cup {<<"retry", c>> : c \in B}

LEMMA DueParts ==
  DueNow = Decided(OfOperator, OfRetry) /\ DueNow' = Decided(OfOperator', OfRetry')
BY DEF DueNow, Decided, OfOperator, OfRetry

LEMMA DueMoves ==
  ASSUME NEW c
  PROVE  /\ <<"operator", c>> \in DueNow <=> c \in OfOperator
         /\ <<"retry", c>> \in DueNow <=> c \in OfRetry
         /\ OfOperator' = OfOperator /\ OfRetry' = OfRetry => DueNow' = DueNow
         /\ OfOperator' = OfOperator \cup {c} /\ OfRetry' = OfRetry =>
              DueNow' = DueNow \cup {<<"operator", c>>}
         /\ OfOperator' = OfOperator \ {c} /\ OfRetry' = OfRetry =>
              DueNow' = DueNow \ {<<"operator", c>>}
         /\ OfOperator' = OfOperator /\ OfRetry' = OfRetry \ {c} =>
              DueNow' = DueNow \ {<<"retry", c>>}
         /\ \A S : OfOperator' = OfOperator /\ OfRetry' = OfRetry \cup S =>
              DueNow' = DueNow \cup {<<"retry", b>> : b \in S}
<1> DEFINE A == OfOperator
           B == OfRetry
           X == OfOperator'
           Y == OfRetry'
<1>1. DueNow = Decided(A, B) /\ DueNow' = Decided(X, Y)
  BY DueParts
<1> HIDE DEF A, B, X, Y
<1>2. /\ <<"operator", c>> \in Decided(A, B) <=> c \in A
      /\ <<"retry", c>> \in Decided(A, B) <=> c \in B
  BY DEF Decided
<1>3. /\ Decided(A \cup {c}, B) = Decided(A, B) \cup {<<"operator", c>>}
      /\ Decided(A \ {c}, B) = Decided(A, B) \ {<<"operator", c>>}
      /\ Decided(A, B \ {c}) = Decided(A, B) \ {<<"retry", c>>}
  BY DEF Decided
<1>4. \A S : Decided(A, B \cup S) = Decided(A, B) \cup {<<"retry", b>> : b \in S}
  BY DEF Decided
<1> QED BY <1>1, <1>2, <1>3, <1>4 DEF A, B, X, Y

LEMMA CurrentIsOne ==
  ASSUME TypeInv, NEW b \in Cmd, NEW c \in Cmd, Current(b), Current(c) PROVE b = c
BY BudgetNumbers DEF Current

\* The item at hand is dealt with.
LEMMA ItemLeaves ==
  ASSUME TypeInv, NEW c \in Cmd, Current(c), Next_item(c), UNCHANGED <<cli, issued>>
  PROVE  /\ OfOperator' = OfOperator /\ OfRetry' = OfRetry \ {c}
         /\ retry.at # "bump" => c \in OfRetry
<1>1. /\ todo'[c] = None /\ \A b \in Cmd \ {c} : todo'[b] = todo[b]
      /\ retry' = Loop
  BY DEF Next_item, TypeInv, TypeOK, RetryTypeOK
<1>2. \A b \in Cmd : Unbumped(b)' = 0
  BY <1>1 DEF Unbumped, Loop
<1>3. \A b \in Cmd \ {c} : Unbumped(b) = 0
  BY CurrentIsOne DEF Unbumped
<1>4. retry.at # "bump" => c \in OfRetry
  BY DEF OfRetry, Unbumped, Current
<1>5. OfRetry' = OfRetry \ {c}
  BY <1>1, <1>2, <1>3 DEF OfRetry
<1> QED BY <1>4, <1>5 DEF OfOperator

LEMMA DueStays ==
  ASSUME UNCHANGED <<cli, issued, retry, todo>> PROVE OfOperator' = OfOperator /\ OfRetry' = OfRetry
BY DEF OfOperator, OfRetry, Unbumped, Current
-----------------------------------------------------------------------------
(* The verdicts. *)

VerdictsStay == \A c \in Cmd : Verdict(c)' = Verdict(c)

\* Only c changed, from one of the verdicts in "from".
Judged(c, from, to) ==
  /\ Verdict(c) \in from /\ Verdict(c)' = to
  /\ \A b \in Cmd \ {c} : Verdict(b)' = Verdict(b)

LEMMA JudgedSteps ==
  /\ VerdictsStay <=> UNCHANGED [c \in Cmd |-> Verdict(c)]
  /\ \A c \in Cmd : \A from, to : Judged(c, from, to) => AtLeastOnce!Judge(c, from, to)
BY DEF VerdictsStay, Judged, AtLeastOnce!Judge

\* A command that goes without its verdict stays as it was.
LEMMA SameVerdict ==
  ASSUME UNCHANGED issued, NEW c \in Cmd, Tracked(c)' <=> Tracked(c),
         Tracked(c) => /\ pending'[c].executed = pending[c].executed
                       /\ pending'[c].failed = pending[c].failed
  PROVE  Verdict(c)' = Verdict(c)
BY DEF Verdict

LEMMA FailedVerdict ==
  ASSUME TypeInv, UNCHANGED issued, NEW c \in Cmd, mark_failed(c)
  PROVE  VerdictsStay \/ Judged(c, {"open"}, "failed")
<1> USE DEF TypeInv, TypeOK, PendingTypeOK
<1>1. \A b \in Cmd \ {c} : pending'[b] = pending[b]
  BY DEF mark_failed
<1>2. \A b \in Cmd \ {c} : Verdict(b)' = Verdict(b)
  BY <1>1, SameVerdict DEF Tracked
<1>3. CASE ~Tracked(c)
  <2>1. pending' = pending
    BY <1>3 DEF mark_failed
  <2> QED BY <2>1, SameVerdict DEF Tracked, VerdictsStay
<1>4. CASE Tracked(c)
  <2>1. pending[c] \in Item
    BY <1>4, ItemTypes
  <2>2. pending'[c] = [pending[c] EXCEPT !.failed = TRUE,
                                         !.expired = pending[c].expired /\ pending[c].executed]
    BY <1>4, <2>1 DEF mark_failed
  <2>3. /\ Tracked(c)' /\ pending'[c].failed
        /\ pending'[c].executed = pending[c].executed
    <3>1. pending'[c] \in Item
      BY <2>1, <2>2 DEF Item
    <3> QED BY <2>1, <2>2, <3>1, NoneIsNoItem DEF Item, Tracked
  <2>4. CASE Finished(c)
    <3>1. Verdict(c)' = Verdict(c)
      BY <1>4, <2>3, <2>4 DEF Verdict, Finished
    <3> QED BY <1>2, <3>1 DEF VerdictsStay
  <2>5. CASE ~Finished(c)
    <3>1. Verdict(c) = "open" /\ Verdict(c)' = "failed"
      BY <1>4, <2>3, <2>5 DEF Verdict, Finished
    <3> QED BY <1>2, <3>1 DEF Judged
  <2> QED BY <2>4, <2>5
<1> QED BY <1>3, <1>4

LEMMA ExecutedVerdict ==
  ASSUME TypeInv, UNCHANGED issued, NEW c \in Cmd, mark_executed(c)
  PROVE  VerdictsStay \/ (Tracked(c) /\ pending'[c].executed /\ Tracked(c)'
                            /\ Judged(c, {"open", "failed"}, "done"))
<1> USE DEF TypeInv, TypeOK, PendingTypeOK
<1>1. \A b \in Cmd \ {c} : pending'[b] = pending[b]
  BY DEF mark_executed, Execute, SetExecuted
<1>2. \A b \in Cmd \ {c} : Verdict(b)' = Verdict(b)
  BY <1>1, SameVerdict DEF Tracked
<1>3. CASE pending' = pending
  BY <1>3, SameVerdict DEF Tracked, VerdictsStay
<1>4. CASE pending' # pending
  <2>1. Tracked(c) /\ ~pending[c].executed /\ Execute(c)
    BY <1>4 DEF mark_executed
  <2>2. pending[c] \in Item /\ pending[c].retry_count \in Nat
    BY <2>1, ItemTypes
  <2>3. pending'[c] = [pending[c] EXCEPT !.executed = TRUE, !.expired = FALSE,
                                         !.execute_latency = pending[c].retry_count]
    BY <2>1 DEF Execute, SetExecuted
  <2>4. Tracked(c)' /\ pending'[c].executed
    BY <2>2, <2>3, NoneIsNoItem DEF Item, Tracked
  <2> QED BY <1>2, <2>1, <2>4 DEF Judged, Verdict
<1> QED BY <1>3, <1>4

\* What else is done to the table does not concern the verdicts.
LEMMA OtherVerdicts ==
  ASSUME TypeInv, UNCHANGED issued, NEW c \in Cmd,
         \/ mark_received(c) \/ bump_retry(c) \/ AckTimeout(c) \/ RetentionElapses(c)
         \/ UNCHANGED pending
  PROVE  VerdictsStay
<1> USE DEF TypeInv, TypeOK, PendingTypeOK
<1>1. \A b \in Cmd \ {c} : pending'[b] = pending[b]
  BY DEF mark_received, Receive, bump_retry, AckTimeout, RetentionElapses
<1>2. \A b \in Cmd \ {c} : Verdict(b)' = Verdict(b)
  BY <1>1, SameVerdict DEF Tracked
<1>3. CASE pending'[c] = pending[c]
  BY <1>2, <1>3, SameVerdict DEF VerdictsStay, Tracked
<1>4. CASE pending'[c] # pending[c]
  <2>1. Tracked(c)
    BY <1>4 DEF mark_received, bump_retry, AckTimeout, RetentionElapses
  <2>2. pending[c] \in Item /\ pending[c].retry_count \in Nat
    BY <2>1, ItemTypes
  <2>3. /\ Tracked(c)' /\ pending'[c].executed = pending[c].executed
        /\ pending'[c].failed = pending[c].failed
    <3>1. CASE mark_received(c)
      <4>1. pending'[c] = [pending[c] EXCEPT !.received = TRUE,
                                             !.ack_latency = pending[c].retry_count]
        BY <1>4, <2>1, <3>1 DEF mark_received, Receive
      <4> QED BY <2>2, <4>1, NoneIsNoItem DEF Item, Tracked
    <3>2. CASE bump_retry(c)
      <4>1. pending'[c] = [pending[c] EXCEPT !.retry_count = pending[c].retry_count + 1,
                                             !.overdue = FALSE]
        BY <2>1, <2>2, <3>2 DEF bump_retry
      <4>2. pending[c].retry_count + 1 \in Nat
        BY <2>2
      <4>3. pending'[c] \in Item
        BY <2>2, <4>1, <4>2 DEF Item
      <4> QED BY <2>2, <4>1, <4>3, NoneIsNoItem DEF Item, Tracked
    <3>3. CASE AckTimeout(c)
      <4>1. pending'[c] = [pending[c] EXCEPT !.overdue = TRUE]
        BY <2>1, <2>2, <3>3 DEF AckTimeout
      <4> QED BY <2>2, <4>1, NoneIsNoItem DEF Item, Tracked
    <3>4. CASE RetentionElapses(c)
      <4>1. pending'[c] = [pending[c] EXCEPT !.expired = TRUE]
        BY <2>1, <2>2, <3>4 DEF RetentionElapses
      <4> QED BY <2>2, <4>1, NoneIsNoItem DEF Item, Tracked
    <3> QED BY <1>4, <3>1, <3>2, <3>3, <3>4
  <2>4. Verdict(c)' = Verdict(c)
    BY <2>1, <2>3, SameVerdict
  <2> QED BY <1>2, <2>4 DEF VerdictsStay
<1> QED BY <1>3, <1>4
-----------------------------------------------------------------------------
(* Each step is a step of the Ledger, or none. *)

Accounted == AtLeastOnce!Next \/ UNCHANGED AtLeastOnce!ledger

LEMMA Stutters ==
  ASSUME VerdictsStay, OfOperator' = OfOperator, OfRetry' = OfRetry, UNCHANGED <<sends, runs>>
  PROVE  Accounted
BY DueParts, JudgedSteps DEF Accounted, AtLeastOnce!ledger

LEMMA Refrains ==
  ASSUME NEW c \in Cmd, VerdictsStay, UNCHANGED <<sends, runs>>,
         \/ c \in OfOperator /\ OfOperator' = OfOperator \ {c} /\ OfRetry' = OfRetry
         \/ c \in OfRetry /\ OfRetry' = OfRetry \ {c} /\ OfOperator' = OfOperator
  PROVE  Accounted
<1>1. CASE OfOperator' = OfOperator \ {c} /\ OfRetry' = OfRetry /\ c \in OfOperator
  <2>1. AtLeastOnce!Refrain("operator", c)
    BY <1>1, DueMoves, JudgedSteps DEF AtLeastOnce!Refrain
  <2> QED BY <2>1 DEF Accounted, AtLeastOnce!Next, AtLeastOnce!Sender
<1>2. CASE OfOperator' = OfOperator /\ OfRetry' = OfRetry \ {c} /\ c \in OfRetry
  <2>1. AtLeastOnce!Refrain("retry", c)
    BY <1>2, DueMoves, JudgedSteps DEF AtLeastOnce!Refrain
  <2> QED BY <2>1 DEF Accounted, AtLeastOnce!Next, AtLeastOnce!Sender
<1> QED BY <1>1, <1>2

LEMMA Transmits ==
  ASSUME NEW c \in Cmd, VerdictsStay, UNCHANGED runs, sends' = [sends EXCEPT ![c] = @ + 1],
         sends[c] < 1 + COMMAND_MAX_RETRIES,
         \/ c \in OfOperator /\ OfOperator' = OfOperator \ {c} /\ OfRetry' = OfRetry
         \/ c \in OfRetry /\ OfRetry' = OfRetry \ {c} /\ OfOperator' = OfOperator
  PROVE  Accounted
<1>1. CASE OfOperator' = OfOperator \ {c} /\ OfRetry' = OfRetry /\ c \in OfOperator
  <2>1. AtLeastOnce!Transmit("operator", c)
    BY <1>1, DueMoves, JudgedSteps DEF AtLeastOnce!Transmit
  <2> QED BY <2>1 DEF Accounted, AtLeastOnce!Next, AtLeastOnce!Sender
<1>2. CASE OfOperator' = OfOperator /\ OfRetry' = OfRetry \ {c} /\ c \in OfRetry
  <2>1. AtLeastOnce!Transmit("retry", c)
    BY <1>2, DueMoves, JudgedSteps DEF AtLeastOnce!Transmit
  <2> QED BY <2>1 DEF Accounted, AtLeastOnce!Next, AtLeastOnce!Sender
<1> QED BY <1>1, <1>2

LEMMA GivesUp ==
  ASSUME NEW c \in Cmd, Judged(c, {"open"}, "failed"), UNCHANGED <<sends, runs>>,
         \/ OfOperator' = OfOperator \ {c} /\ OfRetry' = OfRetry
         \/ OfRetry' = OfRetry \ {c} /\ OfOperator' = OfOperator
  PROVE  Accounted
<1>1. CASE OfOperator' = OfOperator \ {c} /\ OfRetry' = OfRetry
  <2>1. AtLeastOnce!GiveUp("operator", c)
    BY <1>1, DueMoves, JudgedSteps DEF AtLeastOnce!GiveUp
  <2> QED BY <2>1 DEF Accounted, AtLeastOnce!Next, AtLeastOnce!Sender
<1>2. CASE OfOperator' = OfOperator /\ OfRetry' = OfRetry \ {c}
  <2>1. AtLeastOnce!GiveUp("retry", c)
    BY <1>2, DueMoves, JudgedSteps DEF AtLeastOnce!GiveUp
  <2> QED BY <2>1 DEF Accounted, AtLeastOnce!Next, AtLeastOnce!Sender
<1> QED BY <1>1, <1>2

LEMMA CliAccounted == ASSUME ReplyInv, CliStep PROVE Accounted
<1> USE DEF ReplyInv, RunInv, RoutingInv
<1>1. ASSUME NEW d \in Device, CliLookup(d) PROVE Accounted
  <2>1. OfOperator' = OfOperator /\ OfRetry' = OfRetry
    BY <1>1 DEF CliLookup, OfOperator, OfRetry, Unbumped, Current, Idle, history
  <2>2. VerdictsStay
    BY <1>1 DEF CliLookup, VerdictsStay, Verdict, Tracked, tables, history
  <2> QED BY <1>1, <2>1, <2>2, Stutters DEF CliLookup, history
<1>2. CASE CliAdd
  <2>1. PICK c \in Cmd : c = issued + 1
    BY <1>2, MaxCommandsAssumption DEF CliAdd, TypeInv, TypeOK, CliTypeOK, CliCoherent, Cmd
  <2>2. /\ issued' = c /\ cli.at = "add" /\ cli'.at = "send" /\ UNCHANGED <<retry, todo, sends, runs>>
        /\ pending' = [pending EXCEPT ![c] = NewItem(cli.device_id)]
    BY <1>2, <2>1 DEF CliAdd, add_command, TypeInv, TypeOK, CliTypeOK
  <2>3. OfOperator' = OfOperator \cup {c} /\ OfRetry' = OfRetry
    BY <2>2 DEF OfOperator, OfRetry, Unbumped, Current
  <2>4. pending'[c] = NewItem(cli.device_id) /\ NewItem(cli.device_id) \in Item
    BY <1>2, <2>2 DEF CliAdd, CliCoherent, TypeInv, TypeOK, PendingTypeOK, NewItem, Item
  <2>5. Verdict(c) = "new" /\ Verdict(c)' = "open"
    <3>1. c > issued /\ ~Tracked(c)
      BY <2>1, BudgetNumbers DEF RetryBudget
    <3>2. Tracked(c)'
      BY <2>4, NoneIsNoItem DEF Tracked
    <3>3. ~pending'[c].executed /\ ~pending'[c].failed
      BY <2>4 DEF NewItem
    <3> QED BY <3>1, <3>2, <3>3 DEF Verdict
  <2>6. ASSUME NEW b \in Cmd \ {c} PROVE Verdict(b)' = Verdict(b)
    <3>1. pending'[b] = pending[b]
      BY <2>2 DEF TypeInv, TypeOK, PendingTypeOK
    <3>2. (b > issued)' <=> b > issued
      BY <2>1, <2>2, BudgetNumbers
    <3> QED BY <3>1, <3>2 DEF Verdict, Tracked
  <2>7. AtLeastOnce!Ask(c)
    <3>1. AtLeastOnce!Judge(c, {"new"}, "open")
      BY <2>5, <2>6, JudgedSteps DEF Judged
    <3>2. DueNow' = DueNow \cup {<<"operator", c>>}
      BY <2>3, DueMoves
    <3> QED BY <2>2, <3>1, <3>2 DEF AtLeastOnce!Ask
  <2> QED BY <2>7 DEF Accounted, AtLeastOnce!Next
<1>3. CASE CliSend
  <2>1. PICK c \in Cmd : c = issued
    BY <1>3 DEF CliSend, TypeInv, CliCoherent
  <2>2. /\ cli.at = "send" /\ UNCHANGED <<retry, todo, issued, pending, runs>>
        /\ cli'.at # "send"
        /\ sends' = [sends EXCEPT ![c] = @ + 1] \/ sends' = sends
    BY <1>3, <2>1 DEF CliSend, tables, Idle, TypeInv, TypeOK, CliTypeOK
  <2>3. c \in OfOperator /\ OfOperator' = OfOperator \ {c} /\ OfRetry' = OfRetry
    BY <2>1, <2>2 DEF OfOperator, OfRetry, Unbumped, Current
  <2>4. VerdictsStay
    BY <2>2 DEF VerdictsStay, Verdict, Tracked
  <2>5. sends[c] < 1 + COMMAND_MAX_RETRIES
    <3>1. Given(c) = 0
      BY <2>1, <2>2 DEF Given
    <3> QED BY <3>1, BudgetNumbers DEF RetryBudget
  <2> QED BY <2>2, <2>3, <2>4, <2>5, Refrains, Transmits
<1>4. CASE CliFail
  <2>1. PICK c \in Cmd : c = issued
    BY <1>4 DEF CliFail, TypeInv, CliCoherent
  <2>2. /\ cli.at = "fail" /\ cli'.at = "idle" /\ mark_failed(c)
        /\ UNCHANGED <<retry, todo, issued, sends, runs>>
    BY <1>4, <2>1 DEF CliFail, Idle, history
  <2>3. OfOperator' = OfOperator /\ OfOperator' = OfOperator \ {c} /\ OfRetry' = OfRetry
    BY <2>2 DEF OfOperator, OfRetry, Unbumped, Current
  <2> QED BY <2>2, <2>3, FailedVerdict, Stutters, GivesUp
<1> QED BY <1>1, <1>2, <1>3, <1>4 DEF CliStep

LEMMA RetryAccounted == ASSUME ReplyInv, RetryStep PROVE Accounted
<1> USE DEF ReplyInv, RunInv, RoutingInv
<1>1. CASE RetryScan
  <2>1. /\ retry = Loop /\ \A c \in Cmd : todo[c] = None
        /\ UNCHANGED <<pending, cli, retry, issued, sends, runs>>
    BY <1>1 DEF RetryScan, tables, history
  <2>2. ASSUME NEW c \in Cmd PROVE todo'[c] # None <=> c \in Unfinished
    <3>1. CASE c \in Unfinished
      <4>1. todo'[c] = [retry_count |-> pending[c].retry_count, device_id |-> pending[c].device_id]
        BY <1>1, <3>1 DEF RetryScan
      <4>2. todo'[c] \in Copy
        BY <3>1, <4>1, ItemTypes DEF Unfinished, TrackedCmds, TypeInv, TypeOK, Copy
      <4> QED BY <3>1, <4>2, NoneIsNoCopy
    <3>2. CASE c \notin Unfinished
      BY <1>1, <3>2 DEF RetryScan
    <3> QED BY <3>1, <3>2
  <2>3. \A c \in Cmd : Unbumped(c)' = 0
    BY <2>1 DEF Unbumped, Loop
  <2>4. OfOperator' = OfOperator /\ OfRetry' = OfRetry \cup Unfinished
    BY <2>1, <2>2, <2>3 DEF OfOperator, OfRetry, Unfinished, TrackedCmds
  <2>5. \A c \in Unfinished : c \in Cmd /\ Verdict(c) = "open"
    BY DEF Unfinished, TrackedCmds, Finished, Verdict
  <2>6. VerdictsStay
    BY <2>1 DEF VerdictsStay, Verdict, Tracked
  <2>7. AtLeastOnce!TakeUp(Unfinished)
    <3>1. DueNow' = DueNow \cup {<<"retry", b>> : b \in Unfinished}
      BY <2>4, DueMoves
    <3> QED BY <2>1, <2>5, <2>6, <3>1, JudgedSteps DEF AtLeastOnce!TakeUp
  <2>8. Unfinished \in SUBSET Cmd
    BY <2>5
  <2> QED BY <2>7, <2>8 DEF Accounted, AtLeastOnce!Next
<1>2. ASSUME NEW c \in Cmd, RetrySkip(c) PROVE Accounted
  <2>1. VerdictsStay
    BY <1>2 DEF RetrySkip, VerdictsStay, Verdict, Tracked, tables, history
  <2> QED BY <1>2, <2>1, ItemLeaves, Refrains DEF RetrySkip, history, Loop
<1>3. ASSUME NEW c \in Cmd, RetryGiveUp(c) \/ RetryFail(c) PROVE Accounted
  <2>1. /\ Current(c) /\ Next_item(c) /\ mark_failed(c) /\ retry.at # "bump"
        /\ UNCHANGED <<cli, issued, sends, runs>>
    BY <1>3 DEF RetryGiveUp, RetryFail, Due, Loop, history
  <2> QED BY <2>1, ItemLeaves, FailedVerdict, Refrains, GivesUp
<1>4. ASSUME NEW c \in Cmd, RetryLookup(c) PROVE Accounted
  <2>1. VerdictsStay
    BY <1>4 DEF RetryLookup, RetryTo, VerdictsStay, Verdict, Tracked, tables, history
  <2>2. OfOperator' = OfOperator /\ OfRetry' = OfRetry
    BY <1>4 DEF RetryLookup, RetryTo, Due, Loop, OfOperator, OfRetry, Unbumped, history
  <2> QED BY <1>4, <2>1, <2>2, Stutters DEF RetryLookup, RetryTo, history
<1>5. ASSUME NEW c \in Cmd, RetrySend(c) PROVE Accounted
  <2>1. /\ retry.at = "send" /\ Current(c) /\ UNCHANGED <<cli, issued, runs, pending>>
        /\ \/ /\ sends' = [sends EXCEPT ![c] = @ + 1]
              /\ retry'.at = "bump" /\ UNCHANGED todo
           \/ Next_item(c) /\ UNCHANGED sends
    BY <1>5 DEF RetrySend, tables, TypeInv, TypeOK, RetryTypeOK
  <2>2. VerdictsStay
    BY <2>1 DEF VerdictsStay, Verdict, Tracked
  <2>3. CASE Next_item(c) /\ UNCHANGED sends
    BY <2>1, <2>2, <2>3, ItemLeaves, Refrains
  <2>4. CASE sends' = [sends EXCEPT ![c] = @ + 1] /\ retry'.at = "bump" /\ UNCHANGED todo
    <3>1. c \in OfRetry /\ \A b \in Cmd : Unbumped(b) = 0
      BY <2>1 DEF OfRetry, Unbumped, Current
    <3>2. \A b \in Cmd : Unbumped(b)' = IF b = c THEN 1 ELSE 0
      BY <2>1, <2>4, CurrentIsOne DEF Unbumped, Current
    <3>3. OfOperator' = OfOperator /\ OfRetry' = OfRetry \ {c}
      BY <2>1, <2>4, <3>1, <3>2 DEF OfOperator, OfRetry
    <3>4. sends[c] < 1 + COMMAND_MAX_RETRIES
      BY <2>1, <3>1, BudgetNumbers DEF RetryBudget
    <3> QED BY <2>1, <2>2, <2>4, <3>1, <3>3, <3>4, Transmits
  <2> QED BY <2>1, <2>3, <2>4
<1>6. ASSUME NEW c \in Cmd, RetryBump(c) PROVE Accounted
  <2>1. /\ Current(c) /\ Next_item(c) /\ bump_retry(c) /\ retry.at = "bump"
        /\ UNCHANGED <<cli, issued, sends, runs>>
    BY <1>6 DEF RetryBump, history
  <2>2. VerdictsStay
    BY <2>1, OtherVerdicts
  <2>3. c \notin OfRetry
    BY <2>1 DEF OfRetry, Unbumped
  <2>4. OfOperator' = OfOperator /\ OfRetry' = OfRetry
    BY <2>1, <2>3, ItemLeaves
  <2> QED BY <2>1, <2>2, <2>4, Stutters
<1> QED BY <1>1, <1>2, <1>3, <1>4, <1>5, <1>6 DEF RetryStep, RetryItem

LEMMA PruneAccounted == ASSUME ReplyInv, Housekeeping PROVE Accounted
<1> USE DEF ReplyInv, RunInv, RoutingInv
<1> DEFINE S == Stale \cup Overflow
<1>1. /\ \A c \in Cmd : pending'[c] = IF c \in S THEN None ELSE pending[c]
      /\ UNCHANGED <<cli, issued, retry, todo, sends, runs>>
  BY DEF Housekeeping, prune, history
<1>2. S \subseteq TrackedCmds
  BY DEF Stale, Overflow
<1> HIDE DEF S
<1>3. \A c \in S : c \in Cmd /\ Tracked(c) /\ ~(c > issued)
  BY <1>2 DEF TrackedCmds, RetryBudget
<1>4. \A c \in S : Verdict(c) # "new"
  BY <1>3 DEF Verdict
<1>5. \A c \in Cmd : Verdict(c)' = IF c \in S THEN "forgotten" ELSE Verdict(c)
  BY <1>1, <1>3 DEF Verdict, Tracked
<1>6. AtLeastOnce!Forget(S)
  BY <1>1, <1>3, <1>4, <1>5, DueParts, DueStays DEF AtLeastOnce!Forget
<1>7. S \in SUBSET Cmd
  BY <1>3
<1> QED BY <1>6, <1>7 DEF Accounted, AtLeastOnce!Next

LEMMA SessionAccounted ==
  ASSUME ReplyInv, [Next]_vars, NEW k \in Conn, SessionThread(k) PROVE Accounted
<1> USE DEF ReplyInv, RunInv, RoutingInv
<1>1. UNCHANGED <<cli, issued, retry, todo, sends, runs>> /\ SessionStep(k, 0)
  BY DEF SessionThread, history
<1>2. OfOperator' = OfOperator /\ OfRetry' = OfRetry
  BY <1>1, DueStays
<1>3. CASE UNCHANGED pending
  <2>1. VerdictsStay
    BY <1>1, <1>3 DEF VerdictsStay, Verdict, Tracked
  <2> QED BY <1>1, <1>2, <2>1, Stutters
<1>4. ASSUME NEW m \in NextLine(k), SessionReceivedAck(k, m) PROVE Accounted
  <2>1. m.cmd_id \in Cmd
    BY <1>4, RecvTypes, Fields DEF SessionReceivedAck, TypeInv, TypeOK
  <2>2. VerdictsStay
    BY <1>1, <1>4, <2>1, OtherVerdicts DEF SessionReceivedAck
  <2> QED BY <1>1, <1>2, <2>2, Stutters
<1>5. ASSUME NEW m \in NextLine(k), SessionStatusDone(k, m), m.cmd_id # None PROVE Accounted
  <2>1. m \in ToController /\ m.msg_type = "STATUS" /\ mark_executed(m.cmd_id)
    BY <1>5, RecvTypes DEF SessionStatusDone, TypeInv, TypeOK
  <2>2. PICK c \in Cmd : c = m.cmd_id
    BY <1>5, <2>1, Fields
  <2>3. CASE VerdictsStay
    BY <1>1, <1>2, <2>3, Stutters
  <2>4. CASE Judged(c, {"open", "failed"}, "done") /\ Tracked(c)' /\ pending'[c].executed
    <3>1. runs'[c] >= 1
      BY <2>4, ExecutedStep DEF ExecutedMeansRan, TrackedCmds
    <3>2. runs[c] > 0
      BY <1>1, <3>1 DEF TypeInv, TypeOK
    <3>3. AtLeastOnce!Confirm(c)
      BY <1>1, <1>2, <2>4, <3>2, DueParts, JudgedSteps DEF AtLeastOnce!Confirm
    <3> QED BY <3>3 DEF Accounted, AtLeastOnce!Next
  <2> QED BY <1>1, <2>1, <2>2, <2>3, <2>4, ExecutedVerdict
<1>6. \/ UNCHANGED pending
      \/ \E m \in NextLine(k) : \/ SessionReceivedAck(k, m)
                                \/ SessionStatusDone(k, m) /\ m.cmd_id # None
  BY <1>1 DEF SessionStep, SessionGarbage, SessionReject, SessionGreet, SessionTimeout,
     SessionHangup, SessionHeartbeatAck, SessionUnregister, SessionClose, SessionRefuse,
     SessionRegister, SessionStatus, SessionStatusDone, SessionIgnore
<1> QED BY <1>3, <1>4, <1>5, <1>6

LEMMA DeviceAccounted == ASSUME ReplyInv, NEW d \in Device, DeviceStep(d) PROVE Accounted
<1> USE DEF ReplyInv, RunInv, RoutingInv
<1>1. UNCHANGED <<pending, cli, retry, todo, issued, sends>>
  BY DEF DeviceStep, DeviceWorks, DeviceComesAndGoes, DeviceRuns, tables, history
<1>2. OfOperator' = OfOperator /\ OfRetry' = OfRetry
  BY <1>1, DueStays
<1>3. VerdictsStay
  BY <1>1 DEF VerdictsStay, Verdict, Tracked
<1>4. CASE UNCHANGED runs
  BY <1>1, <1>2, <1>3, <1>4, Stutters
<1>5. CASE DeviceRuns(d)
  <2>1. PICK c \in Cmd, n \in Nat : job[d] # None /\ job[d].cmd_id = c /\ job[d].attempt = n
    BY <1>5 DEF DeviceRuns, DeviceExecute, TypeInv, TypeOK, DeviceTypeOK
  <2>2. runs' = [runs EXCEPT ![c] = @ + 1]
    BY <1>5, <2>1 DEF DeviceRuns
  <2>3. Flying(c, n)
    BY <2>1 DEF Flying, UnderWay
  <2>4. n \in 0 .. COMMAND_MAX_RETRIES
    BY <2>3, FlyingTypes, BudgetNumbers DEF Counted, RetryBudget
  <2>5. n \in Outstanding(c) /\ Outstanding(c) \in SUBSET (0 .. COMMAND_MAX_RETRIES)
    BY <2>3, <2>4 DEF Outstanding
  <2>6. Cardinality(Outstanding(c)) \in Nat /\ Cardinality(Outstanding(c)) # 0
    <3>1. /\ Cardinality(Outstanding(c)) \in Nat
          /\ Cardinality(Outstanding(c) \ {n}) = Cardinality(Outstanding(c)) - 1
      BY <2>5, FiniteAttempts
    <3>2. Outstanding(c) \ {n} \in SUBSET (0 .. COMMAND_MAX_RETRIES)
      BY <2>5
    <3>3. Cardinality(Outstanding(c) \ {n}) \in Nat
      BY <3>2, FiniteAttempts
    <3> QED BY <3>1, <3>3
  <2>7. runs[c] < sends[c]
    BY <2>6 DEF RunsCounted, TypeInv, TypeOK
  <2>8. AtLeastOnce!Run(c)
    BY <1>1, <1>2, <1>3, <2>2, <2>7, DueParts, JudgedSteps DEF AtLeastOnce!Run
  <2> QED BY <2>8 DEF Accounted, AtLeastOnce!Next
<1>6. UNCHANGED runs \/ DeviceRuns(d)
  BY DEF DeviceStep, DeviceWorks, DeviceComesAndGoes, history
<1> QED BY <1>4, <1>5, <1>6

LEMMA NextAccounted == ASSUME ReplyInv, [Next]_vars PROVE Accounted
<1>1. CASE CliStep
  BY <1>1, CliAccounted
<1>2. CASE RetryStep
  BY <1>2, RetryAccounted
<1>3. CASE Housekeeping
  BY <1>3, PruneAccounted
<1>4. ASSUME UNCHANGED <<cli, issued, retry, todo, sends, runs>>, VerdictsStay PROVE Accounted
  BY <1>4, DueStays, Stutters
<1>5. ASSUME NEW c \in Cmd, TimePasses(c) PROVE Accounted
  BY <1>4, <1>5, OtherVerdicts DEF TimePasses, history, ReplyInv, RunInv, RoutingInv
<1>6. ASSUME NEW k \in Conn, AcceptLoop(k) PROVE Accounted
  BY <1>4, <1>6 DEF AcceptLoop, Accept, history, VerdictsStay, Verdict, Tracked
<1>7. ASSUME NEW k \in Conn, SessionThread(k) PROVE Accounted
  BY <1>7, SessionAccounted
<1>8. ASSUME NEW d \in Device, DeviceStep(d) PROVE Accounted
  BY <1>8, DeviceAccounted
<1>9. CASE UNCHANGED vars
  BY <1>4, <1>9 DEF vars, tables, history, VerdictsStay, Verdict, Tracked
<1> QED BY <1>1, <1>2, <1>3, <1>5, <1>6, <1>7, <1>8, <1>9 DEF Next

LEMMA InitAccounted == ASSUME Init PROVE AtLeastOnce!Init
<1>1. DueNow = {}
  BY DEF Init, DueNow, Idle
<1>2. \A c \in Cmd : Verdict(c) = "new"
  BY DEF Init, PendingInit, Verdict, Tracked, Cmd
<1> QED BY <1>1, <1>2 DEF Init, AtLeastOnce!Init

\* The racing threads are an at-least-once delivery with a limit (README.md:91):
\* a command is retransmitted only on a decision made while it was open, each
\* decision makes at most one transmission, done means run, a command is never
\* asked for twice and no verdict is taken back.
THEOREM DeliveryImplementsLedger == Spec => ImplementsLedger
<1>1. ReplyInv /\ [Next]_vars => [AtLeastOnce!Next]_(AtLeastOnce!ledger)
  BY NextAccounted DEF Accounted
<1> QED BY InitReplies, NextReplies, InitAccounted, <1>1, PTL
        DEF Spec, ImplementsLedger, AtLeastOnce!Spec
=============================================================================
