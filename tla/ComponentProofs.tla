-------------------------- MODULE ComponentProofs ---------------------------
(***************************************************************************)
(* Lemmas about the components every composition is built from: frames,    *)
(* queues, the registry, the command table, the samples and the session    *)
(* threads.  Nothing here depends on who else takes part.                  *)
(***************************************************************************)
EXTENDS Sessions, TLAPS

(* What the builders of message_format.py make. *)
LEMMA FrameTypes ==
  /\ \A d \in Device, v \in BOOLEAN : make_auth(d, v) \in ToController
  /\ {make_auth_ok, make_auth_fail, make_heartbeat} \subseteq ToDevice
  /\ make_heartbeat_ack \in ToController
  /\ \A d \in Device, c \in Cmd, n \in Nat : make_command(d, c, n) \in ToDevice
  /\ \A c \in Cmd, n \in Nat : make_received_ack(c, n) \in ToController
  /\ \A l \in Nat, c \in Cmd \cup {None}, n \in Nat : make_status(l, c, n) \in ToController
BY DEF ToDevice, ToController, make_auth, make_auth_ok, make_auth_fail, make_heartbeat,
       make_heartbeat_ack, make_command, make_received_ack, make_status

(* What a frame of a given type carries. *)
LEMMA Fields ==
  /\ \A m \in ToDevice : m.msg_type = "COMMAND" => m.cmd_id \in Cmd /\ m.attempt \in Nat
  /\ \A m \in ToController :
       /\ m.msg_type = "AUTH" => m.device_id \in Device \cup {None}
       /\ m.msg_type = "RECEIVED_ACK" => m.cmd_id \in Cmd
       /\ m.msg_type = "STATUS" => m.state \in Nat /\ m.cmd_id \in Cmd \cup {None}
BY DEF ToDevice, ToController, make_auth_ok, make_auth_fail, make_heartbeat,
       make_heartbeat_ack, Unexpected, Garbage

-----------------------------------------------------------------------------
(* Every operation of a component keeps the type of its variables. *)

LEMMA SendTypes ==
  ASSUME TransportTypeOK, NEW c \in Conn, NEW m \in ToDevice, SendOk(c, m)
  PROVE  TransportTypeOK'
BY DEF TransportTypeOK, SendOk

LEMMA SendRaisesTypes ==
  ASSUME TransportTypeOK, NEW c \in Conn, SendRaises(c)
  PROVE  TransportTypeOK'
BY DEF TransportTypeOK, SendRaises, transportVars

LEMMA RecvTypes ==
  ASSUME TransportTypeOK, NEW c \in Conn, NEW m, RecvLine(c, m)
  PROVE  TransportTypeOK' /\ m \in ToController
<1>1. up[c] \in Seq(ToController) /\ up[c] # << >>
  BY DEF TransportTypeOK, RecvLine
<1>2. Head(up[c]) \in ToController /\ Tail(up[c]) \in Seq(ToController)
  BY <1>1
<1> QED BY <1>2 DEF TransportTypeOK, RecvLine

LEMMA ExchangeTypes ==
  ASSUME TransportTypeOK, NEW c \in Conn, NEW m, NEW reply \in Seq(ToController),
         DeviceExchange(c, m, reply)
  PROVE  TransportTypeOK' /\ m \in ToDevice
<1>1. down[c] \in Seq(ToDevice) /\ down[c] # << >> /\ up[c] \in Seq(ToController)
  BY DEF TransportTypeOK, DeviceExchange
<1>2. Head(down[c]) \in ToDevice /\ Tail(down[c]) \in Seq(ToDevice)
  BY <1>1
<1>3. up[c] \o reply \in Seq(ToController)
  BY <1>1
<1> QED BY <1>2, <1>3 DEF TransportTypeOK, DeviceExchange

LEMMA DeviceSendTypes ==
  ASSUME TransportTypeOK, NEW c \in Conn, NEW m \in ToController, DeviceSend(c, m)
  PROVE  TransportTypeOK'
BY DEF TransportTypeOK, DeviceSend

LEMMA ConnectionTypes ==
  ASSUME TransportTypeOK, NEW c \in Conn, NEW m \in ToController,
         Connect(c, m) \/ Cut(c) \/ CloseConn(c)
  PROVE  TransportTypeOK'
<1>1. <<m>> \in Seq(ToController) /\ << >> \in Seq(ToController) /\ << >> \in Seq(ToDevice)
  OBVIOUS
<1>2. CASE Connect(c, m)
  BY <1>1, <1>2 DEF TransportTypeOK, Connect
<1>3. CASE Cut(c)
  BY <1>1, <1>3 DEF TransportTypeOK, Cut
<1>4. CASE CloseConn(c)
  BY <1>1, <1>4 DEF TransportTypeOK, CloseConn
<1> QED BY <1>2, <1>3, <1>4

LEMMA RegistryTypes ==
  ASSUME RegistryTypeOK, NEW d \in Device, NEW c \in Conn, NEW now \in Nat, NEW l \in Nat,
         \/ register(d, c, now) \/ unregister(d, c)
         \/ update_heartbeat(d, now) \/ update_status(d, l)
  PROVE  RegistryTypeOK'
<1>1. CASE register(d, c, now)
  BY <1>1 DEF RegistryTypeOK, register, Entry
<1>2. CASE unregister(d, c)
  BY <1>2 DEF RegistryTypeOK, unregister
<1>3. CASE update_heartbeat(d, now)
  BY <1>3 DEF RegistryTypeOK, update_heartbeat, is_connected, Entry
<1>4. CASE update_status(d, l)
  BY <1>4 DEF RegistryTypeOK, update_status, is_connected, Entry
<1> QED BY <1>1, <1>2, <1>3, <1>4

LEMMA RecordTypes ==
  ASSUME SamplesTypeOK, NEW channel \in CHANNELS, NEW d \in Device, NEW x \in Sample,
         record(channel, d, x)
  PROVE  SamplesTypeOK'
<1>1. samples[channel][d] \in Seq(Sample)
  BY DEF SamplesTypeOK
<1>2. PushRing(samples[channel][d], x) \in Seq(Sample)
  <2>1. CASE Len(samples[channel][d]) < MAX_SAMPLES
    BY <1>1, <2>1 DEF PushRing
  <2>2. CASE ~(Len(samples[channel][d]) < MAX_SAMPLES)
    <3>1. samples[channel][d] # << >>
      BY <1>1, <2>2, MaxSamplesAssumption
    <3>2. Tail(samples[channel][d]) \in Seq(Sample)
      BY <1>1, <3>1
    <3> QED BY <2>2, <3>2 DEF PushRing
  <2> QED BY <2>1, <2>2
<1> QED BY <1>2 DEF SamplesTypeOK, record

LEMMA ItemTypes ==
  ASSUME PendingTypeOK, NEW c \in Cmd, Tracked(c)
  PROVE  /\ pending[c] \in Item
         /\ pending[c].device_id \in Device /\ pending[c].retry_count \in Nat
BY DEF PendingTypeOK, Tracked, Item

LEMMA AddTypes ==
  ASSUME PendingTypeOK, NEW c \in Cmd, NEW d \in Device, add_command(c, d)
  PROVE  PendingTypeOK'
<1>1. NewItem(d) \in Item
  BY DEF NewItem, Item
<1> QED BY <1>1 DEF PendingTypeOK, add_command

LEMMA MarkTypes ==
  ASSUME PendingTypeOK, SamplesTypeOK, NEW c \in Cmd, mark_received(c) \/ mark_executed(c)
  PROVE  PendingTypeOK' /\ SamplesTypeOK'
<1>1. CASE Tracked(c) /\ (Receive(c) \/ Execute(c))
  <2>1. pending[c] \in Item /\ pending[c].device_id \in Device /\ pending[c].retry_count \in Nat
    BY <1>1, ItemTypes
  <2>2. PendingTypeOK'
    <3>1. CASE Receive(c)
      BY <2>1, <3>1 DEF Receive, PendingTypeOK, Item
    <3>2. CASE Execute(c)
      BY <2>1, <3>2 DEF Execute, SetExecuted, PendingTypeOK, Item
    <3> QED BY <1>1, <3>1, <3>2
  <2>3. PICK channel \in CHANNELS : record_since_send(channel, c)
    BY <1>1 DEF Receive, Execute, SetExecuted, CHANNELS
  <2>4. [cmd_id |-> c, latency |-> pending[c].retry_count] \in Sample
    BY <2>1 DEF Sample
  <2>5. SamplesTypeOK'
    BY <2>1, <2>3, <2>4, RecordTypes DEF record_since_send
  <2> QED BY <2>2, <2>5
<1>2. CASE UNCHANGED <<pending, samples>>
  BY <1>2 DEF PendingTypeOK, SamplesTypeOK
<1> QED BY <1>1, <1>2 DEF mark_received, mark_executed

LEMMA UpdateTypes ==
  ASSUME PendingTypeOK, NEW c \in Cmd,
         mark_failed(c) \/ bump_retry(c) \/ AckTimeout(c) \/ RetentionElapses(c)
  PROVE  PendingTypeOK'
<1>1. CASE ~Tracked(c)
  BY <1>1 DEF PendingTypeOK, mark_failed, bump_retry, AckTimeout, RetentionElapses
<1>2. CASE Tracked(c)
  <2>1. pending[c] \in Item
    BY <1>2, ItemTypes
  <2>2. CASE mark_failed(c)
    BY <1>2, <2>1, <2>2 DEF mark_failed, PendingTypeOK, Item
  <2>3. CASE bump_retry(c)
    <3>1. pending[c].retry_count + 1 \in Nat
      BY <1>2, ItemTypes
    <3>2. pending' = [pending EXCEPT ![c].retry_count = pending[c].retry_count + 1,
                                     ![c].overdue = FALSE]
      BY <1>2, <2>3 DEF bump_retry
    <3> QED BY <2>1, <3>1, <3>2 DEF PendingTypeOK, Item
  <2>4. CASE AckTimeout(c)
    BY <1>2, <2>1, <2>4 DEF AckTimeout, PendingTypeOK, Item
  <2>5. CASE RetentionElapses(c)
    BY <1>2, <2>1, <2>5 DEF RetentionElapses, PendingTypeOK, Item
  <2> QED BY <2>2, <2>3, <2>4, <2>5
<1> QED BY <1>1, <1>2

LEMMA PruneTypes == ASSUME PendingTypeOK, prune PROVE PendingTypeOK'
BY DEF PendingTypeOK, prune
-----------------------------------------------------------------------------
(* A queue loses frames at its head and gets them at its end. *)

Shrinks(old, new) == new \in {old, << >>} \/ (old # << >> /\ new = Tail(old))

LEMMA TailElements ==
  ASSUME NEW S, NEW s \in Seq(S), s # << >>
  PROVE  /\ Tail(s) \in Seq(S) /\ Len(Tail(s)) = Len(s) - 1 /\ Len(s) \in Nat \ {0}
         /\ \A i \in DOMAIN Tail(s) : i + 1 \in DOMAIN s /\ Tail(s)[i] = s[i + 1]
         /\ 1 \in DOMAIN s /\ Head(s) = s[1]
OBVIOUS

LEMMA AppendElements ==
  ASSUME NEW S, NEW s \in Seq(S), NEW m \in S
  PROVE  /\ Append(s, m) \in Seq(S) /\ Len(s) \in Nat
         /\ DOMAIN Append(s, m) = DOMAIN s \cup {Len(s) + 1} /\ Len(s) + 1 \notin DOMAIN s
         /\ \A i \in DOMAIN s : Append(s, m)[i] = s[i]
         /\ Append(s, m)[Len(s) + 1] = m
OBVIOUS

LEMMA ConcatOne ==
  ASSUME NEW S, NEW s \in Seq(S), NEW m \in S
  PROVE  s \o <<m>> = Append(s, m) /\ s \o << >> = s
OBVIOUS

LEMMA TailDiffers == ASSUME NEW S, NEW s \in Seq(S), s # << >> PROVE Tail(s) # s
<1> SUFFICES ASSUME Tail(s) = s PROVE FALSE
  OBVIOUS
<1>1. Len(Tail(s)) = Len(s)
  OBVIOUS
<1>2. Len(Tail(s)) = Len(s) - 1 /\ Len(s) \in Nat
  BY TailElements
<1> QED BY <1>1, <1>2

\* The elements of a ring after a push.
LEMMA PushElements ==
  ASSUME NEW S, NEW s \in Seq(S), NEW x \in S
  PROVE  \E t \in {0, 1} : \A i \in DOMAIN PushRing(s, x) :
           \/ i \in Nat /\ i + t \in DOMAIN s /\ PushRing(s, x)[i] = s[i + t]
           \/ i \in Nat /\ i + t = Len(s) + 1 /\ PushRing(s, x)[i] = x
<1>1. CASE Len(s) < MAX_SAMPLES
  <2>1. \A i \in DOMAIN Append(s, x) :
          \/ i \in Nat /\ i + 0 \in DOMAIN s /\ Append(s, x)[i] = s[i + 0]
          \/ i \in Nat /\ i + 0 = Len(s) + 1 /\ Append(s, x)[i] = x
    OBVIOUS
  <2> QED BY <1>1, <2>1 DEF PushRing
<1>2. CASE ~(Len(s) < MAX_SAMPLES)
  <2>1. s # << >>
    BY <1>2, MaxSamplesAssumption
  <2>2. Tail(s) \in Seq(S) /\ Len(Tail(s)) = Len(s) - 1 /\ Len(s) \in Nat
    BY <2>1
  <2>3. ASSUME NEW i \in DOMAIN Append(Tail(s), x)
        PROVE  \/ i \in Nat /\ i + 1 \in DOMAIN s /\ Append(Tail(s), x)[i] = s[i + 1]
               \/ i \in Nat /\ i + 1 = Len(s) + 1 /\ Append(Tail(s), x)[i] = x
    <3>1. CASE i \in DOMAIN Tail(s)
      BY <2>1, <2>2, <3>1, AppendElements, TailElements
    <3>2. CASE i = Len(Tail(s)) + 1
      BY <2>2, <3>2, AppendElements
    <3> QED BY <2>2, <3>1, <3>2, AppendElements
  <2> QED BY <1>2, <2>3 DEF PushRing
<1> QED BY <1>1, <1>2
-----------------------------------------------------------------------------
(* Where commands are: q[k] is the queue to the device on connection k, h[d] *)
(* what device d has in its hands, r and g the same after a step.            *)

SameAttempt(x, y) == x.cmd_id = y.cmd_id /\ x.attempt = y.attempt

CommandAt(q, k, i) == q[k][i].msg_type = "COMMAND"

\* A transmission is in one place.
InOnePlace(q, h) ==
  /\ \A k, l \in Conn : \A i \in DOMAIN q[k], j \in DOMAIN q[l] :
       CommandAt(q, k, i) /\ CommandAt(q, l, j) /\ SameAttempt(q[k][i], q[l][j])
         => k = l /\ i = j
  /\ \A d, e \in Device : h[d] # None /\ h[e] # None /\ SameAttempt(h[d], h[e]) => d = e
  /\ \A d \in Device, k \in Conn : \A i \in DOMAIN q[k] :
       h[d] # None /\ CommandAt(q, k, i) => ~SameAttempt(h[d], q[k][i])

\* Attempt n of c is in a queue or in the hands of a device.
UnderWay(q, h, c, n) ==
  \/ \E k \in Conn : \E i \in DOMAIN q[k] :
       CommandAt(q, k, i) /\ q[k][i].cmd_id = c /\ q[k][i].attempt = n
  \/ \E d \in Device : h[d] # None /\ h[d].cmd_id = c /\ h[d].attempt = n

NoNewCommand(old, new) ==
  \/ Shrinks(old, new)
  \/ \E m \in ToDevice : m.msg_type # "COMMAND" /\ new = Append(old, m)

Shift(old, new) == IF old # << >> /\ new = Tail(old) THEN 1 ELSE 0

\* Where the commands of a queue that got no new one were before.
LEMMA OldCommand ==
  ASSUME NEW q \in [Conn -> Seq(ToDevice)], NEW r, NEW k \in Conn, NoNewCommand(q[k], r[k]),
         NEW i \in DOMAIN r[k], CommandAt(r, k, i)
  PROVE  LET j == i + Shift(q[k], r[k])
         IN  i \in Nat \ {0} /\ j \in DOMAIN q[k] /\ CommandAt(q, k, j) /\ r[k][i] = q[k][j]
<1> DEFINE old == q[k]
           new == r[k]
<1>1. old \in Seq(ToDevice)
  OBVIOUS
<1>2. i \in Nat \ {0} /\ i + Shift(old, new) \in DOMAIN old /\ new[i] = old[i + Shift(old, new)]
  <2>1. CASE old # << >> /\ new = Tail(old)
    BY <1>1, <2>1, TailElements DEF Shift
  <2>2. CASE new = old
    <3>1. Shift(old, new) = 0
      BY <1>1, <2>2, TailDiffers DEF Shift
    <3>2. i \in Nat \ {0}
      BY <1>1, <2>2
    <3> QED BY <2>2, <3>1, <3>2
  <2>3. CASE new = << >>
    BY <2>3
  <2>4. ASSUME NEW m \in ToDevice, m.msg_type # "COMMAND", new = Append(old, m)
        PROVE  /\ i \in Nat \ {0} /\ i + Shift(old, new) \in DOMAIN old
               /\ new[i] = old[i + Shift(old, new)]
    <3>1. i \in DOMAIN old /\ new[i] = old[i] /\ i \in Nat \ {0}
      BY <1>1, <2>4, AppendElements DEF CommandAt
    <3>2. Shift(old, new) = 0
      <4> SUFFICES ASSUME old # << >>, Append(old, m) = Tail(old) PROVE FALSE
        BY <2>4 DEF Shift
      <4>1. Len(Append(old, m)) = Len(old) + 1 /\ Len(Tail(old)) = Len(old) - 1 /\ Len(old) \in Nat
        BY <1>1
      <4> QED BY <4>1
    <3> QED BY <3>1, <3>2
  <2> QED BY <2>1, <2>2, <2>3, <2>4 DEF NoNewCommand, Shrinks
<1> QED BY <1>2 DEF CommandAt

\* No queue gets a command.
NoneNew(q, r) == \A k \in Conn : NoNewCommand(q[k], r[k])

WereThere(q, r) ==
  \A k \in Conn : \A i \in DOMAIN r[k] : CommandAt(r, k, i) =>
    LET j == i + Shift(q[k], r[k])
    IN  i \in Nat \ {0} /\ j \in DOMAIN q[k] /\ CommandAt(q, k, j) /\ r[k][i] = q[k][j]

LEMMA OldCommands ==
  ASSUME NEW q \in [Conn -> Seq(ToDevice)], NEW r, NoneNew(q, r) PROVE WereThere(q, r)
BY OldCommand DEF NoneNew, WereThere

\* Losing frames and jobs.
LEMMA CommandsLost ==
  ASSUME NEW q \in [Conn -> Seq(ToDevice)], NEW h, NEW r, NEW g, InOnePlace(q, h),
         NoneNew(q, r), \A d \in Device : g[d] \in {h[d], None}
  PROVE  InOnePlace(r, g) /\ \A c, n : UnderWay(r, g, c, n) => UnderWay(q, h, c, n)
<1>0. WereThere(q, r)
  BY OldCommands
<1>1. \A k, l \in Conn : \A i \in DOMAIN r[k], j \in DOMAIN r[l] :
        CommandAt(r, k, i) /\ CommandAt(r, l, j) /\ SameAttempt(r[k][i], r[l][j])
          => k = l /\ i = j
  <2> SUFFICES ASSUME NEW k \in Conn, NEW l \in Conn,
                      NEW i \in DOMAIN r[k], NEW j \in DOMAIN r[l],
                      CommandAt(r, k, i), CommandAt(r, l, j), SameAttempt(r[k][i], r[l][j])
               PROVE  k = l /\ i = j
    OBVIOUS
  <2> DEFINE a == i + Shift(q[k], r[k])
             b == j + Shift(q[l], r[l])
  <2>1. /\ a \in DOMAIN q[k] /\ CommandAt(q, k, a) /\ r[k][i] = q[k][a] /\ i \in Nat
        /\ b \in DOMAIN q[l] /\ CommandAt(q, l, b) /\ r[l][j] = q[l][b] /\ j \in Nat
    BY <1>0 DEF WereThere
  <2>2. k = l /\ a = b
    BY <2>1 DEF InOnePlace
  <2> QED BY <2>1, <2>2 DEF Shift
<1>2. \A d, e \in Device : g[d] # None /\ g[e] # None /\ SameAttempt(g[d], g[e]) => d = e
  BY DEF InOnePlace
<1>3. \A d \in Device, k \in Conn : \A i \in DOMAIN r[k] :
        g[d] # None /\ CommandAt(r, k, i) => ~SameAttempt(g[d], r[k][i])
  BY <1>0 DEF WereThere, InOnePlace
<1>4. \A c, n : UnderWay(r, g, c, n) => UnderWay(q, h, c, n)
  BY <1>0 DEF WereThere, UnderWay
<1> QED BY <1>1, <1>2, <1>3, <1>4 DEF InOnePlace

\* A device takes the frame at the head of its queue.
Takes(q, h, k, d, r, g) ==
  /\ h[d] = None /\ q[k] # << >> /\ Head(q[k]).msg_type = "COMMAND"
  /\ \A l \in Conn : r[l] = IF l = k THEN Tail(q[k]) ELSE q[l]
  /\ \A e \in Device \ {d} : g[e] = h[e]
  /\ g[d] = [cmd_id |-> Head(q[k]).cmd_id, attempt |-> Head(q[k]).attempt]

LEMMA CommandTaken ==
  ASSUME NEW q \in [Conn -> Seq(ToDevice)],
         NEW h \in [Device -> [cmd_id : Cmd, attempt : Nat] \cup {None}],
         NEW r, NEW g, NEW k \in Conn, NEW d \in Device,
         InOnePlace(q, h), Takes(q, h, k, d, r, g)
  PROVE  InOnePlace(r, g) /\ \A c, n : UnderWay(r, g, c, n) => UnderWay(q, h, c, n)
<1> DEFINE m == Head(q[k])
<1>1. NoneNew(q, r)
  BY DEF Takes, Shrinks, NoNewCommand, NoneNew
<1>0. WereThere(q, r)
  BY <1>1, OldCommands
<1>2. 1 \in DOMAIN q[k] /\ m = q[k][1] /\ CommandAt(q, k, 1)
      /\ r[k] = Tail(q[k]) /\ q[k] # << >> /\ h[d] = None
  <2>1. 1 \in DOMAIN q[k] /\ m = q[k][1]
    BY TailElements DEF Takes
  <2> QED BY <2>1 DEF CommandAt, Takes
<1>3. g[d].cmd_id = m.cmd_id /\ g[d].attempt = m.attempt /\ \A e \in Device \ {d} : g[e] = h[e]
  BY DEF Takes
<1>4. \A a, b \in Conn : \A i \in DOMAIN r[a], j \in DOMAIN r[b] :
        CommandAt(r, a, i) /\ CommandAt(r, b, j) /\ SameAttempt(r[a][i], r[b][j])
          => a = b /\ i = j
  <2>1. InOnePlace(r, h)
    BY <1>1, CommandsLost
  <2> QED BY <2>1 DEF InOnePlace
<1>5. \A e \in Device, l \in Conn : \A i \in DOMAIN r[l] :
        g[e] # None /\ CommandAt(r, l, i) => ~SameAttempt(g[e], r[l][i])
  <2> SUFFICES ASSUME NEW e \in Device, NEW l \in Conn, NEW i \in DOMAIN r[l],
                      g[e] # None, CommandAt(r, l, i), SameAttempt(g[e], r[l][i])
               PROVE  FALSE
    OBVIOUS
  <2> DEFINE a == i + Shift(q[l], r[l])
  <2>1. i \in Nat \ {0} /\ a \in DOMAIN q[l] /\ CommandAt(q, l, a) /\ r[l][i] = q[l][a]
    BY <1>0 DEF WereThere
  <2>2. CASE e # d
    BY <1>3, <2>1, <2>2 DEF InOnePlace
  <2>3. CASE e = d
    <3>1. SameAttempt(q[k][1], q[l][a])
      BY <1>2, <1>3, <2>1, <2>3 DEF SameAttempt
    <3>2. l = k /\ a = 1
      BY <1>2, <2>1, <3>1 DEF InOnePlace
    <3> QED BY <1>2, <2>1, <3>2 DEF Shift
  <2> QED BY <2>2, <2>3
<1>6. \A e, f \in Device : g[e] # None /\ g[f] # None /\ SameAttempt(g[e], g[f]) => e = f
  <2>1. \A e \in Device \ {d} : h[e] # None => ~SameAttempt(h[e], q[k][1])
    BY <1>2 DEF InOnePlace
  <2> QED BY <1>2, <1>3, <2>1 DEF InOnePlace, SameAttempt
<1>7. \A c, n : UnderWay(r, g, c, n) => UnderWay(q, h, c, n)
  BY <1>0, <1>2, <1>3 DEF WereThere, UnderWay
<1> QED BY <1>4, <1>5, <1>6, <1>7 DEF InOnePlace

\* A new transmission is put into a queue.
Puts(q, k, m, r) == \A l \in Conn : r[l] = IF l = k THEN Append(q[k], m) ELSE q[l]

LEMMA CommandSent ==
  ASSUME NEW q \in [Conn -> Seq(ToDevice)], NEW h, NEW k \in Conn, InOnePlace(q, h),
         NEW m \in ToDevice, m.msg_type = "COMMAND", ~UnderWay(q, h, m.cmd_id, m.attempt),
         NEW r, Puts(q, k, m, r)
  PROVE  /\ InOnePlace(r, h)
         /\ \A c, n : UnderWay(r, h, c, n) => UnderWay(q, h, c, n) \/ (c = m.cmd_id /\ n = m.attempt)
<1> DEFINE new == Len(q[k]) + 1
<1>1. ASSUME NEW l \in Conn, NEW i \in DOMAIN r[l]
      PROVE  \/ i \in DOMAIN q[l] /\ r[l][i] = q[l][i]
             \/ l = k /\ i = new /\ r[l][i] = m
  <2>1. CASE l = k
    <3>1. r[l] = Append(q[l], m)
      BY <2>1 DEF Puts
    <3> QED BY <2>1, <3>1, AppendElements
  <2>2. CASE l # k
    BY <2>2 DEF Puts
  <2> QED BY <2>1, <2>2
<1>2. \A l \in Conn : \A i \in DOMAIN q[l] : CommandAt(q, l, i) => ~SameAttempt(q[l][i], m)
  BY DEF UnderWay, SameAttempt
<1>3. \A d \in Device : h[d] # None => ~SameAttempt(h[d], m)
  BY DEF UnderWay, SameAttempt
<1>4. \A a, b \in Conn : \A i \in DOMAIN r[a], j \in DOMAIN r[b] :
        CommandAt(r, a, i) /\ CommandAt(r, b, j) /\ SameAttempt(r[a][i], r[b][j])
          => a = b /\ i = j
  <2> SUFFICES ASSUME NEW a \in Conn, NEW b \in Conn, NEW i \in DOMAIN r[a], NEW j \in DOMAIN r[b],
                      CommandAt(r, a, i), CommandAt(r, b, j), SameAttempt(r[a][i], r[b][j])
               PROVE  a = b /\ i = j
    OBVIOUS
  <2>1. CASE i \in DOMAIN q[a] /\ r[a][i] = q[a][i]
    <3>1. CommandAt(q, a, i)
      BY <2>1 DEF CommandAt
    <3>2. CASE j \in DOMAIN q[b] /\ r[b][j] = q[b][j]
      <4>1. CommandAt(q, b, j)
        BY <3>2 DEF CommandAt
      <4> QED BY <2>1, <3>1, <3>2, <4>1 DEF InOnePlace
    <3>3. CASE r[b][j] = m
      BY <1>2, <2>1, <3>1, <3>3
    <3> QED BY <1>1, <3>2, <3>3
  <2>2. CASE a = k /\ i = new /\ r[a][i] = m
    <3>1. CASE j \in DOMAIN q[b] /\ r[b][j] = q[b][j]
      <4>1. CommandAt(q, b, j)
        BY <3>1 DEF CommandAt
      <4> QED BY <1>2, <2>2, <3>1, <4>1 DEF SameAttempt
    <3>2. CASE b = k /\ j = new
      BY <2>2, <3>2
    <3> QED BY <1>1, <3>1, <3>2
  <2> QED BY <1>1, <2>1, <2>2
<1>5. \A d, e \in Device : h[d] # None /\ h[e] # None /\ SameAttempt(h[d], h[e]) => d = e
  BY DEF InOnePlace
<1>6. \A d \in Device, l \in Conn : \A i \in DOMAIN r[l] :
        h[d] # None /\ CommandAt(r, l, i) => ~SameAttempt(h[d], r[l][i])
  BY <1>1, <1>3 DEF InOnePlace, CommandAt
<1>7. \A c, n : UnderWay(r, h, c, n) => UnderWay(q, h, c, n) \/ (c = m.cmd_id /\ n = m.attempt)
  BY <1>1 DEF UnderWay, CommandAt
<1> QED BY <1>4, <1>5, <1>6, <1>7 DEF InOnePlace
-----------------------------------------------------------------------------
(* The session threads. *)

\* A session that serves a device knows its name.
SessionCoherent ==
  \A c \in Conn : handler[c] \in {"registered", "open", "status"} => device_id[c] \in Device

\* What the controller holds, whoever its peers are.
ServerTypeOK ==
  /\ TransportTypeOK /\ RegistryTypeOK /\ PendingTypeOK /\ SamplesTypeOK
  /\ SessionTypeOK /\ SessionCoherent

\* What a step leaves alone keeps its type.
LEMMA ServerUnchanged ==
  ASSUME ServerTypeOK
  PROVE  /\ UNCHANGED registry => RegistryTypeOK'
         /\ UNCHANGED samples => SamplesTypeOK'
         /\ UNCHANGED pending => PendingTypeOK'
         /\ UNCHANGED transportVars => TransportTypeOK'
         /\ UNCHANGED sessionVars => SessionTypeOK' /\ SessionCoherent'
BY DEF ServerTypeOK, RegistryTypeOK, SamplesTypeOK, PendingTypeOK, transportVars,
       TransportTypeOK, sessionVars, SessionTypeOK, SessionCoherent

LEMMA AcceptTypes ==
  ASSUME ServerTypeOK, NEW c \in Conn, Accept(c) PROVE ServerTypeOK'
<1>1. SessionTypeOK' /\ SessionCoherent'
  BY DEF ServerTypeOK, Accept, Goto, SessionTypeOK, SessionCoherent
<1> QED BY <1>1, ServerUnchanged DEF Accept, ServerTypeOK

LEMMA ServerTypes ==
  ASSUME ServerTypeOK, NEW c \in Conn, NEW now \in Nat, SessionStep(c, now)
  PROVE  ServerTypeOK'
<1> USE DEF ServerTypeOK
<1>1. CASE SessionGarbage(c)
  BY <1>1, RecvTypes, ServerUnchanged DEF SessionGarbage
<1>2. CASE SessionReject(c)
  <2>1. TransportTypeOK'
    BY <1>2, FrameTypes, SendTypes, SendRaisesTypes DEF SessionReject
  <2>2. SessionTypeOK' /\ SessionCoherent'
    BY <1>2 DEF SessionReject, Goto, SessionTypeOK, SessionCoherent
  <2> QED BY <1>2, <2>1, <2>2, ServerUnchanged DEF SessionReject
<1>3. CASE SessionGreet(c)
  <2>1. TransportTypeOK'
    BY <1>3, FrameTypes, SendTypes, SendRaisesTypes DEF SessionGreet
  <2>2. SessionTypeOK' /\ SessionCoherent'
    BY <1>3 DEF SessionGreet, Goto, SessionTypeOK, SessionCoherent
  <2> QED BY <1>3, <2>1, <2>2, ServerUnchanged DEF SessionGreet
<1>4. CASE SessionTimeout(c) \/ SessionHangup(c)
  <2>1. SessionTypeOK' /\ SessionCoherent'
    BY <1>4 DEF SessionTimeout, SessionHangup, Goto, SessionTypeOK, SessionCoherent
  <2> QED BY <1>4, <2>1, ServerUnchanged DEF SessionTimeout, SessionHangup
<1>5. CASE SessionHeartbeatAck(c, now)
  <2>1. device_id[c] \in Device
    BY <1>5 DEF SessionHeartbeatAck, SessionCoherent
  <2>2. TransportTypeOK'
    BY <1>5, RecvTypes DEF SessionHeartbeatAck
  <2>3. RegistryTypeOK'
    BY <1>5, <2>1, RegistryTypes DEF SessionHeartbeatAck
  <2>4. SamplesTypeOK'
    <3>1. CASE HeartbeatRtt(device_id[c], now) # None
      <4>1. HeartbeatRtt(device_id[c], now) \in Nat
        BY <2>1, <3>1 DEF HeartbeatRtt, is_connected, RegistryTypeOK, Entry
      <4>2. [cmd_id |-> None, latency |-> HeartbeatRtt(device_id[c], now)] \in Sample
        BY <4>1 DEF Sample
      <4> QED BY <1>5, <2>1, <3>1, <4>2, RecordTypes DEF SessionHeartbeatAck, CHANNELS
    <3>2. CASE ~(HeartbeatRtt(device_id[c], now) # None)
      BY <1>5, <3>2 DEF SessionHeartbeatAck, SamplesTypeOK
    <3> QED BY <3>1, <3>2
  <2> QED BY <1>5, <2>2, <2>3, <2>4, ServerUnchanged DEF SessionHeartbeatAck
<1>6. CASE SessionUnregister(c)
  <2>1. RegistryTypeOK'
    BY <1>6, RegistryTypes DEF SessionUnregister, SessionTypeOK, RegistryTypeOK
  <2>2. SessionTypeOK' /\ SessionCoherent'
    BY <1>6 DEF SessionUnregister, Goto, SessionTypeOK, SessionCoherent
  <2> QED BY <1>6, <2>1, <2>2, ServerUnchanged DEF SessionUnregister
<1>7. CASE SessionClose(c)
  <2>1. TransportTypeOK'
    BY <1>7, FrameTypes, ConnectionTypes DEF SessionClose
  <2>2. SessionTypeOK' /\ SessionCoherent'
    BY <1>7 DEF SessionClose, Goto, SessionTypeOK, SessionCoherent
  <2> QED BY <1>7, <2>1, <2>2, ServerUnchanged DEF SessionClose
<1>8. ASSUME NEW m \in NextLine(c),
             \/ SessionRefuse(c, m) \/ SessionRegister(c, m, now) \/ SessionReceivedAck(c, m)
             \/ SessionStatus(c, m) \/ SessionStatusDone(c, m) \/ SessionIgnore(c, m)
      PROVE  ServerTypeOK'
  <2>1. CASE SessionRefuse(c, m)
    <3>1. SessionTypeOK' /\ SessionCoherent'
      BY <2>1 DEF SessionRefuse, Goto, SessionTypeOK, SessionCoherent
    <3> QED BY <2>1, <3>1, RecvTypes, ServerUnchanged DEF SessionRefuse
  <2>2. CASE SessionRegister(c, m, now)
    <3>1. TransportTypeOK' /\ m \in ToController
      BY <2>2, RecvTypes DEF SessionRegister
    <3>2. m.device_id \in Device
      BY <2>2, <3>1, Fields DEF SessionRegister, Acceptable
    <3>3. RegistryTypeOK'
      BY <2>2, <3>2, RegistryTypes DEF SessionRegister
    <3>4. SessionTypeOK' /\ SessionCoherent'
      BY <2>2, <3>2 DEF SessionRegister, Goto, SessionTypeOK, SessionCoherent
    <3> QED BY <2>2, <3>1, <3>3, <3>4, ServerUnchanged DEF SessionRegister
  <2>3. CASE SessionReceivedAck(c, m)
    <3>1. TransportTypeOK' /\ m.cmd_id \in Cmd
      BY <2>3, RecvTypes, Fields DEF SessionReceivedAck
    <3>2. PendingTypeOK' /\ SamplesTypeOK'
      BY <2>3, <3>1, MarkTypes DEF SessionReceivedAck
    <3> QED BY <2>3, <3>1, <3>2, ServerUnchanged DEF SessionReceivedAck
  <2>4. CASE SessionStatus(c, m)
    <3>1. device_id[c] \in Device
      BY <2>4 DEF SessionStatus, Goto, SessionCoherent
    <3>2. m \in ToController
      BY <2>4 DEF SessionStatus, TransportTypeOK
    <3>3. RegistryTypeOK'
      BY <2>4, <3>1, <3>2, Fields, RegistryTypes DEF SessionStatus
    <3>4. SessionTypeOK' /\ SessionCoherent'
      BY <2>4, <3>1 DEF SessionStatus, Goto, SessionTypeOK, SessionCoherent
    <3> QED BY <2>4, <3>3, <3>4, ServerUnchanged DEF SessionStatus
  <2>5. CASE SessionStatusDone(c, m)
    <3>1. TransportTypeOK' /\ m.cmd_id \in Cmd \cup {None}
      BY <2>5, RecvTypes, Fields DEF SessionStatusDone
    <3>2. PendingTypeOK' /\ SamplesTypeOK'
      BY <2>5, <3>1, MarkTypes, ServerUnchanged DEF SessionStatusDone
    <3>3. SessionTypeOK' /\ SessionCoherent'
      BY <2>5 DEF SessionStatusDone, Goto, SessionTypeOK, SessionCoherent
    <3> QED BY <2>5, <3>1, <3>2, <3>3, ServerUnchanged DEF SessionStatusDone
  <2>6. CASE SessionIgnore(c, m)
    BY <2>6, RecvTypes, ServerUnchanged DEF SessionIgnore
  <2> QED BY <1>8, <2>1, <2>2, <2>3, <2>4, <2>5, <2>6
<1> QED BY <1>1, <1>2, <1>3, <1>4, <1>5, <1>6, <1>7, <1>8 DEF SessionStep

-----------------------------------------------------------------------------
(* What a step may do to the sessions and the registry. *)

Moves ==
  {<<"none", "accepted">>, <<"accepted", "refusing">>, <<"accepted", "registered">>,
   <<"accepted", "closing">>, <<"refusing", "closing">>, <<"registered", "open">>,
   <<"registered", "closing">>, <<"open", "status">>, <<"open", "closing">>,
   <<"status", "open">>, <<"closing", "unregistered">>, <<"unregistered", "closed">>}

\* The session of k takes the name of the AUTH it reads.
Named(k) ==
  /\ handler[k] = "accepted" /\ handler'[k] = "registered"
  /\ up[k] # << >> /\ Acceptable(Head(up[k]))
  /\ device_id'[k] = Head(up[k]).device_id

HandlerMoves(k) ==
  /\ handler'[k] = handler[k] \/ <<handler[k], handler'[k]>> \in Moves
  /\ handler[k] = "none" /\ handler'[k] # "none" => link[k] # "unused"

EntryStays(d) == is_connected(d) /\ registry'[d].conn = registry[d].conn

EntryMoves(d) ==
  is_connected(d)' =>
    EntryStays(d) \/ \E k \in Conn : Named(k) /\ device_id'[k] = d /\ registry'[d].conn = k

\* An entry goes with the session that leaves.
EntryLeaves(k) ==
  handler[k] = "closing" /\ handler'[k] = "unregistered" =>
    \A d \in Device : device_id[k] = d => ~(is_connected(d)' /\ registry'[d].conn = k)

SessionMoves ==
  /\ \A k \in Conn : HandlerMoves(k) /\ EntryLeaves(k)
  /\ \A k \in Conn : device_id'[k] = device_id[k] \/ Named(k)
  /\ \A d \in Device : EntryMoves(d)

LEMMA QuietSessions ==
  ASSUME UNCHANGED <<registry, sessionVars>> PROVE SessionMoves
BY DEF SessionMoves, HandlerMoves, EntryMoves, EntryStays, EntryLeaves, sessionVars, is_connected

\* A step of c's thread along Moves that neither registers nor unregisters.
LEMMA OneMove ==
  ASSUME ServerTypeOK, NEW c \in Conn, NEW from, NEW to, Goto(c, from, to),
         <<from, to>> \in Moves, from # "closing", from = "none" => link[c] # "unused",
         UNCHANGED device_id,
         \A d \in Device : is_connected(d)' => EntryStays(d)
  PROVE  SessionMoves
<1> USE DEF ServerTypeOK, SessionTypeOK
<1>1. \A k \in Conn : handler'[k] = IF k = c THEN to ELSE handler[k]
  BY DEF Goto
<1>2. handler[c] = from
  BY DEF Goto
<1>3. \A k \in Conn : HandlerMoves(k)
  BY <1>1, <1>2 DEF HandlerMoves
<1>4. \A k \in Conn : EntryLeaves(k)
  BY <1>1, <1>2 DEF EntryLeaves
<1>5. \A d \in Device : EntryMoves(d)
  BY DEF EntryMoves
<1> QED BY <1>3, <1>4, <1>5 DEF SessionMoves

LEMMA SessionStepMoves ==
  ASSUME ServerTypeOK, NEW c \in Conn, NEW now \in Nat, SessionStep(c, now) PROVE SessionMoves
<1> USE DEF ServerTypeOK
<1>0. UNCHANGED registry => \A d \in Device : is_connected(d)' => EntryStays(d)
  BY DEF EntryStays, is_connected
<1>1. CASE SessionGarbage(c)
  BY <1>1, QuietSessions DEF SessionGarbage
<1>2. CASE SessionReject(c)
  BY <1>0, <1>2, OneMove DEF SessionReject, Moves
<1>3. CASE SessionGreet(c)
  BY <1>0, <1>3, OneMove DEF SessionGreet, Moves
<1>4. CASE SessionTimeout(c) \/ SessionHangup(c)
  BY <1>0, <1>4, OneMove DEF SessionTimeout, SessionHangup, Moves
<1>5. CASE SessionHeartbeatAck(c, now)
  <2>1. \A d \in Device : is_connected(d)' => EntryStays(d)
    BY <1>5, NoneIsNoEntry
       DEF SessionHeartbeatAck, update_heartbeat, is_connected, EntryStays, RegistryTypeOK, Entry
  <2> QED BY <1>5, <2>1 DEF SessionHeartbeatAck, SessionMoves, HandlerMoves, EntryMoves,
                            EntryLeaves, sessionVars
<1>6. CASE SessionUnregister(c)
  <2>1. /\ handler[c] = "closing" /\ handler' = [handler EXCEPT ![c] = "unregistered"]
        /\ device_id' = device_id /\ device_id[c] \in Device \cup {None}
    BY <1>6 DEF SessionUnregister, Goto, SessionTypeOK
  <2>2. \A d \in Device : is_connected(d)' =>
          EntryStays(d) /\ ~(device_id[c] = d /\ registry'[d].conn = c)
    <3> SUFFICES ASSUME NEW d \in Device, is_connected(d)'
                 PROVE  EntryStays(d) /\ ~(device_id[c] = d /\ registry'[d].conn = c)
      OBVIOUS
    <3>1. CASE device_id[c] = None
      BY <1>6, <3>1, NoneAssumption DEF SessionUnregister, EntryStays, is_connected
    <3>2. CASE device_id[c] # None
      <4>1. unregister(device_id[c], c) /\ device_id[c] \in Device
        BY <1>6, <2>1, <3>2 DEF SessionUnregister
      <4>2. CASE HoldsSocket(device_id[c], c)
        BY <4>1, <4>2 DEF unregister, RegistryTypeOK, is_connected, EntryStays
      <4>3. CASE ~HoldsSocket(device_id[c], c)
        BY <4>1, <4>3 DEF unregister, HoldsSocket, is_connected, EntryStays
      <4> QED BY <4>2, <4>3
    <3> QED BY <3>1, <3>2
  <2>3. \A k \in Conn : handler'[k] = IF k = c THEN "unregistered" ELSE handler[k]
    BY <2>1 DEF SessionTypeOK
  <2>4. \A k \in Conn : HandlerMoves(k)
    BY <2>1, <2>3 DEF HandlerMoves, Moves
  <2>5. \A k \in Conn : EntryLeaves(k)
    BY <2>1, <2>2, <2>3 DEF EntryLeaves
  <2> QED BY <2>1, <2>2, <2>4, <2>5 DEF SessionMoves, EntryMoves
<1>7. CASE SessionClose(c)
  BY <1>0, <1>7, OneMove DEF SessionClose, Moves
<1>8. ASSUME NEW m \in NextLine(c), SessionRefuse(c, m) PROVE SessionMoves
  BY <1>0, <1>8, OneMove DEF SessionRefuse, Moves
<1>9. ASSUME NEW m \in NextLine(c), SessionRegister(c, m, now) PROVE SessionMoves
  <2>1. /\ handler[c] = "accepted" /\ handler' = [handler EXCEPT ![c] = "registered"]
        /\ device_id' = [device_id EXCEPT ![c] = m.device_id]
        /\ up[c] # << >> /\ m = Head(up[c]) /\ Acceptable(m)
        /\ register(m.device_id, c, now)
    BY <1>9 DEF SessionRegister, Goto, RecvLine
  <2>2. m.device_id \in Device
    BY <1>9, <2>1, RecvTypes, Fields DEF SessionRegister, Acceptable
  <2>3. Named(c) /\ device_id'[c] = m.device_id
    BY <2>1 DEF Named, SessionTypeOK
  <2>4. \A k \in Conn : k # c => handler'[k] = handler[k] /\ device_id'[k] = device_id[k]
    BY <2>1 DEF SessionTypeOK
  <2>5. \A k \in Conn : HandlerMoves(k) /\ EntryLeaves(k)
    BY <2>3, <2>4 DEF HandlerMoves, EntryLeaves, Moves, Named
  <2>6. \A d \in Device : EntryMoves(d)
    <3> SUFFICES ASSUME NEW d \in Device, is_connected(d)' PROVE
          EntryStays(d) \/ \E k \in Conn : Named(k) /\ device_id'[k] = d /\ registry'[d].conn = k
      BY DEF EntryMoves
    <3>1. CASE d = m.device_id
      BY <2>1, <2>3, <3>1 DEF register, RegistryTypeOK
    <3>2. CASE d # m.device_id
      BY <2>1, <3>2 DEF register, EntryStays, is_connected, RegistryTypeOK
    <3> QED BY <3>1, <3>2
  <2> QED BY <2>3, <2>4, <2>5, <2>6 DEF SessionMoves
<1>10. ASSUME NEW m \in NextLine(c),
              SessionReceivedAck(c, m) \/ SessionIgnore(c, m) PROVE SessionMoves
  BY <1>10, QuietSessions DEF SessionReceivedAck, SessionIgnore
<1>11. ASSUME NEW m \in NextLine(c), SessionStatus(c, m) PROVE SessionMoves
  <2>1. \A d \in Device : is_connected(d)' => EntryStays(d)
    BY <1>11, NoneIsNoEntry
       DEF SessionStatus, update_status, is_connected, EntryStays, RegistryTypeOK, Entry
  <2> QED BY <1>11, <2>1, OneMove DEF SessionStatus, Moves
<1>12. ASSUME NEW m \in NextLine(c), SessionStatusDone(c, m) PROVE SessionMoves
  BY <1>0, <1>12, OneMove DEF SessionStatusDone, Moves
<1> QED BY <1>1, <1>2, <1>3, <1>4, <1>5, <1>6, <1>7, <1>8, <1>9, <1>10, <1>11, <1>12
        DEF SessionStep

LEMMA AcceptMoves ==
  ASSUME ServerTypeOK, NEW c \in Conn, Accept(c) PROVE SessionMoves
<1>1. UNCHANGED registry => \A d \in Device : is_connected(d)' => EntryStays(d)
  BY DEF EntryStays, is_connected
<1> QED BY <1>1, OneMove DEF Accept, Moves
=============================================================================
