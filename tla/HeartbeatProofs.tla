-------------------------- MODULE HeartbeatProofs ---------------------------
(***************************************************************************)
(* The heartbeat loop works on a copy of the registry that sessions change *)
(* under it, and no harm comes of it: for any number of devices and        *)
(* connections, any intervals and any speed of the loop.                   *)
(*                                                                         *)
(* Every entry of the registry moves in one of three ways (EntryNext); the *)
(* invariants follow from that and from what the loop knows of the device  *)
(* it has turned to.                                                       *)
(***************************************************************************)
EXTENDS Heartbeat, ComponentProofs, FiniteSetTheorems

(* How often a frame is in a queue. *)

Occurrences(s, m) == Cardinality({i \in DOMAIN s : s[i] = m})

LEMMA OccurrencesNat ==
  ASSUME NEW S, NEW s \in Seq(S), NEW m
  PROVE  /\ IsFiniteSet({i \in DOMAIN s : s[i] = m}) /\ Occurrences(s, m) \in Nat
         /\ (\A i \in DOMAIN s : s[i] # m) => Occurrences(s, m) = 0
         /\ \A i \in DOMAIN s : s[i] = m => Occurrences(s, m) > 0
<1> DEFINE P == {i \in DOMAIN s : s[i] = m}
<1>1. IsFiniteSet(1 .. Len(s)) /\ DOMAIN s = 1 .. Len(s)
  BY FS_Interval
<1>2. IsFiniteSet(P)
  BY <1>1, FS_Subset
<1>3. Cardinality(P) \in Nat /\ (Cardinality(P) = 0 <=> P = {})
  BY <1>2, FS_CardinalityType, FS_EmptySet
<1>4. Occurrences(s, m) = Cardinality(P)
  BY DEF Occurrences
<1>5. (\A i \in DOMAIN s : s[i] # m) => P = {}
  OBVIOUS
<1>6. \A i \in DOMAIN s : s[i] = m => P # {}
  OBVIOUS
<1> HIDE DEF P
<1>7. /\ IsFiniteSet(P) /\ Occurrences(s, m) \in Nat
      /\ (\A i \in DOMAIN s : s[i] # m) => Occurrences(s, m) = 0
      /\ \A i \in DOMAIN s : s[i] = m => Occurrences(s, m) > 0
  BY <1>2, <1>3, <1>4, <1>5, <1>6
<1> QED BY <1>7 DEF P

LEMMA OccurrencesTail ==
  ASSUME NEW S, NEW s \in Seq(S), s # << >>, NEW m
  PROVE  Occurrences(Tail(s), m) = Occurrences(s, m) - (IF Head(s) = m THEN 1 ELSE 0)
<1> DEFINE P == {i \in DOMAIN s : s[i] = m}
           Q == {i \in DOMAIN Tail(s) : Tail(s)[i] = m}
           f == [i \in Q |-> i + 1]
<1>1. /\ Len(s) \in Nat \ {0} /\ DOMAIN s = 1 .. Len(s) /\ DOMAIN Tail(s) = 1 .. Len(s) - 1
      /\ \A i \in DOMAIN Tail(s) : Tail(s)[i] = s[i + 1]
      /\ Head(s) = s[1]
  BY TailElements
<1>2. IsFiniteSet(P) /\ IsFiniteSet(Q) /\ IsFiniteSet(P \ {1})
  <2>1. IsFiniteSet(P)
    BY OccurrencesNat
  <2>2. Tail(s) \in Seq(S)
    OBVIOUS
  <2>3. IsFiniteSet(Q)
    BY <2>2, OccurrencesNat
  <2> QED BY <2>1, <2>3, FS_RemoveElement
<1>3. f \in Bijection(Q, P \ {1})
  <2>1. \A i \in Q : i \in Nat /\ i + 1 \in P \ {1}
    BY <1>1
  <2>2. \A j \in P \ {1} : j - 1 \in Q /\ j = (j - 1) + 1
    BY <1>1
  <2>3. f \in [Q -> P \ {1}] /\ (\A j \in P \ {1} : f[j - 1] = j)
    BY <2>1, <2>2
  <2>4. \A a, b \in Q : f[a] = f[b] => a = b
    BY <2>1
  <2> HIDE DEF f, P, Q
  <2>5. f \in Surjection(Q, P \ {1})
    BY <2>2, <2>3 DEF Surjection
  <2>6. f \in Injection(Q, P \ {1})
    BY <2>3, <2>4 DEF Injection, IsInjective
  <2> QED BY <2>5, <2>6 DEF Bijection
<1>4. Cardinality(P \ {1}) = Cardinality(Q)
  BY <1>2, <1>3, FS_Bijection DEF ExistsBijection
<1>5. Cardinality(P \ {1}) = IF 1 \in P THEN Cardinality(P) - 1 ELSE Cardinality(P)
  BY <1>2, FS_RemoveElement
<1>6. 1 \in P <=> Head(s) = m
  BY <1>1
<1>7. Cardinality(P) \in Nat
  BY <1>2, FS_CardinalityType
<1>8. Occurrences(s, m) = Cardinality(P) /\ Occurrences(Tail(s), m) = Cardinality(Q)
  BY DEF Occurrences
<1> HIDE DEF P, Q
<1> QED BY <1>4, <1>5, <1>6, <1>7, <1>8

LEMMA OccurrencesAppend ==
  ASSUME NEW S, NEW s \in Seq(S), NEW x \in S, NEW m
  PROVE  Occurrences(Append(s, x), m) = Occurrences(s, m) + (IF x = m THEN 1 ELSE 0)
<1> DEFINE P == {i \in DOMAIN s : s[i] = m}
           Q == {i \in DOMAIN Append(s, x) : Append(s, x)[i] = m}
<1>1. /\ DOMAIN Append(s, x) = DOMAIN s \cup {Len(s) + 1} /\ Len(s) + 1 \notin DOMAIN s
      /\ \A i \in DOMAIN s : Append(s, x)[i] = s[i]
      /\ Append(s, x)[Len(s) + 1] = x
  BY AppendElements
<1>2. IsFiniteSet(P) /\ Cardinality(P) \in Nat
  BY OccurrencesNat, FS_CardinalityType
<1>3. CASE x = m
  <2>1. Q = P \cup {Len(s) + 1} /\ Len(s) + 1 \notin P
    BY <1>1, <1>3
  <2>2. Cardinality(P \cup {Len(s) + 1}) = Cardinality(P) + 1
    BY <1>2, <2>1, FS_AddElement
  <2> QED BY <1>3, <2>1, <2>2 DEF Occurrences
<1>4. CASE x # m
  <2>1. Q = P
    BY <1>1, <1>4
  <2>2. Occurrences(Append(s, x), m) = Occurrences(s, m)
    BY <2>1 DEF Occurrences
  <2>3. Occurrences(s, m) \in Nat
    BY OccurrencesNat
  <2> QED BY <1>4, <2>2, <2>3
<1> QED BY <1>3, <1>4

LEMMA OccurrencesShrink ==
  ASSUME NEW S, NEW s \in Seq(S), NEW t, Shrinks(s, t), NEW m
  PROVE  Occurrences(t, m) <= Occurrences(s, m)
<1>1. Occurrences(s, m) \in Nat
  BY OccurrencesNat
<1>2. CASE t = << >>
  <2>1. << >> \in Seq(S) /\ \A i \in DOMAIN << >> : << >>[i] # m
    OBVIOUS
  <2>2. Occurrences(<< >>, m) = 0
    BY <2>1, OccurrencesNat
  <2> QED BY <1>1, <1>2, <2>2
<1>3. CASE s # << >> /\ t = Tail(s)
  BY <1>1, <1>3, OccurrencesTail
<1> QED BY <1>1, <1>2, <1>3 DEF Shrinks
-----------------------------------------------------------------------------
(* The invariant. *)

\* The loop has turned to the device of dev_id, and still has its copy.
Turned == loop.at \notin {"wait", "next"}

LoopCoherent == Turned => loop.dev_id \in Device /\ round[loop.dev_id] # None

\* Every ping on its way, and every answer, was asked for.
AskedFor(c) ==
  Occurrences(down[c], make_heartbeat) + Occurrences(up[c], make_heartbeat_ack) <= Len(asked[c])

PingsAsked == \A c \in Conn : AskedFor(c)

ClockRuns ==
  /\ woke <= now
  /\ Turned => woke <= loop.now /\ loop.now <= now
  /\ \A c \in Conn : \A i \in DOMAIN asked[c] : asked[c][i] <= now

\* An entry, and a copy of one, are of the device whose session it is.
EntriesNamed ==
  \A d \in Device : /\ is_connected(d) => device_id[registry[d].conn] = d
                    /\ round[d] # None => device_id[round[d].conn] = d

\* The local device_id is None until the AUTH is accepted, and the session that
\* leaves with a name leaves a connection that is gone.
SessionsLeave ==
  \A c \in Conn :
    /\ link[c] = "unused" => handler[c] = "none" /\ up[c] = << >>
    /\ handler[c] \in {"none", "accepted", "refusing"} => device_id[c] = None
    /\ handler[c] = "closing" /\ device_id[c] # None => link[c] \in {"cut", "closed"}

\* A ping that failed, failed on a connection that is gone.
FailedIsGone ==
  loop.at \in {"clear", "drop"} => link[round[loop.dev_id].conn] \in {"cut", "closed"}

Timed(d) == is_connected(d) /\ registry[d].heartbeat_sent_at # None

\* The timer of a device does not run from before one of its pings.
TimerIsLate ==
  /\ loop.at = "send" /\ Timed(loop.dev_id) =>
       loop.now <= registry[loop.dev_id].heartbeat_sent_at
  /\ \A c \in Conn : device_id[c] \in Device /\ Timed(device_id[c]) =>
       \A i \in DOMAIN asked[c] : asked[c][i] <= registry[device_id[c]].heartbeat_sent_at

\* Whoever was silent too long when the pass began, and is not flagged, is still
\* in the copy, as the registry has it.
SilentIsCopied ==
  loop.at # "wait" => \A d \in Device :
    /\ is_connected(d) /\ registry[d].alive
    /\ registry[d].last_heartbeat + HEARTBEAT_EVERY + HEARTBEAT_TIMEOUT < woke
    => /\ round[d] # None
       /\ round[d].conn = registry[d].conn
       /\ round[d].last_heartbeat = registry[d].last_heartbeat

HeartbeatInv ==
  /\ TypeOK /\ SessionCoherent /\ LoopCoherent /\ PingsAsked
  /\ ClockRuns /\ EntriesNamed /\ SessionsLeave /\ FailedIsGone
  /\ TimerIsLate /\ SilentIsCopied
-----------------------------------------------------------------------------
(* What a step may do to an entry of the registry. *)

\* The loop arms the timer of d.
Arms(d) == At(d, "arm") /\ loop'.at = "send"

EntryKept(d) ==
  /\ is_connected(d) /\ is_connected(d)'
  /\ registry'[d].conn = registry[d].conn
  /\ registry'[d].last_heartbeat = registry[d].last_heartbeat
  /\ registry'[d].alive => registry[d].alive
  /\ \/ registry'[d].heartbeat_sent_at \in {registry[d].heartbeat_sent_at, None}
     \/ Arms(d) /\ registry'[d].heartbeat_sent_at = now

\* The device answered, or registered.
EntryAnew(d) ==
  /\ is_connected(d)'
  /\ registry'[d].last_heartbeat = now /\ registry'[d].heartbeat_sent_at = None
  /\ \/ is_connected(d) /\ registry'[d].conn = registry[d].conn
     \/ \E k \in Conn : Named(k) /\ device_id'[k] = d /\ registry'[d].conn = k

EntryNext(d) ==
  \/ ~is_connected(d)' /\ (is_connected(d) => link[get_conn(d)] # "up")
  \/ EntryKept(d)
  \/ EntryAnew(d)

LEMMA QuietEntries ==
  ASSUME UNCHANGED registry, NEW d \in Device PROVE EntryNext(d)
BY DEF EntryNext, EntryKept, is_connected

LEMMA LoopEntries ==
  ASSUME HeartbeatInv, HeartbeatLoop
  PROVE  RegistryTypeOK' /\ \A d \in Device : EntryNext(d)
<1> USE DEF HeartbeatInv, TypeOK, RegistryTypeOK
<1> DEFINE Goal == RegistryTypeOK' /\ \A d \in Device : EntryNext(d)
<1>0. UNCHANGED registry => Goal
  BY QuietEntries
<1>1. ASSUME NEW d \in Device, At(d, "arm"), Arm(d), Step("send") PROVE Goal
  <2>1. /\ registry' = IF is_connected(d)
                       THEN [registry EXCEPT ![d].heartbeat_sent_at = now] ELSE registry
        /\ Arms(d) /\ now \in Nat
    BY <1>1 DEF Arm, mark_heartbeat_sent, Arms, At, Step
  <2>2. CASE is_connected(d)
    <3>1. /\ registry'[d] = [registry[d] EXCEPT !.heartbeat_sent_at = now]
          /\ registry[d] \in Entry /\ registry'[d] \in Entry
      BY <2>1, <2>2 DEF is_connected, Entry
    <3>2. RegistryTypeOK' /\ EntryKept(d)
      BY <2>1, <2>2, <3>1, NoneIsNoEntry DEF EntryKept, is_connected, Entry
    <3>3. \A e \in Device \ {d} : registry'[e] = registry[e]
      BY <2>1
    <3> QED BY <3>2, <3>3 DEF EntryNext, EntryKept, is_connected
  <2>3. CASE ~is_connected(d)
    BY <1>0, <2>1, <2>3
  <2> QED BY <2>2, <2>3
<1>2. ASSUME NEW d \in Device, Disarm(d) \/ mark_stale(d) PROVE Goal
  <2>1. PICK s \in Nat \cup {None}, a \in BOOLEAN :
          /\ registry' = IF is_connected(d)
                         THEN [registry EXCEPT ![d].heartbeat_sent_at = s, ![d].alive = a]
                         ELSE registry
          /\ is_connected(d) => /\ s \in {registry[d].heartbeat_sent_at, None}
                                /\ a => registry[d].alive
    <3>1. CASE ~is_connected(d)
      BY <1>2, <3>1 DEF Disarm, clear_heartbeat_sent, mark_stale
    <3>2. CASE is_connected(d) /\ Disarm(d)
      <4>1. registry[d] \in Entry
        BY <3>2 DEF is_connected
      <4>2. registry' = [registry EXCEPT ![d].heartbeat_sent_at = None,
                                         ![d].alive = registry[d].alive]
        BY <3>2, <4>1 DEF Disarm, clear_heartbeat_sent, Entry
      <4> QED BY <3>2, <4>1, <4>2 DEF Entry
    <3>3. CASE is_connected(d) /\ mark_stale(d)
      <4>1. registry[d] \in Entry
        BY <3>3 DEF is_connected
      <4>2. registry' = [registry EXCEPT ![d].heartbeat_sent_at = registry[d].heartbeat_sent_at,
                                         ![d].alive = FALSE]
        BY <3>3, <4>1 DEF mark_stale, Entry
      <4> QED BY <3>3, <4>1, <4>2 DEF Entry
    <3> QED BY <1>2, <3>1, <3>2, <3>3
  <2>2. CASE is_connected(d)
    <3>1. /\ registry'[d] = [registry[d] EXCEPT !.heartbeat_sent_at = s, !.alive = a]
          /\ registry[d] \in Entry /\ registry'[d] \in Entry
      BY <2>1, <2>2 DEF is_connected, Entry
    <3>2. RegistryTypeOK' /\ EntryKept(d)
      BY <2>1, <2>2, <3>1, NoneIsNoEntry DEF EntryKept, is_connected, Entry
    <3>3. \A e \in Device \ {d} : registry'[e] = registry[e]
      BY <2>1
    <3> QED BY <3>2, <3>3 DEF EntryNext, EntryKept, is_connected
  <2>3. CASE ~is_connected(d)
    BY <1>0, <2>1, <2>3
  <2> QED BY <2>2, <2>3
<1>3. ASSUME NEW d \in Device, Drop(d) PROVE Goal
  <2>1. /\ loop.at = "drop" /\ loop.dev_id = d /\ unregister(d, round[d].conn)
        /\ link[round[d].conn] \in {"cut", "closed"}
    BY <1>3 DEF Drop, At, FailedIsGone
  <2>2. CASE HoldsSocket(d, round[d].conn)
    <3>1. registry' = [registry EXCEPT ![d] = None] /\ get_conn(d) = round[d].conn
      BY <2>1, <2>2 DEF unregister, HoldsSocket, get_conn
    <3> QED BY <2>1, <3>1 DEF EntryNext, EntryKept, is_connected
  <2>3. CASE ~HoldsSocket(d, round[d].conn)
    BY <1>0, <2>1, <2>3 DEF unregister
  <2> QED BY <2>2, <2>3
<1>4. ASSUME NEW d \in Device, Check(d) PROVE Goal
  BY <1>0, <1>2, <1>4 DEF Check
<1>5. ASSUME NEW d \in Device, ping_device(d) PROVE Goal
  BY <1>0, <1>1, <1>2, <1>5 DEF ping_device, SendPing, PingFails
<1>6. CASE Wake \/ Sleep \/ \E d \in Device : NextDevice(d)
  BY <1>0, <1>6 DEF Wake, Sleep, NextDevice
<1> QED BY <1>3, <1>4, <1>5, <1>6 DEF HeartbeatLoop

LEMMA SessionEntries ==
  ASSUME HeartbeatInv, NEW c \in Conn, SessionStep(c, now), NEW d \in Device PROVE EntryNext(d)
<1> USE DEF HeartbeatInv, TypeOK, RegistryTypeOK
<1>1. CASE SessionHeartbeatAck(c, now)
  <2>1. update_heartbeat(device_id[c], now) /\ device_id[c] \in Device /\ now \in Nat
    BY <1>1 DEF SessionHeartbeatAck, SessionCoherent
  <2>2. CASE is_connected(device_id[c]) /\ d = device_id[c]
    <3>1. /\ registry'[d] = [registry[d] EXCEPT !.last_heartbeat = now, !.alive = TRUE,
                                                !.heartbeat_sent_at = None]
          /\ registry[d] \in Entry /\ registry'[d] \in Entry
      BY <2>1, <2>2 DEF update_heartbeat, is_connected, Entry
    <3> QED BY <2>2, <3>1, NoneIsNoEntry DEF EntryNext, EntryAnew, is_connected, Entry
  <2>3. CASE ~(is_connected(device_id[c]) /\ d = device_id[c])
    <3>1. registry'[d] = registry[d]
      BY <2>1, <2>3 DEF update_heartbeat
    <3> QED BY <3>1 DEF EntryNext, EntryKept, is_connected
  <2> QED BY <2>2, <2>3
<1>2. ASSUME NEW m \in NextLine(c), SessionRegister(c, m, now) PROVE EntryNext(d)
  <2>1. /\ handler[c] = "accepted" /\ handler' = [handler EXCEPT ![c] = "registered"]
        /\ device_id' = [device_id EXCEPT ![c] = m.device_id]
        /\ up[c] # << >> /\ m = Head(up[c]) /\ Acceptable(m)
        /\ register(m.device_id, c, now)
    BY <1>2 DEF SessionRegister, Goto, RecvLine
  <2>2. CASE d = m.device_id
    <3>1. Named(c) /\ device_id'[c] = d
      BY <2>1, <2>2 DEF Named, SessionTypeOK
    <3>2. registry'[d] = [conn |-> c, last_heartbeat |-> now, heartbeat_sent_at |-> None,
                          alive |-> TRUE, last_status |-> None]
      BY <2>1, <2>2 DEF register
    <3>3. registry'[d] \in Entry
      BY <3>2 DEF Entry
    <3>4. is_connected(d)'
      BY <3>3, NoneIsNoEntry DEF is_connected
    <3>5. /\ registry'[d].last_heartbeat = now /\ registry'[d].heartbeat_sent_at = None
          /\ registry'[d].conn = c
      BY <3>2
    <3> QED BY <3>1, <3>4, <3>5 DEF EntryNext, EntryAnew
  <2>3. CASE d # m.device_id
    <3>1. registry'[d] = registry[d]
      BY <2>1, <2>3 DEF register
    <3> QED BY <3>1 DEF EntryNext, EntryKept, is_connected
  <2> QED BY <2>2, <2>3
<1>3. ASSUME NEW m \in NextLine(c), SessionStatus(c, m) PROVE EntryNext(d)
  <2>1. update_status(device_id[c], m.state)
    BY <1>3 DEF SessionStatus
  <2>2. CASE is_connected(d) /\ d = device_id[c]
    <3>1. /\ registry'[d] = [registry[d] EXCEPT !.last_status = m.state] /\ registry[d] \in Entry
      BY <2>1, <2>2 DEF update_status, is_connected
    <3>2. m.state \in Nat
      BY <1>3, Fields DEF SessionStatus, TransportTypeOK
    <3>3. registry'[d] \in Entry
      BY <3>1, <3>2 DEF Entry
    <3>4. /\ registry'[d].conn = registry[d].conn
          /\ registry'[d].last_heartbeat = registry[d].last_heartbeat
          /\ registry'[d].alive = registry[d].alive
          /\ registry'[d].heartbeat_sent_at = registry[d].heartbeat_sent_at
      BY <3>1 DEF Entry
    <3> QED BY <2>2, <3>3, <3>4, NoneIsNoEntry DEF EntryNext, EntryKept, is_connected
  <2>3. CASE ~(is_connected(d) /\ d = device_id[c])
    <3>1. registry'[d] = registry[d]
      BY <2>1, <2>3 DEF update_status
    <3> QED BY <3>1 DEF EntryNext, EntryKept, is_connected
  <2> QED BY <2>2, <2>3
<1>4. CASE SessionUnregister(c)
  <2>1. /\ handler[c] = "closing"
        /\ IF device_id[c] # None THEN unregister(device_id[c], c) ELSE UNCHANGED registry
    BY <1>4 DEF SessionUnregister, Goto
  <2>2. CASE device_id[c] # None /\ HoldsSocket(device_id[c], c)
    <3>1. registry' = [registry EXCEPT ![device_id[c]] = None] /\ link[c] \in {"cut", "closed"}
      BY <2>1, <2>2 DEF unregister, SessionsLeave
    <3> QED BY <2>2, <3>1 DEF EntryNext, EntryKept, is_connected, HoldsSocket, get_conn
  <2>3. CASE ~(device_id[c] # None /\ HoldsSocket(device_id[c], c))
    BY <2>1, <2>3, QuietEntries DEF unregister
  <2> QED BY <2>2, <2>3
<1>5. \/ UNCHANGED registry \/ SessionHeartbeatAck(c, now) \/ SessionUnregister(c)
      \/ \E m \in NextLine(c) : SessionRegister(c, m, now) \/ SessionStatus(c, m)
  BY DEF SessionStep, SessionGarbage, SessionReject, SessionGreet, SessionTimeout, SessionHangup,
         SessionClose, SessionRefuse, SessionReceivedAck, SessionStatusDone, SessionIgnore
<1> QED BY <1>1, <1>2, <1>3, <1>4, <1>5, QuietEntries

LEMMA NextEntries ==
  ASSUME HeartbeatInv, [Next]_vars, NEW d \in Device PROVE EntryNext(d)
<1>1. \/ HeartbeatLoop \/ UNCHANGED registry
      \/ \E c \in Conn : SessionStep(c, now)
  BY DEF Next, Tick, AcceptLoop, Accept, SessionThread, DeviceStep, vars
<1> QED BY <1>1, LoopEntries, SessionEntries, QuietEntries
-----------------------------------------------------------------------------
(* Pings and answers on a connection. *)

AskedStays(k) == asked'[k] = asked[k]

AskedAnswered(k) == asked[k] # << >> /\ asked'[k] = Tail(asked[k])

AskedAgain(k) ==
  /\ At(loop.dev_id, "send") /\ round[loop.dev_id].conn = k /\ loop'.at = "check"
  /\ asked'[k] = Append(asked[k], loop.now)

AskedNext(k) ==
  /\ AskedFor(k)' /\ asked'[k] \in Seq(Nat)
  /\ AskedStays(k) \/ AskedAnswered(k) \/ AskedAgain(k)

Drains(k) ==
  Shrinks(down[k], down'[k]) /\ Shrinks(up[k], up'[k]) /\ asked'[k] = asked[k]

LEMMA QueueTypes ==
  ASSUME HeartbeatInv, NEW k \in Conn
  PROVE  /\ down[k] \in Seq(ToDevice) /\ up[k] \in Seq(ToController) /\ asked[k] \in Seq(Nat)
         /\ Len(asked[k]) \in Nat
         /\ \A m : Occurrences(down[k], m) \in Nat /\ Occurrences(up[k], m) \in Nat
<1>1. down[k] \in Seq(ToDevice) /\ up[k] \in Seq(ToController) /\ asked[k] \in Seq(Nat)
  BY DEF HeartbeatInv, TypeOK, TransportTypeOK
<1>2. Len(asked[k]) \in Nat
  BY <1>1
<1>3. ASSUME NEW m PROVE Occurrences(down[k], m) \in Nat /\ Occurrences(up[k], m) \in Nat
  BY <1>1, OccurrencesNat
<1> QED BY <1>1, <1>2, <1>3

LEMMA DrainsAsked ==
  ASSUME HeartbeatInv, NEW k \in Conn, Drains(k) PROVE AskedNext(k)
<1> DEFINE a == Occurrences(down[k], make_heartbeat)
           b == Occurrences(up[k], make_heartbeat_ack)
           p == Occurrences(down'[k], make_heartbeat)
           q == Occurrences(up'[k], make_heartbeat_ack)
<1>1. /\ a \in Nat /\ b \in Nat /\ asked[k] \in Seq(Nat) /\ Len(asked[k]) \in Nat
      /\ a + b <= Len(asked[k])
  BY QueueTypes DEF HeartbeatInv, PingsAsked, AskedFor
<1>2. p <= a /\ q <= b
  BY QueueTypes, OccurrencesShrink DEF Drains
<1>3. p \in Nat /\ q \in Nat
  <2>1. down'[k] \in Seq(ToDevice) /\ up'[k] \in Seq(ToController)
    <3>1. \A S : \A s \in Seq(S) : s # << >> => Tail(s) \in Seq(S)
      OBVIOUS
    <3>2. << >> \in Seq(ToDevice) /\ << >> \in Seq(ToController)
      OBVIOUS
    <3> QED BY <3>1, <3>2, QueueTypes DEF Drains, Shrinks
  <2> QED BY <2>1, OccurrencesNat
<1>4. p + q <= Len(asked[k])
  <2> HIDE DEF a, b, p, q
  <2> QED BY <1>1, <1>2, <1>3
<1> QED BY <1>1, <1>4 DEF AskedNext, AskedStays, AskedFor, Drains

LEMMA LoopAsked ==
  ASSUME HeartbeatInv, HeartbeatLoop
  PROVE  TransportTypeOK' /\ link' = link /\ up' = up /\ \A k \in Conn : AskedNext(k)
<1> USE DEF HeartbeatInv, TypeOK
<1> DEFINE Goal == TransportTypeOK' /\ link' = link /\ up' = up /\ \A k \in Conn : AskedNext(k)
<1>1. ASSUME UNCHANGED <<transportVars, asked>> PROVE Goal
  <2>1. \A k \in Conn : AskedNext(k)
    BY <1>1, DrainsAsked DEF Drains, Shrinks, transportVars
  <2> QED BY <1>1, <2>1 DEF transportVars, TransportTypeOK
<1>2. ASSUME NEW d \in Device, At(d, "send"), SendPing(round[d].conn), Step("check") PROVE Goal
  <2>0. PICK c : c = round[d].conn
    OBVIOUS
  <2>1. c \in Conn /\ loop.dev_id = d /\ loop.now \in Nat /\ loop'.at = "check"
    <3>1. round[d] \in Entry
      BY <1>2 DEF At, LoopCoherent, Turned
    <3> QED BY <1>2, <2>0, <3>1 DEF Entry, At, Step
  <2>2. SendOk(c, make_heartbeat) /\ make_heartbeat \in ToDevice
    BY <1>2, <2>0, FrameTypes DEF SendPing
  <2>3. TransportTypeOK' /\ link' = link /\ up' = up
    BY <2>1, <2>2, SendTypes DEF SendOk
  <2>4. ASSUME NEW k \in Conn, k # c \/ link[c] # "up" PROVE AskedNext(k)
    BY <1>2, <2>0, <2>1, <2>2, <2>4, DrainsAsked
       DEF SendPing, SendOk, Drains, Shrinks, TransportTypeOK
  <2>5. ASSUME link[c] = "up" PROVE AskedNext(c)
    <3>1. /\ down'[c] = Append(down[c], make_heartbeat) /\ up'[c] = up[c]
          /\ asked'[c] = Append(asked[c], loop.now)
      BY <1>2, <2>0, <2>1, <2>2, <2>5 DEF SendPing, SendOk, TransportTypeOK
    <3>2. /\ down[c] \in Seq(ToDevice) /\ asked[c] \in Seq(Nat) /\ Len(asked[c]) \in Nat
          /\ Occurrences(down[c], make_heartbeat) \in Nat
          /\ Occurrences(up[c], make_heartbeat_ack) \in Nat
      BY <2>1, QueueTypes
    <3>3. /\ Occurrences(down'[c], make_heartbeat) = Occurrences(down[c], make_heartbeat) + 1
          /\ Occurrences(up'[c], make_heartbeat_ack) = Occurrences(up[c], make_heartbeat_ack)
      BY <2>2, <3>1, <3>2, OccurrencesAppend
    <3>4. asked'[c] \in Seq(Nat) /\ Len(asked'[c]) = Len(asked[c]) + 1
      BY <2>1, <3>1, <3>2
    <3>5. AskedFor(c)
      BY <2>1 DEF PingsAsked
    <3>6. AskedFor(c)'
      BY <3>2, <3>3, <3>4, <3>5 DEF AskedFor
    <3>7. AskedAgain(c)
      BY <1>2, <2>0, <2>1, <3>1 DEF AskedAgain
    <3> QED BY <3>4, <3>6, <3>7 DEF AskedNext
  <2> QED BY <2>3, <2>4, <2>5
<1>3. ASSUME NEW d \in Device, At(d, "send"), PingFails(round[d].conn) PROVE Goal
  BY <1>1, <1>3 DEF PingFails, SendRaises
<1> QED BY <1>1, <1>2, <1>3
        DEF HeartbeatLoop, Wake, Sleep, NextDevice, ping_device, Arm, Disarm, Drop, Check, Done

\* The session reads an answer exactly when one is forgotten.
LEMMA SessionAsked ==
  ASSUME HeartbeatInv, NEW c \in Conn, SessionThread(c), NEW k \in Conn PROVE AskedNext(k)
<1> USE DEF HeartbeatInv, TypeOK, TransportTypeOK, SessionTypeOK
<1>0. ASSUME UNCHANGED <<up, down>> PROVE AskedNext(k)
  <2>1. ~Acks(c)
    BY <1>0, TailDiffers DEF Acks
  <2> QED BY <1>0, <2>1, DrainsAsked DEF SessionThread, Drains, Shrinks
<1>1. ASSUME NEW m, RecvLine(c, m), ~Acks(c) PROVE AskedNext(k)
  BY <1>1, DrainsAsked DEF SessionThread, RecvLine, Drains, Shrinks
<1>2. ASSUME NEW m \in {make_auth_ok, make_auth_fail}, SendOk(c, m) PROVE AskedNext(k)
  <2>1. ~Acks(c) /\ asked' = asked
    BY <1>2, TailDiffers DEF SendOk, Acks, SessionThread
  <2>2. CASE down'[k] = down[k]
    BY <1>2, <2>1, <2>2, DrainsAsked DEF SendOk, Drains, Shrinks
  <2>3. CASE down'[k] # down[k]
    <3>1. down'[k] = Append(down[k], m) /\ up'[k] = up[k] /\ m \in ToDevice /\ m # make_heartbeat
      BY <1>2, <2>3, FrameTypes
         DEF SendOk, make_heartbeat, make_auth_ok, make_auth_fail
    <3>2. Occurrences(down'[k], make_heartbeat) = Occurrences(down[k], make_heartbeat) + 0
      BY <3>1, QueueTypes, OccurrencesAppend
    <3>3. Occurrences(down[k], make_heartbeat) + 0 = Occurrences(down[k], make_heartbeat)
      BY QueueTypes
    <3>4. AskedFor(k)
      BY DEF PingsAsked
    <3>5. AskedFor(k)'
      BY <2>1, <3>1, <3>2, <3>3, <3>4 DEF AskedFor
    <3> QED BY <2>1, <3>5, QueueTypes DEF AskedNext, AskedStays
  <2> QED BY <2>2, <2>3
<1>3. CASE SessionHeartbeatAck(c, now)
  <2>1. /\ handler[c] = "open" /\ up[c] # << >> /\ Head(up[c]) = make_heartbeat_ack
        /\ up'[c] = Tail(up[c]) /\ down' = down /\ (k # c => up'[k] = up[k])
    BY <1>3 DEF SessionHeartbeatAck, RecvLine
  <2>2. Acks(c) /\ asked' = [asked EXCEPT ![c] = Tail(asked[c])]
    BY <2>1 DEF Acks, SessionThread
  <2>3. CASE k # c
    BY <2>1, <2>2, <2>3, DrainsAsked DEF Drains, Shrinks
  <2>4. CASE k = c
    <3>1. Occurrences(up[c], make_heartbeat_ack) > 0
      BY <2>1, QueueTypes, TailElements, OccurrencesNat
    <3>2. Occurrences(up'[c], make_heartbeat_ack) = Occurrences(up[c], make_heartbeat_ack) - 1
      BY <2>1, QueueTypes, OccurrencesTail
    <3>3. AskedFor(c)
      BY DEF PingsAsked
    <3>4. Len(asked[c]) > 0 /\ asked[c] \in Seq(Nat)
      BY <3>1, <3>3, QueueTypes DEF AskedFor
    <3>5. asked[c] # << >> /\ asked'[c] = Tail(asked[c])
      BY <2>2, <3>4
    <3>6. asked'[c] \in Seq(Nat) /\ Len(asked'[c]) = Len(asked[c]) - 1
      BY <3>4, <3>5
    <3>7. AskedFor(c)'
      BY <2>1, <3>2, <3>3, <3>6, QueueTypes DEF AskedFor
    <3> QED BY <2>4, <3>5, <3>6, <3>7 DEF AskedNext, AskedAnswered
  <2> QED BY <2>3, <2>4
<1>4. CASE SessionClose(c)
  <2>1. ~Acks(c)
    BY <1>4 DEF SessionClose, Goto, Acks
  <2> QED BY <1>4, <2>1, DrainsAsked DEF SessionClose, CloseConn, SessionThread, Drains, Shrinks
<1>5. CASE SessionGarbage(c)
  BY <1>1, <1>5 DEF SessionGarbage, RecvLine, Acks, Garbage, make_heartbeat_ack
<1>6. ASSUME NEW m, SessionRefuse(c, m) \/ SessionRegister(c, m, now) \/ SessionStatusDone(c, m)
      PROVE  AskedNext(k)
  BY <1>1, <1>6 DEF SessionRefuse, SessionRegister, SessionStatusDone, Goto, Acks
<1>7. ASSUME NEW m, SessionReceivedAck(c, m) \/ SessionIgnore(c, m) PROVE AskedNext(k)
  BY <1>1, <1>7 DEF SessionReceivedAck, SessionIgnore, RecvLine, Acks, make_heartbeat_ack
<1>8. CASE SessionReject(c) \/ SessionGreet(c)
  BY <1>0, <1>2, <1>8 DEF SessionReject, SessionGreet, SendRaises, transportVars
<1>9. CASE SessionTimeout(c) \/ SessionHangup(c) \/ SessionUnregister(c)
  BY <1>0, <1>9 DEF SessionTimeout, SessionHangup, SessionUnregister, transportVars
<1>10. ASSUME NEW m, SessionStatus(c, m) PROVE AskedNext(k)
  BY <1>0, <1>10 DEF SessionStatus, transportVars
<1> QED BY <1>3, <1>4, <1>5, <1>6, <1>7, <1>8, <1>9, <1>10 DEF SessionThread, SessionStep

LEMMA DeviceAsked ==
  ASSUME HeartbeatInv, NEW d \in Device, DeviceStep(d)
  PROVE  TransportTypeOK' /\ DeviceTypeOK' /\ \A k \in Conn : AskedNext(k)
<1> USE DEF HeartbeatInv, TypeOK, DeviceTypeOK
<1> DEFINE Goal == TransportTypeOK' /\ DeviceTypeOK' /\ \A k \in Conn : AskedNext(k)
<1>0. asked' = asked /\ << >> \in Seq(ToController) /\ (Listening(d) => sock[d] \in Conn)
  BY DEF DeviceStep, Listening
<1>1. CASE DeviceAuthOk(d) \/ DeviceAuthFail(d)
  <2>1. PICK c \in Conn, m \in {make_auth_ok, make_auth_fail} : DeviceExchange(c, m, << >>)
    BY <1>0, <1>1 DEF DeviceAuthOk, DeviceAuthFail
  <2>2. TransportTypeOK'
    BY <1>0, <2>1, ExchangeTypes
  <2>3. ASSUME NEW k \in Conn PROVE AskedNext(k)
    <3>1. up'[k] = up[k]
      BY <2>1, QueueTypes, ConcatOne DEF DeviceExchange, TransportTypeOK
    <3>2. down'[k] = down[k] \/ (down[k] # << >> /\ down'[k] = Tail(down[k]))
      BY <2>1 DEF DeviceExchange, TransportTypeOK
    <3> QED BY <1>0, <3>1, <3>2, DrainsAsked DEF Drains, Shrinks
  <2> QED BY <1>1, <2>2, <2>3 DEF DeviceAuthOk, DeviceAuthFail
<1>2. CASE DeviceHeartbeat(d)
  <2>0. PICK c \in Conn : c = sock[d]
    BY <1>0, <1>2 DEF DeviceHeartbeat
  <2>1. /\ down[c] # << >> /\ Head(down[c]) = make_heartbeat
        /\ down' = [down EXCEPT ![c] = Tail(down[c])]
        /\ up' = IF link[c] = "up" THEN [up EXCEPT ![c] = up[c] \o <<make_heartbeat_ack>>] ELSE up
        /\ DeviceExchange(c, make_heartbeat, <<make_heartbeat_ack>>)
    BY <1>2, <2>0 DEF DeviceHeartbeat, DeviceExchange
  <2>2. make_heartbeat_ack \in ToController /\ <<make_heartbeat_ack>> \in Seq(ToController)
    BY FrameTypes
  <2>3. TransportTypeOK'
    BY <2>1, <2>2, ExchangeTypes
  <2>4. ASSUME NEW k \in Conn, k # c \/ link[c] # "up" PROVE AskedNext(k)
    BY <1>0, <2>1, <2>4, DrainsAsked DEF Drains, Shrinks, TransportTypeOK
  <2>5. ASSUME link[c] = "up" PROVE AskedNext(c)
    <3>1. up'[c] = Append(up[c], make_heartbeat_ack) /\ down'[c] = Tail(down[c])
      BY <2>1, <2>2, <2>5, QueueTypes, ConcatOne DEF TransportTypeOK
    <3>2. Occurrences(up'[c], make_heartbeat_ack) = Occurrences(up[c], make_heartbeat_ack) + 1
      BY <2>2, <3>1, QueueTypes, OccurrencesAppend
    <3>3. Occurrences(down'[c], make_heartbeat) = Occurrences(down[c], make_heartbeat) - 1
      BY <2>1, <3>1, QueueTypes, OccurrencesTail
    <3>4. /\ Occurrences(up[c], make_heartbeat_ack) \in Nat
          /\ Occurrences(down[c], make_heartbeat) \in Nat
          /\ asked'[c] = asked[c] /\ asked[c] \in Seq(Nat) /\ AskedFor(c)
      BY <1>0, QueueTypes DEF PingsAsked
    <3>5. AskedFor(c)'
      BY <3>2, <3>3, <3>4 DEF AskedFor
    <3> QED BY <3>4, <3>5 DEF AskedNext, AskedStays
  <2> QED BY <1>2, <2>3, <2>4, <2>5 DEF DeviceHeartbeat, deviceVars
<1>3. CASE DeviceLost(d)
  <2>1. PICK c \in Conn : c = sock[d] /\ Cut(c)
    BY <1>3 DEF DeviceLost
  <2>2. TransportTypeOK'
    BY <2>1, FrameTypes, ConnectionTypes
  <2>3. \A k \in Conn : AskedNext(k)
    BY <1>0, <2>1, DrainsAsked DEF Cut, Drains, Shrinks, TransportTypeOK
  <2> QED BY <1>3, <2>2, <2>3 DEF DeviceLost
<1>4. ASSUME NEW c \in Conn, DeviceConnect(d, c) PROVE Goal
  <2>1. PICK m \in ToController : m # make_heartbeat_ack /\ Connect(c, m)
    <3>1. make_auth(d, d \notin Misconfigured) # make_heartbeat_ack
      BY DEF make_auth, make_heartbeat_ack
    <3> QED BY <1>4, <3>1, FrameTypes DEF DeviceConnect
  <2>2. TransportTypeOK'
    BY <2>1, ConnectionTypes
  <2>3. ASSUME NEW k \in Conn, k # c PROVE AskedNext(k)
    BY <1>0, <2>1, <2>3, DrainsAsked DEF Connect, Drains, Shrinks, TransportTypeOK
  <2>4. AskedNext(c)
    <3>1. up[c] = << >> /\ up'[c] = Append(up[c], m) /\ down'[c] = down[c]
      BY <2>1 DEF SessionsLeave, Connect, Fresh, TransportTypeOK
    <3>2. Occurrences(up'[c], make_heartbeat_ack) = Occurrences(up[c], make_heartbeat_ack) + 0
      <4>1. up[c] \in Seq(ToController)
        BY QueueTypes
      <4>2. Occurrences(Append(up[c], m), make_heartbeat_ack)
              = Occurrences(up[c], make_heartbeat_ack) + 0
        BY <2>1, <4>1, OccurrencesAppend
      <4> QED BY <3>1, <4>2
    <3>3. Occurrences(up[c], make_heartbeat_ack) \in Nat /\ asked'[c] = asked[c]
          /\ asked[c] \in Seq(Nat) /\ AskedFor(c)
      BY <1>0, QueueTypes DEF PingsAsked
    <3>4. AskedFor(c)'
      BY <3>1, <3>2, <3>3 DEF AskedFor
    <3> QED BY <3>3, <3>4 DEF AskedNext, AskedStays
  <2> QED BY <1>4, <2>2, <2>3, <2>4 DEF DeviceConnect
<1> QED BY <1>1, <1>2, <1>3, <1>4 DEF DeviceStep
-----------------------------------------------------------------------------
(* Every step keeps the type. *)

LEMMA HeartbeatServer == TypeOK /\ SessionCoherent => ServerTypeOK
BY DEF TypeOK, ServerTypeOK

LEMMA NextAsked ==
  ASSUME HeartbeatInv, [Next]_vars PROVE \A k \in Conn : AskedNext(k)
<1>1. ASSUME UNCHANGED <<transportVars, asked>> PROVE \A k \in Conn : AskedNext(k)
  BY <1>1, DrainsAsked DEF Drains, Shrinks, transportVars
<1> QED BY <1>1, LoopAsked, SessionAsked, DeviceAsked DEF Next, Tick, AcceptLoop, Accept, vars

LEMMA AskedTypes ==
  ASSUME HeartbeatInv, [Next]_vars PROVE asked' \in [Conn -> Seq(Nat)] /\ PingsAsked'
<1>1. asked \in [Conn -> Seq(Nat)]
  BY DEF HeartbeatInv, TypeOK
<1>2. asked' = [k \in Conn |-> asked'[k]]
  <2>1. \A c \in Conn : \A s : [asked EXCEPT ![c] = s] = [k \in Conn |-> [asked EXCEPT ![c] = s][k]]
    BY <1>1
  <2>2. asked = [k \in Conn |-> asked[k]]
    BY <1>1
  <2>3. asked' = asked \/ \E c \in Conn : \E s : asked' = [asked EXCEPT ![c] = s]
    <3>1. ASSUME NEW d \in Device, At(d, "send"), SendPing(round[d].conn)
          PROVE  asked' = asked \/ \E c \in Conn : \E s : asked' = [asked EXCEPT ![c] = s]
      <4>1. round[d] \in Entry
        BY <3>1 DEF HeartbeatInv, TypeOK, LoopCoherent, Turned, At
      <4> QED BY <3>1, <4>1 DEF SendPing, Entry
    <3>2. CASE HeartbeatLoop
      BY <3>1, <3>2 DEF HeartbeatLoop, Wake, Sleep, NextDevice, ping_device, Arm, Disarm,
                        PingFails, Drop, Check, Done
    <3>3. ASSUME NEW c \in Conn, SessionThread(c)
          PROVE  asked' = asked \/ \E k \in Conn : \E s : asked' = [asked EXCEPT ![k] = s]
      BY <3>3 DEF SessionThread
    <3> QED BY <3>2, <3>3 DEF Next, Tick, AcceptLoop, DeviceStep, vars
  <2> QED BY <2>1, <2>2, <2>3
<1>3. \A k \in Conn : asked'[k] \in Seq(Nat)
  BY NextAsked DEF AskedNext
<1> QED BY <1>2, <1>3, NextAsked DEF AskedNext, PingsAsked

LEMMA LoopTypes ==
  ASSUME HeartbeatInv, HeartbeatLoop
  PROVE  /\ due' \in Nat /\ woke' \in Nat
         /\ loop' \in [at : {"wait", "next", "arm", "send", "clear", "drop", "check"},
                       dev_id : Device \cup {None}, now : Nat]
         /\ round' \in [Device -> Entry \cup {None}] /\ LoopCoherent'
<1> USE DEF HeartbeatInv, TypeOK, LoopCoherent, Turned
<1>0. now \in Nat /\ HEARTBEAT_EVERY \in Nat
  BY HeartbeatAssumption
<1>1. CASE Wake \/ Sleep
  BY <1>0, <1>1 DEF Wake, Sleep, Between, Waiting, RegistryTypeOK
<1>2. CASE \E d \in Device : NextDevice(d)
  BY <1>0, <1>2 DEF NextDevice
<1>3. CASE \E d \in Device : ping_device(d)
  BY <1>3 DEF ping_device, Step, At
<1>4. ASSUME NEW d \in Device, Done(d)
      PROVE  /\ due' \in Nat /\ woke' \in Nat
             /\ loop' \in [at : {"wait", "next", "arm", "send", "clear", "drop", "check"},
                           dev_id : Device \cup {None}, now : Nat]
             /\ round' \in [Device -> Entry \cup {None}] /\ LoopCoherent'
  <2>1. loop' = Between /\ round' = [round EXCEPT ![d] = None] /\ due' = due /\ woke' = woke
    BY <1>4 DEF Done
  <2>2. round' \in [Device -> Entry \cup {None}]
    BY <2>1
  <2> QED BY <2>1, <2>2 DEF Between
<1> QED BY <1>1, <1>2, <1>3, <1>4 DEF HeartbeatLoop, Drop, Check

LEMMA HeartbeatNextTypes ==
  ASSUME HeartbeatInv, [Next]_vars
  PROVE  TypeOK' /\ SessionCoherent' /\ LoopCoherent' /\ PingsAsked'
<1> USE DEF HeartbeatInv
<1>0. /\ ServerTypeOK /\ asked' \in [Conn -> Seq(Nat)] /\ PingsAsked'
      /\ now \in Nat /\ MaxTime \in Nat
  BY HeartbeatServer, AskedTypes, HeartbeatAssumption DEF TypeOK
<1>1. CASE HeartbeatLoop
  <2>1. TransportTypeOK' /\ RegistryTypeOK'
    BY <1>1, LoopAsked, LoopEntries
  <2>2. DeviceTypeOK' /\ UNCHANGED <<pending, samples, sessionVars, now>>
    BY <1>1 DEF HeartbeatLoop, deviceVars, DeviceTypeOK, TypeOK
  <2> QED BY <1>0, <1>1, <2>1, <2>2, LoopTypes, ServerUnchanged DEF TypeOK
<1>2. ASSUME UNCHANGED heartbeatVars
      PROVE  /\ due' \in Nat /\ woke' \in Nat
             /\ loop' \in [at : {"wait", "next", "arm", "send", "clear", "drop", "check"},
                           dev_id : Device \cup {None}, now : Nat]
             /\ round' \in [Device -> Entry \cup {None}] /\ LoopCoherent'
  BY <1>2 DEF heartbeatVars, TypeOK, LoopCoherent, Turned
<1>3. UNCHANGED deviceVars => DeviceTypeOK'
  BY DEF deviceVars, DeviceTypeOK, TypeOK
<1>4. CASE Tick
  <2>1. now' \in 0 .. MaxTime
    BY <1>0, <1>4 DEF Tick, TypeOK
  <2> QED BY <1>0, <1>2, <1>3, <1>4, <2>1, ServerUnchanged DEF Tick, TypeOK
<1>5. ASSUME NEW c \in Conn, AcceptLoop(c) \/ SessionThread(c)
      PROVE  TypeOK' /\ SessionCoherent' /\ LoopCoherent' /\ PingsAsked'
  <2>1. ServerTypeOK'
    BY <1>0, <1>5, AcceptTypes, ServerTypes DEF AcceptLoop, SessionThread
  <2> QED BY <1>0, <1>2, <1>3, <1>5, <2>1 DEF AcceptLoop, SessionThread, ServerTypeOK, TypeOK
<1>6. ASSUME NEW d \in Device, DeviceStep(d)
      PROVE  TypeOK' /\ SessionCoherent' /\ LoopCoherent' /\ PingsAsked'
  BY <1>0, <1>2, <1>6, DeviceAsked, ServerUnchanged DEF DeviceStep, TypeOK
<1>7. CASE UNCHANGED vars
  BY <1>0, <1>2, <1>3, <1>7, ServerUnchanged DEF vars, TypeOK
<1> QED BY <1>1, <1>4, <1>5, <1>6, <1>7 DEF Next
-----------------------------------------------------------------------------
(* What a step may do to a connection and to the session on it. *)

Gone(s) == s \in {"cut", "closed"}

LinkNext(k) ==
  /\ Gone(link[k]) => Gone(link'[k])
  /\ link'[k] = "unused" => link[k] = "unused" /\ (up[k] = << >> => up'[k] = << >>)

\* A session that was served ends with its connection.
ServedLeave(k) ==
  handler[k] \in {"registered", "open"} /\ handler'[k] = "closing" => Gone(link[k])

\* An entry starts without a timer.
NamedAfresh(k) == Named(k) => registry'[device_id'[k]].heartbeat_sent_at = None

ConnNext(k) == LinkNext(k) /\ ServedLeave(k) /\ NamedAfresh(k)

LEMMA QuietConns ==
  ASSUME UNCHANGED <<transportVars, sessionVars>>, NEW k \in Conn PROVE ConnNext(k)
BY DEF ConnNext, LinkNext, ServedLeave, NamedAfresh, Named, transportVars, sessionVars

LEMMA DeviceConns ==
  ASSUME HeartbeatInv, NEW d \in Device, DeviceStep(d), NEW k \in Conn PROVE ConnNext(k)
<1> USE DEF HeartbeatInv, TypeOK, TransportTypeOK, DeviceTypeOK
<1>1. UNCHANGED sessionVars => ServedLeave(k) /\ NamedAfresh(k)
  BY DEF ServedLeave, NamedAfresh, Named, sessionVars
<1>2. LinkNext(k)
  <2>1. CASE DeviceLost(d)
    BY <2>1 DEF DeviceLost, Cut, LinkNext, Gone
  <2>2. ASSUME NEW c \in Conn, DeviceConnect(d, c) PROVE LinkNext(k)
    BY <2>2 DEF DeviceConnect, Connect, Fresh, LinkNext, Gone
  <2>3. CASE DeviceAuthOk(d) \/ DeviceAuthFail(d) \/ DeviceHeartbeat(d)
    <3>1. PICK c \in Conn : \E m, r : DeviceExchange(c, m, r)
      BY <2>3 DEF DeviceAuthOk, DeviceAuthFail, DeviceHeartbeat, Listening
    <3> QED BY <3>1 DEF DeviceExchange, LinkNext, Gone
  <2> QED BY <2>1, <2>2, <2>3 DEF DeviceStep
<1> QED BY <1>1, <1>2 DEF ConnNext, DeviceStep

LEMMA SessionConns ==
  ASSUME HeartbeatInv, NEW c \in Conn, SessionStep(c, now), NEW k \in Conn PROVE ConnNext(k)
<1> USE DEF HeartbeatInv, TypeOK, TransportTypeOK, SessionTypeOK, SessionCoherent
<1>1. LinkNext(k)
  BY DEF SessionStep, SessionGarbage, SessionReject, SessionGreet, SessionTimeout, SessionHangup,
         SessionHeartbeatAck, SessionUnregister, SessionClose, SessionRefuse, SessionRegister,
         SessionReceivedAck, SessionStatus, SessionStatusDone, SessionIgnore, NextLine,
         RecvLine, SendOk, SendRaises, CloseConn, transportVars, LinkNext, Gone
<1>2. ServedLeave(k)
  BY DEF SessionStep, SessionGarbage, SessionReject, SessionGreet, SessionTimeout, SessionHangup,
         SessionHeartbeatAck, SessionUnregister, SessionClose, SessionRefuse, SessionRegister,
         SessionReceivedAck, SessionStatus, SessionStatusDone, SessionIgnore, NextLine,
         Goto, SendRaises, sessionVars, ServedLeave, Gone
<1>3. NamedAfresh(k)
  <2>1. ASSUME NEW m, SessionRegister(c, m, now) PROVE NamedAfresh(k)
    <3>1. /\ handler' = [handler EXCEPT ![c] = "registered"]
          /\ device_id' = [device_id EXCEPT ![c] = m.device_id]
          /\ register(m.device_id, c, now)
      BY <2>1 DEF SessionRegister, Goto
    <3>2. m.device_id \in Device
      BY <2>1, RecvTypes, Fields DEF SessionRegister, Acceptable
    <3>3. registry'[m.device_id].heartbeat_sent_at = None
      BY <3>1, <3>2 DEF register, RegistryTypeOK
    <3>4. k # c => ~Named(k)
      BY <3>1 DEF Named
    <3>5. device_id'[c] = m.device_id
      BY <3>1
    <3> QED BY <3>3, <3>4, <3>5 DEF NamedAfresh
  <2>2. ASSUME UNCHANGED handler \/ \E from, to : to # "registered" /\ Goto(c, from, to)
        PROVE  NamedAfresh(k)
    BY <2>2 DEF Goto, NamedAfresh, Named
  <2> QED BY <2>1, <2>2
          DEF SessionStep, SessionGarbage, SessionReject, SessionGreet, SessionTimeout,
              SessionHangup, SessionHeartbeatAck, SessionUnregister, SessionClose, SessionRefuse,
              SessionReceivedAck, SessionStatus, SessionStatusDone, SessionIgnore, sessionVars
<1> QED BY <1>1, <1>2, <1>3 DEF ConnNext

LEMMA NextConns ==
  ASSUME HeartbeatInv, [Next]_vars PROVE SessionMoves /\ \A k \in Conn : ConnNext(k)
<1>0. ServerTypeOK /\ now \in Nat
  BY HeartbeatServer, HeartbeatAssumption DEF HeartbeatInv, TypeOK
<1>1. ASSUME UNCHANGED <<transportVars, registry, sessionVars>>
      PROVE  SessionMoves /\ \A k \in Conn : ConnNext(k)
  BY <1>1, QuietSessions, QuietConns
<1>2. CASE HeartbeatLoop
  <2>1. SessionMoves
    <3>1. \A d \in Device : EntryMoves(d)
      BY <1>2, LoopEntries DEF EntryNext, EntryKept, EntryAnew, EntryMoves, EntryStays
    <3>2. UNCHANGED sessionVars
      BY <1>2 DEF HeartbeatLoop
    <3> QED BY <3>1, <3>2 DEF SessionMoves, HandlerMoves, EntryLeaves, sessionVars
  <2>2. \A k \in Conn : ConnNext(k)
    BY <1>2, LoopAsked DEF HeartbeatLoop, ConnNext, LinkNext, ServedLeave, NamedAfresh, Named,
                           sessionVars
  <2> QED BY <2>1, <2>2
<1>3. ASSUME NEW c \in Conn, AcceptLoop(c) PROVE SessionMoves /\ \A k \in Conn : ConnNext(k)
  <2>1. Accept(c) /\ SessionMoves
    BY <1>0, <1>3, AcceptMoves DEF AcceptLoop
  <2>2. \A k \in Conn : ConnNext(k)
    BY <2>1 DEF HeartbeatInv, TypeOK, SessionTypeOK, Accept, Goto, ConnNext, LinkNext, ServedLeave,
                NamedAfresh, Named, transportVars
  <2> QED BY <2>1, <2>2
<1>4. ASSUME NEW c \in Conn, SessionThread(c) PROVE SessionMoves /\ \A k \in Conn : ConnNext(k)
  BY <1>0, <1>4, SessionStepMoves, SessionConns DEF SessionThread
<1>5. ASSUME NEW d \in Device, DeviceStep(d) PROVE SessionMoves /\ \A k \in Conn : ConnNext(k)
  BY <1>5, DeviceConns, QuietSessions DEF DeviceStep
<1> QED BY <1>1, <1>2, <1>3, <1>4, <1>5 DEF Next, Tick, vars

LEMMA NextLeaves ==
  ASSUME HeartbeatInv, [Next]_vars PROVE SessionsLeave'
<1> SUFFICES ASSUME NEW c \in Conn
    PROVE /\ link'[c] = "unused" => handler'[c] = "none" /\ up'[c] = << >>
          /\ handler'[c] \in {"none", "accepted", "refusing"} => device_id'[c] = None
          /\ handler'[c] = "closing" /\ device_id'[c] # None => Gone(link'[c])
  BY DEF SessionsLeave, Gone
<1>1. /\ LinkNext(c) /\ ServedLeave(c) /\ HandlerMoves(c)
      /\ device_id'[c] = device_id[c] \/ Named(c)
  BY NextConns DEF ConnNext, SessionMoves
<1>2. /\ link[c] = "unused" => handler[c] = "none" /\ up[c] = << >>
      /\ handler[c] \in {"none", "accepted", "refusing"} => device_id[c] = None
      /\ handler[c] = "closing" /\ device_id[c] # None => Gone(link[c])
  BY DEF HeartbeatInv, SessionsLeave, Gone
<1>3. link'[c] = "unused" => handler'[c] = "none" /\ up'[c] = << >>
  BY <1>1, <1>2 DEF LinkNext, HandlerMoves
<1>4. handler'[c] \in {"none", "accepted", "refusing"} => device_id'[c] = None
  BY <1>1, <1>2 DEF HandlerMoves, Moves, Named
<1>5. ASSUME handler'[c] = "closing", device_id'[c] # None PROVE Gone(link'[c])
  <2>1. device_id[c] # None
    BY <1>1, <1>5 DEF Named
  <2>2. handler[c] \in {"closing", "registered", "open"}
    BY <1>1, <1>2, <1>5, <2>1 DEF HandlerMoves, Moves
  <2> QED BY <1>1, <1>2, <1>5, <2>1, <2>2 DEF LinkNext, ServedLeave
<1> QED BY <1>3, <1>4, <1>5
-----------------------------------------------------------------------------
(* What a step may do to the copy of the registry. *)

RoundNext(d) ==
  \/ Wake /\ round'[d] = registry[d] /\ UNCHANGED registry
  \/ /\ woke' = woke /\ (loop.at = "wait" => loop'.at = "wait")
     /\ \/ round'[d] = round[d]
        \/ round'[d] = None /\ (Drop(d) \/ Check(d))

LEMMA NextRound ==
  ASSUME HeartbeatInv, [Next]_vars, NEW d \in Device PROVE RoundNext(d)
<1> USE DEF HeartbeatInv, TypeOK
<1>1. UNCHANGED heartbeatVars => RoundNext(d)
  BY DEF heartbeatVars, RoundNext
<1>2. CASE HeartbeatLoop
  <2>1. ASSUME NEW e \in Device, Drop(e) \/ Check(e) PROVE RoundNext(d)
    <3>1. round' = [round EXCEPT ![e] = None] /\ woke' = woke /\ loop.at # "wait"
      BY <2>1 DEF Drop, Check, Done, At
    <3> QED BY <2>1, <3>1 DEF RoundNext
  <2>2. CASE Wake
    BY <2>2 DEF Wake, RoundNext
  <2>3. CASE Sleep
    BY <2>3 DEF Sleep, RoundNext, Waiting
  <2>4. ASSUME NEW e \in Device, NextDevice(e) \/ ping_device(e) PROVE RoundNext(d)
    BY <2>4 DEF NextDevice, ping_device, Step, At, RoundNext
  <2> QED BY <1>2, <2>1, <2>2, <2>3, <2>4 DEF HeartbeatLoop
<1> QED BY <1>1, <1>2 DEF Next, Tick, AcceptLoop, SessionThread, DeviceStep, vars
LEMMA NextNames ==
  ASSUME HeartbeatInv, [Next]_vars, NEW d \in Device
  PROVE  /\ is_connected(d)' => device_id'[registry'[d].conn] = d
         /\ round'[d] # None => device_id'[round'[d].conn] = d
<1> USE DEF HeartbeatInv, TypeOK
<1>1. ASSUME NEW k \in Conn, device_id[k] = d PROVE device_id'[k] = d
  <2>1. ~Named(k)
    BY <1>1, NoneAssumption DEF Named, SessionsLeave
  <2> QED BY <1>1, <2>1, NextConns DEF SessionMoves
<1>2. is_connected(d)' => device_id'[registry'[d].conn] = d
  <2>1. is_connected(d) => registry[d].conn \in Conn /\ device_id[registry[d].conn] = d
    BY DEF EntriesNamed, RegistryTypeOK, is_connected, Entry
  <2> QED BY <1>1, <2>1, NextEntries DEF EntryNext, EntryKept, EntryAnew
<1>3. round'[d] # None => device_id'[round'[d].conn] = d
  <2>1. round[d] # None => round[d].conn \in Conn /\ device_id[round[d].conn] = d
    BY DEF EntriesNamed, Entry
  <2>2. CASE round'[d] \in {round[d], None}
    BY <1>1, <2>1, <2>2
  <2>3. CASE round'[d] = registry[d] /\ UNCHANGED registry
    BY <1>2, <2>3 DEF is_connected
  <2> QED BY <2>2, <2>3, NextRound DEF RoundNext
<1> QED BY <1>2, <1>3

LEMMA NextFailed ==
  ASSUME HeartbeatInv, [Next]_vars PROVE FailedIsGone'
<1> USE DEF HeartbeatInv, TypeOK, FailedIsGone
<1>1. \A k \in Conn : Gone(link[k]) => Gone(link'[k])
  BY NextConns DEF ConnNext, LinkNext
<1>2. Turned => round[loop.dev_id].conn \in Conn
  BY DEF LoopCoherent, Entry
<1>3. CASE UNCHANGED heartbeatVars
  BY <1>1, <1>2, <1>3 DEF heartbeatVars, Turned, Gone
<1>4. CASE HeartbeatLoop
  <2>1. link' = link
    BY <1>4, LoopAsked
  <2>2. ASSUME NEW d \in Device, ping_device(d) PROVE FailedIsGone'
    BY <2>1, <2>2 DEF ping_device, Step, At, PingFails, SendRaises
  <2>3. ASSUME NEW d \in Device, NextDevice(d) \/ Done(d) PROVE FailedIsGone'
    BY <2>3 DEF NextDevice, Done, Between
  <2>4. CASE Wake \/ Sleep
    BY <2>4 DEF Wake, Sleep, Between, Waiting
  <2> QED BY <1>4, <2>2, <2>3, <2>4 DEF HeartbeatLoop, Drop, Check
<1> QED BY <1>3, <1>4 DEF Next, Tick, AcceptLoop, SessionThread, DeviceStep, vars, heartbeatVars

LEMMA NextClock ==
  ASSUME HeartbeatInv, [Next]_vars PROVE ClockRuns'
<1> USE DEF HeartbeatInv, TypeOK
<1>0. /\ now \in Nat /\ now' \in Nat /\ woke \in Nat /\ loop.now \in Nat /\ now <= now'
      /\ woke <= now /\ (Turned => woke <= loop.now /\ loop.now <= now)
  <2>1. now \in Nat /\ now' \in {now, now + 1}
    BY HeartbeatAssumption
       DEF Next, HeartbeatLoop, Tick, AcceptLoop, SessionThread, DeviceStep, vars
  <2> QED BY <2>1 DEF ClockRuns
<1>1. woke' <= now' /\ (Turned' => woke' <= loop'.now /\ loop'.now <= now')
  <2>1. CASE UNCHANGED heartbeatVars
    BY <1>0, <2>1 DEF heartbeatVars, Turned
  <2>2. CASE HeartbeatLoop
    <3>1. ASSUME NEW d \in Device, NextDevice(d)
          PROVE  woke' = woke /\ loop'.now = now /\ now' = now
      BY <2>2, <3>1 DEF NextDevice, HeartbeatLoop
    <3>2. ASSUME NEW d \in Device, ping_device(d)
          PROVE  woke' = woke /\ loop'.now = loop.now /\ Turned
      BY <3>2 DEF ping_device, Step, At, Turned
    <3>3. ASSUME NEW d \in Device, Done(d) PROVE woke' = woke /\ ~Turned'
      BY <3>3 DEF Done, Between, Turned
    <3>4. CASE Wake \/ Sleep
      BY <1>0, <2>2, <3>4 DEF Wake, Sleep, Between, Waiting, Turned, HeartbeatLoop
    <3> QED BY <1>0, <2>2, <3>1, <3>2, <3>3, <3>4 DEF HeartbeatLoop, Drop, Check
  <2> QED BY <2>1, <2>2 DEF Next, Tick, AcceptLoop, SessionThread, DeviceStep, vars, heartbeatVars
<1>2. ASSUME NEW c \in Conn PROVE \A i \in DOMAIN asked'[c] : asked'[c][i] <= now'
  <2>1. asked[c] \in Seq(Nat) /\ \A i \in DOMAIN asked[c] : asked[c][i] \in Nat /\ asked[c][i] <= now'
    BY <1>0 DEF ClockRuns
  <2>2. CASE AskedStays(c)
    BY <2>1, <2>2 DEF AskedStays
  <2>3. CASE AskedAnswered(c)
    BY <2>1, <2>3, TailElements DEF AskedAnswered
  <2>4. CASE AskedAgain(c)
    <3>1. loop.now <= now' /\ asked'[c] = Append(asked[c], loop.now)
      BY <1>0, <2>4 DEF AskedAgain, At, Turned
    <3> QED BY <1>0, <2>1, <3>1, AppendElements
  <2> QED BY <2>2, <2>3, <2>4, NextAsked DEF AskedNext
<1> QED BY <1>1, <1>2 DEF ClockRuns

LEMMA NextTimer ==
  ASSUME HeartbeatInv, [Next]_vars PROVE TimerIsLate'
<1> USE DEF HeartbeatInv, TypeOK
<1>0. now \in Nat /\ loop.now \in Nat
  BY HeartbeatAssumption
<1>1. ASSUME loop'.at = "send", Timed(loop.dev_id)', loop.dev_id \in Device,
             loop'.dev_id = loop.dev_id, loop'.now = loop.now
      PROVE  loop'.now <= registry'[loop'.dev_id].heartbeat_sent_at
  <2> DEFINE d == loop.dev_id
  <2>1. CASE loop.at = "send"
    BY <1>1, <2>1, NextEntries DEF EntryNext, EntryKept, EntryAnew, Arms, At, Timed, TimerIsLate
  <2>2. CASE loop.at # "send"
    <3>1. HeartbeatLoop /\ At(d, "arm") /\ Arm(d)
      BY <1>1, <2>2
         DEF Next, HeartbeatLoop, Tick, AcceptLoop, SessionThread, DeviceStep, vars, heartbeatVars,
             Wake, Sleep, NextDevice, ping_device, Drop, Check, Done, Step, At, Between, Waiting
    <3>2. is_connected(d)
      BY <1>1, <3>1 DEF Timed, Arm, mark_heartbeat_sent, is_connected
    <3>3. registry'[d].heartbeat_sent_at = now
      BY <1>1, <3>1, <3>2 DEF Arm, mark_heartbeat_sent, RegistryTypeOK, Entry, is_connected
    <3> QED BY <1>0, <1>1, <3>1, <3>3 DEF ClockRuns, Turned, At
  <2> QED BY <2>1, <2>2
<1>2. ASSUME loop'.at = "send"
      PROVE  loop.dev_id \in Device /\ loop'.dev_id = loop.dev_id /\ loop'.now = loop.now
  BY <1>2
     DEF Next, HeartbeatLoop, Tick, AcceptLoop, SessionThread, DeviceStep, vars, heartbeatVars,
         Wake, Sleep, NextDevice, ping_device, Drop, Check, Done, Step, At, Between, Waiting,
         LoopCoherent, Turned
<1>3. ASSUME NEW c \in Conn, device_id'[c] \in Device, Timed(device_id[c])', device_id'[c] = device_id[c]
      PROVE  \A i \in DOMAIN asked'[c] : asked'[c][i] <= registry'[device_id[c]].heartbeat_sent_at
  <2> DEFINE d == device_id[c]
  <2>1. asked[c] \in Seq(Nat) /\ \A i \in DOMAIN asked[c] : asked[c][i] \in Nat
    OBVIOUS
  <2>2. CASE At(d, "arm") /\ loop'.at = "send" /\ registry'[d].heartbeat_sent_at = now
    <3>1. ~AskedAgain(c) /\ \A i \in DOMAIN asked[c] : asked[c][i] <= now
      BY <2>2 DEF AskedAgain, At, ClockRuns
    <3>2. \A i \in DOMAIN asked'[c] : \E j \in DOMAIN asked[c] : asked'[c][i] = asked[c][j]
      <4>1. AskedStays(c) \/ AskedAnswered(c)
        BY <3>1, NextAsked DEF AskedNext
      <4>2. CASE AskedStays(c)
        BY <4>2 DEF AskedStays
      <4>3. CASE AskedAnswered(c)
        <5>1. asked[c] # << >> /\ asked'[c] = Tail(asked[c])
          BY <4>3 DEF AskedAnswered
        <5>2. \A i \in DOMAIN Tail(asked[c]) :
                i + 1 \in DOMAIN asked[c] /\ Tail(asked[c])[i] = asked[c][i + 1]
          BY <2>1, <5>1, TailElements
        <5> QED BY <5>1, <5>2
      <4> QED BY <4>1, <4>2, <4>3
    <3> QED BY <2>2, <3>1, <3>2
  <2>3. CASE Timed(d) /\ registry'[d].heartbeat_sent_at = registry[d].heartbeat_sent_at
    <3> DEFINE t == registry[d].heartbeat_sent_at
    <3>1. \A i \in DOMAIN asked[c] : asked[c][i] <= t
      BY <1>3, <2>3 DEF TimerIsLate
    <3>2. CASE AskedStays(c)
      BY <2>3, <3>1, <3>2 DEF AskedStays
    <3>3. CASE AskedAnswered(c)
      BY <2>1, <2>3, <3>1, <3>3, TailElements DEF AskedAnswered
    <3>4. CASE AskedAgain(c)
      <4>1. loop.at = "send" /\ round[loop.dev_id].conn = c /\ asked'[c] = Append(asked[c], loop.now)
        BY <3>4 DEF AskedAgain, At
      <4>2. loop.dev_id = d
        BY <4>1 DEF LoopCoherent, Turned, EntriesNamed
      <4>3. loop.now <= t
        BY <2>3, <4>1, <4>2 DEF TimerIsLate
      <4> QED BY <1>0, <2>1, <2>3, <3>1, <4>1, <4>3, AppendElements
    <3> QED BY <3>2, <3>3, <3>4, NextAsked DEF AskedNext
  <2>4. \/ At(d, "arm") /\ loop'.at = "send" /\ registry'[d].heartbeat_sent_at = now
        \/ Timed(d) /\ registry'[d].heartbeat_sent_at = registry[d].heartbeat_sent_at
    BY <1>3, NextEntries DEF EntryNext, EntryKept, EntryAnew, Arms, Timed
  <2> QED BY <2>2, <2>3, <2>4
<1>4. ASSUME NEW c \in Conn, device_id'[c] \in Device, Timed(device_id[c])', device_id'[c] = device_id[c]
      PROVE  \A i \in DOMAIN asked'[c] : asked'[c][i] <= registry'[device_id'[c]].heartbeat_sent_at
  BY <1>3, <1>4
<1>5. ASSUME NEW c \in Conn, device_id'[c] # device_id[c]
      PROVE  registry'[device_id'[c]].heartbeat_sent_at = None
  BY <1>5, NextConns DEF SessionMoves, ConnNext, NamedAfresh
<1> QED BY <1>1, <1>2, <1>4, <1>5 DEF TimerIsLate, Timed, is_connected

LEMMA NextSilent ==
  ASSUME HeartbeatInv, [Next]_vars PROVE SilentIsCopied'
<1> USE DEF HeartbeatInv, TypeOK
<1> SUFFICES ASSUME loop'.at # "wait", NEW d \in Device, is_connected(d)', registry'[d].alive,
                    registry'[d].last_heartbeat + HEARTBEAT_EVERY + HEARTBEAT_TIMEOUT < woke'
             PROVE  /\ round'[d] # None
                    /\ round'[d].conn = registry'[d].conn
                    /\ round'[d].last_heartbeat = registry'[d].last_heartbeat
  BY DEF SilentIsCopied
<1>0. HEARTBEAT_EVERY \in Nat /\ HEARTBEAT_TIMEOUT \in Nat /\ now \in Nat /\ woke \in Nat
      /\ woke <= now
  BY HeartbeatAssumption DEF ClockRuns
<1>1. CASE Wake /\ round'[d] = registry[d] /\ UNCHANGED registry
  BY <1>1 DEF is_connected
<1>2. CASE woke' = woke /\ loop.at # "wait"
           /\ (round'[d] = round[d] \/ (round'[d] = None /\ (Drop(d) \/ Check(d))))
  <2>1. EntryKept(d)
    <3>1. ~EntryAnew(d)
      BY <1>0, <1>2 DEF EntryAnew
    <3> QED BY <3>1, NextEntries DEF EntryNext
  <2>2. /\ is_connected(d) /\ registry[d].alive /\ registry[d] \in Entry
        /\ registry[d].last_heartbeat + HEARTBEAT_EVERY + HEARTBEAT_TIMEOUT < woke
        /\ registry'[d].conn = registry[d].conn
        /\ registry'[d].last_heartbeat = registry[d].last_heartbeat
    BY <1>2, <2>1 DEF EntryKept, is_connected, RegistryTypeOK
  <2>3. /\ round[d] # None /\ round[d] \in Entry
        /\ round[d].conn = registry[d].conn
        /\ round[d].last_heartbeat = registry[d].last_heartbeat
    BY <1>2, <2>2 DEF SilentIsCopied
  <2>4. ~Drop(d)
    <3> SUFFICES ASSUME Drop(d) PROVE FALSE
      OBVIOUS
    <3>1. registry' = [registry EXCEPT ![d] = None]
      BY <2>2, <2>3 DEF Drop, unregister, HoldsSocket
    <3> QED BY <3>1 DEF is_connected, RegistryTypeOK
  <2>5. ~Check(d)
    <3> SUFFICES ASSUME Check(d) PROVE FALSE
      OBVIOUS
    <3>1. woke <= loop.now /\ loop.now \in Nat /\ registry[d].last_heartbeat \in Nat
      BY <2>2 DEF Check, At, ClockRuns, Turned, Entry
    <3>2. Missed(d)
      BY <1>0, <2>2, <2>3, <3>1 DEF Missed
    <3>3. registry'[d].alive = FALSE
      BY <2>2, <3>2 DEF Check, mark_stale, RegistryTypeOK, Entry
    <3> QED BY <3>3
  <2> QED BY <1>2, <2>2, <2>3, <2>4, <2>5
<1> QED BY <1>1, <1>2, NextRound DEF RoundNext
-----------------------------------------------------------------------------
(* The theorems. *)

LEMMA HeartbeatInit == Init => HeartbeatInv
<1> SUFFICES ASSUME Init PROVE HeartbeatInv
  OBVIOUS
<1> USE DEF Init
<1>1. TypeOK
  <2>1. /\ HEARTBEAT_EVERY \in Nat /\ 0 \in 0 .. MaxTime /\ << >> \in Seq(Nat)
        /\ << >> \in Seq(Sample) /\ << >> \in Seq(ToController) /\ << >> \in Seq(ToDevice)
    BY HeartbeatAssumption
  <2> QED BY <2>1 DEF TypeOK, TransportTypeOK, TransportInit, RegistryTypeOK, RegistryInit,
                      PendingTypeOK, PendingInit, SamplesTypeOK, SamplesInit, SessionTypeOK,
                      SessionInit, DeviceTypeOK, DeviceInit, Waiting
<1>2. PingsAsked
  <2>1. << >> \in Seq(Nat) /\ Len(<< >>) = 0 /\ \A i \in DOMAIN << >> : FALSE
    OBVIOUS
  <2>2. ASSUME NEW m PROVE Occurrences(<< >>, m) = 0
    BY <2>1, OccurrencesNat
  <2> QED BY <2>1, <2>2 DEF PingsAsked, AskedFor, TransportInit
<1>3. SessionCoherent /\ LoopCoherent /\ FailedIsGone /\ SessionsLeave
  BY DEF SessionCoherent, SessionInit, LoopCoherent, Turned, Waiting, FailedIsGone, SessionsLeave,
         TransportInit
<1>4. EntriesNamed /\ TimerIsLate /\ SilentIsCopied /\ ClockRuns
  <2>1. \A d \in Device : ~is_connected(d)
    BY DEF RegistryInit, is_connected
  <2>2. Waiting.at = "wait" /\ 0 <= 0 /\ \A i \in DOMAIN << >> : FALSE
    BY DEF Waiting
  <2> QED BY <2>1, <2>2 DEF EntriesNamed, TimerIsLate, Timed, SilentIsCopied, ClockRuns, Turned
<1> QED BY <1>1, <1>2, <1>3, <1>4 DEF HeartbeatInv

LEMMA HeartbeatNext == ASSUME HeartbeatInv, [Next]_vars PROVE HeartbeatInv'
<1>1. EntriesNamed'
  BY NextNames DEF EntriesNamed, is_connected
<1> QED BY <1>1, HeartbeatNextTypes, NextClock, NextLeaves, NextFailed, NextTimer, NextSilent
        DEF HeartbeatInv

LEMMA HeartbeatInvariant == Spec => []HeartbeatInv
BY HeartbeatInit, HeartbeatNext, PTL DEF Spec

(* Every variable of the heartbeat composition keeps its type, whatever the    *)
(* interleaving of the loop of server.py with sessions and devices.            *)
THEOREM HeartbeatTyped == Spec => []TypeOK
<1>1. HeartbeatInv => TypeOK
  BY DEF HeartbeatInv
<1> QED BY <1>1, HeartbeatInvariant, PTL

(* A pass of _heartbeat_loop() flags every device that had been silent for     *)
(* HEARTBEAT_EVERY_SEC + HEARTBEAT_TIMEOUT_SEC when the pass began: what       *)
(* sessions do to the registry meanwhile hides none of them from its copy.     *)
THEOREM SilentAreFlagged == Spec => []SilentIsFlagged
<1>1. HeartbeatInv => SilentIsFlagged
  BY DEF HeartbeatInv, SilentIsCopied, SilentIsFlagged, PassOver
<1> QED BY <1>1, HeartbeatInvariant, PTL

(* unregister() by the loop, on a socket of its copy, or by the session of an  *)
(* old connection never removes an entry whose socket is alive.                *)
THEOREM LiveSocketsStay == Spec => OnlyDeadSocketsAreDropped
<1>1. ASSUME HeartbeatInv, [Next]_vars
      PROVE  \A d \in Device : is_connected(d) /\ ~is_connected(d)' => link[get_conn(d)] # "up"
  BY <1>1, NextEntries DEF EntryNext, EntryKept, EntryAnew
<1> QED BY <1>1, HeartbeatInvariant, PTL DEF Spec, OnlyDeadSocketsAreDropped

\* Only the session reads an answer, and it books it.
LEMMA AcksAreBooked ==
  ASSUME HeartbeatInv, [Next]_vars, NEW c \in Conn, Acks(c) PROVE SessionHeartbeatAck(c, now)
<1> USE DEF HeartbeatInv, TypeOK
<1>1. /\ handler[c] = "open" /\ up[c] # << >> /\ up[c] \in Seq(ToController)
      /\ Head(up[c]) = make_heartbeat_ack /\ up'[c] = Tail(up[c])
  BY QueueTypes DEF Acks
<1>2. up'[c] # up[c] /\ Len(up'[c]) < Len(up[c])
  <2>1. Tail(up[c]) # up[c]
    BY <1>1, TailDiffers
  <2>2. Len(Tail(up[c])) = Len(up[c]) - 1 /\ Len(up[c]) \in Nat
    BY <1>1, TailElements
  <2> QED BY <1>1, <2>1, <2>2
<1>3. ASSUME NEW k \in Conn, SessionThread(k) PROVE SessionHeartbeatAck(c, now)
  <2>1. k = c
    BY <1>2, <1>3
       DEF SessionThread, SessionStep, SessionGarbage, SessionReject, SessionGreet, SessionTimeout,
           SessionHangup, SessionHeartbeatAck, SessionUnregister, SessionClose, SessionRefuse,
           SessionRegister, SessionReceivedAck, SessionStatus, SessionStatusDone, SessionIgnore,
           RecvLine, SendOk, SendRaises, CloseConn, transportVars, TransportTypeOK
  <2>2. SessionStep(c, now)
    BY <1>3, <2>1 DEF SessionThread
  <2> QED BY <1>1, <1>2, <2>2
       DEF SessionStep, SessionGarbage, SessionReject, SessionGreet, SessionTimeout,
           SessionHangup, SessionUnregister, SessionClose, SessionRefuse,
           SessionRegister, SessionReceivedAck, SessionStatus, SessionStatusDone, SessionIgnore,
           Goto, RecvLine, SendOk, SendRaises, transportVars, make_heartbeat_ack, Garbage
<1>4. ASSUME NEW d \in Device, DeviceStep(d) PROVE FALSE
  <2>1. CASE \E k \in Conn : DeviceConnect(d, k)
    BY <1>1, <1>2, <2>1 DEF DeviceConnect, Connect, Fresh, SessionsLeave, TransportTypeOK
  <2>2. CASE DeviceLost(d)
    BY <1>2, <2>2 DEF DeviceLost, Cut
  <2>3. CASE DeviceAuthOk(d) \/ DeviceAuthFail(d) \/ DeviceHeartbeat(d)
    <3>1. PICK k \in Conn, r \in Seq(ToController) :
            up' = IF link[k] = "up" THEN [up EXCEPT ![k] = up[k] \o r] ELSE up
      <4>1. << >> \in Seq(ToController) /\ <<make_heartbeat_ack>> \in Seq(ToController)
        BY FrameTypes
      <4>2. sock[d] \in Conn
        BY <2>3 DEF DeviceAuthOk, DeviceAuthFail, DeviceHeartbeat, Listening, DeviceTypeOK
      <4> QED BY <2>3, <4>1, <4>2 DEF DeviceAuthOk, DeviceAuthFail, DeviceHeartbeat, DeviceExchange
    <3>2. Len(up[c] \o r) >= Len(up[c])
      BY <1>1
    <3> QED BY <1>1, <1>2, <3>1, <3>2 DEF TransportTypeOK
  <2> QED BY <1>4, <2>1, <2>2, <2>3 DEF DeviceStep
<1> QED BY <1>2, <1>3, <1>4, LoopAsked DEF Next, Tick, AcceptLoop, Accept, transportVars, vars

LEMMA NewestIsLast ==
  ASSUME SamplesTypeOK, NEW d \in Device, NEW x \in Sample, record("heartbeat", d, x)
  PROVE  Newest(d) = x.latency
<1> DEFINE s == samples["heartbeat"][d]
<1>1. s \in Seq(Sample)
  BY DEF SamplesTypeOK, CHANNELS
<1>2. samples'["heartbeat"][d] = PushRing(s, x)
  BY DEF record, SamplesTypeOK, CHANNELS
<1>3. PICK t \in Seq(Sample) : PushRing(s, x) = Append(t, x)
  <2>1. CASE Len(s) < MAX_SAMPLES
    BY <1>1, <2>1 DEF PushRing
  <2>2. CASE ~(Len(s) < MAX_SAMPLES)
    <3>1. s # << >>
      BY <1>1, <2>2, MaxSamplesAssumption
    <3> QED BY <1>1, <2>2, <3>1, TailElements DEF PushRing
  <2> QED BY <2>1, <2>2
<1>4. Append(t, x)[Len(Append(t, x))] = x
  OBVIOUS
<1> QED BY <1>2, <1>3, <1>4 DEF Newest

(* A heartbeat latency in latency_monitor.py is never longer than the time     *)
(* since the loop turned to the device to send the ping that is answered.      *)
THEOREM RttIsNeverTooLong == Spec => RttNeverTooLong
<1>1. ASSUME HeartbeatInv, [Next]_vars, NEW c \in Conn, Recorded(c)
      PROVE  asked[c] # << >> /\ Newest(device_id[c]) <= now - Head(asked[c])
  <2> DEFINE d == device_id[c]
             rtt == HeartbeatRtt(d, now)
  <2>1. Acks(c) /\ SessionHeartbeatAck(c, now) /\ rtt # None /\ now \in Nat
    BY <1>1, AcksAreBooked, HeartbeatAssumption DEF Recorded, HeartbeatInv, TypeOK
  <2>2. d \in Device /\ Timed(d) /\ registry[d].heartbeat_sent_at \in Nat
    BY <1>1, <2>1 DEF Acks, HeartbeatInv, SessionCoherent, HeartbeatRtt, Timed, is_connected, TypeOK,
                      RegistryTypeOK, Entry
  <2>3. /\ up[c] # << >> /\ up[c] \in Seq(ToController) /\ up[c][1] = make_heartbeat_ack
        /\ 1 \in DOMAIN up[c] /\ asked[c] \in Seq(Nat) /\ Len(asked[c]) \in Nat
    BY <1>1, <2>1, QueueTypes, TailElements DEF Acks
  <2>4. Occurrences(up[c], make_heartbeat_ack) > 0
    BY <2>3, OccurrencesNat
  <2>5. asked[c] # << >>
    <3>1. Occurrences(down[c], make_heartbeat) \in Nat /\ Occurrences(up[c], make_heartbeat_ack) \in Nat
      BY <1>1, QueueTypes
    <3>2. Occurrences(down[c], make_heartbeat) + Occurrences(up[c], make_heartbeat_ack) <= Len(asked[c])
      BY <1>1 DEF HeartbeatInv, PingsAsked, AskedFor
    <3>3. Len(asked[c]) > 0
      BY <2>3, <2>4, <3>1, <3>2
    <3> QED BY <2>3, <3>3
  <2>6. /\ Head(asked[c]) \in Nat /\ Head(asked[c]) <= registry[d].heartbeat_sent_at
        /\ Head(asked[c]) <= now
    <3>1. 1 \in DOMAIN asked[c] /\ Head(asked[c]) = asked[c][1] /\ Head(asked[c]) \in Nat
      BY <2>3, <2>5
    <3> QED BY <1>1, <2>2, <3>1 DEF HeartbeatInv, TimerIsLate, ClockRuns
  <2>7. rtt \in Nat /\ rtt <= now - Head(asked[c])
    BY <2>1, <2>2, <2>6 DEF HeartbeatRtt, Timed
  <2>8. Newest(d) = rtt
    <3>1. [cmd_id |-> None, latency |-> rtt] \in Sample
      BY <2>7 DEF Sample
    <3>2. record("heartbeat", d, [cmd_id |-> None, latency |-> rtt])
      BY <2>1 DEF SessionHeartbeatAck
    <3> QED BY <1>1, <2>2, <3>1, <3>2, NewestIsLast DEF HeartbeatInv, TypeOK
  <2> QED BY <2>5, <2>7, <2>8
<1>2. ASSUME HeartbeatInv, [Next]_vars
      PROVE  \A c \in Conn :
               Recorded(c) => asked[c] # << >> /\ Newest(device_id[c]) <= now - Head(asked[c])
  BY <1>1, <1>2
<1> QED BY <1>2, HeartbeatInvariant, PTL DEF Spec, RttNeverTooLong
=============================================================================
