---------------------------- MODULE PeersProofs -----------------------------
(***************************************************************************)
(* The first JSON object of a peer decides, whatever it sends later, for   *)
(* any number of connections, devices, commands and frames.  Before a      *)
(* session has read that object, it is the first one in the queue; after   *)
(* that the session's state tells what it was.                             *)
(***************************************************************************)
EXTENDS Peers, ComponentProofs

\* What the session has not read yet starts with the first object.
FirstIsAhead(c) ==
  IF first[c] = None
  THEN \A i \in DOMAIN up[c] : up[c][i] = Garbage
  ELSE \E i \in DOMAIN up[c] : /\ up[c][i] = first[c] /\ first[c] # Garbage
                               /\ \A j \in DOMAIN up[c] : j < i => up[c][j] = Garbage

Admitted(c) == first[c] # None /\ Acceptable(first[c])

\* What the session made of it.
Settled(c) ==
  /\ handler[c] \in {"none", "accepted", "refusing"} => device_id[c] = None
  /\ handler[c] \in {"none", "accepted"} => FirstIsAhead(c)
  /\ handler[c] = "refusing" => first[c] # None /\ ~Acceptable(first[c])
  /\ device_id[c] # None => Admitted(c) /\ device_id[c] = first[c].device_id

PeersInv ==
  /\ TypeOK /\ SessionCoherent
  /\ \A c \in Conn : Settled(c) /\ (link[c] = "unused" => up[c] = << >>)

LEMMA PeersServer == TypeOK /\ SessionCoherent => ServerTypeOK
BY DEF TypeOK, ServerTypeOK

LEMMA FramesTravel == Frames \subseteq ToController
<1>1. \A d \in Device \cup {None}, v \in BOOLEAN : make_auth(d, v) \in ToController
  BY DEF make_auth, ToController
<1>2. \A c \in Cmd : make_received_ack(c, 0) \in ToController
  BY FrameTypes
<1>3. \A c \in Cmd \cup {None} : make_status(1, c, 0) \in ToController
  BY FrameTypes
<1>4. {Garbage, Unexpected, make_heartbeat_ack} \subseteq ToController
  BY DEF ToController
<1> QED BY <1>1, <1>2, <1>3, <1>4 DEF Frames

LEMMA PeersInit == Init => PeersInv
<1> SUFFICES ASSUME Init PROVE PeersInv
  OBVIOUS
<1>1. TransportTypeOK /\ RegistryTypeOK /\ SamplesTypeOK /\ SessionTypeOK /\ SessionCoherent
  BY DEF Init, TransportInit, TransportTypeOK, RegistryInit, RegistryTypeOK, SamplesInit,
         SamplesTypeOK, SessionInit, SessionTypeOK, SessionCoherent
<1>2. PendingTypeOK
  BY DEF Init, PendingTypeOK, NewItem, Item
<1>3. first \in [Conn -> Frames \cup {None}] /\ spoken \in [Conn -> 0 .. MaxFrames]
  BY MaxFramesAssumption DEF Init
<1>4. \A c \in Conn : Settled(c) /\ (link[c] = "unused" => up[c] = << >>)
  BY NoneAssumption DEF Init, TransportInit, SessionInit, Settled, FirstIsAhead
<1> QED BY <1>1, <1>2, <1>3, <1>4 DEF PeersInv, TypeOK

LEMMA PeersTypes == ASSUME PeersInv, [Next]_vars PROVE TypeOK' /\ SessionCoherent'
<1> USE DEF PeersInv
<1>0. ServerTypeOK
  BY PeersServer
<1>1. UNCHANGED peerVars => /\ first' \in [Conn -> Frames \cup {None}]
                            /\ spoken' \in [Conn -> 0 .. MaxFrames]
  BY DEF peerVars, TypeOK
<1>2. ASSUME NEW c \in Conn, AcceptLoop(c) \/ SessionThread(c) PROVE TypeOK' /\ SessionCoherent'
  <2>1. ServerTypeOK'
    BY <1>0, <1>2, AcceptTypes, ServerTypes DEF AcceptLoop, SessionThread
  <2> QED BY <1>1, <1>2, <2>1 DEF AcceptLoop, SessionThread, ServerTypeOK, TypeOK
<1>3. ASSUME TransportTypeOK', UNCHANGED <<registry, pending, samples, sessionVars, peerVars>>
      PROVE  TypeOK' /\ SessionCoherent'
  BY <1>0, <1>1, <1>3, ServerUnchanged DEF TypeOK
<1>4. ASSUME NEW c \in Conn, PeerConnects(c) PROVE TypeOK' /\ SessionCoherent'
  <2>1. TransportTypeOK'
    BY <1>4 DEF PeerConnects, TypeOK, TransportTypeOK
  <2> QED BY <1>3, <1>4, <2>1 DEF PeerConnects
<1>5. ASSUME NEW c \in Conn, PeerDrips(c) \/ PeerLeaves(c) PROVE TypeOK' /\ SessionCoherent'
  <2>1. Garbage \in ToController
    BY DEF ToController
  <2>2. TransportTypeOK'
    BY <1>5, <2>1, DeviceSendTypes, ConnectionTypes DEF PeerDrips, PeerLeaves, TypeOK
  <2> QED BY <1>3, <1>5, <2>2 DEF PeerDrips, PeerLeaves
<1>6. ASSUME NEW c \in Conn, NEW m \in Frames, PeerSends(c, m) PROVE TypeOK' /\ SessionCoherent'
  <2>1. TransportTypeOK'
    BY <1>6, FramesTravel, DeviceSendTypes DEF PeerSends, TypeOK
  <2>2. first' \in [Conn -> Frames \cup {None}]
    BY <1>6 DEF PeerSends, TypeOK
  <2>3. spoken' \in [Conn -> 0 .. MaxFrames]
    <3>1. spoken[c] + 1 \in 0 .. MaxFrames
      BY <1>6, MaxFramesAssumption DEF PeerSends, TypeOK
    <3> QED BY <1>6, <3>1 DEF PeerSends, TypeOK
  <2> QED BY <1>0, <1>6, <2>1, <2>2, <2>3, ServerUnchanged DEF PeerSends, TypeOK
<1>7. CASE UNCHANGED vars
  BY <1>0, <1>1, <1>7, ServerUnchanged DEF vars, TypeOK
<1> QED BY <1>2, <1>4, <1>5, <1>6, <1>7 DEF Next
-----------------------------------------------------------------------------
(* The first object stays the first object. *)

\* A session drops what is no object, and stops waiting at the first one.
LEMMA AheadIsRead ==
  ASSUME PeersInv, NEW c \in Conn, FirstIsAhead(c), up[c] # << >>
  PROVE  /\ Head(up[c]) # Garbage => first[c] = Head(up[c]) /\ first[c] # None
         /\ Head(up[c]) = Garbage /\ first' = first /\ up'[c] = Tail(up[c]) => FirstIsAhead(c)'
<1>1. up[c] \in Seq(ToController)
  BY DEF PeersInv, TypeOK, TransportTypeOK
<1>2. /\ Len(up[c]) \in Nat /\ DOMAIN up[c] = 1 .. Len(up[c]) /\ 1 \in DOMAIN up[c]
      /\ Head(up[c]) = up[c][1] /\ DOMAIN Tail(up[c]) = 1 .. Len(up[c]) - 1
      /\ \A i \in DOMAIN Tail(up[c]) : i + 1 \in DOMAIN up[c] /\ Tail(up[c])[i] = up[c][i + 1]
  BY <1>1, TailElements
<1>3. Head(up[c]) # Garbage => first[c] = Head(up[c]) /\ first[c] # None
  BY <1>2 DEF FirstIsAhead
<1>4. ASSUME Head(up[c]) = Garbage, first' = first, up'[c] = Tail(up[c]) PROVE FirstIsAhead(c)'
  <2>1. CASE first[c] = None
    BY <1>2, <1>4, <2>1 DEF FirstIsAhead
  <2>2. CASE first[c] # None
    <3>1. PICK i \in DOMAIN up[c] :
            /\ up[c][i] = first[c] /\ first[c] # Garbage
            /\ \A j \in DOMAIN up[c] : j < i => up[c][j] = Garbage
      BY <2>2 DEF FirstIsAhead
    <3>2. i # 1 /\ i \in 1 .. Len(up[c])
      BY <1>2, <1>4, <3>1
    <3>3. i - 1 \in DOMAIN Tail(up[c]) /\ Tail(up[c])[i - 1] = first[c]
      BY <1>2, <3>1, <3>2
    <3>4. \A j \in DOMAIN Tail(up[c]) : j < i - 1 => Tail(up[c])[j] = Garbage
      BY <1>2, <3>1, <3>2
    <3> QED BY <1>4, <2>2, <3>1, <3>3, <3>4 DEF FirstIsAhead
  <2> QED BY <2>1, <2>2
<1> QED BY <1>3, <1>4

\* A frame that arrives is the first object, or comes after it.
LEMMA AheadIsSent ==
  ASSUME PeersInv, NEW c \in Conn, FirstIsAhead(c), NEW m \in Frames,
         up'[c] = Append(up[c], m),
         first'[c] = IF first[c] = None /\ m # Garbage THEN m ELSE first[c]
  PROVE  FirstIsAhead(c)'
<1>1. up[c] \in Seq(ToController) /\ m \in ToController /\ m # None
  BY FramesTravel, NoneIsNoFrame DEF PeersInv, TypeOK, TransportTypeOK
<1>2. /\ Len(up[c]) \in Nat /\ DOMAIN up[c] = 1 .. Len(up[c])
      /\ DOMAIN up'[c] = DOMAIN up[c] \cup {Len(up[c]) + 1}
      /\ \A i \in DOMAIN up[c] : up'[c][i] = up[c][i]
      /\ up'[c][Len(up[c]) + 1] = m
  BY <1>1, AppendElements
<1>3. CASE first[c] # None
  BY <1>2, <1>3 DEF FirstIsAhead
<1>4. CASE first[c] = None /\ m = Garbage
  BY <1>2, <1>4 DEF FirstIsAhead
<1>5. CASE first[c] = None /\ m # Garbage
  BY <1>1, <1>2, <1>5 DEF FirstIsAhead
<1> QED BY <1>3, <1>4, <1>5
-----------------------------------------------------------------------------
(* The session of one connection takes one step. *)

Same(k) ==
  /\ handler'[k] = handler[k] /\ device_id'[k] = device_id[k]
  /\ up'[k] = up[k] /\ first'[k] = first[k] /\ link'[k] = link[k]

LEMMA SameSettled ==
  ASSUME PeersInv, NEW k \in Conn, Same(k)
  PROVE  Settled(k)' /\ (link'[k] = "unused" => up'[k] = << >>)
BY DEF PeersInv, Same, Settled, FirstIsAhead, Admitted

LEMMA SessionActsAlone ==
  ASSUME PeersInv, NEW c \in Conn, AcceptLoop(c) \/ SessionThread(c), NEW k \in Conn, k # c
  PROVE  Same(k)
<1> USE DEF PeersInv, TypeOK, TransportTypeOK, SessionTypeOK, AcceptLoop, SessionThread, peerVars
<1>1. CASE Accept(c) \/ SessionTimeout(c) \/ SessionHangup(c) \/ SessionUnregister(c)
  BY <1>1 DEF Same, Accept, SessionTimeout, SessionHangup, SessionUnregister, Goto, transportVars
<1>2. CASE SessionReject(c) \/ SessionGreet(c)
  BY <1>2 DEF Same, SessionReject, SessionGreet, Goto, SendOk, SendRaises, transportVars
<1>3. CASE SessionGarbage(c) \/ SessionHeartbeatAck(c, 0)
  BY <1>3 DEF Same, SessionGarbage, SessionHeartbeatAck, RecvLine, sessionVars
<1>4. CASE SessionClose(c)
  BY <1>4 DEF Same, SessionClose, CloseConn, Goto
<1>5. ASSUME NEW m, SessionRefuse(c, m) \/ SessionRegister(c, m, 0) PROVE Same(k)
  BY <1>5 DEF Same, SessionRefuse, SessionRegister, RecvLine, Goto
<1>6. ASSUME NEW m, SessionReceivedAck(c, m) \/ SessionIgnore(c, m) PROVE Same(k)
  BY <1>6 DEF Same, SessionReceivedAck, SessionIgnore, RecvLine, sessionVars
<1>7. ASSUME NEW m, SessionStatus(c, m) \/ SessionStatusDone(c, m) PROVE Same(k)
  BY <1>7 DEF Same, SessionStatus, SessionStatusDone, RecvLine, Goto, transportVars
<1> QED BY <1>1, <1>2, <1>3, <1>4, <1>5, <1>6, <1>7 DEF SessionStep

LEMMA SessionSettles ==
  ASSUME PeersInv, NEW c \in Conn, AcceptLoop(c) \/ SessionThread(c)
  PROVE  Settled(c)' /\ (link'[c] = "unused" => up'[c] = << >>)
<1> USE DEF PeersInv, TypeOK, TransportTypeOK, SessionTypeOK, AcceptLoop, SessionThread, peerVars
<1> DEFINE Goal == Settled(c)' /\ (link'[c] = "unused" => up'[c] = << >>)
<1>0. FirstIsAhead(c) /\ UNCHANGED <<first, up>> => FirstIsAhead(c)'
  BY DEF FirstIsAhead
<1>1. CASE Accept(c)
  BY <1>0, <1>1 DEF Accept, Goto, Settled, Admitted, transportVars
<1>2. CASE SessionTimeout(c) \/ SessionHangup(c) \/ SessionUnregister(c)
  BY <1>2 DEF SessionTimeout, SessionHangup, SessionUnregister, Goto, Settled, Admitted,
              transportVars
<1>3. CASE SessionReject(c) \/ SessionGreet(c)
  BY <1>3 DEF SessionReject, SessionGreet, Goto, SendOk, SendRaises, Settled, Admitted,
              transportVars
<1>4. CASE SessionGarbage(c)
  <2>1. /\ handler' = handler /\ device_id' = device_id /\ first' = first
        /\ up[c] # << >> /\ Head(up[c]) = Garbage /\ up'[c] = Tail(up[c]) /\ link' = link
    BY <1>4 DEF SessionGarbage, RecvLine, sessionVars
  <2>2. FirstIsAhead(c) => FirstIsAhead(c)'
    BY <2>1, AheadIsRead
  <2> QED BY <2>1, <2>2 DEF Settled, Admitted
<1>5. CASE SessionHeartbeatAck(c, 0)
  BY <1>5 DEF SessionHeartbeatAck, RecvLine, sessionVars, Settled, Admitted
<1>6. CASE SessionClose(c)
  BY <1>6 DEF SessionClose, CloseConn, Goto, Settled, Admitted
<1>7. ASSUME NEW m, SessionRefuse(c, m) PROVE Goal
  <2>1. /\ handler[c] = "accepted" /\ handler' = [handler EXCEPT ![c] = "refusing"]
        /\ device_id' = device_id /\ first' = first /\ link' = link
        /\ up[c] # << >> /\ m = Head(up[c]) /\ m # Garbage /\ ~Acceptable(m)
    BY <1>7 DEF SessionRefuse, RecvLine, Goto
  <2>2. first[c] = m /\ first[c] # None
    BY <2>1, AheadIsRead DEF Settled
  <2> QED BY <2>1, <2>2 DEF Settled, Admitted
<1>8. ASSUME NEW m, SessionRegister(c, m, 0) PROVE Goal
  <2>1. /\ handler[c] = "accepted" /\ handler' = [handler EXCEPT ![c] = "registered"]
        /\ device_id' = [device_id EXCEPT ![c] = m.device_id] /\ first' = first /\ link' = link
        /\ up[c] # << >> /\ m = Head(up[c]) /\ Acceptable(m)
    BY <1>8 DEF SessionRegister, RecvLine, Goto
  <2>2. m # Garbage
    BY <2>1 DEF Acceptable, Garbage
  <2>3. first[c] = m /\ first[c] # None
    BY <2>1, <2>2, AheadIsRead DEF Settled
  <2> QED BY <2>1, <2>3 DEF Settled, Admitted
<1>9. ASSUME NEW m, SessionReceivedAck(c, m) \/ SessionIgnore(c, m) PROVE Goal
  BY <1>9 DEF SessionReceivedAck, SessionIgnore, RecvLine, sessionVars, Settled, Admitted
<1>10. ASSUME NEW m, SessionStatus(c, m) \/ SessionStatusDone(c, m) PROVE Goal
  BY <1>10 DEF SessionStatus, SessionStatusDone, RecvLine, Goto, transportVars, Settled, Admitted
<1> QED BY <1>1, <1>2, <1>3, <1>4, <1>5, <1>6, <1>7, <1>8, <1>9, <1>10 DEF SessionStep

LEMMA PeerSettles ==
  ASSUME PeersInv, NEW c \in Conn, NEW k \in Conn,
         \/ PeerConnects(c) \/ PeerDrips(c) \/ PeerLeaves(c)
         \/ \E m \in Frames : PeerSends(c, m)
  PROVE  Settled(k)' /\ (link'[k] = "unused" => up'[k] = << >>)
<1> USE DEF PeersInv, TypeOK, TransportTypeOK, SessionTypeOK
<1>1. CASE PeerConnects(c) \/ PeerLeaves(c)
  <2>1. UNCHANGED <<up, handler, device_id, first>> /\ (link'[k] = "unused" => link[k] = "unused")
    BY <1>1 DEF PeerConnects, PeerLeaves, Cut, sessionVars, peerVars
  <2>2. FirstIsAhead(k) => FirstIsAhead(k)'
    BY <2>1 DEF FirstIsAhead
  <2> QED BY <2>1, <2>2 DEF Settled, Admitted
<1>2. ASSUME NEW m \in Frames, DeviceSend(c, m), link[c] = "up", UNCHANGED sessionVars,
             first' = IF first[c] = None /\ m # Garbage THEN [first EXCEPT ![c] = m] ELSE first
      PROVE  Settled(k)' /\ (link'[k] = "unused" => up'[k] = << >>)
  <2>1. CASE k = c
    <3>1. up'[c] = Append(up[c], m) /\ link' = link
      BY <1>2 DEF DeviceSend
    <3>2. first'[c] = IF first[c] = None /\ m # Garbage THEN m ELSE first[c]
      BY <1>2
    <3>3. FirstIsAhead(c) => FirstIsAhead(c)'
      BY <3>1, <3>2, AheadIsSent
    <3>4. m # None
      BY NoneIsNoFrame
    <3> QED BY <1>2, <2>1, <3>1, <3>2, <3>3, <3>4 DEF Settled, Admitted, sessionVars
  <2>2. CASE k # c
    BY <1>2, <2>2, SameSettled DEF DeviceSend, Same, sessionVars
  <2> QED BY <2>1, <2>2
<1>3. CASE PeerDrips(c)
  <2>1. Garbage \in Frames
    BY DEF Frames
  <2> QED BY <1>2, <1>3, <2>1 DEF PeerDrips, peerVars
<1>4. CASE \E m \in Frames : PeerSends(c, m)
  BY <1>2, <1>4 DEF PeerSends
<1> QED BY <1>1, <1>3, <1>4

LEMMA PeersNext == PeersInv /\ [Next]_vars => PeersInv'
<1> SUFFICES ASSUME PeersInv, [Next]_vars PROVE PeersInv'
  OBVIOUS
<1> SUFFICES ASSUME NEW k \in Conn PROVE Settled(k)' /\ (link'[k] = "unused" => up'[k] = << >>)
  BY PeersTypes DEF PeersInv
<1>1. ASSUME NEW c \in Conn, AcceptLoop(c) \/ SessionThread(c)
      PROVE  Settled(k)' /\ (link'[k] = "unused" => up'[k] = << >>)
  BY <1>1, SessionSettles, SessionActsAlone, SameSettled
<1>2. CASE UNCHANGED vars
  BY <1>2, SameSettled DEF vars, transportVars, sessionVars, peerVars, Same
<1> QED BY <1>1, <1>2, PeerSettles DEF Next
-----------------------------------------------------------------------------
\* The state keeps its type, whatever the peers send and in whatever order.
THEOREM PeersTyped == Spec => []TypeOK
<1>1. PeersInv => TypeOK
  BY DEF PeersInv
<1> QED BY PeersInit, PeersNext, <1>1, PTL DEF Spec

\* The first JSON object a peer sends settles for the whole connection who it is.
THEOREM FirstFrameSettles == Spec => []FirstFrameDecides
<1>1. PeersInv => FirstFrameDecides
  BY NoneAssumption DEF PeersInv, SessionCoherent, Settled, Admitted, FirstFrameDecides
<1> QED BY PeersInit, PeersNext, <1>1, PTL DEF Spec

\* Only the frames of a peer whose AUTH was accepted reach the command table and the
\* samples.
THEOREM StrangersHaveNoEffect == Spec => OnlyGreetedPeersAct
<1> DEFINE Acts(c) == /\ first[c] # None /\ Acceptable(first[c])
                      /\ up'[c] # up[c] /\ handler[c] \in {"open", "status"}
<1>1. ASSUME PeersInv, [Next]_vars PROVE UNCHANGED <<pending, samples>> \/ \E c \in Conn : Acts(c)
  <2> USE DEF PeersInv, TypeOK, TransportTypeOK, SessionTypeOK
  <2>1. ASSUME NEW c \in Conn, handler[c] \in {"open", "status"}, NEW m, RecvLine(c, m)
        PROVE  Acts(c)
    <3>1. up'[c] = Tail(up[c]) /\ up[c] # << >> /\ up[c] \in Seq(ToController)
      BY <1>1, <2>1 DEF RecvLine
    <3>2. up'[c] # up[c]
      BY <3>1, TailDiffers
    <3>3. device_id[c] # None
      BY <1>1, <2>1, NoneAssumption DEF SessionCoherent
    <3> QED BY <1>1, <2>1, <3>2, <3>3 DEF Settled, Admitted
  <2>2. ASSUME NEW c \in Conn, SessionThread(c), ~UNCHANGED <<pending, samples>>
        PROVE  handler[c] \in {"open", "status"} /\ \E m : RecvLine(c, m)
    BY <2>2 DEF SessionThread, SessionStep, SessionGarbage, SessionReject, SessionGreet,
       SessionTimeout, SessionHangup, SessionHeartbeatAck, SessionUnregister, SessionClose,
       SessionRefuse, SessionRegister, SessionReceivedAck, SessionStatus, SessionStatusDone,
       SessionIgnore, Goto
  <2>3. \/ UNCHANGED <<pending, samples>>
        \/ \E c \in Conn : SessionThread(c)
    BY <1>1 DEF Next, vars, PeerConnects, PeerSends, PeerDrips, PeerLeaves, AcceptLoop, Accept
  <2> QED BY <2>1, <2>2, <2>3
<1> QED BY PeersInit, PeersNext, <1>1, PTL DEF Spec, OnlyGreetedPeersAct
=============================================================================
