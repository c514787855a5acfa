------------------------------ MODULE Sessions ------------------------------
(***************************************************************************)
(* One thread per connection running handle_device() of                    *)
(* controller/server/connection_handler.py, against the registry and the   *)
(* command table.  handler[c] is where the thread of connection c stands,  *)
(* device_id[c] its local variable; authenticated is handler[c] = "open"   *)
(* or "status".                                                            *)
(*                                                                         *)
(* A frame that is read, a registry call and a sendall() are separate      *)
(* steps, except that reading, which touches only the thread's own buffer, *)
(* goes with the step that follows it; so does lm.record(), as nothing     *)
(* reads the samples in between.  Every device puts its own id in the      *)
(* frames it sends, so msg["device_id"] is the session's device.           *)
(***************************************************************************)
EXTENDS DeviceManager, CommandTracker

VARIABLES handler, device_id

sessionVars == <<handler, device_id>>

SessionTypeOK ==
  /\ handler \in [Conn -> {"none", "accepted", "refusing", "registered", "open",
                           "status", "closing", "unregistered", "closed"}]
  /\ device_id \in [Conn -> Device \cup {None}]

SessionInit ==
  /\ handler = [c \in Conn |-> "none"]
  /\ device_id = [c \in Conn |-> None]

Goto(c, from, to) == handler[c] = from /\ handler' = [handler EXCEPT ![c] = to]

\* _accept_loop(): accept and start the thread.
Accept(c) ==
  /\ link[c] # "unused"
  /\ Goto(c, "none", "accepted")
  /\ UNCHANGED <<transportVars, registry, pending, samples, device_id>>

\* A line decode() refuses, or that is not an object, is skipped.
SessionGarbage(c) ==
  /\ handler[c] \in {"accepted", "open"}
  /\ RecvLine(c, Garbage)
  /\ UNCHANGED <<registry, pending, samples, sessionVars>>

\* Mutant: the token is not looked at.
AcceptableAnyToken(m) == m.msg_type = "AUTH" /\ m.device_id # None

Acceptable(m) == m.msg_type = "AUTH" /\ m.token /\ m.device_id # None

\* Not an AUTH, a wrong token, or no device_id; _reject() and close.
SessionRefuse(c, m) ==
  /\ Goto(c, "accepted", "refusing")
  /\ RecvLine(c, m) /\ m # Garbage /\ ~Acceptable(m)
  /\ UNCHANGED <<registry, pending, samples, device_id>>

\* Mutant: the loop goes on after the rejection.
SessionRejectOnly(c) ==
  /\ Goto(c, "refusing", "accepted")
  /\ SendOk(c, make_auth_fail) \/ SendRaises(c)
  /\ UNCHANGED <<registry, pending, samples, device_id>>

SessionReject(c) ==
  /\ Goto(c, "refusing", "closing")
  /\ SendOk(c, make_auth_fail) \/ SendRaises(c)
  /\ UNCHANGED <<registry, pending, samples, device_id>>

SessionRegister(c, m, now) ==
  /\ Goto(c, "accepted", "registered")
  /\ RecvLine(c, m) /\ Acceptable(m)
  /\ device_id' = [device_id EXCEPT ![c] = m.device_id]
  /\ register(m.device_id, c, now)
  /\ UNCHANGED <<pending, samples>>

\* Mutant: a session that could not greet leaves its entry behind.
SessionGreetLeak(c) ==
  /\ \/ Goto(c, "registered", "open") /\ SendOk(c, make_auth_ok)
     \/ Goto(c, "registered", "unregistered") /\ SendRaises(c)
  /\ UNCHANGED <<registry, pending, samples, device_id>>

\* Mutant: the session opens without AUTH_OK.
SessionGreetSilently(c) ==
  /\ Goto(c, "registered", "open")
  /\ UNCHANGED <<transportVars, registry, pending, samples, device_id>>

SessionGreet(c) ==
  /\ \/ Goto(c, "registered", "open") /\ SendOk(c, make_auth_ok)
     \/ Goto(c, "registered", "closing") /\ SendRaises(c)
  /\ UNCHANGED <<registry, pending, samples, device_id>>

\* Mutant: no deadline before AUTH.
SessionTimeoutIfGone(c) ==
  /\ Goto(c, "accepted", "closing")
  /\ up[c] = << >> /\ link[c] = "cut"
  /\ UNCHANGED <<transportVars, registry, pending, samples, device_id>>

\* recv() times out; only until AUTH, settimeout(None) follows AUTH_OK.
SessionTimeout(c) ==
  /\ Goto(c, "accepted", "closing")
  /\ up[c] = << >>
  /\ UNCHANGED <<transportVars, registry, pending, samples, device_id>>

\* Mutant: only a peer that has not authenticated is noticed when it leaves.
SessionHangupEarly(c) ==
  /\ link[c] = "cut"
  /\ Goto(c, "accepted", "closing")
  /\ UNCHANGED <<transportVars, registry, pending, samples, device_id>>

\* recv() returns no data or raises, with or without frames still unread.
SessionHangup(c) ==
  /\ link[c] = "cut"
  /\ Goto(c, "accepted", "closing") \/ Goto(c, "open", "closing")
  /\ UNCHANGED <<transportVars, registry, pending, samples, device_id>>

SessionHeartbeatAck(c, now) ==
  /\ handler[c] = "open"
  /\ RecvLine(c, make_heartbeat_ack)
  /\ update_heartbeat(device_id[c], now)
  /\ IF HeartbeatRtt(device_id[c], now) # None
     THEN record("heartbeat", device_id[c],
                 [cmd_id |-> None, latency |-> HeartbeatRtt(device_id[c], now)])
     ELSE UNCHANGED samples
  /\ UNCHANGED <<pending, sessionVars>>

\* Mutant: the ack of a peer that has not authenticated counts.
SessionReceivedAckOfAnyone(c, m) ==
  /\ handler[c] \in {"accepted", "open"}
  /\ RecvLine(c, m) /\ m.msg_type = "RECEIVED_ACK"
  /\ mark_received(m.cmd_id)
  /\ UNCHANGED <<registry, sessionVars>>

SessionReceivedAck(c, m) ==
  /\ handler[c] = "open"
  /\ RecvLine(c, m) /\ m.msg_type = "RECEIVED_ACK"
  /\ mark_received(m.cmd_id)
  /\ UNCHANGED <<registry, sessionVars>>

\* A STATUS takes two critical sections; the frame stays at the head of up[c]
\* until the second one is done.
SessionStatus(c, m) ==
  /\ Goto(c, "open", "status")
  /\ up[c] # << >> /\ m = Head(up[c]) /\ m.msg_type = "STATUS"
  /\ update_status(device_id[c], m.state)
  /\ UNCHANGED <<transportVars, pending, samples, device_id>>

\* Mutant: a reading answers any command.
SessionStatusOfAny(c, m) ==
  /\ Goto(c, "status", "open")
  /\ RecvLine(c, m) /\ m.msg_type = "STATUS"
  /\ \E b \in Cmd : (m.cmd_id # None => b = m.cmd_id) /\ mark_executed(b)
  /\ UNCHANGED <<registry, device_id>>

SessionStatusDone(c, m) ==
  /\ Goto(c, "status", "open")
  /\ RecvLine(c, m) /\ m.msg_type = "STATUS"
  /\ IF m.cmd_id # None THEN mark_executed(m.cmd_id) ELSE UNCHANGED <<pending, samples>>
  /\ UNCHANGED <<registry, device_id>>

\* What a device should not send; a second AUTH is an unknown message.
SessionIgnore(c, m) ==
  /\ handler[c] = "open"
  /\ RecvLine(c, m) /\ m.msg_type \in {"AUTH", "UNEXPECTED"}
  /\ UNCHANGED <<registry, pending, samples, sessionVars>>

\* The finally clause.
SessionUnregister(c) ==
  /\ Goto(c, "closing", "unregistered")
  /\ IF device_id[c] # None THEN unregister(device_id[c], c) ELSE UNCHANGED registry
  /\ UNCHANGED <<transportVars, pending, samples, device_id>>

SessionClose(c) ==
  /\ Goto(c, "unregistered", "closed")
  /\ CloseConn(c)
  /\ UNCHANGED <<registry, pending, samples, device_id>>

\* The frame the thread reads next.
NextLine(c) == IF up[c] = << >> THEN {} ELSE {Head(up[c])}

SessionStep(c, now) ==
  \/ SessionGarbage(c)
  \/ SessionReject(c)
  \/ SessionGreet(c)
  \/ SessionTimeout(c)
  \/ SessionHangup(c)
  \/ SessionHeartbeatAck(c, now)
  \/ SessionUnregister(c)
  \/ SessionClose(c)
  \/ \E m \in NextLine(c) :
       \/ SessionRefuse(c, m)
       \/ SessionRegister(c, m, now)
       \/ SessionReceivedAck(c, m)
       \/ SessionStatus(c, m)
       \/ SessionStatusDone(c, m)
       \/ SessionIgnore(c, m)
=============================================================================
