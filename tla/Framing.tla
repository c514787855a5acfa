------------------------------- MODULE Framing -------------------------------
(***************************************************************************)
(* One connection as bytes: what sendall() and recv() do with frames when  *)
(* the kernel's buffers are small, from register() on.  Several threads of *)
(* the controller write to the socket without a common lock (_send() of    *)
(* server.py, send_command(), and the session's AUTH_OK); the device reads *)
(* and writes in one thread; the session reads when it has greeted.  Both  *)
(* readers split the stream at newlines (_recv_lines(), _listen_loop()).   *)
(* The socket keeps AUTH_TIMEOUT_SEC until AUTH_OK is out: a call of any   *)
(* thread begun before that may give up half way, on a live connection.    *)
(*                                                                         *)
(* A byte is a frame and a position in it, the last one is the newline.    *)
(***************************************************************************)
EXTENDS Integers, SequencesExt

CONSTANTS
  Sender,       \* threads of the controller that send COMMANDs, the session apart
  Pinger,       \* those of them that send HEARTBEATs instead
  MaxFrames,    \* bound: COMMANDs each of them sends; a Pinger sends one HEARTBEAT
  SendBuffer    \* bytes the kernels hold for one direction

ASSUME SenderAssumption == "session" \notin Sender /\ Pinger \subseteq Sender
ASSUME BoundsAssumption == MaxFrames \in Nat \ {0} /\ SendBuffer \in Nat \ {0}

Writer == Sender \cup {"session"}

\* The n-th frame of a writer.
FrameOf(w, n) ==
  [msg_type |-> IF w = "session" THEN "AUTH_OK"
                ELSE IF w \in Pinger THEN "HEARTBEAT" ELSE "COMMAND",
   id |-> <<w, n>>]

Quota(w) == IF w \in Pinger \cup {"session"} THEN 1 ELSE MaxFrames

Requests == {FrameOf(w, n) : w \in Sender, n \in 1 .. MaxFrames} \cup {FrameOf("session", 1)}

\* What the device answers, in the order it is sent.
Replies(f) ==
  CASE f.msg_type = "COMMAND"   -> <<[msg_type |-> "RECEIVED_ACK", id |-> f.id],
                                     [msg_type |-> "STATUS", id |-> f.id]>>
    [] f.msg_type = "HEARTBEAT" -> <<[msg_type |-> "HEARTBEAT_ACK", id |-> f.id]>>
    [] OTHER                    -> << >>

\* Lengths that matter are those below and above SendBuffer.
Width(f) == IF f.msg_type \in {"COMMAND", "STATUS"} THEN 3 ELSE 2

\* encode()
Bytes(f) == [i \in 1 .. Width(f) |-> <<f, i>>]

IsNewline(b) == b[2] = Width(b[1])

\* The frame decode() finds in a line, if the line is one.
IsFrame(line) ==
  line # << >> /\ line = [i \in 1 .. Width(line[1][1]) - 1 |-> <<line[1][1], i>>]

\* What a reader makes of any other line.
Torn == [msg_type |-> "torn", id |-> << >>]

VARIABLES
  open,         \* neither end has closed the connection
  begun,        \* writer -> frames it began to send
  writing,      \* writer -> bytes its sendall() has not yet handed to the kernel
  timed,        \* writer -> its sendall() was begun before settimeout(None)
  down, up,     \* bytes in the kernels, to the device and to the controller
  device,       \* the device's thread: where it stands, buffer, and what it writes
  session,      \* the session's thread: where it stands, and buffer
  overlapped,   \* history: requests whose writing overlapped that of another
  givenUp,      \* history: requests whose sendall() timed out on the live connection
  glued,        \* history: requests written right behind the beginning of such a one
  handled,      \* history: requests the device handled
  torn,         \* history: requests with bytes in a line that was not a frame
  answered,     \* history: replies the device set out to send
  got           \* history: what the session made of the lines it read

controllerVars == <<begun, writing, timed, overlapped, givenUp, glued>>
deviceSide == <<device, handled, torn, answered>>
sessionSide == <<session, got>>
vars == <<open, down, up, controllerVars, deviceSide, sessionSide>>

Init ==
  /\ open = TRUE
  /\ begun = [w \in Writer |-> IF w = "session" THEN 1 ELSE 0]
  /\ writing = [w \in Writer |-> IF w = "session" THEN Bytes(FrameOf(w, 1)) ELSE << >>]
  /\ timed = [w \in Writer |-> w = "session"]
  /\ down = << >> /\ up = << >>
  /\ device = [at |-> "recv", buffer |-> << >>, out |-> << >>]
  /\ session = [at |-> "greet", buffer |-> << >>]
  /\ overlapped = {} /\ givenUp = {} /\ glued = {} /\ handled = {} /\ torn = {}
  /\ answered = << >> /\ got = << >>
-----------------------------------------------------------------------------
(* sendall(): the kernel takes what there is room for; other threads may    *)
(* write before it takes the rest.                                          *)

Room(stream) == SendBuffer - Len(stream)

\* Mutant: send() instead of sendall(), what the kernel did not take is dropped.
LeftToNobody(bytes, stream) == << >>

\* What is left to hand over.
Left(bytes, stream) == SubSeq(bytes, Room(stream) + 1, Len(bytes))

\* Mutant: the kernel takes everything.
TakenWhole(bytes, stream) == stream \o bytes

\* The stream with what there was room for.
Taken(bytes, stream) == stream \o SubSeq(bytes, 1, Min({Room(stream), Len(bytes)}))

MidFrame(w) == writing[w] # << >> /\ Head(writing[w])[2] > 1

\* What the device has not taken out of its buffer.
ToRead == device.buffer \o down

\* The stream ends with the beginning of a request whose writer gave it up.
EndsGivenUp ==
  ToRead # << >> /\ ~IsNewline(Last(ToRead)) /\ Last(ToRead)[1] \in givenUp

\* The timeout of connection_handler.py:68 is on the socket until line 101.
SendBegin(w) ==
  /\ writing[w] = << >> /\ begun[w] < Quota(w)
  /\ begun' = [begun EXCEPT ![w] = @ + 1]
  /\ writing' = [writing EXCEPT ![w] = Bytes(FrameOf(w, begun[w] + 1))]
  /\ timed' = [timed EXCEPT ![w] = session.at = "greet"]
  /\ UNCHANGED <<open, down, up, overlapped, givenUp, glued, deviceSide, sessionSide>>

SendSome(w) ==
  /\ open /\ writing[w] # << >> /\ Room(down) > 0
  /\ down' = Taken(writing[w], down)
  /\ writing' = [writing EXCEPT ![w] = Left(@, down)]
  /\ LET cut == {u \in Writer \ {w} : MidFrame(u)}
     IN  overlapped' = overlapped \cup
           (IF cut = {} THEN {} ELSE {FrameOf(u, begun[u]) : u \in cut \cup {w}})
  /\ glued' = glued \cup (IF EndsGivenUp THEN {FrameOf(w, begun[w])} ELSE {})
  /\ UNCHANGED <<open, begun, timed, givenUp, up, deviceSide, sessionSide>>

\* socket.timeout, which _send() takes for a failed send: nobody closes the connection,
\* and what the kernel took of the frame stays in the stream.  The session does not
\* catch its own (SessionCloses).
SendTimesOut(w) ==
  /\ w # "session" /\ open /\ timed[w]
  /\ writing[w] # << >> /\ Room(down) = 0
  /\ writing' = [writing EXCEPT ![w] = << >>]
  /\ givenUp' = givenUp \cup {FrameOf(w, begun[w])}
  /\ UNCHANGED <<open, down, up, begun, timed, overlapped, glued, deviceSide, sessionSide>>

\* sendall() raises, or its bytes go nowhere.
SendIsLost(w) ==
  /\ ~open /\ writing[w] # << >>
  /\ writing' = [writing EXCEPT ![w] = << >>]
  /\ UNCHANGED <<open, down, up, begun, timed, overlapped, givenUp, glued, deviceSide, sessionSide>>

Send(w) == SendBegin(w) \/ SendSome(w) \/ SendTimesOut(w) \/ SendIsLost(w)
-----------------------------------------------------------------------------
(* Reading lines: recv() any part of the stream, then take lines out of the *)
(* buffer for as long as it has one.                                        *)

HasLine(buffer) == \E i \in DOMAIN buffer : IsNewline(buffer[i])

LineEnd(buffer) == CHOOSE i \in DOMAIN buffer :
  IsNewline(buffer[i]) /\ \A j \in 1 .. i - 1 : ~IsNewline(buffer[j])

Line(buffer) == SubSeq(buffer, 1, LineEnd(buffer) - 1)

\* Mutant: what follows the first line is thrown away with it.
RestDropped(buffer) == << >>

Rest(buffer) == SubSeq(buffer, LineEnd(buffer) + 1, Len(buffer))

\* Mutant: recv() is called when whole lines are there.
ChunksOfLines(stream) == {n \in 1 .. Len(stream) : IsNewline(stream[n])}

Chunks(stream) == 1 .. Len(stream)

DeviceRecv ==
  /\ device.at = "recv"
  /\ \E n \in Chunks(down) :
       /\ device' = [device EXCEPT !.at = "lines", !.buffer = @ \o SubSeq(down, 1, n)]
       /\ down' = SubSeq(down, n + 1, Len(down))
  /\ UNCHANGED <<open, up, controllerVars, handled, torn, answered, sessionSide>>

\* _handle() when the line is a frame; blank and malformed lines are skipped.
DeviceLine ==
  /\ device.at = "lines" /\ device.out = << >> /\ HasLine(device.buffer)
  /\ LET line == Line(device.buffer)
         frame == line[1][1]
         replies == IF IsFrame(line) THEN Replies(frame) ELSE << >>
     IN  /\ device' = [device EXCEPT !.buffer = Rest(@),
                                     !.out = FlattenSeq([i \in DOMAIN replies |-> Bytes(replies[i])])]
         /\ answered' = answered \o replies
         /\ IF IsFrame(line)
            THEN handled' = handled \cup {frame} /\ UNCHANGED torn
            ELSE torn' = torn \cup {b[1] : b \in ToSet(line)} /\ UNCHANGED handled
  /\ UNCHANGED <<open, down, up, controllerVars, sessionSide>>

\* Mutant: back to recv() after any line.
DeviceNoLineYet ==
  /\ device.at = "lines" /\ device.out = << >>
  /\ device' = [device EXCEPT !.at = "recv"]
  /\ UNCHANGED <<open, down, up, controllerVars, handled, torn, answered, sessionSide>>

DeviceNoLine ==
  /\ device.at = "lines" /\ device.out = << >> /\ ~HasLine(device.buffer)
  /\ device' = [device EXCEPT !.at = "recv"]
  /\ UNCHANGED <<open, down, up, controllerVars, handled, torn, answered, sessionSide>>

\* send() under _send_lock.
DeviceSend ==
  /\ open /\ device.out # << >> /\ Room(up) > 0
  /\ up' = Taken(device.out, up)
  /\ device' = [device EXCEPT !.out = Left(@, up)]
  /\ UNCHANGED <<open, down, controllerVars, handled, torn, answered, sessionSide>>

\* sendall() times out after POLL_INTERVAL_SEC or raises, or recv() returns nothing:
\* _close().
DeviceCloses ==
  /\ device.at # "closed"
  /\ \/ device.out # << >> /\ (Room(up) = 0 \/ ~open)
     \/ device.at = "recv" /\ ~open /\ down = << >>
  /\ open' = FALSE /\ down' = << >>
  /\ device' = [at |-> "closed", buffer |-> << >>, out |-> << >>]
  /\ UNCHANGED <<up, controllerVars, handled, torn, answered, sessionSide>>

Device == DeviceRecv \/ DeviceLine \/ DeviceNoLine \/ DeviceSend \/ DeviceCloses
-----------------------------------------------------------------------------
\* AUTH_OK is out: settimeout(None) and on to the next recv().
SessionGreeted ==
  /\ session.at = "greet" /\ open /\ writing["session"] = << >>
  /\ session' = [session EXCEPT !.at = "recv"]
  /\ UNCHANGED <<open, down, up, controllerVars, deviceSide, got>>

SessionRecv ==
  /\ session.at = "recv"
  /\ \E n \in Chunks(up) :
       /\ session' = [at |-> "lines", buffer |-> session.buffer \o SubSeq(up, 1, n)]
       /\ up' = SubSeq(up, n + 1, Len(up))
  /\ UNCHANGED <<open, down, controllerVars, deviceSide, got>>

SessionLine ==
  /\ session.at = "lines" /\ HasLine(session.buffer)
  /\ LET line == Line(session.buffer)
     IN  got' = Append(got, IF IsFrame(line) THEN line[1][1] ELSE Torn)
  /\ session' = [session EXCEPT !.buffer = Rest(@)]
  /\ UNCHANGED <<open, down, up, controllerVars, deviceSide>>

SessionNoLine ==
  /\ session.at = "lines" /\ ~HasLine(session.buffer)
  /\ session' = [session EXCEPT !.at = "recv"]
  /\ UNCHANGED <<open, down, up, controllerVars, deviceSide, got>>

\* sendall() of AUTH_OK times out or raises, or recv() returns nothing: conn.close().
SessionCloses ==
  /\ \/ session.at = "greet" /\ (~open \/ (Room(down) = 0 /\ writing["session"] # << >>))
     \/ session.at = "recv" /\ ~open /\ up = << >>
  /\ open' = FALSE /\ up' = << >>
  /\ session' = [at |-> "closed", buffer |-> << >>]
  /\ UNCHANGED <<down, controllerVars, deviceSide, got>>

Session == SessionGreeted \/ SessionRecv \/ SessionLine \/ SessionNoLine \/ SessionCloses

Next == Device \/ Session \/ \E w \in Writer : Send(w)

Spec == Init /\ [][Next]_vars

(* All three threads run, a call that was begun goes on while the kernel    *)
(* has room, and the timeouts of the device and of AUTH_OK elapse.  Those   *)
(* of other threads need not: settimeout(None) may overtake the call.       *)
(* Nothing makes a thread send.                                             *)
FairSpec ==
  /\ Spec
  /\ WF_vars(Device) /\ WF_vars(Session)
  /\ \A w \in Writer : WF_vars(SendSome(w) \/ SendIsLost(w))
-----------------------------------------------------------------------------
AllBytes == UNION {ToSet(Bytes(f)) : f \in Requests \cup UNION {ToSet(Replies(f)) : f \in Requests}}

TypeOK ==
  /\ open \in BOOLEAN
  /\ \A w \in Writer : /\ begun[w] \in 0 .. Quota(w) /\ writing[w] \in Seq(AllBytes)
                        /\ timed[w] \in BOOLEAN
  /\ \A stream \in {down, up} : stream \in Seq(AllBytes) /\ Len(stream) <= SendBuffer
  /\ device.at \in {"recv", "lines", "closed"}
  /\ session.at \in {"greet", "recv", "lines", "closed"}
  /\ \A b \in {device.buffer, device.out, session.buffer} : b \in Seq(AllBytes)
  /\ UNION {overlapped, givenUp, glued, handled, torn} \subseteq Requests

\* Requests that another thread or a timeout came across.
Disturbed == overlapped \cup givenUp \cup glued

\* A frame is spoilt by three things only: another one that was written while it, or
\* the other one, was half written; its own sendall(), begun in the session's last
\* steps before settimeout(None) and given up half way; or such a half right before
\* it.  Small chunks and several frames in a chunk are no danger, nor are full buffers
\* from settimeout(None) on, and a spoilt line takes no other frame with it.
OnlyDisturbedFramesAreTorn == torn \subseteq Disturbed

\* The device's frames, written by one thread under a lock, are what Transport
\* assumes: whole, in order, each at most once, none after a lost one.
Upstream == INSTANCE LineChannel WITH sent <- answered, got <- got
RepliesAreAChannel == Upstream!Spec

\* No sendall() waits for ever: not the session's AUTH_OK, for a device that cannot
\* write because the session does not read yet, and no other thread's either.
EverySendReturns ==
  /\ \A w \in Writer : writing[w] # << >> ~> writing[w] = << >>
  /\ device.out # << >> ~> device.out = << >>

\* In the end every request that nothing came across was handled, and all its replies
\* were read, unless the connection ended.
IntactRequestsAreAnswered ==
  <>[](\A w \in Writer : \A n \in 1 .. begun[w] :
         \/ ~open \/ FrameOf(w, n) \in Disturbed
         \/ /\ FrameOf(w, n) \in handled
            /\ ToSet(Replies(FrameOf(w, n))) \subseteq ToSet(got))
=============================================================================
