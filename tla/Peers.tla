-------------------------------- MODULE Peers --------------------------------
(***************************************************************************)
(* The session protocol against peers that send anything: scanners, wrong  *)
(* clients, silent sockets, and several live connections that present the  *)
(* same device id (a device that reconnected before its old session        *)
(* noticed).  Only the accept loop and the session threads run here.       *)
(***************************************************************************)
EXTENDS Sessions

CONSTANT MaxFrames   \* bound: frames a peer sends on one connection, drips apart

ASSUME MaxFramesAssumption == MaxFrames \in Nat

VARIABLES
  first,    \* history: connection -> the first JSON object its peer sent
  spoken    \* history: connection -> frames its peer sent

peerVars == <<first, spoken>>
vars == <<transportVars, registry, pending, samples, sessionVars, peerVars>>

Frames ==
  {make_auth(d, TRUE) : d \in Device \cup {None}} \cup {make_auth(d, FALSE) : d \in Device}
    \cup {Garbage, Unexpected, make_heartbeat_ack}
    \cup {make_received_ack(c, 0) : c \in Cmd}
    \cup {make_status(1, c, 0) : c \in Cmd \cup {None}}

ASSUME NoneIsNoFrame == None \notin Frames

TypeOK ==
  /\ TransportTypeOK /\ RegistryTypeOK /\ PendingTypeOK /\ SamplesTypeOK /\ SessionTypeOK
  /\ first \in [Conn -> Frames \cup {None}]
  /\ spoken \in [Conn -> 0 .. MaxFrames]

\* The operator sent every command before, to any device.
Init ==
  /\ TransportInit /\ RegistryInit /\ SamplesInit /\ SessionInit
  /\ \E target \in [Cmd -> Device] : pending = [c \in Cmd |-> NewItem(target[c])]
  /\ first = [c \in Conn |-> None]
  /\ spoken = [c \in Conn |-> 0]

PeerConnects(c) ==
  /\ Fresh(c)
  /\ link' = [link EXCEPT ![c] = "up"]
  /\ UNCHANGED <<up, down, registry, pending, samples, sessionVars, peerVars>>

PeerSends(c, m) ==
  /\ link[c] = "up" /\ spoken[c] < MaxFrames
  /\ DeviceSend(c, m)
  /\ spoken' = [spoken EXCEPT ![c] = @ + 1]
  /\ first' = IF first[c] = None /\ m # Garbage THEN [first EXCEPT ![c] = m] ELSE first
  /\ UNCHANGED <<registry, pending, samples, sessionVars>>

\* Lines that are no JSON object, one at a time, for as long as the peer likes.
PeerDrips(c) ==
  /\ link[c] = "up" /\ up[c] = << >> /\ handler[c] = "accepted"
  /\ DeviceSend(c, Garbage)
  /\ UNCHANGED <<registry, pending, samples, sessionVars, peerVars>>

PeerLeaves(c) ==
  /\ link[c] = "up" /\ Cut(c)
  /\ UNCHANGED <<registry, pending, samples, sessionVars, peerVars>>

AcceptLoop(c) == Accept(c) /\ UNCHANGED peerVars

SessionThread(c) == SessionStep(c, 0) /\ UNCHANGED peerVars

Next == \E c \in Conn :
  \/ PeerConnects(c)
  \/ \E m \in Frames : PeerSends(c, m)
  \/ PeerDrips(c)
  \/ PeerLeaves(c)
  \/ AcceptLoop(c)
  \/ SessionThread(c)

Spec == Init /\ [][Next]_vars

\* Threads run; peers do as they please.
FairSpec == Spec /\ \A c \in Conn : WF_vars(AcceptLoop(c) \/ SessionThread(c))
-----------------------------------------------------------------------------
\* The first JSON object of a peer settles who it is for the whole connection:
\* no later AUTH repairs a refused session or renames an accepted one.
FirstFrameDecides ==
  \A c \in Conn :
    IF first[c] # None /\ Acceptable(first[c])
    THEN device_id[c] \in {None, first[c].device_id} /\ handler[c] # "refusing"
    ELSE device_id[c] = None /\ handler[c] \notin {"registered", "open", "status"}

\* Everything a peer sends before its AUTH is without effect, and so is whatever
\* it sends when it has been refused.
OnlyGreetedPeersAct == [][
  \/ UNCHANGED <<pending, samples>>
  \/ \E c \in Conn : /\ first[c] # None /\ Acceptable(first[c])
                     /\ up'[c] # up[c] /\ handler[c] \in {"open", "status"}]_vars

\* A peer that connects and never speaks holds its thread only until the timeout.
SilentPeerIsDropped ==
  \A c \in Conn :
    handler[c] = "accepted" /\ up[c] = << >> ~> handler[c] # "accepted" \/ up[c] # << >>

\* The finally clause runs whichever way a session ends: its socket is closed,
\* and none of its device ids stays behind in the registry.
EndedSessionCleansUp ==
  \A c \in Conn :
    handler[c] \in {"refusing", "closing", "unregistered"}
      ~> handler[c] = "closed" /\ \A d \in Device : get_conn(d) # c

\* .env.example:14 "How long an unauthenticated peer may stay connected without
\* sending AUTH": the timeout is that of one recv(), so any line restarts it.
UnauthenticatedPeerLeaves ==
  \A c \in Conn : handler[c] = "accepted" ~> handler[c] # "accepted"
=============================================================================
