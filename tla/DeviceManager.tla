--------------------------- MODULE DeviceManager ----------------------------
(***************************************************************************)
(* The device registry of controller/server/device_manager.py.             *)
(*                                                                         *)
(* Each operator below is one critical section under the module's _lock,   *)
(* hence one atomic step of the thread that calls it.  registry[d] is the  *)
(* entry of _registry, None when d is not a key.  A caller that keeps a    *)
(* copy of an entry (get, all_devices, get_conn) keeps it in a variable of *)
(* its own.  The fields type, addr, connected_at and last_status_time only *)
(* feed displays and are left out.                                         *)
(***************************************************************************)
EXTENDS Transport

VARIABLE registry

\* Clock readings are natural numbers; last_status is None for the initial {}.
Entry == [conn              : Conn,
          last_heartbeat    : Nat,
          heartbeat_sent_at : Nat \cup {None},
          alive             : BOOLEAN,
          last_status       : Nat \cup {None}]

ASSUME NoneIsNoEntry == None \notin Entry

RegistryTypeOK == registry \in [Device -> Entry \cup {None}]

RegistryInit == registry = [d \in Device |-> None]

is_connected(d) == registry[d] # None

get_conn(d) == IF is_connected(d) THEN registry[d].conn ELSE None

register(d, c, now) ==
  registry' = [registry EXCEPT ![d] =
    [conn |-> c, last_heartbeat |-> now, heartbeat_sent_at |-> None,
     alive |-> TRUE, last_status |-> None]]

\* The entry still holds that exact socket.
HoldsSocket(d, c) == is_connected(d) /\ registry[d].conn = c

\* Mutant: any session of the device removes the entry.
unregister_any(d, c) == registry' = [registry EXCEPT ![d] = None]

\* Mutant: the entry stays, without a socket.
unregister_blank(d, c) ==
  registry' = IF HoldsSocket(d, c) THEN [registry EXCEPT ![d].conn = None] ELSE registry

unregister(d, c) ==
  registry' = IF HoldsSocket(d, c) THEN [registry EXCEPT ![d] = None] ELSE registry

mark_heartbeat_sent(d, now) ==
  registry' = IF is_connected(d)
              THEN [registry EXCEPT ![d].heartbeat_sent_at = now] ELSE registry

clear_heartbeat_sent(d) ==
  registry' = IF is_connected(d)
              THEN [registry EXCEPT ![d].heartbeat_sent_at = None] ELSE registry

\* The round trip this call returns; None when no ping is outstanding.
HeartbeatRtt(d, now) ==
  IF is_connected(d) /\ registry[d].heartbeat_sent_at # None
  THEN IF now < registry[d].heartbeat_sent_at THEN 0 ELSE now - registry[d].heartbeat_sent_at
  ELSE None

update_heartbeat(d, now) ==
  registry' = IF is_connected(d)
              THEN [registry EXCEPT ![d].last_heartbeat = now, ![d].alive = TRUE,
                                    ![d].heartbeat_sent_at = None]
              ELSE registry

update_status(d, state) ==
  registry' = IF is_connected(d)
              THEN [registry EXCEPT ![d].last_status = state] ELSE registry

mark_stale(d) ==
  registry' = IF is_connected(d)
              THEN [registry EXCEPT ![d].alive = FALSE] ELSE registry
=============================================================================
