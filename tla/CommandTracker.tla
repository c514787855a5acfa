--------------------------- MODULE CommandTracker ---------------------------
(***************************************************************************)
(* The command table of controller/server/command_tracker.py.              *)
(*                                                                         *)
(* Each operator is one critical section under the module's _lock.  The    *)
(* call of lm.record() that follows the section in mark_received() and     *)
(* mark_executed() is taken with it where nothing in between looks at the  *)
(* samples; in Benchmark something does, and they are two steps.           *)
(*                                                                         *)
(* Clocks are abstracted to what is compared with a deadline: overdue says *)
(* that COMMAND_ACK_TIMEOUT_SEC passed since last_sent, expired that       *)
(* COMPLETED_RETENTION_SEC passed since the command finished.  Both are    *)
(* set by time (AckTimeout, RetentionElapses), at any moment it could be.  *)
(***************************************************************************)
EXTENDS LatencyMonitor, FiniteSets

CONSTANT MAX_TRACKED

ASSUME MaxTrackedAssumption == MAX_TRACKED \in Nat

VARIABLE pending   \* _pending: command -> its item, None when it is not a key

\* ack_latency and execute_latency: see Sample in LatencyMonitor.
Item == [device_id       : Device,
         received        : BOOLEAN,
         executed        : BOOLEAN,
         failed          : BOOLEAN,
         retry_count     : Nat,
         ack_latency     : Nat \cup {None},
         execute_latency : Nat \cup {None},
         overdue         : BOOLEAN,
         expired         : BOOLEAN]

ASSUME NoneIsNoItem == None \notin Item

PendingTypeOK == pending \in [Cmd -> Item \cup {None}]

PendingInit == pending = [c \in Cmd |-> None]

Tracked(c) == pending[c] # None

TrackedCmds == {c \in Cmd : Tracked(c)}

Finished(c) == pending[c].executed \/ pending[c].failed

NewItem(d) ==
  [device_id |-> d, received |-> FALSE, executed |-> FALSE, failed |-> FALSE,
   retry_count |-> 0, ack_latency |-> None, execute_latency |-> None,
   overdue |-> FALSE, expired |-> FALSE]

add_command(c, d) == pending' = [pending EXCEPT ![c] = NewItem(d)]

\* The sample both marks take: from the last send of the table to now.
record_since_send(channel, c) ==
  record(channel, pending[c].device_id, [cmd_id |-> c, latency |-> pending[c].retry_count])

Receive(c) ==
  /\ pending' = [pending EXCEPT ![c].received = TRUE,
                                ![c].ack_latency = pending[c].retry_count]
  /\ record_since_send("ack", c)

\* executed_at takes over from failed_at in prune(), so the retention restarts.
SetExecuted(c) ==
  pending' = [pending EXCEPT ![c].executed = TRUE, ![c].expired = FALSE,
                             ![c].execute_latency = pending[c].retry_count]

Execute(c) == SetExecuted(c) /\ record_since_send("execute", c)

\* Mutant: a repeated ack counts again.
mark_received_again(c) ==
  IF Tracked(c) THEN Receive(c) ELSE UNCHANGED <<pending, samples>>

\* Mutant: the ack of a failed command is ignored.
mark_received_unless_failed(c) ==
  IF Tracked(c) /\ ~pending[c].received /\ ~pending[c].failed
  THEN Receive(c) ELSE UNCHANGED <<pending, samples>>

mark_received(c) ==
  IF Tracked(c) /\ ~pending[c].received
  THEN Receive(c) ELSE UNCHANGED <<pending, samples>>

\* Mutant: the STATUS of a failed command is ignored.
mark_executed_unless_failed(c) ==
  IF Tracked(c) /\ ~Finished(c) THEN Execute(c) ELSE UNCHANGED <<pending, samples>>

mark_executed(c) ==
  IF Tracked(c) /\ ~pending[c].executed
  THEN Execute(c) ELSE UNCHANGED <<pending, samples>>

\* Mutant: a failure report brings a pruned command back.
mark_failed_restores(c) ==
  pending' = [pending EXCEPT ![c] = NewItem(CHOOSE d \in Device : TRUE), ![c].failed = TRUE]

\* A new failed_at counts in prune() only while there is no executed_at.
mark_failed(c) ==
  pending' = IF Tracked(c)
             THEN [pending EXCEPT ![c].failed = TRUE,
                                  ![c].expired = pending[c].expired /\ pending[c].executed]
             ELSE pending

\* Mutant: the retry restarts the clock but is not counted.
bump_clock_only(c) ==
  pending' = IF Tracked(c) THEN [pending EXCEPT ![c].overdue = FALSE] ELSE pending

bump_retry(c) ==
  pending' = IF Tracked(c)
             THEN [pending EXCEPT ![c].retry_count = @ + 1, ![c].overdue = FALSE]
             ELSE pending

\* Mutant: an acked command is nobody's business any more.
UnfinishedUnacked == {c \in TrackedCmds : ~Finished(c) /\ ~pending[c].received}

\* Mutant: finished commands are handed out too.
UnfinishedAny == TrackedCmds

\* The keys of pending_items().
Unfinished == {c \in TrackedCmds : ~Finished(c)}

\* counts()["in_flight"]
InFlight == Cardinality(TrackedCmds)
              - Cardinality({c \in TrackedCmds : pending[c].executed})
              - Cardinality({c \in TrackedCmds : pending[c].failed})

\* The finished commands past retention, then the oldest of the rest until
\* MAX_TRACKED are left (none when there are no more than that).
Stale == {c \in TrackedCmds : Finished(c) /\ pending[c].expired}

\* Mutant: one entry too many.
OverflowOneMore ==
  LET kept == TrackedCmds \ Stale
  IN  {c \in kept : Cardinality({b \in kept : b < c}) <= Cardinality(kept) - MAX_TRACKED}

Overflow ==
  LET kept == TrackedCmds \ Stale
  IN  {c \in kept : Cardinality({b \in kept : b < c}) < Cardinality(kept) - MAX_TRACKED}

prune == pending' = [c \in Cmd |-> IF c \in Stale \cup Overflow THEN None ELSE pending[c]]

\* clear() of this module; its name is taken by the other one.
clear_pending == pending' = [c \in Cmd |-> None]

\* Time passes.
AckTimeout(c) ==
  /\ Tracked(c) /\ ~pending[c].overdue
  /\ pending' = [pending EXCEPT ![c].overdue = TRUE]

RetentionElapses(c) ==
  /\ Tracked(c) /\ Finished(c) /\ ~pending[c].expired
  /\ pending' = [pending EXCEPT ![c].expired = TRUE]
=============================================================================
