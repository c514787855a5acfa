--------------------------- MODULE LatencyMonitor ---------------------------
(***************************************************************************)
(* The sample store of controller/server/latency_monitor.py: one bounded   *)
(* ring of samples per channel and device.  record() and clear() are the   *)
(* operations that change it, each one critical section under its _lock.   *)
(* A device with no bucket yet is one with an empty bucket.  What stats()  *)
(* computes from a bucket is in LatencyStats.                              *)
(***************************************************************************)
EXTENDS Protocol, Sequences

CONSTANT MAX_SAMPLES   \* deque(maxlen=MAX_SAMPLES)

ASSUME MaxSamplesAssumption == MAX_SAMPLES \in Nat \ {0}

VARIABLE samples

CHANNELS == {"ack", "execute", "heartbeat"}

\* cmd_id is history (None on the heartbeat channel).  The latency of a command
\* is abstracted to the send it is measured from: 0 for add_command(), n for
\* the n-th bump_retry().
Sample == [cmd_id : Cmd \cup {None}, latency : Nat]

SamplesTypeOK == samples \in [CHANNELS -> [Device -> Seq(Sample)]]

SamplesInit == samples = [channel \in CHANNELS |-> [d \in Device |-> << >>]]

\* Mutant: the ring has no maxlen.
PushUnbounded(bucket, x) == Append(bucket, x)

\* Mutant: a full ring refuses new samples.
PushUnlessFull(bucket, x) == IF Len(bucket) < MAX_SAMPLES THEN Append(bucket, x) ELSE bucket

\* Mutant: a full ring makes room, and the new sample is forgotten.
PushMakesRoom(bucket, x) == IF Len(bucket) < MAX_SAMPLES THEN Append(bucket, x) ELSE Tail(bucket)

\* deque.append(): the oldest sample makes room when the ring is full.
PushRing(bucket, x) ==
  IF Len(bucket) < MAX_SAMPLES THEN Append(bucket, x) ELSE Append(Tail(bucket), x)

record(channel, d, x) ==
  samples' = [samples EXCEPT ![channel][d] = PushRing(@, x)]

clear == samples' = [channel \in CHANNELS |-> [d \in Device |-> << >>]]
=============================================================================
