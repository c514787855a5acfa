----------------------------- MODULE LatencyStats ----------------------------
(***************************************************************************)
(* The statistics of controller/server/latency_monitor.py: which samples a *)
(* channel still holds, and what stats() reports of them.  The latencies   *)
(* are positive integers here; rounding to 3 digits is left out, and the   *)
(* mean is kept as the sum it is computed from.                            *)
(***************************************************************************)
EXTENDS LatencyMonitor, SequencesExt

CONSTANTS
  Latency,      \* the latencies that are recorded
  Percent,      \* the percentages percentile() is compared with its definition for
  MaxRecords    \* bound: calls of record()

ASSUME LatencyAssumption == Latency \subseteq Nat
ASSUME PercentAssumption == Percent \subseteq 0 .. 100
ASSUME MaxRecordsAssumption == MaxRecords \in Nat
ASSUME NoRowsAssumption == None \notin Seq(Device)

\* What _summarise() returns.
Summary == [count : Nat, min_ms : Nat, sum : Nat, p50_ms : Nat, p95_ms : Nat, p99_ms : Nat,
            max_ms : Nat]

ASSUME NoSummaryAssumption == None \notin Summary

VARIABLES
  recorded,   \* history: channel, device -> every latency since the last clear()
  table       \* the operator's format_table(per_device=True): the rest of its channels
              \* (the first is the current one), the devices whose row is to come, None
              \* before they are looked up, and the counts of the rows so far

vars == <<samples, recorded, table>>

\* Mutant: the nearest integer, halves to even, instead of the next one.
RankRounded(pct, n) ==
  LET half == 2 * pct * n
      nearest == IF half % 200 = 100 THEN 2 * ((half + 100) \div 400)
                 ELSE (half + 100) \div 200
  IN  Max({1, Min({n, nearest})})

\* math.ceil(pct / 100.0 * n) within 1 .. n.  The floating-point product is exact
\* enough for 50, 95 and 99, the ones used, and n up to MAX_SAMPLES = 1000.
Rank(pct, n) == Max({1, Min({n, -((-pct * n) \div 100)})})

\* _percentile()
percentile(ordered, pct) == IF ordered = << >> THEN 0 ELSE ordered[Rank(pct, Len(ordered))]

\* Mutant: the samples in the order they came in.
InOrderUnsorted(values) == values

\* The values sorted() puts no later than the j-th: smaller ones, equal ones as they came.
Ahead(values, j) ==
  {k \in DOMAIN values : values[k] < values[j] \/ (values[k] = values[j] /\ k <= j)}

\* sorted(values), which is stable
InOrder(values) ==
  [i \in DOMAIN values |->
     values[CHOOSE j \in DOMAIN values : Cardinality(Ahead(values, j)) = i]]

\* _summarise()
summarise(values) ==
  LET ordered == InOrder(values)
  IN  [count |-> Len(ordered),
       min_ms |-> ordered[1],
       sum |-> FoldSeq(+, 0, ordered),
       p50_ms |-> percentile(ordered, 50),
       p95_ms |-> percentile(ordered, 95),
       p99_ms |-> percentile(ordered, 99),
       max_ms |-> ordered[Len(ordered)]]

Latencies(bucket) == [i \in DOMAIN bucket |-> bucket[i].latency]

\* The keys of by_device.
Buckets(channel) == {d \in Device : samples[channel][d] # << >>}

\* The values stats(channel, d) looks at, of all devices for None.
ValuesOf(channel, d) ==
  IF d # None THEN Latencies(samples[channel][d])
  ELSE LET order == SetToSeq(Buckets(channel))
       IN  FlattenSeq([i \in DOMAIN order |-> Latencies(samples[channel][order[i]])])

stats(channel, d) ==
  LET values == ValuesOf(channel, d)
  IN  IF values = << >> THEN None ELSE summarise(values)

TypeOK ==
  /\ SamplesTypeOK
  /\ \A channel \in CHANNELS, d \in Device : Len(samples[channel][d]) <= MAX_SAMPLES
  /\ recorded \in [CHANNELS -> [Device -> Seq(Latency)]]
  /\ table \in [channels : Seq(CHANNELS), ids : Seq(Device) \cup {None}, counted : Nat]

NoTable == [channels |-> << >>, ids |-> None, counted |-> 0]

Init ==
  /\ SamplesInit
  /\ table = NoTable
  /\ recorded = [channel \in CHANNELS |-> [d \in Device |-> << >>]]

Calls == FoldSet(LAMBDA channel, n :
           n + FoldSet(LAMBDA d, m : m + Len(recorded[channel][d]), 0, Device), 0, CHANNELS)

Record(channel, d, x) ==
  /\ Calls < MaxRecords
  /\ record(channel, d, [cmd_id |-> None, latency |-> x])
  /\ recorded' = [recorded EXCEPT ![channel][d] = Append(@, x)]
  /\ UNCHANGED table

\* Mutant: another thread clears.
ClearAnytime ==
  /\ clear
  /\ recorded' = [channel \in CHANNELS |-> [d \in Device |-> << >>]]
  /\ UNCHANGED table

\* show_latency(reset=True), by the thread that also makes the tables.
Clear ==
  /\ table = NoTable
  /\ clear
  /\ recorded' = [channel \in CHANNELS |-> [d \in Device |-> << >>]]
  /\ UNCHANGED table

(* format_table(): every lookup takes the lock for itself.                  *)
TableBegins ==
  /\ table = NoTable
  /\ table' = [NoTable EXCEPT !.channels = <<"ack", "execute", "heartbeat">>]
  /\ UNCHANGED <<samples, recorded>>

\* device_ids(): whoever has a bucket in some channel.
TableListsDevices ==
  /\ table.channels # << >> /\ table.ids = None
  /\ table' = [table EXCEPT !.ids =
       SetToSeq(UNION {Buckets(channel) : channel \in CHANNELS})]
  /\ UNCHANGED <<samples, recorded>>

TableDeviceRow ==
  /\ table.ids \notin {None, << >>}
  /\ table' = [table EXCEPT !.ids = Tail(@),
                            !.counted = @ + Len(ValuesOf(Head(table.channels), Head(table.ids)))]
  /\ UNCHANGED <<samples, recorded>>

\* The row ALL, and on to the next channel.
TableTotalRow ==
  /\ table.ids = << >>
  /\ table' = [NoTable EXCEPT !.channels = Tail(table.channels)]
  /\ UNCHANGED <<samples, recorded>>

Next ==
  \/ \E channel \in CHANNELS, d \in Device, x \in Latency : Record(channel, d, x)
  \/ Clear
  \/ TableBegins
  \/ TableListsDevices
  \/ TableDeviceRow
  \/ TableTotalRow

Spec == Init /\ [][Next]_vars
-----------------------------------------------------------------------------
\* A ring holds exactly the newest MAX_SAMPLES samples, oldest first.
RingKeepsNewest ==
  \A channel \in CHANNELS, d \in Device :
    LET all == recorded[channel][d]
    IN  Latencies(samples[channel][d])
          = SubSeq(all, Max({1, Len(all) - MAX_SAMPLES + 1}), Len(all))

\* "The p-th percentile is the smallest value at or below which at least p% of
\* samples fall" (latency_monitor.py:64-65), in whatever order they were recorded.
PercentileIsNearestRank ==
  \A channel \in CHANNELS, d \in Device \cup {None}, pct \in Percent \ {0} :
    LET values == ValuesOf(channel, d)
        Enough(v) == 100 * Cardinality({i \in DOMAIN values : values[i] <= v})
                       >= pct * Len(values)
    IN  values # << >> =>
          percentile(InOrder(values), pct) = Min({v \in ToSet(values) : Enough(v)})

\* The row of all devices lies between those of the single devices: its extremes
\* are theirs, and no percentile of it is better or worse than all of theirs.
AllDevicesBetweenDevices ==
  \A channel \in CHANNELS :
    LET rows == {stats(channel, d) : d \in Device} \ {None}
        all  == stats(channel, None)
    IN  rows # {} =>
          /\ all.count = Len(ValuesOf(channel, None))
          /\ all.min_ms = Min({r.min_ms : r \in rows})
          /\ all.max_ms = Max({r.max_ms : r \in rows})
          /\ all.p50_ms \in Min({r.p50_ms : r \in rows}) .. Max({r.p50_ms : r \in rows})
          /\ all.p95_ms \in Min({r.p95_ms : r \in rows}) .. Max({r.p95_ms : r \in rows})
          /\ all.p99_ms \in Min({r.p99_ms : r \in rows}) .. Max({r.p99_ms : r \in rows})
          /\ all.min_ms * all.count <= all.sum /\ all.sum <= all.max_ms * all.count

\* Samples come in while a table is made, row by row, but what its device rows count
\* is never more than what the row ALL that closes the channel will.
RowsAddUpToLessThanAll ==
  table.channels # << >> =>
    table.counted <= Len(ValuesOf(Head(table.channels), None))
=============================================================================
