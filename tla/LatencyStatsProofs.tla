------------------------- MODULE LatencyStatsProofs -------------------------
(***************************************************************************)
(* The rings hold the newest samples, the percentiles are the nearest-rank *)
(* ones, and the rows of a table agree with each other, for any number of  *)
(* devices, samples and calls, and any MAX_SAMPLES.                        *)
(***************************************************************************)
EXTENDS LatencyStats, FiniteSetTheorems, FunctionTheorems, SequenceTheorems,
        WellFoundedInduction, TLAPS

\* The ring is a window on the end of all that was recorded.
Window(ring, all) ==
  /\ Len(ring) = IF Len(all) <= MAX_SAMPLES THEN Len(all) ELSE MAX_SAMPLES
  /\ \A i \in 1 .. Len(ring) : ring[i].latency = all[Len(all) - Len(ring) + i]

\* Whoever has a bucket.
Measured == {d \in Device : \E channel \in CHANNELS : samples[channel][d] # << >>}

StatsInv ==
  /\ TypeOK
  /\ IsFiniteSet(Measured)
  /\ table.ids # None => table.channels # << >>
  /\ \A channel \in CHANNELS, d \in Device :
       Window(samples[channel][d], recorded[channel][d])

LEMMA PushKeepsWindow ==
  ASSUME NEW ring \in Seq(Sample), NEW all \in Seq(Latency), Window(ring, all),
         NEW x \in Sample, x.latency \in Latency
  PROVE  /\ PushRing(ring, x) \in Seq(Sample) /\ Len(PushRing(ring, x)) <= MAX_SAMPLES
         /\ Append(all, x.latency) \in Seq(Latency)
         /\ Window(PushRing(ring, x), Append(all, x.latency))
<1> DEFINE r == PushRing(ring, x)
           a == Append(all, x.latency)
           n == Len(all)
           k == Len(ring)
<1>0. MAX_SAMPLES \in Nat \ {0} /\ n \in Nat /\ k \in Nat /\ k <= n
  BY MaxSamplesAssumption DEF Window
<1>1. /\ a \in Seq(Latency) /\ Len(a) = n + 1 /\ a[n + 1] = x.latency
      /\ \A i \in 1 .. n : a[i] = all[i]
  OBVIOUS
<1>w. \A i \in 1 .. k : ring[i].latency = all[n - k + i]
  BY DEF Window
<1>2. CASE k < MAX_SAMPLES
  <2>1. n = k
    BY <1>0, <1>2 DEF Window
  <2>2. /\ r \in Seq(Sample) /\ Len(r) = k + 1 /\ r[k + 1] = x
        /\ \A i \in 1 .. k : r[i] = ring[i]
    BY <1>2 DEF PushRing
  <2>3. \A i \in 1 .. k : ring[i].latency = all[i]
    <3> SUFFICES ASSUME NEW i \in 1 .. k PROVE ring[i].latency = all[i]
      OBVIOUS
    <3>1. n - k + i = i
      BY <1>0, <2>1
    <3> QED BY <1>w, <3>1
  <2>4. \A i \in 1 .. k + 1 : r[i].latency = a[i]
    BY <1>0, <1>1, <2>1, <2>2, <2>3
  <2> HIDE DEF r, a
  <2>5. Window(r, a)
    BY <1>0, <1>1, <1>2, <2>1, <2>2, <2>4 DEF Window
  <2> QED BY <1>0, <1>1, <1>2, <2>2, <2>5 DEF r, a
<1>3. CASE ~(k < MAX_SAMPLES)
  <2>1. k = MAX_SAMPLES
    BY <1>0, <1>3 DEF Window
  <2>2. /\ Tail(ring) \in Seq(Sample) /\ Len(Tail(ring)) = k - 1
        /\ \A i \in 1 .. k - 1 : Tail(ring)[i] = ring[i + 1]
    BY <1>0, <2>1
  <2>3. /\ r \in Seq(Sample) /\ Len(r) = k /\ r[k] = x
        /\ \A i \in 1 .. k - 1 : r[i] = ring[i + 1]
    BY <1>0, <1>3, <2>1, <2>2 DEF PushRing
  <2>4. \A i \in 1 .. k - 1 : ring[i + 1].latency = all[n - k + (i + 1)]
    <3> SUFFICES ASSUME NEW i \in 1 .. k - 1 PROVE ring[i + 1].latency = all[n - k + (i + 1)]
      OBVIOUS
    <3>1. i + 1 \in 1 .. k
      BY <1>0
    <3> QED BY <1>w, <3>1
  <2>5. \A i \in 1 .. k : r[i].latency = a[(n + 1) - k + i]
    <3> SUFFICES ASSUME NEW i \in 1 .. k PROVE r[i].latency = a[(n + 1) - k + i]
      OBVIOUS
    <3>1. CASE i = k
      BY <1>0, <1>1, <2>3, <3>1
    <3>2. CASE i # k
      <4>1. i \in 1 .. k - 1 /\ (n + 1) - k + i \in 1 .. n /\ n - k + (i + 1) = (n + 1) - k + i
        BY <1>0, <3>2
      <4> QED BY <1>1, <2>3, <2>4, <4>1
    <3> QED BY <3>1, <3>2
  <2> HIDE DEF r, a
  <2>6. Window(r, a)
    <3>1. Len(r) = MAX_SAMPLES /\ Len(a) = n + 1 /\ n + 1 > MAX_SAMPLES
      BY <1>0, <1>1, <2>1, <2>3
    <3>2. \A i \in 1 .. Len(r) : r[i].latency = a[Len(a) - Len(r) + i]
      BY <1>1, <2>3, <2>5
    <3> QED BY <1>0, <3>1, <3>2 DEF Window
  <2> QED BY <1>0, <1>1, <2>1, <2>3, <2>6 DEF r, a
<1> QED BY <1>2, <1>3

LEMMA WindowIsEnd ==
  ASSUME NEW ring \in Seq(Sample), NEW all \in Seq(Latency), Window(ring, all)
  PROVE  Latencies(ring) = SubSeq(all, Max({1, Len(all) - MAX_SAMPLES + 1}), Len(all))
<1> DEFINE n == Len(all)
           k == Len(ring)
           m == n - MAX_SAMPLES + 1
<1>0. MAX_SAMPLES \in Nat \ {0} /\ n \in Nat /\ k \in Nat
  BY MaxSamplesAssumption
<1>1. Max({1, m}) = n - k + 1
  <2>1. (k = n /\ m <= 1) \/ (k = MAX_SAMPLES /\ m > 1)
    BY <1>0 DEF Window
  <2>2. m \in Int
    BY <1>0
  <2> HIDE DEF m
  <2>3. m <= 1 => Max({1, m}) = 1
    BY <2>2 DEF Max
  <2>4. m > 1 => Max({1, m}) = m
    BY <2>2 DEF Max
  <2> QED BY <1>0, <2>1, <2>3, <2>4 DEF m
<1>2. DOMAIN ring = 1 .. k /\ k <= n
  BY <1>0 DEF Window
<1>3. SubSeq(all, n - k + 1, n) = [i \in 1 .. k |-> all[n - k + i]]
  <2>1. n - (n - k + 1) + 1 = k /\ \A i \in 1 .. k : (n - k + 1) + i - 1 = n - k + i
    BY <1>0
  <2> QED BY <1>0, <1>2, <2>1
<1> QED BY <1>1, <1>2, <1>3 DEF Latencies, Window

LEMMA SetToSeqIs ==
  ASSUME NEW S, IsFiniteSet(S)
  PROVE  /\ SetToSeq(S) \in Seq(S) /\ ToSet(SetToSeq(S)) = S
         /\ \A i, j \in DOMAIN SetToSeq(S) : SetToSeq(S)[i] = SetToSeq(S)[j] => i = j
         /\ S = {} => SetToSeq(S) = << >>
         /\ S # {} => SetToSeq(S) # << >>
<1>1. PICK n \in Nat : ExistsBijection(1 .. n, S)
  BY FS_NatBijection
<1>2. Cardinality(S) = n
  BY <1>1, FS_CountingElements
<1>3. PICK f : f \in Bijection(1 .. n, S)
  BY <1>1 DEF ExistsBijection
<1>4. f \in [1 .. n -> S] /\ IsInjective(f)
  BY <1>3 DEF Bijection, Injection
<1> DEFINE order == SetToSeq(S)
<1>5. order \in [1 .. n -> S] /\ IsInjective(order)
  BY <1>2, <1>4 DEF SetToSeq
<1> HIDE DEF order
<1>6. order \in Seq(S) /\ Len(order) = n /\ DOMAIN order = 1 .. n
  BY <1>5
<1>7. \A i, j \in 1 .. n : order[i] = order[j] => i = j
  BY <1>5 DEF IsInjective
<1>8. order \in Surjection(1 .. n, S)
  <2>1. order \in Injection(1 .. n, S)
    BY <1>5, <1>7, Fun_IsInj
  <2>2. Cardinality(1 .. n) = Cardinality(S)
    <3>1. Cardinality(1 .. n) = IF 1 > n THEN 0 ELSE n - 1 + 1
      BY FS_Interval
    <3> QED BY <1>2, <3>1
  <2> QED BY <2>1, <2>2, FS_Injection
<1>9. ToSet(order) = S
  BY <1>5, <1>6, <1>8 DEF ToSet, Surjection
<1>10. S = {} => order = << >>
  <2>1. S = {} => n = 0
    BY <1>2, FS_EmptySet
  <2> QED BY <1>6, <2>1
<1>11. S # {} => order # << >>
  BY <1>9 DEF ToSet
<1> QED BY <1>6, <1>7, <1>9, <1>10, <1>11 DEF order

LEMMA StatsInit == Init => StatsInv
<1> SUFFICES ASSUME Init PROVE StatsInv
  OBVIOUS
<1>1. Measured = {} /\ IsFiniteSet({})
  BY FS_EmptySet DEF Init, SamplesInit, Measured
<1>2. MAX_SAMPLES \in Nat \ {0} /\ << >> \in Seq(Sample) /\ << >> \in Seq(Latency)
      /\ << >> \in Seq(CHANNELS) /\ Len(<< >>) = 0 /\ 1 .. 0 = {}
  BY MaxSamplesAssumption
<1>3. TypeOK
  BY <1>2 DEF Init, SamplesInit, TypeOK, SamplesTypeOK, NoTable
<1>4. \A channel \in CHANNELS, d \in Device : Window(samples[channel][d], recorded[channel][d])
  BY <1>2 DEF Init, SamplesInit, Window
<1>5. table.ids = None
  BY DEF Init, NoTable
<1> QED BY <1>1, <1>3, <1>4, <1>5 DEF StatsInv

LEMMA StatsNext == ASSUME StatsInv, [Next]_vars PROVE StatsInv'
<1> USE DEF StatsInv, TypeOK, SamplesTypeOK
<1>1. ASSUME NEW channel \in CHANNELS, NEW d \in Device, NEW x \in Latency, Record(channel, d, x)
      PROVE  StatsInv'
  <2> DEFINE y == [cmd_id |-> None, latency |-> x]
  <2>1. y \in Sample /\ y.latency = x
    BY LatencyAssumption DEF Sample
  <2>2. /\ samples' = [samples EXCEPT ![channel][d] = PushRing(samples[channel][d], y)]
        /\ recorded' = [recorded EXCEPT ![channel][d] = Append(recorded[channel][d], x)]
        /\ table' = table
    BY <1>1 DEF Record, record
  <2> HIDE DEF y
  <2>3. /\ PushRing(samples[channel][d], y) \in Seq(Sample)
        /\ Len(PushRing(samples[channel][d], y)) <= MAX_SAMPLES
        /\ Append(recorded[channel][d], x) \in Seq(Latency)
        /\ Window(PushRing(samples[channel][d], y), Append(recorded[channel][d], x))
    BY <2>1, PushKeepsWindow
  <2>4. ASSUME NEW b \in CHANNELS, NEW e \in Device
        PROVE  /\ samples'[b][e] = IF b = channel /\ e = d
                                   THEN PushRing(samples[channel][d], y) ELSE samples[b][e]
               /\ recorded'[b][e] = IF b = channel /\ e = d
                                    THEN Append(recorded[channel][d], x) ELSE recorded[b][e]
    BY <2>2
  <2>5. TypeOK'
    BY <2>2, <2>3, <2>4
  <2>6. IsFiniteSet(Measured')
    <3>1. IsFiniteSet(Measured \cup {d})
      BY FS_AddElement
    <3>2. Measured' \subseteq Measured \cup {d}
      BY <2>4 DEF Measured
    <3> QED BY <3>1, <3>2, FS_Subset
  <2>7. ASSUME NEW b \in CHANNELS, NEW e \in Device PROVE Window(samples'[b][e], recorded'[b][e])
    BY <2>3, <2>4
  <2> QED BY <2>2, <2>5, <2>6, <2>7 DEF Window
<1>2. CASE Clear
  <2>1. /\ samples' = [channel \in CHANNELS |-> [d \in Device |-> << >>]]
        /\ recorded' = [channel \in CHANNELS |-> [d \in Device |-> << >>]]
        /\ table' = table
    BY <1>2 DEF Clear, clear
  <2>2. MAX_SAMPLES \in Nat \ {0} /\ << >> \in Seq(Sample) /\ << >> \in Seq(Latency)
        /\ Len(<< >>) = 0 /\ 1 .. 0 = {}
    BY MaxSamplesAssumption
  <2>3. Measured' = {} /\ IsFiniteSet({})
    BY <2>1, FS_EmptySet DEF Measured
  <2>4. TypeOK'
    BY <2>1, <2>2
  <2>5. \A b \in CHANNELS, e \in Device : Window(samples'[b][e], recorded'[b][e])
    BY <2>1, <2>2 DEF Window
  <2> QED BY <2>1, <2>3, <2>4, <2>5 DEF Window
<1>3. ASSUME UNCHANGED <<samples, recorded>>,
             table' \in [channels : Seq(CHANNELS), ids : Seq(Device) \cup {None}, counted : Nat],
             table'.ids # None => table'.channels # << >>
      PROVE  StatsInv'
  <2>1. Measured' = Measured
    BY <1>3 DEF Measured
  <2>2. \A b \in CHANNELS, e \in Device : Window(samples'[b][e], recorded'[b][e])
    BY <1>3
  <2> QED BY <1>3, <2>1, <2>2 DEF Window
<1>4. CASE TableBegins
  <2>1. <<"ack", "execute", "heartbeat">> \in Seq(CHANNELS)
    BY DEF CHANNELS
  <2> QED BY <1>3, <1>4, <2>1 DEF TableBegins, NoTable
<1>5. CASE TableListsDevices
  <2>1. SetToSeq(Measured) \in Seq(Device)
    <3>1. SetToSeq(Measured) \in Seq(Measured) /\ Measured \subseteq Device
      BY SetToSeqIs DEF Measured
    <3> QED BY <3>1
  <2>2. table' = [table EXCEPT !.ids = SetToSeq(Measured)]
    <3>1. UNION {Buckets(channel) : channel \in CHANNELS} = Measured
      BY DEF Buckets, Measured
    <3> QED BY <1>5, <3>1 DEF TableListsDevices
  <2> QED BY <1>3, <1>5, <2>1, <2>2 DEF TableListsDevices
<1>6. CASE TableDeviceRow
  <2> DEFINE n == Len(ValuesOf(Head(table.channels), Head(table.ids)))
  <2>1. /\ table.ids \in Seq(Device) /\ table.ids # << >>
        /\ table.channels \in Seq(CHANNELS) /\ table.channels # << >>
    BY <1>6 DEF TableDeviceRow
  <2>2. /\ Head(table.ids) \in Device /\ Tail(table.ids) \in Seq(Device)
        /\ Head(table.channels) \in CHANNELS
    BY <2>1
  <2>3. n \in Nat
    <3>1. samples[Head(table.channels)][Head(table.ids)] \in Seq(Sample)
      BY <2>2
    <3>2. \A s \in Seq(Sample) : Len(Latencies(s)) = Len(s)
      BY DEF Latencies
    <3>3. ValuesOf(Head(table.channels), Head(table.ids))
            = Latencies(samples[Head(table.channels)][Head(table.ids)])
      BY <2>2, NoneAssumption DEF ValuesOf
    <3> QED BY <3>1, <3>2, <3>3
  <2>4. /\ table' = [table EXCEPT !.ids = Tail(table.ids), !.counted = table.counted + n]
        /\ UNCHANGED <<samples, recorded>>
    BY <1>6 DEF TableDeviceRow
  <2> HIDE DEF n
  <2>5. table.counted + n \in Nat
    BY <2>3
  <2> QED BY <1>3, <2>1, <2>2, <2>4, <2>5
<1>7. CASE TableTotalRow
  <2>1. table.ids # None
    <3>1. << >> \in Seq(Device)
      OBVIOUS
    <3> QED BY <1>7, <3>1, NoRowsAssumption DEF TableTotalRow
  <2>2. Tail(table.channels) \in Seq(CHANNELS)
    <3>1. table.channels \in Seq(CHANNELS) /\ table.channels # << >>
      BY <2>1
    <3> QED BY <3>1
  <2>3. /\ table' = [channels |-> Tail(table.channels), ids |-> None, counted |-> 0]
        /\ UNCHANGED <<samples, recorded>>
    BY <1>7 DEF TableTotalRow, NoTable
  <2> QED BY <1>3, <2>2, <2>3
<1>8. CASE UNCHANGED vars
  BY <1>3, <1>8 DEF vars
<1> QED BY <1>1, <1>2, <1>4, <1>5, <1>6, <1>7, <1>8 DEF Next

-----------------------------------------------------------------------------
(* Least and greatest numbers. *)

\* There is a least number in a set of numbers.
LEMMA LeastNumber ==
  ASSUME NEW T \in SUBSET Nat, T # {}
  PROVE  \E m \in T : \A n \in T : m <= n
<1>1. PICK m \in T : \A n \in T : ~ (<<n, m>> \in OpToRel(<, Nat))
  BY NatLessThanWellFounded, WFMin
<1>2. ASSUME NEW n \in T PROVE m <= n
  <2>1. <<n, m>> \in Nat \X Nat
    OBVIOUS
  <2>2. ~(n < m)
    BY <1>1, <2>1 DEF OpToRel
  <2> QED BY <2>2
<1> QED BY <1>2

LEMMA MinIs ==
  ASSUME NEW T \in SUBSET Nat, T # {}
  PROVE  Min(T) \in T /\ \A n \in T : Min(T) <= n
BY LeastNumber DEF Min

\* The greatest one is the one with the fewest above it.
LEMMA MaxIs ==
  ASSUME NEW T \in SUBSET Nat, T # {}, IsFiniteSet(T)
  PROVE  Max(T) \in T /\ \A n \in T : n <= Max(T)
<1> DEFINE Above(x) == {y \in T : y > x}
           Counts == {Cardinality(Above(x)) : x \in T}
<1>1. \A x \in T : IsFiniteSet(Above(x)) /\ Cardinality(Above(x)) \in Nat
  <2> SUFFICES ASSUME NEW x \in T PROVE IsFiniteSet(Above(x)) /\ Cardinality(Above(x)) \in Nat
    OBVIOUS
  <2>1. Above(x) \in SUBSET T
    OBVIOUS
  <2> QED BY <2>1, FS_Subset, FS_CardinalityType
<1>2. Counts \in SUBSET Nat /\ Counts # {}
  BY <1>1
<1>3. PICK c \in Counts : \A e \in Counts : c <= e
  <2> HIDE DEF Counts
  <2> QED BY <1>2, LeastNumber
<1>4. PICK x \in T : c = Cardinality(Above(x))
  BY <1>3
<1>5. ASSUME NEW y \in T, y > x PROVE FALSE
  <2>1. Above(y) \in SUBSET Above(x) /\ y \in Above(x) /\ y \notin Above(y)
    <3>1. x \in Nat /\ y \in Nat
      OBVIOUS
    <3>2. ASSUME NEW z \in T, z > y PROVE z > x
      <4>1. z \in Nat
        OBVIOUS
      <4> QED BY <1>5, <3>1, <3>2, <4>1
    <3>3. ~(y > y)
      BY <3>1
    <3> QED BY <1>5, <3>2, <3>3
  <2>2. Cardinality(Above(y)) <= Cardinality(Above(x)) /\ Cardinality(Above(x)) # Cardinality(Above(y))
    BY <1>1, <2>1, FS_Subset
  <2>3. Cardinality(Above(y)) \in Counts
    OBVIOUS
  <2>4. c <= Cardinality(Above(y))
    BY <1>3, <2>3
  <2>5. Cardinality(Above(x)) \in Nat /\ Cardinality(Above(y)) \in Nat
    BY <1>1
  <2> HIDE DEF Above, Counts
  <2> QED BY <1>4, <2>2, <2>4, <2>5
<1>6. \A y \in T : x >= y
  BY <1>5
<1> QED BY <1>6 DEF Max
-----------------------------------------------------------------------------
(* sorted(): every value has a place of its own. *)

Below(values, v) == {i \in DOMAIN values : values[i] < v}
AtMost(values, v) == {i \in DOMAIN values : values[i] <= v}

Place(values, j) == Cardinality(Ahead(values, j))

LEMMA IndicesCount ==
  ASSUME NEW values \in Seq(Nat), NEW T \in SUBSET DOMAIN values
  PROVE  /\ IsFiniteSet(T) /\ Cardinality(T) \in 0 .. Len(values)
         /\ \A U \in SUBSET T : IsFiniteSet(U) /\ Cardinality(U) \in Nat
                                /\ Cardinality(U) <= Cardinality(T)
                                /\ (U # T => Cardinality(U) < Cardinality(T))
<1>1. Len(values) \in Nat /\ DOMAIN values = 1 .. Len(values)
  OBVIOUS
<1>2. IsFiniteSet(1 .. Len(values)) /\ Cardinality(1 .. Len(values)) = Len(values)
  <2>1. PICK n \in Nat : n = Len(values)
    BY <1>1
  <2>2. IsFiniteSet(1 .. n) /\ Cardinality(1 .. n) = IF 1 > n THEN 0 ELSE n - 1 + 1
    BY FS_Interval
  <2> QED BY <2>1, <2>2
<1>3. IsFiniteSet(T) /\ Cardinality(T) \in Nat /\ Cardinality(T) <= Len(values)
  BY <1>1, <1>2, FS_Subset, FS_CardinalityType
<1>4. ASSUME NEW U \in SUBSET T
      PROVE  /\ IsFiniteSet(U) /\ Cardinality(U) \in Nat
             /\ Cardinality(U) <= Cardinality(T)
             /\ (U # T => Cardinality(U) < Cardinality(T))
  <2>1. /\ IsFiniteSet(U) /\ Cardinality(U) <= Cardinality(T)
        /\ Cardinality(T) = Cardinality(U) => T = U
    BY <1>3, FS_Subset
  <2>2. Cardinality(U) \in Nat
    BY <2>1, FS_CardinalityType
  <2> QED BY <1>3, <2>1, <2>2
<1> QED BY <1>1, <1>3, <1>4

LEMMA PlacesDiffer ==
  ASSUME NEW values \in Seq(Nat), NEW j \in DOMAIN values, NEW k \in DOMAIN values, j # k
  PROVE  Place(values, j) # Place(values, k)
<1>1. ASSUME NEW a \in DOMAIN values, NEW b \in DOMAIN values, a # b,
             values[a] < values[b] \/ (values[a] = values[b] /\ a <= b)
      PROVE  Place(values, a) < Place(values, b)
  <2>0. DOMAIN values \subseteq Nat /\ \A i \in DOMAIN values : values[i] \in Nat
    OBVIOUS
  <2>1. Ahead(values, a) \in SUBSET Ahead(values, b)
    <3> SUFFICES ASSUME NEW i \in Ahead(values, a) PROVE i \in Ahead(values, b)
      OBVIOUS
    <3>1. i \in DOMAIN values /\ (values[i] < values[a] \/ (values[i] = values[a] /\ i <= a))
      BY DEF Ahead
    <3>2. i \in Nat /\ a \in Nat /\ b \in Nat
          /\ values[i] \in Nat /\ values[a] \in Nat /\ values[b] \in Nat
      BY <2>0, <3>1
    <3>3. values[i] < values[b] \/ (values[i] = values[b] /\ i <= b)
      BY <1>1, <3>1, <3>2
    <3> QED BY <3>1, <3>3 DEF Ahead
  <2>2. b \in Ahead(values, b) /\ b \notin Ahead(values, a)
    BY <1>1, <2>0 DEF Ahead
  <2>3. Ahead(values, b) \in SUBSET DOMAIN values
    BY DEF Ahead
  <2> QED BY <2>1, <2>2, <2>3, IndicesCount DEF Place
<1>2. \/ values[j] < values[k] \/ (values[j] = values[k] /\ j <= k)
      \/ values[k] < values[j] \/ (values[k] = values[j] /\ k <= j)
  OBVIOUS
<1>3. \A i \in DOMAIN values : Place(values, i) \in Nat
  BY IndicesCount DEF Place, Ahead
<1> QED BY <1>1, <1>2, <1>3

\* The value at a place of the sorted list is that of the one index with that place.
Sorts(ordered, values) ==
  /\ ordered \in Seq(Nat) /\ Len(ordered) = Len(values)
  /\ \A i \in DOMAIN ordered : \E j \in DOMAIN values :
       Place(values, j) = i /\ ordered[i] = values[j]
  /\ \A j \in DOMAIN values :
       Place(values, j) \in DOMAIN ordered /\ ordered[Place(values, j)] = values[j]

LEMMA InOrderSorts == ASSUME NEW values \in Seq(Nat) PROVE Sorts(InOrder(values), values)
<1> DEFINE n == Len(values)
           place == [j \in 1 .. n |-> Place(values, j)]
           at(i) == CHOOSE j \in DOMAIN values : Cardinality(Ahead(values, j)) = i
<1>1. n \in Nat /\ DOMAIN values = 1 .. n /\ \A i \in 1 .. n : values[i] \in Nat
  OBVIOUS
<1>2. \A j \in 1 .. n : Place(values, j) \in 1 .. n
  <2> SUFFICES ASSUME NEW j \in 1 .. n PROVE Place(values, j) \in 1 .. n
    OBVIOUS
  <2>1. j \in Ahead(values, j) /\ Ahead(values, j) \in SUBSET DOMAIN values
    BY <1>1 DEF Ahead
  <2>2. {} \in SUBSET Ahead(values, j) /\ {} # Ahead(values, j)
    BY <2>1
  <2>3. Cardinality({}) < Place(values, j) /\ Place(values, j) \in 0 .. n
    BY <2>1, <2>2, IndicesCount DEF Place
  <2> QED BY <2>3, FS_EmptySet
<1>3. place \in Injection(1 .. n, 1 .. n)
  <2>1. place \in [1 .. n -> 1 .. n]
    BY <1>2
  <2>2. \A a, b \in 1 .. n : place[a] = place[b] => a = b
    BY <1>1, PlacesDiffer
  <2> QED BY <2>1, <2>2, Fun_IsInj
<1>4. place \in Surjection(1 .. n, 1 .. n)
  <2>1. IsFiniteSet(1 .. n)
    BY <1>1, FS_Interval
  <2> HIDE DEF place
  <2> QED BY <1>3, <2>1, FS_Injection
<1>5. \A i \in 1 .. n : at(i) \in 1 .. n /\ Place(values, at(i)) = i
  <2> SUFFICES ASSUME NEW i \in 1 .. n PROVE at(i) \in 1 .. n /\ Place(values, at(i)) = i
    OBVIOUS
  <2>1. PICK j \in 1 .. n : place[j] = i
    BY <1>4 DEF Surjection
  <2>2. Cardinality(Ahead(values, j)) = i
    BY <2>1 DEF Place
  <2> QED BY <1>1, <2>2 DEF Place
<1>6. InOrder(values) = [i \in 1 .. n |-> values[at(i)]]
  BY <1>1 DEF InOrder
<1> HIDE DEF at
<1>7. InOrder(values) \in Seq(Nat) /\ Len(InOrder(values)) = n /\ DOMAIN InOrder(values) = 1 .. n
  BY <1>1, <1>5, <1>6
<1>8. \A i \in 1 .. n : InOrder(values)[i] = values[at(i)]
  BY <1>6
<1>9. \A j \in 1 .. n : InOrder(values)[Place(values, j)] = values[j]
  <2> SUFFICES ASSUME NEW j \in 1 .. n PROVE InOrder(values)[Place(values, j)] = values[j]
    OBVIOUS
  <2>1. PICK i \in 1 .. n : i = Place(values, j)
    BY <1>2
  <2>2. at(i) = j
    BY <1>1, <1>5, <2>1, PlacesDiffer
  <2> QED BY <1>8, <2>1, <2>2
<1> QED BY <1>1, <1>2, <1>5, <1>7, <1>8, <1>9 DEF Sorts

\* Fewer values lie below the one at a place than the number of the place, and at least
\* that many lie at it or below.
LEMMA PlaceCounts ==
  ASSUME NEW values \in Seq(Nat), NEW i \in 1 .. Len(values)
  PROVE  /\ InOrder(values)[i] \in ToSet(values) /\ InOrder(values)[i] \in Nat
         /\ Cardinality(Below(values, InOrder(values)[i])) < i
         /\ i <= Cardinality(AtMost(values, InOrder(values)[i]))
<1>1. PICK j \in DOMAIN values : Place(values, j) = i /\ InOrder(values)[i] = values[j]
  BY InOrderSorts DEF Sorts
<1>2. DOMAIN values \subseteq Nat /\ \A k \in DOMAIN values : values[k] \in Nat
  OBVIOUS
<1>3. /\ Below(values, values[j]) \in SUBSET Ahead(values, j)
      /\ j \in Ahead(values, j) /\ j \notin Below(values, values[j])
      /\ Ahead(values, j) \in SUBSET AtMost(values, values[j])
  BY <1>2 DEF Below, Ahead, AtMost
<1>4. /\ Ahead(values, j) \in SUBSET DOMAIN values
      /\ AtMost(values, values[j]) \in SUBSET DOMAIN values
  BY DEF Ahead, AtMost
<1>5. Cardinality(Below(values, values[j])) < Place(values, j)
  BY <1>3, <1>4, IndicesCount DEF Place
<1>6. Place(values, j) <= Cardinality(AtMost(values, values[j]))
  BY <1>3, <1>4, IndicesCount DEF Place
<1>7. values[j] \in ToSet(values) /\ values[j] \in Nat
  BY DEF ToSet
<1> QED BY <1>1, <1>5, <1>6, <1>7
-----------------------------------------------------------------------------
(* Percentiles. *)

LEMMA RankIs ==
  ASSUME NEW pct \in 1 .. 100, NEW n \in Nat, n >= 1
  PROVE  /\ Rank(pct, n) \in 1 .. n
         /\ 100 * (Rank(pct, n) - 1) < pct * n /\ pct * n <= 100 * Rank(pct, n)
<1> DEFINE q == -((-pct * n) \div 100)
<1>1. PICK p \in Nat : p = pct * n
  OBVIOUS
<1>2. 1 <= p /\ p <= 100 * n
  BY <1>1
<1>3. -pct * n = -p
  BY <1>1
<1>4. q \in Int /\ 100 * (q - 1) < p /\ p <= 100 * q
  BY <1>1, <1>3
<1> HIDE DEF q
<1>5. q \in 1 .. n
  BY <1>2, <1>4
<1>6. Min({n, q}) = q
  <2>1. \A x \in {n, q} : q <= x
    BY <1>5
  <2>2. \A y \in {n, q} : (\A x \in {n, q} : y <= x) => y = q
    BY <1>5
  <2> QED BY <2>1, <2>2 DEF Min
<1>7. Max({1, q}) = q
  <2>1. \A x \in {1, q} : q >= x
    BY <1>5
  <2>2. \A y \in {1, q} : (\A x \in {1, q} : y >= x) => y = q
    BY <1>5
  <2> QED BY <2>1, <2>2 DEF Max
<1>8. Rank(pct, n) = q
  BY <1>6, <1>7 DEF Rank, q
<1> QED BY <1>1, <1>4, <1>5, <1>8

\* The value at the nearest rank: at least so many percent lie at it or below, and fewer
\* lie below.
Splits(v, values, pct) ==
  /\ v \in ToSet(values) /\ v \in Nat
  /\ 100 * Cardinality(Below(values, v)) < pct * Len(values)
  /\ 100 * Cardinality(AtMost(values, v)) >= pct * Len(values)

LEMMA PercentileSplits ==
  ASSUME NEW values \in Seq(Nat), values # << >>, NEW pct \in 1 .. 100
  PROVE  Splits(percentile(InOrder(values), pct), values, pct)
<1>1. PICK n \in Nat : n = Len(values) /\ n >= 1
  OBVIOUS
<1>2. Len(InOrder(values)) = n /\ InOrder(values) # << >>
  BY <1>1, InOrderSorts DEF Sorts
<1>3. PICK r \in 1 .. n : /\ r = Rank(pct, n)
                          /\ 100 * (r - 1) < pct * n /\ pct * n <= 100 * r
  BY <1>1, RankIs
<1>4. PICK v : v = percentile(InOrder(values), pct)
  OBVIOUS
<1>5. v = InOrder(values)[r]
  BY <1>2, <1>3, <1>4 DEF percentile
<1>6. /\ v \in ToSet(values) /\ v \in Nat
      /\ Cardinality(Below(values, v)) < r /\ r <= Cardinality(AtMost(values, v))
  BY <1>1, <1>5, PlaceCounts
<1>7. Cardinality(Below(values, v)) \in Nat /\ Cardinality(AtMost(values, v)) \in Nat
  <2>1. Below(values, v) \in SUBSET DOMAIN values /\ AtMost(values, v) \in SUBSET DOMAIN values
    BY DEF Below, AtMost
  <2> QED BY <2>1, IndicesCount
<1>8. PICK p \in Nat : p = pct * n
  OBVIOUS
<1>9. 100 * Cardinality(Below(values, v)) < p /\ 100 * Cardinality(AtMost(values, v)) >= p
  BY <1>3, <1>6, <1>7, <1>8
<1> QED BY <1>1, <1>4, <1>6, <1>8, <1>9 DEF Splits

\* Nothing less splits the values that way, so it is the least value with enough below.
LEMMA SplitIsLeast ==
  ASSUME NEW values \in Seq(Nat), NEW pct \in 1 .. 100, NEW v, Splits(v, values, pct),
         NEW w \in Nat, 100 * Cardinality(AtMost(values, w)) >= pct * Len(values)
  PROVE  v <= w
<1> SUFFICES ASSUME w < v PROVE FALSE
  BY DEF Splits
<1>1. AtMost(values, w) \in SUBSET Below(values, v) /\ Below(values, v) \in SUBSET DOMAIN values
  BY DEF AtMost, Below, Splits
<1>2. /\ Cardinality(AtMost(values, w)) \in Nat /\ Cardinality(Below(values, v)) \in Nat
      /\ Cardinality(AtMost(values, w)) <= Cardinality(Below(values, v))
  BY <1>1, IndicesCount
<1>3. PICK p \in Int : p = pct * Len(values)
  OBVIOUS
<1> QED BY <1>2, <1>3 DEF Splits
-----------------------------------------------------------------------------
(* The values of all devices: those of each, one device after another. *)

FewBelow(values, v, pct) == 100 * Cardinality(Below(values, v)) < pct * Len(values)
EnoughAtMost(values, v, pct) == 100 * Cardinality(AtMost(values, v)) >= pct * Len(values)

\* The slots that the devices of a set fill.
Slots(f, E) == {x \in E \X Nat : x[2] \in 1 .. Len(f[x[1]])}

\* t holds the values of the devices of E, and has in common with them what they have in
\* common: less than so many percent below a value, or so many at it or below.
Pooled(t, f, E) ==
  /\ t \in Seq(Nat)
  /\ ToSet(t) = UNION {ToSet(f[d]) : d \in E}
  /\ IsFiniteSet(Slots(f, E)) /\ Len(t) = Cardinality(Slots(f, E))
  /\ \A v \in Nat, pct \in Nat : (\A d \in E : FewBelow(f[d], v, pct)) => FewBelow(t, v, pct)
  /\ \A v \in Nat, pct \in Nat :
       (\A d \in E : EnoughAtMost(f[d], v, pct)) => EnoughAtMost(t, v, pct)

LEMMA ShiftedCount ==
  ASSUME NEW T, IsFiniteSet(T), T \subseteq Nat, NEW n \in Nat
  PROVE  /\ IsFiniteSet({n + i : i \in T})
         /\ Cardinality({n + i : i \in T}) = Cardinality(T)
<1> DEFINE U == {n + i : i \in T}
           shift == [i \in T |-> n + i]
<1>1. shift \in Bijection(T, U)
  <2>1. shift \in [T -> U]
    OBVIOUS
  <2>2. \A i, j \in T : shift[i] = shift[j] => i = j
    OBVIOUS
  <2>3. \A u \in U : \E i \in T : shift[i] = u
    OBVIOUS
  <2> HIDE DEF shift, U
  <2> QED BY <2>1, <2>2, <2>3, Fun_IsBij
<1> HIDE DEF shift, U
<1>2. ExistsBijection(T, U)
  BY <1>1 DEF ExistsBijection
<1>3. IsFiniteSet(U) /\ Cardinality(U) = Cardinality(T)
  BY <1>2, FS_Bijection
<1> QED BY <1>3 DEF U

\* The indices of the values that lie in a set.
Where(values, W) == {i \in DOMAIN values : values[i] \in W}

LEMMA ConcatWhere ==
  ASSUME NEW s \in Seq(Nat), NEW t \in Seq(Nat), NEW W
  PROVE  Cardinality(Where(s \o t, W)) = Cardinality(Where(s, W)) + Cardinality(Where(t, W))
<1>0. PICK n \in Nat, m \in Nat : n = Len(s) /\ m = Len(t)
  OBVIOUS
<1>1. /\ DOMAIN s = 1 .. n /\ DOMAIN t = 1 .. m /\ DOMAIN (s \o t) = 1 .. (n + m)
      /\ \A i \in 1 .. n : (s \o t)[i] = s[i]
      /\ \A i \in 1 .. m : (s \o t)[n + i] = t[i]
  BY <1>0
<1>2. ASSUME NEW i \in Where(s \o t, W)
      PROVE  i \in Where(s, W) \/ \E j \in Where(t, W) : i = n + j
  <2>1. i \in 1 .. (n + m) /\ (s \o t)[i] \in W
    BY <1>1 DEF Where
  <2>2. CASE i <= n
    <3>1. i \in 1 .. n
      BY <2>1, <2>2
    <3> QED BY <1>1, <2>1, <3>1 DEF Where
  <2>3. CASE ~(i <= n)
    <3>1. PICK j \in 1 .. m : i = n + j
      <4>1. i - n \in 1 .. m /\ i = n + (i - n)
        BY <2>1, <2>3
      <4> QED BY <4>1
    <3>2. j \in Where(t, W)
      BY <1>1, <2>1, <3>1 DEF Where
    <3> QED BY <3>1, <3>2
  <2> QED BY <2>2, <2>3
<1>3. ASSUME NEW i \in Where(s, W) PROVE i \in Where(s \o t, W)
  <2>1. i \in 1 .. n /\ i \in 1 .. (n + m) /\ s[i] \in W
    BY <1>1 DEF Where
  <2> QED BY <1>1, <2>1 DEF Where
<1>4. ASSUME NEW j \in Where(t, W) PROVE n + j \in Where(s \o t, W)
  <2>1. j \in 1 .. m /\ n + j \in 1 .. (n + m) /\ t[j] \in W
    BY <1>1 DEF Where
  <2> QED BY <1>1, <2>1 DEF Where
<1>5. Where(s \o t, W) = Where(s, W) \cup {Len(s) + i : i \in Where(t, W)}
  BY <1>0, <1>2, <1>3, <1>4
<1>6. Where(s, W) \in SUBSET (1 .. Len(s)) /\ Where(t, W) \in SUBSET (1 .. Len(t))
  BY <1>0, <1>1 DEF Where
<1> DEFINE S == Where(s, W)
           T == Where(t, W)
           U == {Len(s) + i : i \in T}
<1>7. /\ IsFiniteSet(S) /\ Cardinality(S) \in Nat
      /\ IsFiniteSet(T) /\ Cardinality(T) \in Nat /\ T \subseteq Nat
  BY <1>0, <1>1, <1>6, IndicesCount
<1>8. Where(s \o t, W) = S \cup U
  BY <1>5
<1> HIDE DEF S, T
<1>9. IsFiniteSet(U) /\ Cardinality(U) = Cardinality(T)
  BY <1>0, <1>7, ShiftedCount
<1>10. S \cap U = {}
  BY <1>0, <1>6 DEF S, T
<1> HIDE DEF U
<1>11. Cardinality(S \cup U) = Cardinality(S) + Cardinality(U) - Cardinality(S \cap U)
  BY <1>7, <1>9, FS_Union
<1>12. Cardinality(S \cap U) = 0
  BY <1>10, FS_EmptySet
<1>13. Cardinality(Where(s \o t, W)) = Cardinality(S) + Cardinality(T)
  BY <1>7, <1>8, <1>9, <1>11, <1>12
<1> QED BY <1>13 DEF S, T

LEMMA ConcatCounts ==
  ASSUME NEW s \in Seq(Nat), NEW t \in Seq(Nat), NEW v \in Nat
  PROVE  /\ Cardinality(Below(s \o t, v)) = Cardinality(Below(s, v)) + Cardinality(Below(t, v))
         /\ Cardinality(AtMost(s \o t, v)) = Cardinality(AtMost(s, v)) + Cardinality(AtMost(t, v))
<1>1. ASSUME NEW r \in Seq(Nat)
      PROVE  /\ Below(r, v) = Where(r, {w \in Nat : w < v})
             /\ AtMost(r, v) = Where(r, {w \in Nat : w <= v})
  <2>1. \A i \in DOMAIN r : r[i] \in Nat
    OBVIOUS
  <2> QED BY <2>1 DEF Below, AtMost, Where
<1>2. s \o t \in Seq(Nat)
  OBVIOUS
<1>3. \A W : Cardinality(Where(s \o t, W)) = Cardinality(Where(s, W)) + Cardinality(Where(t, W))
  BY ConcatWhere
<1>4. \A r \in {s, t, s \o t} : /\ Below(r, v) = Where(r, {w \in Nat : w < v})
                               /\ AtMost(r, v) = Where(r, {w \in Nat : w <= v})
  BY <1>1, <1>2
<1> QED BY <1>3, <1>4

LEMMA SlotsOfOne ==
  ASSUME NEW f, NEW d, Len(f[d]) \in Nat
  PROVE  /\ IsFiniteSet(Slots(f, {d})) /\ Cardinality(Slots(f, {d})) = Len(f[d])
         /\ \A E : Slots(f, E \cup {d}) = Slots(f, E) \cup Slots(f, {d})
         /\ \A E : d \notin E => Slots(f, E) \cap Slots(f, {d}) = {}
<1>0. PICK n \in Nat : n = Len(f[d])
  OBVIOUS
<1> DEFINE at == [i \in 1 .. n |-> <<d, i>>]
<1>1. Slots(f, {d}) = {<<d, i>> : i \in 1 .. n}
  <2>1. ASSUME NEW x \in Slots(f, {d}) PROVE \E i \in 1 .. n : x = <<d, i>>
    <3>1. x \in {d} \X Nat /\ x[2] \in 1 .. Len(f[x[1]])
      BY DEF Slots
    <3>2. x = <<d, x[2]>> /\ x[2] \in 1 .. n
      BY <1>0, <3>1
    <3> QED BY <3>2
  <2>2. ASSUME NEW i \in 1 .. n PROVE <<d, i>> \in Slots(f, {d})
    BY <1>0 DEF Slots
  <2> QED BY <2>1, <2>2
<1>2. at \in Bijection(1 .. n, Slots(f, {d}))
  <2>1. at \in [1 .. n -> Slots(f, {d})]
    BY <1>1
  <2>2. \A i, j \in 1 .. n : at[i] = at[j] => i = j
    OBVIOUS
  <2>3. \A x \in Slots(f, {d}) : \E i \in 1 .. n : at[i] = x
    BY <1>1
  <2> HIDE DEF at
  <2> QED BY <2>1, <2>2, <2>3, Fun_IsBij
<1>3. ExistsBijection(1 .. n, Slots(f, {d}))
  BY <1>2 DEF ExistsBijection
<1>4. IsFiniteSet(Slots(f, {d})) /\ Cardinality(Slots(f, {d})) = n
  BY <1>3, FS_NatBijection, FS_CountingElements
<1>5. \A E : Slots(f, E \cup {d}) = Slots(f, E) \cup Slots(f, {d})
  BY DEF Slots
<1>6. \A E : d \notin E => Slots(f, E) \cap Slots(f, {d}) = {}
  BY DEF Slots
<1> QED BY <1>0, <1>4, <1>5, <1>6

LEMMA PoolOne ==
  ASSUME NEW D, NEW f \in [D -> Seq(Nat)], NEW d \in D
  PROVE  Pooled(f[d], f, {d})
<1>1. f[d] \in Seq(Nat) /\ Len(f[d]) \in Nat
  OBVIOUS
<1>2. UNION {ToSet(f[e]) : e \in {d}} = ToSet(f[d])
  OBVIOUS
<1> QED BY <1>1, <1>2, SlotsOfOne DEF Pooled

LEMMA PoolMore ==
  ASSUME NEW D, NEW f \in [D -> Seq(Nat)], NEW d \in D, NEW E, d \notin E,
         NEW t, Pooled(t, f, E)
  PROVE  Pooled(t \o f[d], f, E \cup {d})
<1>1. PICK s \in Seq(Nat) : s = f[d]
  OBVIOUS
<1>t. t \in Seq(Nat)
  BY DEF Pooled
<1>2. t \in Seq(Nat) /\ t \o s \in Seq(Nat) /\ Len(t \o s) = Len(t) + Len(s)
      /\ Len(t) \in Nat /\ Len(s) \in Nat
  BY <1>t
<1>3. ToSet(t \o s) = UNION {ToSet(f[e]) : e \in E \cup {d}}
  <2>1. ToSet(t \o s) = ToSet(t) \cup ToSet(s)
    <3>1. PICK n \in Nat, m \in Nat : n = Len(t) /\ m = Len(s)
      BY <1>2
    <3>2. /\ DOMAIN t = 1 .. n /\ DOMAIN s = 1 .. m /\ DOMAIN (t \o s) = 1 .. (n + m)
          /\ \A i \in 1 .. n : (t \o s)[i] = t[i]
          /\ \A i \in 1 .. m : (t \o s)[n + i] = s[i]
      BY <1>2, <3>1
    <3>3. ASSUME NEW x \in ToSet(t \o s) PROVE x \in ToSet(t) \cup ToSet(s)
      <4>1. PICK i \in 1 .. (n + m) : x = (t \o s)[i]
        BY <3>2 DEF ToSet
      <4>2. CASE i <= n
        BY <3>2, <4>1, <4>2 DEF ToSet
      <4>3. CASE ~(i <= n)
        <5>1. i - n \in 1 .. m /\ n + (i - n) = i
          BY <4>3
        <5>2. x = s[i - n]
          BY <3>2, <4>1, <5>1
        <5> QED BY <3>2, <5>1, <5>2 DEF ToSet
      <4> QED BY <4>2, <4>3
    <3>4. ToSet(t) \subseteq ToSet(t \o s)
      <4>1. \A i \in 1 .. n : i \in 1 .. (n + m)
        OBVIOUS
      <4> QED BY <3>2, <4>1 DEF ToSet
    <3>5. ToSet(s) \subseteq ToSet(t \o s)
      <4>1. \A i \in 1 .. m : n + i \in 1 .. (n + m)
        OBVIOUS
      <4> QED BY <3>2, <4>1 DEF ToSet
    <3> QED BY <3>3, <3>4, <3>5
  <2>2. ToSet(t) = UNION {ToSet(f[e]) : e \in E}
    BY DEF Pooled
  <2> QED BY <1>1, <2>1, <2>2
<1>4. IsFiniteSet(Slots(f, E \cup {d})) /\ Len(t \o s) = Cardinality(Slots(f, E \cup {d}))
  <2>1. /\ IsFiniteSet(Slots(f, {d})) /\ Cardinality(Slots(f, {d})) = Len(s)
        /\ Slots(f, E \cup {d}) = Slots(f, E) \cup Slots(f, {d})
        /\ Slots(f, E) \cap Slots(f, {d}) = {}
    BY <1>1, <1>2, SlotsOfOne
  <2>2. IsFiniteSet(Slots(f, E)) /\ Cardinality(Slots(f, E)) = Len(t)
    BY DEF Pooled
  <2>3. /\ IsFiniteSet(Slots(f, E) \cup Slots(f, {d}))
        /\ Cardinality(Slots(f, E) \cup Slots(f, {d}))
             = Cardinality(Slots(f, E)) + Cardinality(Slots(f, {d}))
                 - Cardinality(Slots(f, E) \cap Slots(f, {d}))
    BY <2>1, <2>2, FS_Union
  <2>4. Cardinality(Slots(f, E) \cap Slots(f, {d})) = 0
    BY <2>1, FS_EmptySet
  <2>5. Cardinality(Slots(f, E \cup {d})) = Len(t) + Len(s) - 0
    BY <2>1, <2>2, <2>3, <2>4
  <2>6. IsFiniteSet(Slots(f, E \cup {d}))
    BY <2>1, <2>3
  <2>7. Len(t) + Len(s) - 0 = Len(t \o s)
    BY <1>2
  <2> QED BY <2>5, <2>6, <2>7
<1>5. \A v \in Nat, r \in Seq(Nat) : Cardinality(Below(r, v)) \in Nat
                                     /\ Cardinality(AtMost(r, v)) \in Nat
  <2>1. \A v, r : Below(r, v) \in SUBSET DOMAIN r /\ AtMost(r, v) \in SUBSET DOMAIN r
    BY DEF Below, AtMost
  <2> QED BY <2>1, IndicesCount
<1>6. ASSUME NEW v \in Nat, NEW pct \in Nat
      PROVE  /\ (\A e \in E \cup {d} : FewBelow(f[e], v, pct)) => FewBelow(t \o s, v, pct)
             /\ (\A e \in E \cup {d} : EnoughAtMost(f[e], v, pct)) => EnoughAtMost(t \o s, v, pct)
  <2>1. PICK b \in Nat, c \in Nat : b = Cardinality(Below(t, v)) /\ c = Cardinality(Below(s, v))
    BY <1>2, <1>5
  <2>2. PICK g \in Nat, h \in Nat : g = Cardinality(AtMost(t, v)) /\ h = Cardinality(AtMost(s, v))
    BY <1>2, <1>5
  <2>3. Cardinality(Below(t \o s, v)) = b + c /\ Cardinality(AtMost(t \o s, v)) = g + h
    BY <1>2, <2>1, <2>2, ConcatCounts
  <2>4. PICK p \in Int, q \in Int : p = pct * Len(t) /\ q = pct * Len(s)
    BY <1>2
  <2>5. pct * Len(t \o s) = p + q
    BY <1>2, <2>4
  <2>6. (\A e \in E \cup {d} : FewBelow(f[e], v, pct)) => FewBelow(t \o s, v, pct)
    <3> SUFFICES ASSUME \A e \in E \cup {d} : FewBelow(f[e], v, pct)
                 PROVE  FewBelow(t \o s, v, pct)
      OBVIOUS
    <3>1. FewBelow(t, v, pct) /\ FewBelow(s, v, pct)
      BY <1>1 DEF Pooled
    <3>2. 100 * b < p /\ 100 * c < q
      BY <2>1, <2>4, <3>1 DEF FewBelow
    <3>3. 100 * (b + c) < p + q
      BY <3>2
    <3> QED BY <2>3, <2>5, <3>3 DEF FewBelow
  <2>7. (\A e \in E \cup {d} : EnoughAtMost(f[e], v, pct)) => EnoughAtMost(t \o s, v, pct)
    <3> SUFFICES ASSUME \A e \in E \cup {d} : EnoughAtMost(f[e], v, pct)
                 PROVE  EnoughAtMost(t \o s, v, pct)
      OBVIOUS
    <3>1. EnoughAtMost(t, v, pct) /\ EnoughAtMost(s, v, pct)
      BY <1>1 DEF Pooled
    <3>2. 100 * g >= p /\ 100 * h >= q
      BY <2>2, <2>4, <3>1 DEF EnoughAtMost
    <3>3. 100 * (g + h) >= p + q
      BY <3>2
    <3> QED BY <2>3, <2>5, <3>3 DEF EnoughAtMost
  <2> QED BY <2>6, <2>7
<1> QED BY <1>1, <1>2, <1>3, <1>4, <1>6 DEF Pooled

\* FlattenSeq as it goes: the sequences so far, and one more.
Flattens(flat, seqs) ==
  /\ FlattenSeq(seqs) = flat[Len(seqs)]
  /\ flat[1] = seqs[1]
  /\ \A i \in 1 .. Len(seqs) - 1 : flat[i + 1] = flat[i] \o seqs[i + 1]

LEMMA FlattenSteps ==
  ASSUME NEW seqs, NEW n \in Nat, Len(seqs) = n, n >= 1
  PROVE  \E flat : Flattens(flat, seqs)
<1> DEFINE Def(f, k) == f = [i \in 1 .. k |-> IF i = 1 THEN seqs[i] ELSE f[i - 1] \o seqs[i]]
           None1 == {k \in Nat : k >= 1 /\ ~ \E f : Def(f, k)}
<1>1. \E f : Def(f, n)
  <2>0. ASSUME ~ \E f : Def(f, n) PROVE n \in None1
    <3> HIDE DEF Def
    <3> QED BY <2>0
  <2> SUFFICES ASSUME None1 # {} PROVE FALSE
    <3> HIDE DEF None1, Def
    <3> QED BY <2>0, Zenon
  <2>1. PICK k \in None1 : \A j \in None1 : k <= j
    <3>1. None1 \in SUBSET Nat
      OBVIOUS
    <3> HIDE DEF None1
    <3> QED BY <3>1, LeastNumber
  <2>2. k \in Nat /\ k >= 1 /\ ~ \E f : Def(f, k)
    BY Zenon
  <2>3. CASE k = 1
    <3> DEFINE g == [i \in 1 .. 1 |-> seqs[i]]
    <3>1. \A i \in 1 .. 1 : g[i] = IF i = 1 THEN seqs[i] ELSE g[i - 1] \o seqs[i]
      <4>1. \A i \in 1 .. 1 : i = 1 /\ g[i] = seqs[i]
        OBVIOUS
      <4> QED BY <4>1, Zenon
    <3>2. g = [i \in 1 .. 1 |-> g[i]]
      BY Zenon
    <3> HIDE DEF g
    <3>3. Def(g, 1)
      BY <3>1, <3>2, Zenon
    <3> QED BY <2>2, <2>3, <3>3
  <2>4. CASE k # 1
    <3>1. k - 1 \in Nat /\ k - 1 >= 1 /\ ~(k <= k - 1)
      BY <2>2, <2>4
    <3>2. k - 1 \notin None1
      BY <2>1, <3>1
    <3>3. PICK f : Def(f, k - 1)
      BY <3>1, <3>2
    <3> DEFINE g == [i \in 1 .. k |-> IF i = k THEN f[k - 1] \o seqs[k] ELSE f[i]]
    <3>4. \A i \in 1 .. k - 1 : f[i] = IF i = 1 THEN seqs[i] ELSE f[i - 1] \o seqs[i]
      BY <3>3, Zenon
    <3>5. ASSUME NEW i \in 1 .. k
          PROVE  g[i] = IF i = 1 THEN seqs[i] ELSE g[i - 1] \o seqs[i]
      <4>1. CASE i = k
        <5>1. k - 1 \in 1 .. k /\ k - 1 # k /\ i # 1
          BY <2>2, <2>4, <3>1, <4>1
        <5>2. g[k - 1] = f[k - 1] /\ g[i] = f[k - 1] \o seqs[k]
          BY <4>1, <5>1
        <5> QED BY <4>1, <5>1, <5>2
      <4>2. CASE i # k /\ i = 1
        <5>1. i \in 1 .. k - 1
          BY <2>2, <4>2
        <5> QED BY <3>4, <4>2, <5>1
      <4>3. CASE i # k /\ i # 1
        <5>1. i \in 1 .. k - 1 /\ i - 1 \in 1 .. k /\ i - 1 # k
          BY <2>2, <4>3
        <5>2. g[i - 1] = f[i - 1] /\ g[i] = f[i]
          BY <4>3, <5>1
        <5>3. f[i] = f[i - 1] \o seqs[i]
          BY <3>4, <4>3, <5>1
        <5> QED BY <4>3, <5>2, <5>3
      <4> QED BY <4>1, <4>2, <4>3
    <3>6. g = [i \in 1 .. k |-> g[i]]
      OBVIOUS
    <3> HIDE DEF g
    <3>7. Def(g, k)
      BY <3>5, <3>6, Zenon
    <3> QED BY <2>2, <3>7
  <2> QED BY <2>3, <2>4
<1> DEFINE flat == CHOOSE f : Def(f, n)
<1>2. Def(flat, n)
  BY <1>1
<1>3. FlattenSeq(seqs) = flat[n]
  BY DEF FlattenSeq
<1> HIDE DEF flat
<1>4. \A i \in 1 .. n : flat[i] = IF i = 1 THEN seqs[i] ELSE flat[i - 1] \o seqs[i]
  BY <1>2, Zenon
<1>5. flat[1] = seqs[1]
  BY <1>4
<1>6. ASSUME NEW i \in 1 .. n - 1 PROVE flat[i + 1] = flat[i] \o seqs[i + 1]
  <2>1. i + 1 \in 1 .. n /\ i + 1 # 1 /\ (i + 1) - 1 = i
    OBVIOUS
  <2> QED BY <1>4, <2>1, Zenon
<1>7. Flattens(flat, seqs)
  BY <1>3, <1>5, <1>6 DEF Flattens
<1> QED BY <1>7

\* The values of all, in any order of the devices.
LEMMA FlattenPools ==
  ASSUME NEW D, NEW f \in [D -> Seq(Nat)], NEW order \in Seq(D), order # << >>,
         \A i, j \in DOMAIN order : order[i] = order[j] => i = j
  PROVE  Pooled(FlattenSeq([i \in DOMAIN order |-> f[order[i]]]), f, ToSet(order))
<1>0. PICK n \in Nat : n = Len(order) /\ n >= 1 /\ DOMAIN order = 1 .. n
  OBVIOUS
<1> DEFINE seqs == [i \in 1 .. n |-> f[order[i]]]
           First(k) == {order[i] : i \in 1 .. k}
<1>1. Len(seqs) = n
  BY <1>0
<1>2. PICK flat : Flattens(flat, seqs)
  <2> HIDE DEF seqs
  <2> QED BY <1>0, <1>1, FlattenSteps
<1> DEFINE Bad == {k \in 1 .. n : ~Pooled(flat[k], f, First(k))}
<1>3. Bad = {}
  <2> SUFFICES ASSUME Bad # {} PROVE FALSE
    OBVIOUS
  <2>1. PICK k \in Bad : \A j \in Bad : k <= j
    <3>1. Bad \in SUBSET Nat
      OBVIOUS
    <3> HIDE DEF Bad
    <3> QED BY <3>1, LeastNumber
  <2>2. k \in 1 .. n /\ ~Pooled(flat[k], f, First(k))
    OBVIOUS
  <2>3. CASE k = 1
    <3>1. First(1) = {order[1]} /\ order[1] \in D
      BY <1>0
    <3>2. flat[1] = f[order[1]]
      BY <1>0, <1>2 DEF Flattens
    <3>3. Pooled(f[order[1]], f, {order[1]})
      BY <3>1, PoolOne
    <3> QED BY <2>2, <2>3, <3>1, <3>2, <3>3
  <2>4. CASE k # 1
    <3>1. PICK j \in 1 .. n - 1 : k = j + 1
      <4>1. k - 1 \in 1 .. n - 1 /\ k = (k - 1) + 1
        BY <1>0, <2>2, <2>4
      <4> QED BY <4>1
    <3>2. j \in 1 .. n /\ ~(k <= j)
      BY <1>0, <3>1
    <3>3. Pooled(flat[j], f, First(j))
      BY <2>1, <3>2
    <3>4. First(k) = First(j) \cup {order[k]}
      <4>1. \A i : i \in 1 .. k <=> i \in 1 .. j \/ i = k
        BY <1>0, <3>1
      <4> QED BY <4>1
    <3>5. order[k] \in D /\ order[k] \notin First(j)
      <4>1. \A i \in 1 .. j : i \in 1 .. n /\ i # k
        BY <1>0, <3>1
      <4>2. \A i \in 1 .. j : order[i] # order[k]
        BY <1>0, <2>2, <4>1
      <4>3. order[k] \in D
        BY <1>0, <2>2
      <4> QED BY <4>2, <4>3
    <3>6. flat[k] = flat[j] \o f[order[k]]
      <4>1. flat[j + 1] = flat[j] \o seqs[j + 1]
        <5> HIDE DEF seqs
        <5> QED BY <1>1, <1>2 DEF Flattens
      <4> QED BY <2>2, <3>1, <4>1
    <3> HIDE DEF First, Bad
    <3>7. Pooled(flat[j] \o f[order[k]], f, First(j) \cup {order[k]})
      BY <3>3, <3>5, PoolMore
    <3> QED BY <2>2, <3>4, <3>6, <3>7
  <2> QED BY <2>3, <2>4
<1>4. Pooled(flat[n], f, First(n))
  <2>1. n \in 1 .. n
    BY <1>0
  <2> QED BY <1>3, <2>1
<1>5. First(n) = ToSet(order)
  BY <1>0 DEF ToSet
<1>6. FlattenSeq(seqs) = flat[n]
  <2> HIDE DEF seqs
  <2> QED BY <1>1, <1>2 DEF Flattens
<1> QED BY <1>0, <1>4, <1>5, <1>6
-----------------------------------------------------------------------------
(* sum() *)

Pick(s) == CHOOSE i \in s : TRUE

\* FoldSeq of + as it goes: one element out of the set after another.
Adds(total, ordered, S) ==
  /\ total[{}] = 0
  /\ \A s \in SUBSET S : s # {} => total[s] = ordered[Pick(s)] + total[s \ {Pick(s)}]

LEMMA PickIs == \A s : s # {} => Pick(s) \in s
BY DEF Pick

LEMMA FoldAdds ==
  ASSUME NEW ordered \in Seq(Nat)
  PROVE  \E total : FoldSeq(+, 0, ordered) = total[DOMAIN ordered]
                    /\ Adds(total, ordered, DOMAIN ordered)
<1> DEFINE S == DOMAIN ordered
           Small(k) == {s \in SUBSET S : Cardinality(s) <= k}
           Step(f, s) == IF s = {} THEN 0 ELSE ordered[Pick(s)] + f[s \ {Pick(s)}]
           Def(f, k) == f = [s \in Small(k) |-> Step(f, s)]
           Without == {k \in Nat : ~ \E f : Def(f, k)}
           n == Len(ordered)
<1>0. /\ n \in Nat /\ S = 1 .. n /\ \A i \in S : ordered[i] \in Nat
      /\ \A s \in SUBSET S : IsFiniteSet(s) /\ Cardinality(s) \in 0 .. n
  BY IndicesCount
<1>r. ASSUME NEW s \in SUBSET S, s # {}
      PROVE  /\ s \ {Pick(s)} \in SUBSET S
             /\ Cardinality(s \ {Pick(s)}) = Cardinality(s) - 1
  BY <1>0, <1>r, PickIs, FS_RemoveElement
<1>1. \E f : Def(f, n)
  <2>0. ASSUME ~ \E f : Def(f, n) PROVE n \in Without
    <3> HIDE DEF Def
    <3> QED BY <1>0, <2>0
  <2> SUFFICES ASSUME Without # {} PROVE FALSE
    <3> HIDE DEF Without, Def
    <3> QED BY <2>0, Zenon
  <2>1. PICK k \in Without : \A j \in Without : k <= j
    <3>1. Without \in SUBSET Nat
      OBVIOUS
    <3> HIDE DEF Without
    <3> QED BY <3>1, LeastNumber
  <2>2. k \in Nat /\ ~ \E f : Def(f, k)
    BY Zenon
  <2>3. CASE k = 0
    <3>1. \A s \in Small(0) : s = {}
      BY <1>0, FS_EmptySet
    <3> DEFINE g == [s \in Small(0) |-> 0]
    <3>2. \A s \in Small(0) : g[s] = Step(g, s)
      BY <3>1, Zenon
    <3>3. g = [s \in Small(0) |-> g[s]]
      BY Zenon
    <3> HIDE DEF g, Step, Small
    <3>4. Def(g, 0)
      BY <3>2, <3>3, Zenon
    <3> QED BY <2>2, <2>3, <3>4
  <2>4. CASE k # 0
    <3>1. k - 1 \in Nat /\ ~(k <= k - 1)
      BY <2>2, <2>4
    <3>2. k - 1 \notin Without
      BY <2>1, <3>1
    <3>3. PICK f : Def(f, k - 1)
      <4> HIDE DEF Def
      <4> QED BY <3>1, <3>2
    <3> DEFINE g == [s \in Small(k) |-> IF s \in Small(k - 1) THEN f[s] ELSE Step(f, s)]
    <3>4. \A s \in Small(k - 1) : f[s] = Step(f, s)
      BY <3>3, Zenon
    <3>5. Small(k - 1) \subseteq Small(k)
      BY <1>0, <2>2
    <3>6. ASSUME NEW s \in Small(k), s # {}
          PROVE  s \ {Pick(s)} \in Small(k - 1)
      <4>1. Cardinality(s \ {Pick(s)}) = Cardinality(s) - 1 /\ s \ {Pick(s)} \in SUBSET S
        BY <1>r, <3>6
      <4> QED BY <1>0, <2>2, <4>1
    <3>7. ASSUME NEW s \in Small(k) PROVE g[s] = Step(g, s)
      <4>1. CASE s = {}
        <5>1. Step(g, s) = 0 /\ Step(f, s) = 0
          BY <4>1
        <5> HIDE DEF Step, Small
        <5> QED BY <3>4, <5>1
      <4>2. CASE s # {}
        <5>1. s \ {Pick(s)} \in Small(k - 1)
          BY <3>6, <4>2
        <5>2. g[s \ {Pick(s)}] = f[s \ {Pick(s)}]
          <6> HIDE DEF Small
          <6> QED BY <3>5, <5>1
        <5>3. Step(g, s) = Step(f, s)
          <6> HIDE DEF g
          <6> QED BY <5>2
        <5>4. g[s] = Step(f, s)
          <6> HIDE DEF Step, Small
          <6> QED BY <3>4
        <5> QED BY <5>3, <5>4, Zenon
      <4> QED BY <4>1, <4>2
    <3>8. g = [s \in Small(k) |-> g[s]]
      BY Zenon
    <3> HIDE DEF g, Step, Small
    <3>9. Def(g, k)
      BY <3>7, <3>8, Zenon
    <3> QED BY <2>2, <3>9
  <2> QED BY <2>3, <2>4
<1>2. Small(n) = SUBSET S
  BY <1>0
<1> DEFINE Whole(f) == f = [s \in SUBSET S |->
                              IF s = {} THEN 0
                              ELSE ordered[CHOOSE i \in s : TRUE] + f[s \ {CHOOSE i \in s : TRUE}]]
           total == CHOOSE f : Whole(f)
<1>3. \E f : Whole(f)
  <2>1. PICK f : Def(f, n)
    BY <1>1
  <2>2. Whole(f)
    BY <1>2, <2>1, Zenon DEF Pick
  <2> QED BY <2>2
<1>4. Whole(total)
  BY <1>3
<1>5. FoldSeq(+, 0, ordered) = total[S]
  BY DEF FoldSeq, FoldFunction, FoldFunctionOnSet, MapThenFoldSet
<1> HIDE DEF total
<1>6. \A s \in SUBSET S : total[s] = Step(total, s)
  BY <1>4, Zenon DEF Pick
<1>7. Adds(total, ordered, S)
  <2>1. {} \in SUBSET S
    OBVIOUS
  <2> QED BY <1>6, <2>1, Zenon DEF Adds
<1> QED BY <1>5, <1>7

\* The sum lies between as many times the least and as many times the greatest value.
LEMMA SumBetween ==
  ASSUME NEW ordered \in Seq(Nat), NEW lo \in Nat, NEW hi \in Nat,
         \A i \in DOMAIN ordered : lo <= ordered[i] /\ ordered[i] <= hi
  PROVE  /\ FoldSeq(+, 0, ordered) \in Nat
         /\ lo * Len(ordered) <= FoldSeq(+, 0, ordered)
         /\ FoldSeq(+, 0, ordered) <= hi * Len(ordered)
<1> DEFINE S == DOMAIN ordered
           n == Len(ordered)
<1>0. /\ n \in Nat /\ S = 1 .. n /\ \A i \in S : ordered[i] \in Nat
      /\ \A s \in SUBSET S : IsFiniteSet(s) /\ Cardinality(s) \in 0 .. n
  BY IndicesCount
<1>1. PICK total : FoldSeq(+, 0, ordered) = total[S] /\ Adds(total, ordered, S)
  BY FoldAdds
<1> DEFINE Fits(s) == /\ total[s] \in Nat
                      /\ lo * Cardinality(s) <= total[s] /\ total[s] <= hi * Cardinality(s)
           Bad == {Cardinality(s) : s \in {r \in SUBSET S : ~Fits(r)}}
<1>2. \A s \in SUBSET S : Fits(s)
  <2> SUFFICES ASSUME Bad # {} PROVE FALSE
    <3> HIDE DEF Fits
    <3> QED OBVIOUS
  <2>1. PICK c \in Bad : \A e \in Bad : c <= e
    <3>1. Bad \in SUBSET Nat
      <4> HIDE DEF Fits
      <4> QED BY <1>0
    <3> HIDE DEF Bad
    <3> QED BY <3>1, LeastNumber
  <2>2. PICK s \in SUBSET S : ~Fits(s) /\ Cardinality(s) = c
    <3> HIDE DEF Fits
    <3> QED OBVIOUS
  <2>3. CASE s = {}
    <3>1. Cardinality(s) = 0 /\ total[s] = 0
      BY <1>1, <2>3, FS_EmptySet DEF Adds
    <3>2. Fits(s)
      BY <3>1
    <3> QED BY <2>2, <3>2
  <2>4. CASE s # {}
    <3>1. PICK i \in S, r \in SUBSET S : i = Pick(s) /\ i \in s /\ r = s \ {i}
      BY <2>4, PickIs
    <3>2. total[s] = ordered[i] + total[r]
      BY <1>1, <2>4, <3>1 DEF Adds
    <3>3. Cardinality(r) \in Nat /\ Cardinality(s) = Cardinality(r) + 1
      BY <1>0, <3>1, FS_RemoveElement
    <3>4. Fits(r)
      <4>1. Cardinality(r) \notin Bad
        <5> HIDE DEF Bad
        <5> QED BY <2>1, <2>2, <3>3
      <4> HIDE DEF Fits
      <4> QED BY <4>1
    <3>5. ordered[i] \in Nat /\ lo <= ordered[i] /\ ordered[i] <= hi
      BY <1>0
    <3>6. PICK p \in Int, q \in Int : p = lo * Cardinality(r) /\ q = hi * Cardinality(r)
      BY <3>3
    <3>7. lo * Cardinality(s) = p + lo /\ hi * Cardinality(s) = q + hi
      <4>1. PICK e \in Nat : e = Cardinality(r)
        BY <3>3
      <4>2. lo * (e + 1) = lo * e + lo /\ hi * (e + 1) = hi * e + hi
        OBVIOUS
      <4> QED BY <3>3, <3>6, <4>1, <4>2
    <3>8. total[r] \in Nat /\ p <= total[r] /\ total[r] <= q
      BY <3>4, <3>6
    <3>9. Fits(s)
      BY <3>2, <3>5, <3>7, <3>8
    <3> QED BY <2>2, <3>9
  <2> QED BY <2>3, <2>4
<1>3. Fits(S) /\ Cardinality(S) = n
  <2>1. S \in SUBSET S
    OBVIOUS
  <2>2. Cardinality(S) = n
    <3>1. PICK m \in Nat : m = n
      BY <1>0
    <3>2. Cardinality(1 .. m) = IF 1 > m THEN 0 ELSE m - 1 + 1
      BY FS_Interval
    <3> QED BY <1>0, <3>1, <3>2
  <2> HIDE DEF Fits
  <2> QED BY <1>2, <2>1, <2>2
<1> QED BY <1>1, <1>3
-----------------------------------------------------------------------------
(* What stats() looks at. *)

\* The buckets of a channel: finitely many, none above its limit.
Stored(store) ==
  /\ store \in [Device -> Seq(Sample)]
  /\ \A d \in Device : Len(store[d]) <= MAX_SAMPLES
  /\ IsFiniteSet({d \in Device : store[d] # << >>})

Rings(store) == [d \in Device |-> Latencies(store[d])]

LEMMA StoredRings ==
  ASSUME NEW store, Stored(store)
  PROVE  /\ Rings(store) \in [Device -> Seq(Nat)]
         /\ \A d \in Device : /\ Rings(store)[d] = Latencies(store[d])
                              /\ Rings(store)[d] \in Seq(Nat)
                              /\ Len(Rings(store)[d]) = Len(store[d])
                              /\ (store[d] # << >> <=> Rings(store)[d] # << >>)
         /\ \A E \in SUBSET Device : IsFiniteSet(Slots(Rings(store), E))
<1>1. ASSUME NEW d \in Device
      PROVE  /\ store[d] \in Seq(Sample) /\ Len(store[d]) <= MAX_SAMPLES
             /\ Latencies(store[d]) \in Seq(Nat)
             /\ Len(Latencies(store[d])) = Len(store[d])
  <2>1. store[d] \in Seq(Sample) /\ Len(store[d]) <= MAX_SAMPLES
    BY DEF Stored
  <2>2. ASSUME NEW b \in Seq(Sample)
        PROVE  Latencies(b) \in Seq(Nat) /\ Len(Latencies(b)) = Len(b)
    <3>1. PICK n \in Nat : n = Len(b) /\ DOMAIN b = 1 .. n
      OBVIOUS
    <3>2. \A i \in 1 .. n : b[i].latency \in Nat
      <4>1. \A i \in 1 .. n : b[i] \in Sample
        BY <3>1
      <4>2. \A x \in Sample : x.latency \in Nat
        BY DEF Sample
      <4> QED BY <4>1, <4>2
    <3>3. Latencies(b) \in [1 .. n -> Nat]
      BY <3>1, <3>2 DEF Latencies
    <3> QED BY <3>1, <3>3
  <2> QED BY <2>1, <2>2
<1>2. Rings(store) \in [Device -> Seq(Nat)]
  BY <1>1 DEF Rings
<1>3. ASSUME NEW d \in Device
      PROVE  /\ Rings(store)[d] = Latencies(store[d])
             /\ Rings(store)[d] \in Seq(Nat)
             /\ Len(Rings(store)[d]) = Len(store[d])
             /\ (store[d] # << >> <=> Rings(store)[d] # << >>)
  <2>1. Rings(store)[d] = Latencies(store[d])
    BY DEF Rings
  <2>2. \A b \in Seq(Sample) : b # << >> <=> Len(b) # 0
    OBVIOUS
  <2>3. \A b \in Seq(Nat) : b # << >> <=> Len(b) # 0
    OBVIOUS
  <2> QED BY <1>1, <2>1, <2>2, <2>3
<1>4. ASSUME NEW E \in SUBSET Device PROVE IsFiniteSet(Slots(Rings(store), E))
  <2> DEFINE D == {d \in Device : store[d] # << >>}
  <2>1. IsFiniteSet(1 .. MAX_SAMPLES)
    BY FS_Interval, MaxSamplesAssumption
  <2>2. IsFiniteSet(D \X (1 .. MAX_SAMPLES))
    BY <2>1, FS_Product DEF Stored
  <2>3. Slots(Rings(store), E) \subseteq D \X (1 .. MAX_SAMPLES)
    <3> SUFFICES ASSUME NEW x \in Slots(Rings(store), E)
                 PROVE  x \in D \X (1 .. MAX_SAMPLES)
      OBVIOUS
    <3>1. /\ x = <<x[1], x[2]>> /\ x[1] \in Device /\ x[2] \in Nat
          /\ x[2] \in 1 .. Len(Rings(store)[x[1]])
      BY DEF Slots
    <3>2. PICK d \in Device, i \in Nat : d = x[1] /\ i = x[2]
      BY <3>1
    <3>3. i \in 1 .. Len(store[d]) /\ Len(store[d]) <= MAX_SAMPLES
      BY <1>1, <1>3, <3>1, <3>2
    <3>4. Len(store[d]) \in Nat
      BY <1>1
    <3>5. i \in 1 .. MAX_SAMPLES
      BY <3>3, <3>4, MaxSamplesAssumption
    <3>6. store[d] # << >>
      BY <3>3
    <3> QED BY <3>1, <3>2, <3>5, <3>6
  <2> QED BY <2>2, <2>3, FS_Subset
<1> QED BY <1>2, <1>3, <1>4

AllStored == \A channel \in CHANNELS : Stored(samples[channel])

LEMMA ChannelsStored == StatsInv => AllStored
<1> SUFFICES ASSUME StatsInv, NEW channel \in CHANNELS PROVE Stored(samples[channel])
  BY DEF AllStored
<1>1. /\ samples[channel] \in [Device -> Seq(Sample)]
      /\ \A d \in Device : Len(samples[channel][d]) <= MAX_SAMPLES
  BY DEF StatsInv, TypeOK, SamplesTypeOK
<1>2. {d \in Device : samples[channel][d] # << >>} \in SUBSET Measured
  BY DEF Measured
<1>3. IsFiniteSet({d \in Device : samples[channel][d] # << >>})
  BY <1>2, FS_Subset DEF StatsInv
<1> QED BY <1>1, <1>3 DEF Stored

LEMMA RingsAre ==
  ASSUME StatsInv, NEW channel \in CHANNELS
  PROVE  /\ Rings(samples[channel]) \in [Device -> Seq(Nat)]
         /\ \A d \in Device :
              /\ Rings(samples[channel])[d] = Latencies(samples[channel][d])
              /\ Rings(samples[channel])[d] \in Seq(Nat)
              /\ Len(Rings(samples[channel])[d]) = Len(samples[channel][d])
              /\ ValuesOf(channel, d) = Rings(samples[channel])[d]
              /\ (d \in Buckets(channel) <=> Rings(samples[channel])[d] # << >>)
         /\ Buckets(channel) \subseteq Device /\ IsFiniteSet(Buckets(channel))
         /\ \A E \in SUBSET Device : IsFiniteSet(Slots(Rings(samples[channel]), E))
<1>1. PICK store : store = samples[channel] /\ Stored(store)
  BY ChannelsStored DEF AllStored
<1>2. /\ Rings(store) \in [Device -> Seq(Nat)]
      /\ \A d \in Device : /\ Rings(store)[d] = Latencies(store[d])
                           /\ Rings(store)[d] \in Seq(Nat)
                           /\ Len(Rings(store)[d]) = Len(store[d])
                           /\ (store[d] # << >> <=> Rings(store)[d] # << >>)
      /\ \A E \in SUBSET Device : IsFiniteSet(Slots(Rings(store), E))
  BY <1>1, StoredRings
<1>3. Buckets(channel) = {d \in Device : store[d] # << >>}
  BY <1>1 DEF Buckets
<1>4. IsFiniteSet(Buckets(channel)) /\ Buckets(channel) \subseteq Device
  BY <1>1, <1>3 DEF Stored
<1>5. \A d \in Device : ValuesOf(channel, d) = Latencies(store[d])
  BY <1>1, NoneAssumption DEF ValuesOf
<1> QED BY <1>1, <1>2, <1>3, <1>4, <1>5

\* For all devices, stats() has the values of those with a bucket, pooled.
LEMMA AllValues ==
  ASSUME StatsInv, NEW channel \in CHANNELS
  PROVE  /\ Buckets(channel) = {} => ValuesOf(channel, None) = << >>
         /\ Buckets(channel) # {} =>
              Pooled(ValuesOf(channel, None), Rings(samples[channel]), Buckets(channel))
<1> DEFINE order == SetToSeq(Buckets(channel))
<1>1. /\ order \in Seq(Buckets(channel)) /\ ToSet(order) = Buckets(channel)
      /\ \A i, j \in DOMAIN order : order[i] = order[j] => i = j
      /\ Buckets(channel) = {} => order = << >>
      /\ Buckets(channel) # {} => order # << >>
  BY RingsAre, SetToSeqIs
<1>2. ValuesOf(channel, None)
        = FlattenSeq([i \in DOMAIN order |-> Latencies(samples[channel][order[i]])])
  BY DEF ValuesOf
<1> HIDE DEF order
<1>3. order \in Seq(Device) /\ \A i \in DOMAIN order : order[i] \in Device
  BY <1>1, RingsAre
<1>4. [i \in DOMAIN order |-> Latencies(samples[channel][order[i]])]
        = [i \in DOMAIN order |-> Rings(samples[channel])[order[i]]]
  BY <1>3, RingsAre
<1>5. ASSUME Buckets(channel) = {} PROVE ValuesOf(channel, None) = << >>
  <2>1. order = << >>
    BY <1>1, <1>5
  <2>2. [i \in DOMAIN order |-> Latencies(samples[channel][order[i]])] = << >>
    BY <2>1
  <2>3. Len(<< >>) = 0
    OBVIOUS
  <2>4. FlattenSeq(<< >>) = << >>
    BY <2>3 DEF FlattenSeq
  <2> QED BY <1>2, <2>2, <2>4
<1>6. ASSUME Buckets(channel) # {}
      PROVE  Pooled(ValuesOf(channel, None), Rings(samples[channel]), Buckets(channel))
  <2>1. Rings(samples[channel]) \in [Device -> Seq(Nat)]
    BY RingsAre
  <2>2. Pooled(FlattenSeq([i \in DOMAIN order |-> Rings(samples[channel])[order[i]]]), Rings(samples[channel]),
               ToSet(order))
    BY <1>1, <1>3, <1>6, <2>1, FlattenPools
  <2> QED BY <1>1, <1>2, <1>4, <2>2
<1> QED BY <1>5, <1>6

LEMMA ValuesAre ==
  ASSUME StatsInv, NEW channel \in CHANNELS, NEW d \in Device \cup {None}
  PROVE  ValuesOf(channel, d) \in Seq(Nat)
<1>1. CASE d \in Device
  BY <1>1, RingsAre
<1>2. CASE d = None
  <2>1. ValuesOf(channel, None) = << >> \/ ValuesOf(channel, None) \in Seq(Nat)
    BY AllValues DEF Pooled
  <2>2. << >> \in Seq(Nat)
    OBVIOUS
  <2> QED BY <1>2, <2>1, <2>2
<1> QED BY <1>1, <1>2

LEMMA NearestRank == StatsInv => PercentileIsNearestRank
<1> SUFFICES ASSUME StatsInv,
                    NEW channel \in CHANNELS, NEW d \in Device \cup {None},
                    NEW pct \in Percent \ {0}, NEW values, values = ValuesOf(channel, d),
                    values # << >>
             PROVE  percentile(InOrder(values), pct)
                      = Min({v \in ToSet(values) :
                               100 * Cardinality({i \in DOMAIN values : values[i] <= v})
                                 >= pct * Len(values)})
  BY DEF PercentileIsNearestRank
<1> DEFINE Enough == {v \in ToSet(values) :
                        100 * Cardinality({i \in DOMAIN values : values[i] <= v})
                          >= pct * Len(values)}
<1>1. values \in Seq(Nat) /\ pct \in 1 .. 100
  BY ValuesAre, PercentAssumption
<1>2. PICK p : p = percentile(InOrder(values), pct) /\ Splits(p, values, pct)
  BY <1>1, PercentileSplits
<1>3. \A v : v \in Enough <=> v \in ToSet(values)
                              /\ 100 * Cardinality(AtMost(values, v)) >= pct * Len(values)
  BY DEF AtMost
<1> HIDE DEF Enough
<1>4. p \in Enough
  BY <1>2, <1>3 DEF Splits
<1>5. Enough \in SUBSET Nat
  BY <1>1, <1>3 DEF ToSet
<1>6. \A w \in Enough : p <= w
  BY <1>1, <1>2, <1>3, <1>5, SplitIsLeast
<1>7. Min(Enough) \in Enough /\ \A w \in Enough : Min(Enough) <= w
  BY <1>4, <1>5, MinIs
<1>8. p \in Nat /\ Min(Enough) \in Nat /\ p <= Min(Enough) /\ Min(Enough) <= p
  BY <1>4, <1>5, <1>6, <1>7
<1>9. p = Min(Enough)
  BY <1>8
<1> QED BY <1>2, <1>9 DEF Enough
-----------------------------------------------------------------------------
(* The row of all devices against theirs. *)

\* sorted() puts the least value first and the greatest one last.
LEMMA EndsOfOrder ==
  ASSUME NEW values \in Seq(Nat), values # << >>
  PROVE  LET ordered == InOrder(values)
         IN  /\ ordered \in Seq(Nat) /\ Len(ordered) = Len(values) /\ ordered # << >>
             /\ ordered[1] \in ToSet(values) /\ ordered[Len(ordered)] \in ToSet(values)
             /\ \A v \in ToSet(values) : ordered[1] <= v /\ v <= ordered[Len(ordered)]
             /\ \A i \in DOMAIN ordered : ordered[i] \in ToSet(values)
<1> DEFINE ordered == InOrder(values)
<1>0. PICK n \in Nat : n = Len(values) /\ n >= 1 /\ DOMAIN values = 1 .. n
  OBVIOUS
<1>1. ordered \in Seq(Nat) /\ Len(ordered) = n /\ DOMAIN ordered = 1 .. n
  BY <1>0, InOrderSorts DEF Sorts
<1>2. \A i \in 1 .. n : /\ ordered[i] \in ToSet(values) /\ ordered[i] \in Nat
                        /\ Cardinality(Below(values, ordered[i])) < i
                        /\ i <= Cardinality(AtMost(values, ordered[i]))
  BY <1>0, PlaceCounts
<1> HIDE DEF ordered
<1>3. 1 \in 1 .. n /\ n \in 1 .. n
  BY <1>0
<1>4. Below(values, ordered[1]) = {}
  <2>1. Below(values, ordered[1]) \in SUBSET DOMAIN values
    BY DEF Below
  <2>2. /\ IsFiniteSet(Below(values, ordered[1]))
        /\ Cardinality(Below(values, ordered[1])) \in Nat
    BY <2>1, IndicesCount
  <2>3. Cardinality(Below(values, ordered[1])) < 1
    BY <1>2, <1>3
  <2>4. Cardinality(Below(values, ordered[1])) = 0
    BY <2>2, <2>3
  <2> QED BY <2>2, <2>4, FS_EmptySet
<1>5. AtMost(values, ordered[n]) = DOMAIN values
  <2>1. AtMost(values, ordered[n]) \in SUBSET DOMAIN values
    BY DEF AtMost
  <2>2. DOMAIN values \in SUBSET DOMAIN values
    OBVIOUS
  <2>3. Cardinality(DOMAIN values) <= n /\ Cardinality(DOMAIN values) \in Nat
    BY <1>0, <2>2, IndicesCount
  <2>4. AtMost(values, ordered[n]) # DOMAIN values
          => Cardinality(AtMost(values, ordered[n])) < Cardinality(DOMAIN values)
    BY <2>1, <2>2, IndicesCount
  <2>5. n <= Cardinality(AtMost(values, ordered[n])) /\ Cardinality(AtMost(values, ordered[n])) \in Nat
    BY <1>2, <1>3, <2>1, IndicesCount
  <2> QED BY <2>3, <2>4, <2>5
<1>6. ASSUME NEW v \in ToSet(values) PROVE ordered[1] <= v /\ v <= ordered[n]
  <2>1. PICK k \in 1 .. n : v = values[k] /\ v \in Nat
    BY <1>0 DEF ToSet
  <2>2. k \notin Below(values, ordered[1]) /\ k \in AtMost(values, ordered[n])
    BY <1>0, <1>4, <1>5
  <2>3. ~(v < ordered[1]) /\ v <= ordered[n]
    BY <1>0, <2>1, <2>2 DEF Below, AtMost
  <2>4. ordered[1] \in Nat
    BY <1>2, <1>3
  <2> QED BY <2>1, <2>3, <2>4
<1>7. ordered # << >>
  BY <1>0, <1>1
<1> QED BY <1>0, <1>1, <1>2, <1>3, <1>6, <1>7 DEF ordered

LEMMA SummaryIs ==
  ASSUME NEW values \in Seq(Nat), values # << >>
  PROVE  /\ summarise(values) \in Summary
         /\ LET r == summarise(values)
            IN  /\ r.count = Len(values)
                /\ r.min_ms \in ToSet(values) /\ r.max_ms \in ToSet(values)
                /\ \A v \in ToSet(values) : r.min_ms <= v /\ v <= r.max_ms
                /\ r.p50_ms = percentile(InOrder(values), 50)
                /\ r.p95_ms = percentile(InOrder(values), 95)
                /\ r.p99_ms = percentile(InOrder(values), 99)
                /\ r.min_ms * r.count <= r.sum /\ r.sum <= r.max_ms * r.count
<1> DEFINE ordered == InOrder(values)
           sum == FoldSeq(+, 0, ordered)
           p(pct) == percentile(ordered, pct)
           r == summarise(values)
<1>1. PICK lo, hi, n \in Nat : lo = ordered[1] /\ hi = ordered[Len(ordered)] /\ n = Len(values)
  BY EndsOfOrder
<1>2. /\ ordered \in Seq(Nat) /\ Len(ordered) = n
      /\ lo \in ToSet(values) /\ hi \in ToSet(values)
      /\ \A v \in ToSet(values) : lo <= v /\ v <= hi
      /\ \A i \in DOMAIN ordered : ordered[i] \in ToSet(values)
  BY <1>1, EndsOfOrder
<1>3. lo \in Nat /\ hi \in Nat
  BY <1>2 DEF ToSet
<1>4. p(50) \in Nat /\ p(95) \in Nat /\ p(99) \in Nat
  <2>1. 50 \in 1 .. 100 /\ 95 \in 1 .. 100 /\ 99 \in 1 .. 100
    OBVIOUS
  <2> QED BY <2>1, PercentileSplits DEF Splits
<1>5. sum \in Nat /\ lo * n <= sum /\ sum <= hi * n
  <2> HIDE DEF ordered
  <2> QED BY <1>2, <1>3, SumBetween
<1>6. r = [count |-> n, min_ms |-> lo, sum |-> sum, p50_ms |-> p(50), p95_ms |-> p(95),
           p99_ms |-> p(99), max_ms |-> hi]
  BY <1>1, <1>2 DEF summarise
<1> HIDE DEF r, p, sum, ordered
<1>7. r \in Summary
  BY <1>1, <1>3, <1>4, <1>5, <1>6 DEF Summary
<1>8. /\ r.count = n /\ r.min_ms = lo /\ r.sum = sum /\ r.p50_ms = p(50) /\ r.p95_ms = p(95)
      /\ r.p99_ms = p(99) /\ r.max_ms = hi
  BY <1>6
<1> QED BY <1>1, <1>2, <1>5, <1>7, <1>8 DEF r, p, ordered

\* No percentile of the pool lies outside of those of its parts.
Within(t, f, E, pct) ==
  LET parts == {percentile(InOrder(f[d]), pct) : d \in E}
  IN  percentile(InOrder(t), pct) \in Min(parts) .. Max(parts)

LEMMA PercentileBetween ==
  ASSUME NEW D, NEW f \in [D -> Seq(Nat)], NEW E \in SUBSET D, E # {}, IsFiniteSet(E),
         \A d \in E : f[d] # << >>,
         NEW t, Pooled(t, f, E), t # << >>, NEW pct \in 1 .. 100
  PROVE  Within(t, f, E, pct)
<1> DEFINE at(d) == percentile(InOrder(f[d]), pct)
           parts == {at(d) : d \in E}
<1>1. \A d \in E : f[d] \in Seq(Nat) /\ Splits(at(d), f[d], pct)
  BY PercentileSplits
<1>2. t \in Seq(Nat)
  BY DEF Pooled
<1>3. PICK p : p = percentile(InOrder(t), pct) /\ Splits(p, t, pct)
  BY <1>2, PercentileSplits
<1>4. parts \in SUBSET Nat /\ parts # {} /\ IsFiniteSet(parts)
  <2> HIDE DEF at
  <2>1. parts \in SUBSET Nat /\ parts # {}
    BY <1>1 DEF Splits
  <2>2. IsFiniteSet(parts)
    <3> DEFINE g == [d \in E |-> at(d)]
    <3>1. g \in Surjection(E, parts)
      <4>1. g \in [E -> parts] /\ \A y \in parts : \E d \in E : g[d] = y
        OBVIOUS
      <4> QED BY <4>1, Fun_IsSurj
    <3> HIDE DEF g, parts
    <3> QED BY <3>1, FS_Surjection
  <2> QED BY <2>1, <2>2
<1> HIDE DEF at
<1>5. PICK lo \in Nat, hi \in Nat :
        /\ lo = Min(parts) /\ hi = Max(parts)
        /\ \A d \in E : lo <= at(d) /\ at(d) <= hi
  <2>1. Min(parts) \in parts /\ \A x \in parts : Min(parts) <= x
    <3> HIDE DEF parts
    <3> QED BY <1>4, MinIs
  <2>2. Max(parts) \in parts /\ \A x \in parts : x <= Max(parts)
    <3> HIDE DEF parts
    <3> QED BY <1>4, MaxIs
  <2> QED BY <1>4, <2>1, <2>2
<1>6. \A v : \A r \in Seq(Nat) : Cardinality(Below(r, v)) \in Nat /\ Cardinality(AtMost(r, v)) \in Nat
  <2>1. \A v, r : Below(r, v) \in SUBSET DOMAIN r /\ AtMost(r, v) \in SUBSET DOMAIN r
    BY DEF Below, AtMost
  <2> QED BY <2>1, IndicesCount
<1>7. ASSUME NEW d \in E PROVE FewBelow(f[d], lo, pct) /\ EnoughAtMost(f[d], hi, pct)
  <2>1. PICK v \in Nat : v = at(d) /\ lo <= v /\ v <= hi /\ Splits(v, f[d], pct)
    BY <1>1, <1>5 DEF Splits
  <2>2. PICK r \in Seq(Nat) : r = f[d]
    BY <1>1
  <2>3. Below(r, lo) \in SUBSET Below(r, v) /\ AtMost(r, v) \in SUBSET AtMost(r, hi)
    <3>1. \A i \in DOMAIN r : r[i] \in Nat
      OBVIOUS
    <3> QED BY <2>1, <3>1 DEF Below, AtMost
  <2>4. Below(r, v) \in SUBSET DOMAIN r /\ AtMost(r, hi) \in SUBSET DOMAIN r
    BY DEF Below, AtMost
  <2>5. /\ Cardinality(Below(r, lo)) <= Cardinality(Below(r, v))
        /\ Cardinality(AtMost(r, v)) <= Cardinality(AtMost(r, hi))
    BY <2>3, <2>4, IndicesCount
  <2>6. PICK q \in Int : q = pct * Len(r)
    OBVIOUS
  <2>7. 100 * Cardinality(Below(r, v)) < q /\ 100 * Cardinality(AtMost(r, v)) >= q
    BY <2>1, <2>2, <2>6 DEF Splits
  <2>8. 100 * Cardinality(Below(r, lo)) < q /\ 100 * Cardinality(AtMost(r, hi)) >= q
    <3>1. PICK a \in Nat, b \in Nat, c \in Nat, e \in Nat :
            /\ a = Cardinality(Below(r, lo)) /\ b = Cardinality(Below(r, v))
            /\ c = Cardinality(AtMost(r, v)) /\ e = Cardinality(AtMost(r, hi))
      BY <1>6
    <3>2. a <= b /\ c <= e
      BY <2>5, <3>1
    <3>3. 100 * b < q /\ 100 * c >= q
      BY <2>7, <3>1
    <3>4. 100 * a < q /\ 100 * e >= q
      BY <3>2, <3>3
    <3> QED BY <3>1, <3>4
  <2> QED BY <2>2, <2>6, <2>8 DEF FewBelow, EnoughAtMost
<1>8. pct \in Nat
  OBVIOUS
<1>9. FewBelow(t, lo, pct) /\ EnoughAtMost(t, hi, pct)
  BY <1>5, <1>7, <1>8 DEF Pooled
<1>10. p \in Nat /\ p <= hi
  BY <1>2, <1>3, <1>5, <1>9, SplitIsLeast DEF Splits, EnoughAtMost
<1>11. lo <= p
  <2> SUFFICES ASSUME p < lo PROVE FALSE
    BY <1>5, <1>10
  <2>1. AtMost(t, p) \in SUBSET Below(t, lo) /\ Below(t, lo) \in SUBSET DOMAIN t
    <3>1. \A i \in DOMAIN t : t[i] \in Nat
      BY <1>2
    <3> QED BY <1>10, <3>1 DEF Below, AtMost
  <2>2. Cardinality(AtMost(t, p)) <= Cardinality(Below(t, lo))
    BY <1>2, <2>1, IndicesCount
  <2>3. PICK q \in Int : q = pct * Len(t)
    BY <1>2
  <2>4. 100 * Cardinality(Below(t, lo)) < q /\ 100 * Cardinality(AtMost(t, p)) >= q
    BY <1>3, <1>9, <2>3 DEF Splits, FewBelow
  <2> QED BY <1>2, <1>6, <2>2, <2>4
<1>12. p \in lo .. hi
  BY <1>5, <1>10, <1>11
<1> QED BY <1>3, <1>5, <1>12 DEF at, Within
LEMMA AllBetween == StatsInv => AllDevicesBetweenDevices
<1> SUFFICES ASSUME StatsInv, NEW channel \in CHANNELS,
                    NEW rows, rows = {stats(channel, d) : d \in Device} \ {None}, rows # {},
                    NEW all, all = stats(channel, None)
             PROVE  /\ all.count = Len(ValuesOf(channel, None))
                    /\ all.min_ms = Min({r.min_ms : r \in rows})
                    /\ all.max_ms = Max({r.max_ms : r \in rows})
                    /\ all.p50_ms \in Min({r.p50_ms : r \in rows}) .. Max({r.p50_ms : r \in rows})
                    /\ all.p95_ms \in Min({r.p95_ms : r \in rows}) .. Max({r.p95_ms : r \in rows})
                    /\ all.p99_ms \in Min({r.p99_ms : r \in rows}) .. Max({r.p99_ms : r \in rows})
                    /\ all.min_ms * all.count <= all.sum /\ all.sum <= all.max_ms * all.count
  BY DEF AllDevicesBetweenDevices
<1> DEFINE f == Rings(samples[channel])
           E == Buckets(channel)
           row(d) == summarise(f[d])
           t == ValuesOf(channel, None)
<1>1. f \in [Device -> Seq(Nat)] /\ E \subseteq Device /\ IsFiniteSet(E)
  BY RingsAre
<1>2. \A d \in E : f[d] \in Seq(Nat) /\ f[d] # << >>
  BY RingsAre
<1>3. rows = {row(d) : d \in E}
  <2>1. ASSUME NEW d \in Device
        PROVE  stats(channel, d) = IF d \in E THEN row(d) ELSE None
    BY RingsAre DEF stats
  <2>2. \A d \in E : row(d) # None
    BY <1>2, SummaryIs, NoSummaryAssumption
  <2> HIDE DEF E, row
  <2> QED BY <1>1, <2>1, <2>2
<1>4. E # {}
  BY <1>3
<1>5. Pooled(t, f, E)
  BY <1>4, AllValues
<1>6. t \in Seq(Nat) /\ ToSet(t) = UNION {ToSet(f[d]) : d \in E}
  BY <1>5 DEF Pooled
<1>7. t # << >>
  <2>1. PICK d \in E : f[d] \in Seq(Nat) /\ f[d] # << >>
    BY <1>2, <1>4
  <2>2. f[d][1] \in ToSet(f[d])
    BY <2>1 DEF ToSet
  <2>3. f[d][1] \in ToSet(t)
    BY <1>6, <2>2
  <2> QED BY <2>3 DEF ToSet
<1>8. all = summarise(t)
  BY <1>7 DEF stats
<1> HIDE DEF t, f, E
<1>9. /\ all.count = Len(t)
      /\ all.min_ms \in ToSet(t) /\ all.max_ms \in ToSet(t)
      /\ \A v \in ToSet(t) : all.min_ms <= v /\ v <= all.max_ms
      /\ all.p50_ms = percentile(InOrder(t), 50)
      /\ all.p95_ms = percentile(InOrder(t), 95)
      /\ all.p99_ms = percentile(InOrder(t), 99)
      /\ all.min_ms * all.count <= all.sum /\ all.sum <= all.max_ms * all.count
  BY <1>6, <1>7, <1>8, SummaryIs
<1>10. \A d \in E : /\ row(d).min_ms \in ToSet(f[d]) /\ row(d).max_ms \in ToSet(f[d])
                    /\ \A v \in ToSet(f[d]) : row(d).min_ms <= v /\ v <= row(d).max_ms
                    /\ row(d).p50_ms = percentile(InOrder(f[d]), 50)
                    /\ row(d).p95_ms = percentile(InOrder(f[d]), 95)
                    /\ row(d).p99_ms = percentile(InOrder(f[d]), 99)
  BY <1>2, SummaryIs
<1> HIDE DEF row
<1>11. ToSet(t) \subseteq Nat /\ \A d \in E : ToSet(f[d]) \subseteq Nat
  <2>1. \A s \in Seq(Nat) : ToSet(s) \subseteq Nat
    BY DEF ToSet
  <2> QED BY <1>2, <1>6, <2>1
<1>12. all.min_ms = Min({r.min_ms : r \in rows})
  <2> DEFINE mins == {r.min_ms : r \in rows}
  <2>1. mins = {row(d).min_ms : d \in E}
    BY <1>3
  <2>2. mins \in SUBSET Nat /\ mins # {}
    BY <1>4, <1>10, <1>11, <2>1
  <2>3. PICK a \in E : all.min_ms \in ToSet(f[a])
    BY <1>6, <1>9
  <2> HIDE DEF mins
  <2>4. PICK m \in mins : m = Min(mins) /\ \A x \in mins : m <= x
    BY <2>2, MinIs
  <2>5. PICK b \in E : m = row(b).min_ms
    BY <2>1
  <2>6. m \in ToSet(t)
    BY <1>6, <1>10, <2>5
  <2>7. all.min_ms <= m /\ m <= row(a).min_ms /\ row(a).min_ms <= all.min_ms
    BY <1>9, <1>10, <2>1, <2>3, <2>4, <2>6
  <2>8. all.min_ms \in Nat /\ m \in Nat /\ row(a).min_ms \in Nat
    BY <1>9, <1>10, <1>11, <2>2
  <2>9. all.min_ms = m
    BY <2>7, <2>8
  <2> QED BY <2>4, <2>9 DEF mins
<1>13. all.max_ms = Max({r.max_ms : r \in rows})
  <2> DEFINE maxs == {r.max_ms : r \in rows}
  <2>1. maxs = {row(d).max_ms : d \in E}
    BY <1>3
  <2>2. maxs \in SUBSET Nat /\ maxs # {}
    BY <1>4, <1>10, <1>11, <2>1
  <2>3. PICK a \in E : all.max_ms \in ToSet(f[a])
    BY <1>6, <1>9
  <2>4. IsFiniteSet(maxs)
    <3> DEFINE g == [d \in E |-> row(d).max_ms]
    <3>1. g \in Surjection(E, maxs)
      <4>1. g \in [E -> maxs] /\ \A y \in maxs : \E d \in E : g[d] = y
        BY <2>1
      <4> QED BY <4>1, Fun_IsSurj
    <3> HIDE DEF g, maxs
    <3> QED BY <1>1, <3>1, FS_Surjection DEF E
  <2> HIDE DEF maxs
  <2>5. PICK m \in maxs : m = Max(maxs) /\ \A x \in maxs : x <= m
    BY <2>2, <2>4, MaxIs
  <2>6. PICK b \in E : m = row(b).max_ms
    BY <2>1
  <2>7. m \in ToSet(t)
    BY <1>6, <1>10, <2>6
  <2>8. m <= all.max_ms /\ row(a).max_ms <= m /\ all.max_ms <= row(a).max_ms
    BY <1>9, <1>10, <2>1, <2>3, <2>5, <2>7
  <2>9. all.max_ms \in Nat /\ m \in Nat /\ row(a).max_ms \in Nat
    BY <1>9, <1>10, <1>11, <2>2
  <2>10. all.max_ms = m
    BY <2>8, <2>9
  <2> QED BY <2>5, <2>10 DEF maxs
<1>14. \A pct \in 1 .. 100 : Within(t, f, E, pct)
  <2>1. E \in SUBSET Device /\ IsFiniteSet(E) /\ f \in [Device -> Seq(Nat)]
    BY <1>1 DEF E, f
  <2>2. \A d \in E : f[d] # << >>
    BY <1>2
  <2>3. PICK F \in SUBSET Device, g \in [Device -> Seq(Nat)], s \in Seq(Nat) :
          F = E /\ g = f /\ s = t
    BY <1>6, <2>1
  <2>4. /\ F # {} /\ IsFiniteSet(F) /\ \A d \in F : g[d] # << >>
        /\ Pooled(s, g, F) /\ s # << >>
    BY <1>4, <1>5, <1>7, <2>1, <2>2, <2>3
  <2>5. \A pct \in 1 .. 100 : Within(s, g, F, pct)
    BY <2>4, PercentileBetween
  <2> QED BY <2>3, <2>5
<1>16. /\ {r.p50_ms : r \in rows} = {row(d).p50_ms : d \in E}
       /\ {r.p95_ms : r \in rows} = {row(d).p95_ms : d \in E}
       /\ {r.p99_ms : r \in rows} = {row(d).p99_ms : d \in E}
  BY <1>3
<1>17. /\ {row(d).p50_ms : d \in E} = {percentile(InOrder(f[d]), 50) : d \in E}
       /\ {row(d).p95_ms : d \in E} = {percentile(InOrder(f[d]), 95) : d \in E}
       /\ {row(d).p99_ms : d \in E} = {percentile(InOrder(f[d]), 99) : d \in E}
  BY <1>10
<1>18. all.p50_ms \in Min({r.p50_ms : r \in rows}) .. Max({r.p50_ms : r \in rows})
  <2>1. 50 \in 1 .. 100
    OBVIOUS
  <2>2. percentile(InOrder(t), 50) \in Min({percentile(InOrder(f[d]), 50) : d \in E})
                                        .. Max({percentile(InOrder(f[d]), 50) : d \in E})
    BY <1>14, <2>1 DEF Within
  <2> QED BY <1>9, <1>16, <1>17, <2>2
<1>19. all.p95_ms \in Min({r.p95_ms : r \in rows}) .. Max({r.p95_ms : r \in rows})
  <2>1. 95 \in 1 .. 100
    OBVIOUS
  <2>2. percentile(InOrder(t), 95) \in Min({percentile(InOrder(f[d]), 95) : d \in E})
                                        .. Max({percentile(InOrder(f[d]), 95) : d \in E})
    BY <1>14, <2>1 DEF Within
  <2> QED BY <1>9, <1>16, <1>17, <2>2
<1>20. all.p99_ms \in Min({r.p99_ms : r \in rows}) .. Max({r.p99_ms : r \in rows})
  <2>1. 99 \in 1 .. 100
    OBVIOUS
  <2>2. percentile(InOrder(t), 99) \in Min({percentile(InOrder(f[d]), 99) : d \in E})
                                        .. Max({percentile(InOrder(f[d]), 99) : d \in E})
    BY <1>14, <2>1 DEF Within
  <2> QED BY <1>9, <1>16, <1>17, <2>2
<1> QED BY <1>9, <1>12, <1>13, <1>18, <1>19, <1>20 DEF t
-----------------------------------------------------------------------------
(* The rows of a table that is being made. *)

\* No device has two rows, and the rows so far count no more than the slots that their
\* devices fill by now.
RowsInv ==
  /\ table.ids = None => table.counted = 0
  /\ table.ids # None =>
       /\ \A i, j \in DOMAIN table.ids : table.ids[i] = table.ids[j] => i = j
       /\ table.counted
            <= Cardinality(Slots(Rings(samples[Head(table.channels)]), Device \ ToSet(table.ids)))

LEMMA RowsNext == ASSUME StatsInv, StatsInv', RowsInv, [Next]_vars PROVE RowsInv'
<1>0. /\ table \in [channels : Seq(CHANNELS), ids : Seq(Device) \cup {None}, counted : Nat]
      /\ table.ids # None => table.channels # << >>
  BY DEF StatsInv, TypeOK
<1>1. ASSUME NEW channel \in CHANNELS, NEW d \in Device, NEW x \in Latency, Record(channel, d, x)
      PROVE  RowsInv'
  <2>1. table' = table
    BY <1>1 DEF Record
  <2> SUFFICES ASSUME table.ids # None
               PROVE  table.counted
                        <= Cardinality(Slots(Rings(samples'[Head(table.channels)]),
                                             Device \ ToSet(table.ids)))
    BY <2>1 DEF RowsInv
  <2>2. PICK b \in CHANNELS : b = Head(table.channels)
    BY <1>0
  <2>3. PICK E \in SUBSET Device : E = Device \ ToSet(table.ids)
    OBVIOUS
  <2>s. Stored(samples'[b])
    <3>1. AllStored'
      BY ChannelsStored, PTL
    <3> QED BY <3>1 DEF AllStored
  <2>4. \A e \in Device : Len(samples[b][e]) <= Len(samples'[b][e])
    <3> DEFINE y == [cmd_id |-> None, latency |-> x]
    <3>1. samples' = [samples EXCEPT ![channel][d] = PushRing(samples[channel][d], y)]
      BY <1>1 DEF Record, record
    <3>2. ASSUME NEW r \in Seq(Sample) PROVE Len(r) <= Len(PushRing(r, y))
      <4>1. y \in Sample
        BY LatencyAssumption DEF Sample
      <4> HIDE DEF y
      <4>2. CASE Len(r) < MAX_SAMPLES
        BY <4>1, <4>2 DEF PushRing
      <4>3. CASE ~(Len(r) < MAX_SAMPLES)
        <5>1. Len(r) \in Nat /\ Len(r) >= 1
          BY <4>3, MaxSamplesAssumption
        <5>2. Tail(r) \in Seq(Sample) /\ Len(Tail(r)) = Len(r) - 1
          BY <5>1
        <5> QED BY <4>1, <4>3, <5>1, <5>2 DEF PushRing
      <4> QED BY <4>2, <4>3
    <3> HIDE DEF y
    <3>3. samples \in [CHANNELS -> [Device -> Seq(Sample)]]
      BY DEF StatsInv, TypeOK, SamplesTypeOK
    <3>4. \A e \in Device : samples[b][e] \in Seq(Sample) /\ Len(samples[b][e]) \in Nat
      BY <3>3
    <3>5. \A e \in Device : samples'[b][e] = IF b = channel /\ e = d
                                             THEN PushRing(samples[b][e], y) ELSE samples[b][e]
      BY <3>1, <3>3
    <3> QED BY <3>2, <3>4, <3>5
  <2>5. Slots(Rings(samples[b]), E) \in SUBSET Slots(Rings(samples'[b]), E)
    <3>1. \A e \in Device : /\ Len(Rings(samples[b])[e]) = Len(samples[b][e])
                            /\ Rings(samples[b])[e] \in Seq(Nat)
      BY RingsAre
    <3>2. \A e \in Device : /\ Len(Rings(samples'[b])[e]) = Len(samples'[b][e])
                            /\ Rings(samples'[b])[e] \in Seq(Nat)
      <4>1. PICK store : store = samples'[b] /\ Stored(store)
        BY <2>s
      <4> QED BY <4>1, StoredRings
    <3>3. \A e \in Device : /\ Len(Rings(samples[b])[e]) <= Len(Rings(samples'[b])[e])
                            /\ Len(Rings(samples[b])[e]) \in Nat /\ Len(Rings(samples'[b])[e]) \in Nat
      BY <2>4, <3>1, <3>2
    <3>4. \A e \in Device : 1 .. Len(Rings(samples[b])[e]) \subseteq 1 .. Len(Rings(samples'[b])[e])
      BY <3>3
    <3> QED BY <3>4 DEF Slots
  <2>6. IsFiniteSet(Slots(Rings(samples[b]), E)) /\ IsFiniteSet(Slots(Rings(samples'[b]), E))
    <3>1. IsFiniteSet(Slots(Rings(samples'[b]), E))
      <4>1. PICK store : store = samples'[b] /\ Stored(store)
        BY <2>s
      <4> QED BY <4>1, StoredRings
    <3> QED BY <3>1, RingsAre
  <2>7. /\ Cardinality(Slots(Rings(samples[b]), E)) <= Cardinality(Slots(Rings(samples'[b]), E))
        /\ Cardinality(Slots(Rings(samples[b]), E)) \in Nat /\ Cardinality(Slots(Rings(samples'[b]), E)) \in Nat
    BY <2>5, <2>6, FS_Subset, FS_CardinalityType
  <2>8. table.counted \in Nat /\ table.counted <= Cardinality(Slots(Rings(samples[b]), E))
    BY <1>0, <2>2, <2>3 DEF RowsInv
  <2>9. table.counted <= Cardinality(Slots(Rings(samples'[b]), E))
    BY <2>7, <2>8
  <2> QED BY <2>2, <2>3, <2>9
<1>2. CASE Clear
  <2>1. table' = NoTable
    BY <1>2 DEF Clear
  <2> QED BY <2>1 DEF RowsInv, NoTable
<1>3. CASE TableBegins
  BY <1>3 DEF TableBegins, NoTable, RowsInv
<1>4. CASE TableListsDevices
  <2> DEFINE order == SetToSeq(Measured)
  <2>1. UNION {Buckets(channel) : channel \in CHANNELS} = Measured
    BY DEF Buckets, Measured
  <2>2. /\ table' = [table EXCEPT !.ids = order] /\ samples' = samples /\ table.ids = None
        /\ table.channels # << >>
    BY <1>4, <2>1 DEF TableListsDevices
  <2>3. \A i, j \in DOMAIN order : order[i] = order[j] => i = j
    BY SetToSeqIs DEF StatsInv
  <2> HIDE DEF order
  <2>4. table'.ids = order /\ table'.channels = table.channels /\ table'.counted = 0
    BY <1>0, <2>2 DEF RowsInv
  <2>5. Head(table.channels) \in CHANNELS
    BY <1>0, <2>2
  <2>6. PICK E \in SUBSET Device : E = Device \ ToSet(order)
    OBVIOUS
  <2>7. 0 <= Cardinality(Slots(Rings(samples[Head(table.channels)]), E))
    <3>1. IsFiniteSet(Slots(Rings(samples[Head(table.channels)]), E))
      BY <2>5, RingsAre
    <3> QED BY <3>1, FS_CardinalityType
  <2>9. Rings(samples'[Head(table'.channels)]) = Rings(samples[Head(table.channels)])
    BY <2>2, <2>4 DEF Rings
  <2> QED BY <2>3, <2>4, <2>6, <2>7, <2>9 DEF RowsInv
<1>5. CASE TableDeviceRow
  <2>1. PICK b \in CHANNELS, ids \in Seq(Device), d \in Device, rest \in Seq(Device) :
          /\ b = Head(table.channels) /\ ids = table.ids /\ ids # << >>
          /\ d = Head(ids) /\ rest = Tail(ids)
    <3>1. table.ids # None /\ table.ids # << >>
      BY <1>5 DEF TableDeviceRow
    <3>2. PICK ids \in Seq(Device), channels \in Seq(CHANNELS) :
            ids = table.ids /\ ids # << >> /\ channels = table.channels /\ channels # << >>
      BY <1>0, <3>1
    <3>3. Head(ids) \in Device /\ Tail(ids) \in Seq(Device) /\ Head(channels) \in CHANNELS
      BY <3>2
    <3> QED BY <3>2, <3>3
  <2>2. ids # None
    BY <1>5, <2>1 DEF TableDeviceRow
  <2> DEFINE f == Rings(samples[b])
  <2>e. PICK E \in SUBSET Device : E = Device \ ToSet(ids)
    OBVIOUS
  <2>3. /\ table'.channels = table.channels /\ table'.ids = rest /\ samples' = samples
        /\ table'.counted = table.counted + Len(f[d])
    <3>1. Len(ValuesOf(b, d)) = Len(f[d])
      BY RingsAre
    <3> QED BY <1>0, <1>5, <2>1, <3>1 DEF TableDeviceRow
  <2>4. PICK n \in Nat : n = Len(ids) /\ n >= 1 /\ DOMAIN ids = 1 .. n
    BY <2>1
  <2>5. /\ DOMAIN rest = 1 .. n - 1 /\ \A i \in 1 .. n - 1 : rest[i] = ids[i + 1]
        /\ d = ids[1]
    BY <2>1, <2>4
  <2>6. \A i, j \in 1 .. n : ids[i] = ids[j] => i = j
    BY <2>1, <2>2, <2>4 DEF RowsInv
  <2>7. \A i, j \in DOMAIN rest : rest[i] = rest[j] => i = j
    <3> SUFFICES ASSUME NEW i \in 1 .. n - 1, NEW j \in 1 .. n - 1, rest[i] = rest[j]
                 PROVE  i = j
      BY <2>5
    <3>1. i + 1 \in 1 .. n /\ j + 1 \in 1 .. n
      BY <2>4
    <3>2. i + 1 = j + 1
      BY <2>5, <2>6, <3>1
    <3> QED BY <3>2
  <2>8. Device \ ToSet(rest) = E \cup {d} /\ d \notin E
    <3>1. ToSet(ids) = ToSet(rest) \cup {d}
      <4>1. ASSUME NEW x \in ToSet(ids) PROVE x \in ToSet(rest) \cup {d}
        <5>1. PICK i \in 1 .. n : x = ids[i]
          BY <2>4 DEF ToSet
        <5>2. CASE i = 1
          BY <2>5, <5>1, <5>2
        <5>3. CASE i # 1
          <6>1. i - 1 \in 1 .. n - 1 /\ (i - 1) + 1 = i
            BY <5>3
          <6>2. x = rest[i - 1]
            BY <2>5, <5>1, <6>1
          <6> QED BY <2>5, <6>1, <6>2 DEF ToSet
        <5> QED BY <5>2, <5>3
      <4>2. ASSUME NEW x \in ToSet(rest) PROVE x \in ToSet(ids)
        <5>1. PICK i \in 1 .. n - 1 : x = rest[i]
          BY <2>5 DEF ToSet
        <5>2. i + 1 \in 1 .. n /\ x = ids[i + 1]
          BY <2>4, <2>5, <5>1
        <5> QED BY <2>4, <5>2 DEF ToSet
      <4>3. d \in ToSet(ids)
        BY <2>4, <2>5 DEF ToSet
      <4> QED BY <4>1, <4>2, <4>3
    <3>2. d \notin ToSet(rest)
      <4> SUFFICES ASSUME NEW i \in 1 .. n - 1, d = rest[i] PROVE FALSE
        BY <2>5 DEF ToSet
      <4>0. ids[i + 1] = ids[1]
        BY <2>5
      <4>1. i + 1 \in 1 .. n /\ 1 \in 1 .. n /\ ids[i + 1] = ids[1]
        BY <2>4, <4>0
      <4>2. i + 1 = 1
        BY <2>6, <4>1
      <4> QED BY <4>2
    <3> QED BY <2>e, <3>1, <3>2
  <2>9. /\ f \in [Device -> Seq(Nat)] /\ IsFiniteSet(Slots(f, E)) /\ Len(f[d]) \in Nat
    <3>1. /\ f \in [Device -> Seq(Nat)] /\ f[d] \in Seq(Nat)
          /\ \A F \in SUBSET Device : IsFiniteSet(Slots(f, F))
      BY RingsAre
    <3> HIDE DEF f
    <3> QED BY <3>1
  <2>10. Cardinality(Slots(f, E \cup {d})) = Cardinality(Slots(f, E)) + Len(f[d])
    <3> HIDE DEF f
    <3>1. /\ IsFiniteSet(Slots(f, {d})) /\ Cardinality(Slots(f, {d})) = Len(f[d])
          /\ Slots(f, E \cup {d}) = Slots(f, E) \cup Slots(f, {d})
          /\ Slots(f, E) \cap Slots(f, {d}) = {}
      BY <2>8, <2>9, SlotsOfOne
    <3>2. Cardinality(Slots(f, E) \cup Slots(f, {d}))
            = Cardinality(Slots(f, E)) + Cardinality(Slots(f, {d}))
                - Cardinality(Slots(f, E) \cap Slots(f, {d}))
      BY <2>9, <3>1, FS_Union
    <3>3. Cardinality(Slots(f, E) \cap Slots(f, {d})) = 0
      BY <3>1, FS_EmptySet
    <3>4. Cardinality(Slots(f, E)) \in Nat
      BY <2>9, FS_CardinalityType
    <3>5. PICK m \in Nat, k \in Nat : m = Cardinality(Slots(f, E)) /\ k = Len(f[d])
      BY <2>9, <3>4
    <3>6. Cardinality(Slots(f, E \cup {d})) = m + k - 0
      BY <3>1, <3>2, <3>3, <3>5
    <3> QED BY <3>5, <3>6
  <2>11. table.counted \in Nat /\ table.counted <= Cardinality(Slots(f, E))
    BY <1>0, <2>1, <2>2, <2>e DEF RowsInv
  <2>12. Rings(samples'[Head(table'.channels)]) = f
    BY <2>1, <2>3 DEF Rings
  <2>13. Cardinality(Slots(f, E)) \in Nat
    BY <2>9, FS_CardinalityType
  <2> HIDE DEF f
  <2>14. table'.counted <= Cardinality(Slots(f, E \cup {d}))
    BY <2>3, <2>9, <2>10, <2>11, <2>13
  <2>15. table'.ids # None
    BY <2>1, <2>3, NoRowsAssumption
  <2> QED BY <2>3, <2>7, <2>8, <2>12, <2>14, <2>15 DEF RowsInv
<1>6. CASE TableTotalRow
  <2>1. table'.ids = None /\ table'.counted = 0
    BY <1>6 DEF TableTotalRow, NoTable
  <2> QED BY <2>1 DEF RowsInv
<1>7. CASE UNCHANGED vars
  <2>1. table' = table /\ samples' = samples
    BY <1>7 DEF vars
  <2>2. Rings(samples'[Head(table'.channels)]) = Rings(samples[Head(table.channels)])
    BY <2>1 DEF Rings
  <2> QED BY <2>1, <2>2 DEF RowsInv
<1> QED BY <1>1, <1>2, <1>3, <1>4, <1>5, <1>6, <1>7 DEF Next

LEMMA RowsAddUp == ASSUME StatsInv, RowsInv PROVE RowsAddUpToLessThanAll
<1> SUFFICES ASSUME table.channels # << >>
             PROVE  table.counted <= Len(ValuesOf(Head(table.channels), None))
  BY DEF RowsAddUpToLessThanAll
<1>1. PICK b \in CHANNELS : b = Head(table.channels)
  BY DEF StatsInv, TypeOK
<1>2. table.counted \in Nat
  BY DEF StatsInv, TypeOK
<1>3. Len(ValuesOf(b, None)) \in Nat
  <2>1. ValuesOf(b, None) \in Seq(Nat)
    BY ValuesAre
  <2> QED BY <2>1
<1>4. CASE table.ids = None
  BY <1>1, <1>2, <1>3, <1>4 DEF RowsInv
<1>5. CASE table.ids # None
  <2> DEFINE f == Rings(samples[b])
  <2>1. PICK E \in SUBSET Device : E = Device \ ToSet(table.ids)
    OBVIOUS
  <2>2. table.counted <= Cardinality(Slots(f, E))
    BY <1>1, <1>5, <2>1 DEF RowsInv
  <2>3. /\ \A e \in Device : /\ f[e] \in Seq(Nat) /\ (e \in Buckets(b) <=> f[e] # << >>)
        /\ Buckets(b) \in SUBSET Device
        /\ IsFiniteSet(Slots(f, E)) /\ IsFiniteSet(Slots(f, Buckets(b)))
    BY RingsAre
  <2> HIDE DEF f
  <2>4. Slots(f, E) \in SUBSET Slots(f, Buckets(b))
    <3>1. \A e \in E : 1 .. Len(f[e]) # {} => e \in Buckets(b)
      <4>1. \A s \in Seq(Nat) : 1 .. Len(s) # {} => s # << >>
        OBVIOUS
      <4> QED BY <2>3, <4>1
    <3> QED BY <3>1 DEF Slots
  <2>5. /\ Cardinality(Slots(f, E)) <= Cardinality(Slots(f, Buckets(b)))
        /\ Cardinality(Slots(f, E)) \in Nat /\ Cardinality(Slots(f, Buckets(b))) \in Nat
    BY <2>3, <2>4, FS_Subset, FS_CardinalityType
  <2>6. Cardinality(Slots(f, Buckets(b))) = Len(ValuesOf(b, None))
    <3>1. CASE Buckets(b) = {}
      <4>1. ValuesOf(b, None) = << >> /\ Len(<< >>) = 0
        BY <3>1, AllValues
      <4>2. Slots(f, {}) = {}
        BY DEF Slots
      <4> QED BY <3>1, <4>1, <4>2, FS_EmptySet
    <3>2. CASE Buckets(b) # {}
      BY <3>2, AllValues DEF Pooled, f
    <3> QED BY <3>1, <3>2
  <2> QED BY <1>1, <1>2, <2>2, <2>5, <2>6
<1> QED BY <1>4, <1>5

\* Samples, records and the operator's table keep their types, and no ring is ever
\* longer than deque(maxlen=MAX_SAMPLES) allows.
THEOREM StatsTyped == Spec => []TypeOK
<1>1. StatsInv => TypeOK
  BY DEF StatsInv
<1> QED BY StatsInit, StatsNext, <1>1, PTL DEF Spec

\* However many samples come in, a bucket of latency_monitor.py holds exactly the
\* newest MAX_SAMPLES of them, in order.
THEOREM RingsHoldNewest == Spec => []RingKeepsNewest
<1>1. StatsInv => RingKeepsNewest
  <2> SUFFICES ASSUME StatsInv, NEW channel \in CHANNELS, NEW d \in Device
               PROVE  Latencies(samples[channel][d])
                        = SubSeq(recorded[channel][d],
                                 Max({1, Len(recorded[channel][d]) - MAX_SAMPLES + 1}),
                                 Len(recorded[channel][d]))
    BY DEF RingKeepsNewest
  <2>1. /\ samples[channel][d] \in Seq(Sample) /\ recorded[channel][d] \in Seq(Latency)
        /\ Window(samples[channel][d], recorded[channel][d])
    BY DEF StatsInv, TypeOK, SamplesTypeOK
  <2> QED BY <2>1, WindowIsEnd
<1> QED BY StatsInit, StatsNext, <1>1, PTL DEF Spec

\* What _percentile() picks out of the sorted samples is the smallest value at or below
\* which at least that share of them falls, as its docstring says, for any samples of one
\* device or of all of them.
THEOREM PercentilesAreNearestRanks == Spec => []PercentileIsNearestRank
<1> QED BY StatsInit, StatsNext, NearestRank, PTL DEF Spec

\* In stats(), the extremes over all devices are those of single devices, the percentiles
\* lie between theirs, and the sum is between as many times the extremes.
THEOREM AllLiesBetweenDevices == Spec => []AllDevicesBetweenDevices
<1> QED BY StatsInit, StatsNext, AllBetween, PTL DEF Spec

\* The device rows of format_table(), each counted at a moment of its own while samples
\* come in, never add up to more than the row ALL of their channel.
THEOREM TablesAddUp == Spec => []RowsAddUpToLessThanAll
<1>1. Init => RowsInv
  BY DEF Init, NoTable, RowsInv
<1>2. StatsInv /\ StatsInv' /\ RowsInv /\ [Next]_vars => RowsInv'
  BY RowsNext
<1>3. StatsInv /\ RowsInv => RowsAddUpToLessThanAll
  BY RowsAddUp
<1> QED BY StatsInit, StatsNext, <1>1, <1>2, <1>3, PTL DEF Spec
=============================================================================
