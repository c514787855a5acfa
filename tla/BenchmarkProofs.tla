-------------------------- MODULE BenchmarkProofs ---------------------------
(***************************************************************************)
(* The benchmark keeps its types, has one command in flight, and its       *)
(* reports add up, for any number of devices, connections, commands per    *)
(* phase and failing links.                                                *)
(*                                                                         *)
(* A command is sent once, so it is in one queue or in the hands of one    *)
(* device until its STATUS is sent; while no wait runs out, the driver     *)
(* goes on only when that STATUS has been read, and nothing is left.  Its  *)
(* ack was read before, so the ack samples of a phase are complete when    *)
(* the wait for its last STATUS ends; an execute sample is in its ring or  *)
(* with the session that marked the command, unless a full ring gave it    *)
(* up.                                                                     *)
(***************************************************************************)
EXTENDS Benchmark, ComponentProofs, FiniteSetTheorems

-----------------------------------------------------------------------------
(* The locals of the driver make sense where it uses them. *)

\* In a round of a loop, after a send in it, and after the loop.
Rounds == {"look", "make", "send", "fail", "wait"}

Sending == {"send", "fail", "wait"}

Ends == {"drain", "ack_stats", "execute_stats", "clear_lm", "clear_ct"}

\* The sizes of the phases before.
Before(phase) == [warmup |-> 0, closed |-> Warmup, open |-> Warmup + Samples][phase]

\* The loops make at most as many commands as there are numbers for.
IssuedInTime ==
  /\ driver.at \in {"connect", "collect"} => issued = 0 /\ driver.i = 0 /\ driver.phase = "warmup"
  /\ driver.at \in Rounds => driver.i < Size(driver.phase)
  /\ driver.at \in Ends => driver.i <= Size(driver.phase)
  /\ driver.at \in (Rounds \ Sending) \cup Ends => issued <= Before(driver.phase) + driver.i
  /\ driver.at \in Sending => issued >= 1 /\ issued <= Before(driver.phase) + driver.i + 1

DriverCoherent ==
  /\ driver.at \in Rounds \cup Ends => driver.ids # << >>
  /\ driver.at \in {"make", "send"} => driver.conn \in Conn
  /\ driver.at \in {"clear_lm", "clear_ct"} => driver.phase # "open"
  /\ IssuedInTime

DeviceCoherent == \A d \in Device : job[d] # None => sock[d] \in Conn

\* Only heartbeats leave samples of no command.
SamplesNamed ==
  \A channel \in {"ack", "execute"}, d \in Device : \A i \in DOMAIN samples[channel][d] :
    samples[channel][d][i].cmd_id \in Cmd

TypeInv == TypeOK /\ SessionCoherent /\ DeviceCoherent /\ DriverCoherent /\ SamplesNamed

DriverTypeOK ==
  /\ driver \in [at : {"connect", "collect", "look", "make", "send", "fail", "wait", "drain",
                       "ack_stats", "execute_stats", "clear_lm", "clear_ct",
                       "return", "stop", "done"},
                 phase : Phases, ids : Seq(Device), i : Nat, conn : Conn \cup {None},
                 sent : SUBSET Cmd, completed : SUBSET Cmd, ack : SUBSET Cmd,
                 stopped : SUBSET Device]
  /\ issued \in 0 .. Warmup + Samples + Burst /\ overrun \in BOOLEAN
  /\ reports \in [{"closed", "open"} -> Report \cup {None}]

LEMMA SizeNumbers ==
  /\ Warmup \in Nat /\ Samples \in Nat /\ Burst \in Nat /\ MaxCommands \in Nat
  /\ Warmup + Samples + Burst <= MaxCommands
  /\ \A phase \in Phases :
       /\ Size(phase) \in Nat /\ Before(phase) \in Nat
       /\ Before(phase) + Size(phase) <= Warmup + Samples + Burst
  /\ Before("warmup") = 0 /\ Before("closed") = Before("warmup") + Size("warmup")
  /\ Before("open") = Before("closed") + Size("closed")
<1>1. /\ Warmup \in Nat /\ Samples \in Nat /\ Burst \in Nat /\ MaxCommands \in Nat
      /\ Warmup + Samples + Burst <= MaxCommands
  BY SizesAssumption, MaxCommandsAssumption
<1>2. /\ Size("warmup") = Warmup /\ Size("closed") = Samples /\ Size("open") = Burst
      /\ Before("warmup") = 0 /\ Before("closed") = Warmup /\ Before("open") = Warmup + Samples
  BY DEF Size, Before
<1> QED BY <1>1, <1>2 DEF Phases

LEMMA SetToSeqTypes ==
  ASSUME NEW S, IsFiniteSet(S)
  PROVE  SetToSeq(S) \in Seq(S) /\ (SetToSeq(S) = << >> => S = {})
<1>1. PICK n \in Nat : ExistsBijection(1 .. n, S)
  BY FS_NatBijection
<1>2. Cardinality(S) = n
  BY <1>1, FS_CountingElements
<1>3. PICK f : f \in Bijection(1 .. n, S)
  BY <1>1 DEF ExistsBijection
<1>4. f \in [1 .. n -> S] /\ IsInjective(f)
  BY <1>3 DEF Bijection, Injection
<1>5. SetToSeq(S) \in [1 .. n -> S]
  BY <1>2, <1>4 DEF SetToSeq
<1>6. SetToSeq(S) \in Seq(S) /\ Len(SetToSeq(S)) = n
  BY <1>5
<1>7. SetToSeq(S) = << >> => n = 0
  BY <1>6
<1> QED BY <1>2, <1>6, <1>7, FS_EmptySet

LEMMA BenchInitTypes == Init => TypeInv
<1> SUFFICES ASSUME Init PROVE TypeInv
  OBVIOUS
<1> USE DEF Init
<1>1. TransportTypeOK
  BY DEF TransportInit, TransportTypeOK
<1>2. RegistryTypeOK /\ PendingTypeOK
  BY DEF RegistryInit, RegistryTypeOK, PendingInit, PendingTypeOK
<1>3. SamplesTypeOK /\ SamplesNamed
  BY DEF SamplesInit, SamplesTypeOK, SamplesNamed, CHANNELS
<1>4. SessionTypeOK /\ SessionCoherent
  BY DEF SessionInit, SessionTypeOK, SessionCoherent
<1>5. DeviceTypeOK /\ DeviceCoherent
  BY DEF DeviceInit, DeviceTypeOK, DeviceCoherent
<1>6. DriverTypeOK /\ DriverCoherent
  <2>1. << >> \in Seq(Device)
    OBVIOUS
  <2>2. driver = [at |-> "connect", phase |-> "warmup", ids |-> << >>, i |-> 0, conn |-> None,
                  sent |-> {}, completed |-> {}, ack |-> {}, stopped |-> {}]
    BY DEF Start
  <2>3. DriverTypeOK
    <3>1. 0 \in 0 .. Warmup + Samples + Burst
      BY SizeNumbers
    <3>2. reports \in [{"closed", "open"} -> Report \cup {None}]
      OBVIOUS
    <3>3. overrun \in BOOLEAN /\ issued = 0
      OBVIOUS
    <3> HIDE DEF Init
    <3> QED BY ONLY <2>1, <2>2, <3>1, <3>2, <3>3, SMT DEF DriverTypeOK, Phases
  <2>4. DriverCoherent
    BY <2>2 DEF DriverCoherent, IssuedInTime, Rounds, Sending, Ends
  <2> QED BY <2>3, <2>4
<1>7. dialing \in [Device -> BOOLEAN] /\ holding \in [Conn -> Cmd \cup {None}]
  OBVIOUS
<1> QED BY <1>1, <1>2, <1>3, <1>4, <1>5, <1>6, <1>7 DEF TypeOK, DriverTypeOK, TypeInv

\* What a step leaves alone keeps its type.
LEMMA BenchUnchanged ==
  ASSUME TypeInv
  PROVE  /\ UNCHANGED registry => RegistryTypeOK'
         /\ UNCHANGED samples => SamplesTypeOK' /\ SamplesNamed'
         /\ UNCHANGED pending => PendingTypeOK'
         /\ UNCHANGED transportVars => TransportTypeOK'
         /\ UNCHANGED sessionVars => SessionTypeOK' /\ SessionCoherent'
         /\ UNCHANGED deviceVars => DeviceTypeOK' /\ DeviceCoherent'
         /\ UNCHANGED benchVars => DriverTypeOK' /\ DriverCoherent'
         /\ UNCHANGED holding => holding' \in [Conn -> Cmd \cup {None}]
         /\ UNCHANGED dialing => dialing' \in [Device -> BOOLEAN]
<1> USE DEF TypeInv, TypeOK
<1>1. /\ UNCHANGED registry => RegistryTypeOK'
      /\ UNCHANGED pending => PendingTypeOK'
      /\ UNCHANGED transportVars => TransportTypeOK'
      /\ UNCHANGED sessionVars => SessionTypeOK' /\ SessionCoherent'
  BY DEF RegistryTypeOK, PendingTypeOK, transportVars, TransportTypeOK, sessionVars,
         SessionTypeOK, SessionCoherent
<1>2. UNCHANGED samples => SamplesTypeOK' /\ SamplesNamed'
  BY DEF SamplesTypeOK, SamplesNamed
<1>3. UNCHANGED deviceVars => DeviceTypeOK' /\ DeviceCoherent'
  BY DEF deviceVars, DeviceTypeOK, DeviceCoherent
<1>4. UNCHANGED benchVars => DriverTypeOK' /\ DriverCoherent'
  <2> SUFFICES ASSUME UNCHANGED benchVars PROVE DriverTypeOK' /\ DriverCoherent'
    OBVIOUS
  <2>1. UNCHANGED <<driver, issued, overrun, reports>>
    BY DEF benchVars
  <2>2. DriverTypeOK'
    BY <2>1 DEF DriverTypeOK
  <2>3. DriverCoherent'
    BY <2>1 DEF DriverCoherent, IssuedInTime
  <2> QED BY <2>2, <2>3
<1>5. /\ UNCHANGED holding => holding' \in [Conn -> Cmd \cup {None}]
      /\ UNCHANGED dialing => dialing' \in [Device -> BOOLEAN]
  OBVIOUS
<1> QED BY ONLY <1>1, <1>2, <1>3, <1>4, <1>5

-----------------------------------------------------------------------------
(* The driver. *)

LEMMA PhaseGoesOn ==
  ASSUME NEW phase \in Phases, NEW n \in Nat
  PROVE  /\ n < Size(phase) => From(phase, n) = "look"
         /\ ~(n < Size(phase)) => From(phase, n) \in {"clear_lm", "ack_stats", "drain"}
         /\ From(phase, n) = "clear_lm" => phase = "warmup"
BY DEF From, Phases

LEMMA RoundTypes ==
  ASSUME TypeInv, driver.at \in Rounds, NEW sent \in SUBSET Cmd, NEW completed \in SUBSET Cmd,
         Round(sent, completed), UNCHANGED <<issued, reports>>, overrun' \in BOOLEAN
  PROVE  DriverTypeOK' /\ DriverCoherent'
<1> DEFINE next == From(driver.phase, driver.i + 1)
           phase == driver.phase
<1>1. /\ driver' = [driver EXCEPT !.i = driver.i + 1, !.at = next, !.conn = None,
                                  !.sent = sent, !.completed = completed]
      /\ driver.i \in Nat /\ phase \in Phases /\ driver.ids # << >> /\ driver.i < Size(phase)
      /\ issued \in Nat /\ issued <= Before(phase) + driver.i + 1
  <2>1. issued \in Nat /\ driver.i \in Nat /\ phase \in Phases
    BY SizeNumbers DEF TypeInv, TypeOK
  <2>2. Before(phase) \in Nat
    BY <2>1, SizeNumbers
  <2>3. issued <= Before(phase) + driver.i + 1
    BY <2>1, <2>2 DEF TypeInv, DriverCoherent, IssuedInTime, Rounds, Sending
  <2> QED BY <2>1, <2>3 DEF Round, TypeInv, DriverCoherent, IssuedInTime
<1>2. /\ driver.i + 1 < Size(phase) => next = "look"
      /\ ~(driver.i + 1 < Size(phase)) => next \in {"clear_lm", "ack_stats", "drain"}
      /\ next = "clear_lm" => phase = "warmup"
  BY <1>1, PhaseGoesOn
<1>3. Size(phase) \in Nat /\ Before(phase) \in Nat
  BY <1>1, SizeNumbers
<1> HIDE DEF next
<1>4. /\ driver'.at = next /\ driver'.i = driver.i + 1 /\ driver'.phase = phase
      /\ driver'.ids = driver.ids /\ issued' = issued
  BY <1>1 DEF TypeInv, TypeOK
<1>5. DriverTypeOK'
  <2>1. driver.i + 1 \in Nat /\ next \in {"look", "clear_lm", "ack_stats", "drain"}
    BY <1>1, <1>2
  <2>2. driver' = [at |-> next, phase |-> phase, ids |-> driver.ids, i |-> driver.i + 1,
                   conn |-> None, sent |-> sent, completed |-> completed, ack |-> driver.ack,
                   stopped |-> driver.stopped]
    BY <1>1 DEF TypeInv, TypeOK
  <2> QED BY <1>1, <2>1, <2>2 DEF DriverTypeOK, TypeInv, TypeOK
<1>6. IssuedInTime'
  <2>1. driver.i + 1 <= Size(phase) /\ issued <= Before(phase) + (driver.i + 1)
    BY <1>1, <1>3
  <2> HIDE DEF phase
  <2>2. /\ next \in {"look", "clear_lm", "ack_stats", "drain"}
        /\ next = "look" => driver.i + 1 < Size(phase)
    BY <1>2
  <2> QED BY <1>4, <2>1, <2>2 DEF IssuedInTime, Rounds, Sending, Ends
<1> QED BY <1>1, <1>2, <1>4, <1>5, <1>6 DEF DriverCoherent, Rounds, Ends

\* The driver is only somewhere else.
LEMMA GoesTypes ==
  ASSUME TypeInv, NEW at \in {"connect", "collect", "look", "make", "send", "fail", "wait", "drain",
                              "ack_stats", "execute_stats", "clear_lm", "clear_ct",
                              "return", "stop", "done"},
         Goes(at), UNCHANGED <<issued, reports, overrun>>
  PROVE  DriverTypeOK' /\ driver'.at = at /\ \A f \in {"phase", "ids", "i", "conn"} : driver'[f] = driver[f]
BY DEF Goes, DriverTypeOK, TypeInv, TypeOK

LEMMA SampledTypes ==
  ASSUME TypeInv, NEW channel \in {"ack", "execute"} PROVE Sampled(channel) \subseteq Cmd
<1> SUFFICES ASSUME NEW d \in Device, NEW x \in ToSet(samples[channel][d]) PROVE x.cmd_id \in Cmd
  BY DEF Sampled
<1>1. PICK i \in DOMAIN samples[channel][d] : x = samples[channel][d][i]
  BY DEF ToSet
<1> QED BY <1>1 DEF TypeInv, SamplesNamed

LEMMA DriverTypes == ASSUME TypeInv, Driver PROVE TypeInv'
<1> USE DEF TypeInv, TypeOK
<1>s. issued \in Nat /\ driver.i \in Nat /\ driver.phase \in Phases
      /\ Size(driver.phase) \in Nat /\ Before(driver.phase) \in Nat
  <2>1. issued \in Nat /\ driver.i \in Nat /\ driver.phase \in Phases
    BY SizeNumbers
  <2> QED BY <2>1, SizeNumbers
<1>t. driver.at = "look" \/ driver.at = "make" \/ driver.at = "send" => Target \in Device
  <2> SUFFICES ASSUME driver.at \in {"look", "make", "send"} PROVE Target \in Device
    OBVIOUS
  <2>1. driver.ids \in Seq(Device) /\ driver.ids # << >>
    BY DEF DriverCoherent, Rounds
  <2>2. Len(driver.ids) \in Nat \ {0} /\ driver.i \in Nat
    BY <2>1
  <2>3. (driver.i % Len(driver.ids)) + 1 \in 1 .. Len(driver.ids)
    BY <2>2
  <2> QED BY <2>1, <2>3 DEF Target
<1>c. driver.at \in Sending => issued \in Cmd
  <2>1. issued <= Warmup + Samples + Burst
    BY SizeNumbers
  <2> QED BY <1>s, <2>1, SizeNumbers DEF DriverCoherent, IssuedInTime, Cmd
<1>1. CASE DriverWaitsForDevices
  <2>1. PICK at \in {"collect", "stop"} : driver.at = "connect" /\ Goes(at)
                                         /\ UNCHANGED <<issued, reports, overrun>>
    BY <1>1 DEF DriverWaitsForDevices
  <2>2. DriverTypeOK' /\ DriverCoherent'
    BY <2>1, GoesTypes DEF DriverCoherent, IssuedInTime, Rounds, Sending, Ends
  <2> QED BY <1>1, <2>2, BenchUnchanged
          DEF DriverWaitsForDevices, controllerVars, DriverTypeOK
<1>2. CASE DriverCollects
  <2> DEFINE at == IF Connected = {} THEN "stop" ELSE From("warmup", 0)
  <2>1. driver.at = "collect" /\ driver' = [driver EXCEPT !.ids = SetToSeq(Connected), !.at = at]
        /\ UNCHANGED <<issued, reports, overrun>>
    BY <1>2 DEF DriverCollects
  <2>2. SetToSeq(Connected) \in Seq(Device) /\ (SetToSeq(Connected) = << >> => Connected = {})
    <3>1. IsFiniteSet(Connected) /\ Connected \subseteq Device
      BY DevicesAssumption, FS_Subset DEF Connected
    <3> QED BY <3>1, SetToSeqTypes
  <2>3. /\ at \in {"stop", "look", "clear_lm"} /\ (at = "look" => 0 < Size("warmup"))
        /\ at \in {"look", "clear_lm"} => Connected # {}
    BY DEF From
  <2> HIDE DEF at
  <2>4. DriverTypeOK'
    BY <2>1, <2>2, <2>3 DEF DriverTypeOK
  <2>5. issued = 0 /\ driver.i = 0 /\ driver.phase = "warmup" /\ 0 <= Size("warmup")
    BY <1>s, <2>1 DEF DriverCoherent, IssuedInTime
  <2>6. /\ driver'.at = at /\ driver'.i = 0 /\ driver'.phase = "warmup" /\ issued' = 0
        /\ driver'.ids = SetToSeq(Connected)
    BY <2>1, <2>5
  <2>7. DriverCoherent'
    BY <2>2, <2>3, <2>5, <2>6, SizeNumbers DEF DriverCoherent, IssuedInTime, Rounds, Sending, Ends
  <2> QED BY <1>2, <2>4, <2>7, BenchUnchanged DEF DriverCollects, controllerVars, DriverTypeOK
<1>3. CASE DriverLooksUp
  <2>1. CASE is_connected(Target)
    <3>1. get_conn(Target) \in Conn
      BY <1>3, <1>t, <2>1 DEF DriverLooksUp, get_conn, is_connected, RegistryTypeOK, Entry
    <3>2. driver' = [driver EXCEPT !.at = "make", !.conn = get_conn(Target)]
          /\ driver.at = "look" /\ UNCHANGED <<issued, reports, overrun>>
      BY <1>3, <2>1 DEF DriverLooksUp
    <3>3. DriverTypeOK'
      BY <3>1, <3>2 DEF DriverTypeOK
    <3>4. DriverCoherent'
      BY <3>1, <3>2 DEF DriverCoherent, IssuedInTime, Rounds, Sending, Ends
    <3> QED BY <1>3, <3>3, <3>4, BenchUnchanged DEF DriverLooksUp, controllerVars, DriverTypeOK
  <2>2. CASE ~is_connected(Target)
    <3>1. DriverTypeOK' /\ DriverCoherent'
      BY <1>3, <2>2, RoundTypes DEF DriverLooksUp, Rounds
    <3> QED BY <1>3, <3>1, BenchUnchanged DEF DriverLooksUp, controllerVars, DriverTypeOK
  <2> QED BY <2>1, <2>2
<1>4. CASE DriverMakes
  <2>1. /\ driver.at = "make" /\ issued' = issued + 1 /\ add_command(issued + 1, Target)
        /\ driver' = [driver EXCEPT !.at = "send"] /\ UNCHANGED <<reports, overrun>>
    BY <1>4 DEF DriverMakes, Goes
  <2>2. /\ driver.i < Size(driver.phase) /\ issued <= Before(driver.phase) + driver.i
        /\ driver.ids # << >> /\ driver.conn \in Conn
    BY <2>1 DEF DriverCoherent, IssuedInTime, Rounds, Sending
  <2>3. issued + 1 <= Warmup + Samples + Burst /\ issued + 1 >= 1
        /\ issued + 1 <= Before(driver.phase) + driver.i + 1
    <3>1. Before(driver.phase) + Size(driver.phase) <= Warmup + Samples + Burst
      BY <1>s, SizeNumbers
    <3> QED BY <1>s, <2>2, <3>1, SizeNumbers
  <2>4. issued + 1 \in Cmd /\ issued + 1 \in 0 .. Warmup + Samples + Burst
    BY <1>s, <2>3, SizeNumbers DEF Cmd
  <2>5. PendingTypeOK'
    BY <1>t, <2>1, <2>4, AddTypes
  <2>6. DriverTypeOK'
    BY <2>1, <2>4 DEF DriverTypeOK
  <2>7. DriverCoherent'
    BY <2>1, <2>2, <2>3 DEF DriverCoherent, IssuedInTime, Rounds, Sending, Ends
  <2> QED BY <1>4, <2>5, <2>6, <2>7, BenchUnchanged DEF DriverMakes, DriverTypeOK
<1>5. CASE DriverSends
  <2>0. driver.at = "send" /\ driver.conn \in Conn /\ issued \in Cmd /\ Target \in Device
        /\ driver.completed \subseteq Cmd
    BY <1>5, <1>t, <1>c DEF DriverSends, DriverCoherent, Sending
  <2>1. TransportTypeOK'
    BY <1>5, <2>0, FrameTypes, SendTypes, SendRaisesTypes DEF DriverSends
  <2>2. DriverTypeOK' /\ DriverCoherent'
    <3>1. CASE driver.phase = "open" /\ Round(driver.sent \cup {issued}, {})
      <4>1. driver.sent \cup {issued} \in SUBSET Cmd /\ overrun' \in BOOLEAN
        BY <1>5, <2>0 DEF DriverSends
      <4> QED BY <1>5, <2>0, <3>1, <4>1, RoundTypes DEF DriverSends, Rounds
    <3>2. CASE driver' = [driver EXCEPT !.at = "wait", !.sent = @ \cup {issued}]
      <4>1. driver.sent \cup {issued} \in SUBSET Cmd /\ UNCHANGED <<issued, reports, overrun>>
        BY <1>5, <2>0 DEF DriverSends
      <4>2. DriverTypeOK'
        BY <3>2, <4>1 DEF DriverTypeOK
      <4>3. DriverCoherent'
        BY <2>0, <3>2, <4>1 DEF DriverCoherent, IssuedInTime, Rounds, Sending, Ends
      <4> QED BY <4>2, <4>3
    <3>3. CASE Goes("fail")
      <4>1. UNCHANGED <<issued, reports, overrun>>
        BY <1>5 DEF DriverSends
      <4> QED BY <2>0, <3>3, <4>1, GoesTypes DEF DriverCoherent, IssuedInTime, Rounds, Sending, Ends
    <3> QED BY <1>5, <3>1, <3>2, <3>3 DEF DriverSends
  <2> QED BY <1>5, <2>1, <2>2, BenchUnchanged DEF DriverSends, DriverTypeOK
<1>6. CASE DriverFails
  <2>1. PendingTypeOK'
    BY <1>6, <1>c, UpdateTypes DEF DriverFails, Sending
  <2>2. driver.sent \in SUBSET Cmd /\ driver.completed \in SUBSET Cmd
    OBVIOUS
  <2>3. DriverTypeOK' /\ DriverCoherent'
    BY <1>6, <2>2, RoundTypes DEF DriverFails, Rounds
  <2> QED BY <1>6, <2>1, <2>3, BenchUnchanged DEF DriverFails, DriverTypeOK
<1>7. CASE DriverWaits
  <2>1. ExecutedOf({issued}) \subseteq Cmd
    BY <1>7, <1>c DEF DriverWaits, ExecutedOf, Sending
  <2>2. driver.completed \cup ExecutedOf({issued}) \in SUBSET Cmd /\ overrun' \in BOOLEAN
    BY <1>7, <2>1 DEF DriverWaits
  <2>3. DriverTypeOK' /\ DriverCoherent'
    BY <1>7, <2>2, RoundTypes DEF DriverWaits, Rounds
  <2> QED BY <1>7, <2>3, BenchUnchanged DEF DriverWaits, controllerVars, DriverTypeOK
<1>8. CASE DriverDrains
  <2>1. ExecutedOf(driver.sent) \subseteq Cmd
    BY DEF ExecutedOf
  <2>2. /\ driver' = [driver EXCEPT !.at = "ack_stats", !.completed = ExecutedOf(driver.sent)]
        /\ driver.at = "drain" /\ UNCHANGED <<issued, reports>> /\ overrun' \in BOOLEAN
    BY <1>8 DEF DriverDrains
  <2>3. DriverTypeOK'
    BY <2>1, <2>2 DEF DriverTypeOK
  <2>4. DriverCoherent'
    BY <2>2 DEF DriverCoherent, IssuedInTime, Rounds, Sending, Ends
  <2> QED BY <1>8, <2>3, <2>4, BenchUnchanged DEF DriverDrains, controllerVars, DriverTypeOK
<1>9. CASE DriverReads
  <2>1. CASE driver.at = "ack_stats"
    <3>1. driver' = [driver EXCEPT !.at = "execute_stats", !.ack = Sampled("ack")]
          /\ UNCHANGED <<issued, reports, overrun>>
      BY <1>9, <2>1 DEF DriverReads
    <3>2. DriverTypeOK'
      BY <3>1, SampledTypes DEF DriverTypeOK
    <3>3. DriverCoherent'
      BY <2>1, <3>1 DEF DriverCoherent, IssuedInTime, Rounds, Sending, Ends
    <3> QED BY <1>9, <3>2, <3>3, BenchUnchanged DEF DriverReads, controllerVars, DriverTypeOK
  <2>2. CASE driver.at = "execute_stats"
    <3> DEFINE r == [sent |-> driver.sent, completed |-> driver.completed,
                     ack |-> driver.ack, execute |-> Sampled("execute")]
               at == IF driver.phase = "closed" THEN "clear_lm" ELSE "return"
    <3>1. /\ reports' = [reports EXCEPT ![driver.phase] = r]
          /\ driver' = [driver EXCEPT !.at = at]
          /\ UNCHANGED <<issued, overrun>>
      BY <1>9, <2>2 DEF DriverReads, Goes
    <3>2. r \in Report
      BY SampledTypes DEF Report
    <3> HIDE DEF r
    <3>3. DriverTypeOK'
      BY <3>1, <3>2 DEF DriverTypeOK
    <3>4. DriverCoherent'
      BY <2>2, <3>1 DEF DriverCoherent, IssuedInTime, Rounds, Sending, Ends
    <3> QED BY <1>9, <3>3, <3>4, BenchUnchanged DEF DriverReads, controllerVars, DriverTypeOK
  <2> QED BY <1>9, <2>1, <2>2 DEF DriverReads
<1>10. CASE DriverClearsSamples
  <2>1. SamplesTypeOK' /\ SamplesNamed'
    BY <1>10 DEF DriverClearsSamples, clear, SamplesTypeOK, SamplesNamed, CHANNELS
  <2>2. DriverTypeOK' /\ DriverCoherent'
    BY <1>10, GoesTypes DEF DriverClearsSamples, DriverCoherent, IssuedInTime, Rounds, Sending, Ends
  <2> QED BY <1>10, <2>1, <2>2, BenchUnchanged DEF DriverClearsSamples, DriverTypeOK
<1>11. CASE DriverClearsTable
  <2> DEFINE next == IF driver.phase = "warmup" THEN "closed" ELSE "open"
             at == From(next, 0)
  <2>1. /\ driver' = [at |-> at, phase |-> next, ids |-> driver.ids, i |-> 0, conn |-> None,
                      sent |-> {}, completed |-> {}, ack |-> {}, stopped |-> {}]
        /\ driver.at = "clear_ct" /\ clear_pending /\ UNCHANGED <<issued, reports, overrun>>
    BY <1>11 DEF DriverClearsTable, Start
  <2>2. PendingTypeOK'
    BY <2>1 DEF clear_pending, PendingTypeOK
  <2>3. next \in {"closed", "open"} /\ Before(next) = Before(driver.phase) + Size(driver.phase)
    BY <1>s, <2>1, SizeNumbers DEF DriverCoherent, Phases
  <2>4. /\ 0 < Size(next) => at = "look"
        /\ at \in {"look", "ack_stats", "drain"}
    BY <2>3 DEF From
  <2>5. at = "look" => 0 < Size(next)
    BY <2>3 DEF From
  <2> HIDE DEF at, next
  <2>6. DriverTypeOK'
    BY <2>1, <2>3, <2>4 DEF DriverTypeOK, Phases
  <2>7. Size(next) \in Nat /\ Before(next) \in Nat /\ issued <= Before(next) + 0
    <3>1. next \in Phases /\ driver.i <= Size(driver.phase) /\ issued <= Before(driver.phase) + driver.i
      BY <2>1, <2>3 DEF Phases, DriverCoherent, IssuedInTime, Ends
    <3>2. Size(next) \in Nat /\ Before(next) \in Nat
      BY <3>1, SizeNumbers
    <3> QED BY <1>s, <2>3, <3>1, <3>2
  <2>8. /\ driver'.at = at /\ driver'.phase = next /\ driver'.i = 0 /\ driver'.ids = driver.ids
        /\ issued' = issued /\ driver.ids # << >>
    BY <2>1 DEF DriverCoherent, Ends
  <2>9. DriverCoherent'
    BY <2>4, <2>5, <2>7, <2>8 DEF DriverCoherent, IssuedInTime, Rounds, Sending, Ends
  <2> QED BY <1>11, <2>2, <2>6, <2>9, BenchUnchanged DEF DriverClearsTable, DriverTypeOK
<1>12. CASE DriverReturns
  <2>1. /\ driver' = [at |-> "stop", phase |-> "open", ids |-> << >>, i |-> 0, conn |-> None,
                      sent |-> {}, completed |-> {}, ack |-> {}, stopped |-> {}]
        /\ overrun' = FALSE /\ reports' = [phase \in {"closed", "open"} |-> None]
        /\ UNCHANGED issued
    BY <1>12 DEF DriverReturns, Start
  <2>2. << >> \in Seq(Device)
    OBVIOUS
  <2>3. overrun' \in BOOLEAN
    BY <2>1
  <2>4. DriverTypeOK'
    BY <2>1, <2>2, <2>3, SMT DEF DriverTypeOK, Phases
  <2>5. DriverCoherent'
    BY <2>1 DEF DriverCoherent, IssuedInTime, Rounds, Sending, Ends
  <2> QED BY <1>12, <2>4, <2>5, BenchUnchanged DEF DriverReturns, controllerVars, DriverTypeOK
<1>13. CASE DriverStops
  <2>1. PICK d \in Device \ driver.stopped :
          DeviceStops(d) /\ driver' = [driver EXCEPT !.stopped = driver.stopped \cup {d}]
    BY <1>13 DEF DriverStops
  <2>2. TransportTypeOK'
    <3>1. CASE sock[d] # None
      BY <2>1, <3>1, FrameTypes, ConnectionTypes DEF DeviceStops, DeviceTypeOK
    <3>2. CASE sock[d] = None
      BY <2>1, <3>2, BenchUnchanged DEF DeviceStops
    <3> QED BY <3>1, <3>2
  <2>3. DeviceTypeOK' /\ DeviceCoherent'
    BY <2>1 DEF DeviceStops, DeviceTypeOK, DeviceCoherent
  <2>4. UNCHANGED <<issued, reports, overrun>> /\ driver.at = "stop"
    BY <1>13 DEF DriverStops
  <2>5. DriverTypeOK'
    BY <2>1, <2>4 DEF DriverTypeOK
  <2>6. DriverCoherent'
    BY <2>1, <2>4 DEF DriverCoherent, IssuedInTime, Rounds, Sending, Ends
  <2> QED BY <1>13, <2>2, <2>3, <2>5, <2>6, BenchUnchanged DEF DriverStops, DriverTypeOK
<1>14. CASE DriverClosesListener
  <2>1. DriverTypeOK' /\ DriverCoherent'
    BY <1>14, GoesTypes DEF DriverClosesListener, DriverCoherent, IssuedInTime, Rounds, Sending, Ends
  <2> QED BY <1>14, <2>1, BenchUnchanged DEF DriverClosesListener, controllerVars, DriverTypeOK
<1> QED BY <1>1, <1>2, <1>3, <1>4, <1>5, <1>6, <1>7, <1>8, <1>9, <1>10, <1>11, <1>12, <1>13, <1>14
        DEF Driver

-----------------------------------------------------------------------------
(* The threads of the controller and the devices. *)

\* A sample of a command goes to a channel of commands.
LEMMA RecordNamed ==
  ASSUME SamplesTypeOK, SamplesNamed, NEW channel \in CHANNELS, NEW d \in Device, NEW x \in Sample,
         record(channel, d, x), channel # "heartbeat" => x.cmd_id \in Cmd
  PROVE  SamplesNamed'
<1> SUFFICES ASSUME NEW b \in {"ack", "execute"}, NEW e \in Device, NEW i \in DOMAIN samples'[b][e]
             PROVE  samples'[b][e][i].cmd_id \in Cmd
  BY DEF SamplesNamed
<1>1. CASE b = channel /\ e = d
  <2>1. samples[channel][d] \in Seq(Sample)
    BY DEF SamplesTypeOK
  <2>2. samples'[b][e] = PushRing(samples[channel][d], x)
    BY <1>1 DEF record, SamplesTypeOK
  <2>3. samples'[b][e][i] = x \/ \E j \in DOMAIN samples[channel][d] :
                                   samples'[b][e][i] = samples[channel][d][j]
    BY <2>1, <2>2, PushElements
  <2> QED BY <1>1, <2>3 DEF SamplesNamed
<1>2. CASE ~(b = channel /\ e = d)
  <2>1. samples'[b][e] = samples[b][e]
    BY <1>2 DEF record, SamplesTypeOK, CHANNELS
  <2> QED BY <2>1 DEF SamplesNamed
<1> QED BY <1>1, <1>2

LEMMA MarkNamed ==
  ASSUME TypeInv, NEW c \in Cmd, mark_received(c) \/ mark_executed(c)
  PROVE  SamplesNamed'
<1> USE DEF TypeInv, TypeOK
<1>1. CASE UNCHANGED samples
  BY <1>1, BenchUnchanged
<1>2. CASE Tracked(c) /\ (record_since_send("ack", c) \/ record_since_send("execute", c))
  <2> DEFINE x == [cmd_id |-> c, latency |-> pending[c].retry_count]
  <2>1. pending[c].device_id \in Device /\ pending[c].retry_count \in Nat
    BY <1>2, ItemTypes
  <2>2. x \in Sample /\ x.cmd_id = c
    BY <2>1 DEF Sample
  <2>3. \/ record("ack", pending[c].device_id, x)
        \/ record("execute", pending[c].device_id, x)
    BY <1>2 DEF record_since_send
  <2> HIDE DEF x
  <2> QED BY <2>1, <2>2, <2>3, RecordNamed DEF CHANNELS
<1> QED BY <1>1, <1>2 DEF mark_received, mark_executed, Receive, Execute, SetExecuted

LEMMA SessionStepNamed ==
  ASSUME TypeInv, NEW c \in Conn, SessionStep(c, 0) PROVE SamplesNamed'
<1> USE DEF TypeInv, TypeOK
<1>1. CASE UNCHANGED samples
  BY <1>1, BenchUnchanged
<1>2. CASE SessionHeartbeatAck(c, 0) /\ HeartbeatRtt(device_id[c], 0) # None
  <2>1. device_id[c] \in Device
    BY <1>2 DEF SessionHeartbeatAck, SessionCoherent
  <2>2. HeartbeatRtt(device_id[c], 0) \in Nat
    BY <1>2, <2>1 DEF HeartbeatRtt, is_connected, RegistryTypeOK, Entry
  <2>3. [cmd_id |-> None, latency |-> HeartbeatRtt(device_id[c], 0)] \in Sample
    BY <2>2 DEF Sample
  <2> QED BY <1>2, <2>1, <2>3, RecordNamed DEF SessionHeartbeatAck, CHANNELS
<1>3. ASSUME NEW m \in NextLine(c), SessionReceivedAck(c, m) PROVE SamplesNamed'
  <2>1. m.cmd_id \in Cmd
    BY <1>3, RecvTypes, Fields DEF SessionReceivedAck
  <2> QED BY <1>3, <2>1, MarkNamed DEF SessionReceivedAck
<1>4. ASSUME NEW m \in NextLine(c), SessionStatusDone(c, m) PROVE SamplesNamed'
  <2>1. m.cmd_id \in Cmd \cup {None}
    BY <1>4, RecvTypes, Fields DEF SessionStatusDone
  <2> QED BY <1>1, <1>4, <2>1, MarkNamed DEF SessionStatusDone
<1>5. \/ UNCHANGED samples
      \/ SessionHeartbeatAck(c, 0) /\ HeartbeatRtt(device_id[c], 0) # None
      \/ \E m \in NextLine(c) : SessionReceivedAck(c, m) \/ SessionStatusDone(c, m)
  BY DEF SessionStep, SessionGarbage, SessionReject, SessionGreet, SessionTimeout, SessionHangup,
         SessionHeartbeatAck, SessionUnregister, SessionClose, SessionRefuse, SessionRegister,
         SessionStatus, SessionIgnore
<1> QED BY <1>1, <1>2, <1>3, <1>4, <1>5

LEMMA SessionThreadTypes ==
  ASSUME TypeInv, NEW c \in Conn, SessionThread(c) PROVE TypeInv'
<1> USE DEF TypeInv, TypeOK
<1>1. CASE SessionStep(c, 0) /\ UNCHANGED holding
  <2>1. ServerTypeOK'
    BY <1>1, ServerTypes DEF ServerTypeOK
  <2>2. SamplesNamed'
    BY <1>1, SessionStepNamed
  <2> QED BY <1>1, <2>1, <2>2, BenchUnchanged DEF SessionThread, ServerTypeOK, DriverTypeOK
<1>2. ASSUME NEW m \in NextLine(c), SessionMarks(c, m) PROVE TypeInv'
  <2>1. m.cmd_id \in Cmd /\ Tracked(m.cmd_id)
    BY <1>2 DEF SessionMarks, Unexecuted, TrackedCmds
  <2>2. pending[m.cmd_id] \in Item /\ pending[m.cmd_id].retry_count \in Nat
    BY <2>1, ItemTypes
  <2>3. PendingTypeOK'
    BY <1>2, <2>1, <2>2 DEF SessionMarks, SetExecuted, PendingTypeOK, Item
  <2>4. holding' \in [Conn -> Cmd \cup {None}]
    BY <1>2, <2>1 DEF SessionMarks
  <2> QED BY <1>2, <2>3, <2>4, BenchUnchanged DEF SessionThread, SessionMarks, DriverTypeOK
<1>3. ASSUME NEW m \in NextLine(c), SessionRecords(c, m) PROVE TypeInv'
  <2>1. device_id[c] \in Device /\ holding[c] \in Cmd
    BY <1>3 DEF SessionRecords, Goto, SessionCoherent
  <2>2. [cmd_id |-> holding[c], latency |-> 0] \in Sample
    BY <2>1 DEF Sample
  <2>3. SamplesTypeOK' /\ SamplesNamed'
    BY <1>3, <2>1, <2>2, RecordTypes, RecordNamed DEF SessionRecords, CHANNELS
  <2>4. TransportTypeOK'
    BY <1>3, RecvTypes DEF SessionRecords
  <2>5. SessionTypeOK' /\ SessionCoherent'
    BY <1>3 DEF SessionRecords, Goto, SessionTypeOK, SessionCoherent
  <2>6. holding' \in [Conn -> Cmd \cup {None}]
    BY <1>3 DEF SessionRecords
  <2> QED BY <1>3, <2>3, <2>4, <2>5, <2>6, BenchUnchanged
          DEF SessionThread, SessionRecords, DriverTypeOK
<1>4. ASSUME NEW m \in NextLine(c), SessionPasses(c, m) PROVE TypeInv'
  <2>1. TransportTypeOK'
    BY <1>4, RecvTypes DEF SessionPasses
  <2>2. SessionTypeOK' /\ SessionCoherent'
    BY <1>4 DEF SessionPasses, Goto, SessionTypeOK, SessionCoherent
  <2> QED BY <1>4, <2>1, <2>2, BenchUnchanged DEF SessionThread, SessionPasses, DriverTypeOK
<1> QED BY <1>1, <1>2, <1>3, <1>4 DEF SessionThread

LEMMA DeviceThreadTypes ==
  ASSUME TypeInv, NEW d \in Device, DeviceThread(d) PROVE TypeInv'
<1> DEFINE Goal == /\ TransportTypeOK' /\ DeviceTypeOK' /\ DeviceCoherent'
                   /\ dialing' \in [Device -> BOOLEAN]
<1> USE DEF TypeInv, TypeOK
<1>0. (Listening(d) => sock[d] \in Conn) /\ << >> \in Seq(ToController)
  BY DEF Listening, DeviceTypeOK
<1>1. CASE DeviceExecute(d) /\ UNCHANGED dialing
  <2>1. /\ sock[d] \in Conn
        /\ job[d].cmd_id \in Cmd /\ job[d].attempt \in Nat /\ level[d] + 1 \in Nat
    BY <1>1 DEF DeviceExecute, DeviceTypeOK, DeviceCoherent
  <2>2. make_status(level[d] + 1, job[d].cmd_id, job[d].attempt) \in ToController
    BY <2>1, FrameTypes
  <2>3. TransportTypeOK'
    BY <1>1, <2>1, <2>2, DeviceSendTypes DEF DeviceExecute
  <2>4. DeviceTypeOK' /\ DeviceCoherent'
    BY <1>1, <2>1 DEF DeviceExecute, DeviceTypeOK, DeviceCoherent
  <2>5. Goal
    BY <1>1, <2>3, <2>4, BenchUnchanged
  <2> QED BY <2>5, BenchUnchanged DEF DeviceThread, DriverTypeOK
<1>2. CASE (DeviceAuthOk(d) \/ DeviceAuthFail(d)) /\ UNCHANGED dialing
  <2>1. TransportTypeOK'
    BY <1>0, <1>2, ExchangeTypes DEF DeviceAuthOk, DeviceAuthFail
  <2>2. DeviceTypeOK' /\ DeviceCoherent'
    BY <1>2 DEF DeviceAuthOk, DeviceAuthFail, DeviceTypeOK, DeviceCoherent
  <2> QED BY <1>2, <2>1, <2>2, BenchUnchanged DEF DeviceThread, DriverTypeOK
<1>3. ASSUME NEW m \in NextFrame(d), DeviceTakeCommand(d, m), UNCHANGED dialing PROVE TypeInv'
  <2>1. m \in ToDevice /\ m.msg_type = "COMMAND"
    BY <1>0, <1>3 DEF DeviceTakeCommand, DeviceExchange, TransportTypeOK
  <2>2. m.cmd_id \in Cmd /\ m.attempt \in Nat
    BY <2>1, Fields
  <2>3. <<make_received_ack(m.cmd_id, m.attempt)>> \in Seq(ToController)
    BY <2>2, FrameTypes
  <2>4. TransportTypeOK'
    BY <1>0, <1>3, <2>3, ExchangeTypes DEF DeviceTakeCommand
  <2>5. DeviceTypeOK' /\ DeviceCoherent'
    BY <1>0, <1>3, <2>2 DEF DeviceTakeCommand, DeviceTypeOK, DeviceCoherent
  <2> QED BY <1>3, <2>4, <2>5, BenchUnchanged DEF DeviceThread, DriverTypeOK
<1>4. CASE DeviceDials(d)
  <2>1. dialing' \in [Device -> BOOLEAN]
    BY <1>4 DEF DeviceDials
  <2> QED BY <1>4, <2>1, BenchUnchanged DEF DeviceThread, DeviceDials, DriverTypeOK
<1>5. ASSUME NEW c \in Conn, DeviceConnects(d, c) PROVE TypeInv'
  <2>1. TransportTypeOK'
    BY <1>5, FrameTypes, ConnectionTypes DEF DeviceConnects
  <2>2. DeviceTypeOK' /\ DeviceCoherent'
    BY <1>5 DEF DeviceConnects, DeviceTypeOK, DeviceCoherent
  <2>3. dialing' \in [Device -> BOOLEAN]
    BY <1>5 DEF DeviceConnects
  <2> QED BY <1>5, <2>1, <2>2, <2>3, BenchUnchanged DEF DeviceThread, DriverTypeOK
<1>6. CASE DeviceLost(d) /\ UNCHANGED dialing
  <2>1. TransportTypeOK'
    BY <1>6, FrameTypes, ConnectionTypes DEF DeviceLost, DeviceTypeOK
  <2>2. DeviceTypeOK' /\ DeviceCoherent'
    BY <1>6 DEF DeviceLost, DeviceTypeOK, DeviceCoherent
  <2> QED BY <1>6, <2>1, <2>2, BenchUnchanged DEF DeviceThread, DriverTypeOK
<1> QED BY <1>1, <1>2, <1>3, <1>4, <1>5, <1>6 DEF DeviceThread, DeviceWorks, DeviceComesAndGoes

LEMMA BenchNextTypes == TypeInv /\ [Next]_vars => TypeInv'
<1> SUFFICES ASSUME TypeInv, [Next]_vars PROVE TypeInv'
  OBVIOUS
<1>1. ASSUME NEW c \in Conn, AcceptForever(c) PROVE TypeInv'
  <2>1. SessionTypeOK' /\ SessionCoherent'
    BY <1>1 DEF AcceptForever, Accept, Goto, TypeInv, TypeOK, SessionTypeOK, SessionCoherent
  <2> QED BY <1>1, <2>1, BenchUnchanged DEF AcceptForever, Accept, TypeInv, TypeOK, DriverTypeOK
<1>2. CASE UNCHANGED vars
  BY <1>2, BenchUnchanged DEF vars, controllerVars, TypeInv, TypeOK, DriverTypeOK
<1> QED BY <1>1, <1>2, DriverTypes, SessionThreadTypes, DeviceThreadTypes DEF Next

\* In every interleaving of the driver with sessions and devices, all state keeps its
\* type: the driver never picks from an empty list of devices, sends on no socket, or
\* makes more commands than its phases ask for, and reports only samples of commands.
THEOREM BenchmarkTyped == Spec => []TypeOK
<1>1. TypeInv => TypeOK
  BY DEF TypeInv
<1> QED BY BenchInitTypes, BenchNextTypes, <1>1, PTL DEF Spec
-----------------------------------------------------------------------------
(* Where a command is between its send and its answer. *)

Flying(c, n) == UnderWay(down, job, c, n)

StatusOf(c) ==
  \E k \in Conn : \E i \in DOMAIN up[k] : up[k][i].msg_type = "STATUS" /\ up[k][i].cmd_id = c

Answered(c) == StatusOf(c) \/ (Tracked(c) /\ pending[c].executed)

StatusAtHead(k) == up[k] # << >> /\ Head(up[k]).msg_type = "STATUS"

\* The frame a session is at is still the one it reads.
StatusRead == \A k \in Conn : handler[k] = "status" => StatusAtHead(k)

UnusedIsIdle == \A k \in Conn : link[k] = "unused" => handler[k] = "none"

\* A command is sent once, and not in a queue or in hands any more when it is answered.
Flights ==
  /\ InOnePlace(down, job)
  /\ \A c, n : Flying(c, n) => c \in 1 .. issued /\ n = 0 /\ ~Answered(c)
  /\ \A c \in Cmd : Answered(c) => c <= issued
  /\ driver.at \in {"send", "fail"} => ~Flying(issued, 0) /\ ~Answered(issued)

\* As long as no wait ran out, nothing is on its way or unfinished but what the driver
\* is about.
Quiet ==
  driver.phase # "open" /\ ~overrun =>
    /\ \A c, n : Flying(c, n) => driver.at = "wait" /\ c = issued
    /\ \A c \in Unfinished : driver.at \in Sending /\ c = issued

FlightInv == UnusedIsIdle /\ StatusRead /\ Flights /\ Quiet

\* Nothing is sent or answered that was not before.
OnlyLoses ==
  /\ InOnePlace(down, job)'
  /\ \A c, n : Flying(c, n)' => Flying(c, n)
  /\ \A c \in Cmd : Answered(c)' => Answered(c)
  /\ Unfinished' \subseteq Unfinished

NoNewFlights == \A c, n : Flying(c, n)' => Flying(c, n)

\* The driver goes to no send, and from its last one only when nothing is left of it.
MovesOn ==
  /\ issued' = issued
  /\ driver'.at \in {"send", "fail"} => driver.at = driver'.at
  /\ driver'.phase # "open" /\ ~overrun' =>
       /\ driver.phase # "open" /\ ~overrun
       /\ driver.at \in Sending => driver'.at = driver.at

LEMMA FlightsKept ==
  ASSUME TypeInv, Flights, Quiet, OnlyLoses, MovesOn PROVE Flights' /\ Quiet'
<1>1. issued \in Nat /\ \A c \in 1 .. issued : c \in Cmd
  <2>1. issued <= Warmup + Samples + Burst /\ issued \in Nat
    BY SizeNumbers DEF TypeInv, TypeOK
  <2> QED BY <2>1, SizeNumbers DEF Cmd
<1>2. driver.at \in {"send", "fail"} => issued \in Cmd
  <2>1. driver.at \in {"send", "fail"} => issued >= 1
    BY DEF TypeInv, DriverCoherent, IssuedInTime, Sending
  <2> QED BY <1>1, <2>1
<1>3. Flights'
  <2>1. ASSUME NEW c, NEW n, Flying(c, n)'
        PROVE  c \in 1 .. issued' /\ n = 0 /\ ~Answered(c)'
    BY <1>1, <2>1 DEF OnlyLoses, MovesOn, Flights
  <2>2. ASSUME driver'.at \in {"send", "fail"} PROVE ~Flying(issued, 0)' /\ ~Answered(issued)'
    BY <1>2, <2>2 DEF OnlyLoses, MovesOn, Flights
  <2>3. \A c \in Cmd : Answered(c)' => c <= issued'
    BY DEF OnlyLoses, MovesOn, Flights
  <2>4. InOnePlace(down, job)'
    BY DEF OnlyLoses
  <2> QED BY <2>1, <2>2, <2>3, <2>4 DEF Flights
<1>4. Quiet'
  <2> SUFFICES ASSUME driver'.phase # "open", ~overrun'
               PROVE  /\ \A c, n : Flying(c, n)' => driver'.at = "wait" /\ c = issued'
                      /\ \A c \in Unfinished' : driver'.at \in Sending /\ c = issued'
    BY DEF Quiet
  <2>1. /\ driver.phase # "open" /\ ~overrun /\ issued' = issued
        /\ driver.at \in Sending => driver'.at = driver.at
    BY DEF MovesOn
  <2>2. /\ \A c, n : Flying(c, n) => driver.at = "wait" /\ c = issued
        /\ \A c \in Unfinished : driver.at \in Sending /\ c = issued
    BY <2>1 DEF Quiet
  <2> QED BY <2>1, <2>2 DEF OnlyLoses, Sending
<1> QED BY <1>3, <1>4

-----------------------------------------------------------------------------
(* What the operations of a connection do to commands and answers on it. *)

NoNewStatus(old, new) ==
  \/ Shrinks(old, new)
  \/ \E m \in ToController : m.msg_type # "STATUS" /\ new \in {Append(old, m), <<m>>}

\* No command and no answer is put on a connection.
NothingNew == NoneNew(down, down') /\ \A k \in Conn : NoNewStatus(up[k], up'[k])

HeadStays(k) == up[k] # << >> => up'[k] # << >> /\ Head(up'[k]) = Head(up[k])

LEMMA NothingMoves ==
  ASSUME UNCHANGED transportVars PROVE NothingNew /\ \A k \in Conn : HeadStays(k)
BY DEF transportVars, NothingNew, NoneNew, NoNewCommand, NoNewStatus, Shrinks, HeadStays

LEMMA GreetingSent ==
  ASSUME TransportTypeOK, NEW c \in Conn, NEW m \in ToDevice, m.msg_type # "COMMAND",
         SendOk(c, m) \/ SendRaises(c)
  PROVE  NothingNew /\ UNCHANGED <<link, up>>
<1>1. UNCHANGED <<link, up>> /\ \A k \in Conn : down'[k] = down[k] \/ down'[k] = Append(down[k], m)
  BY DEF SendOk, SendRaises, transportVars, TransportTypeOK
<1> QED BY <1>1 DEF NothingNew, NoneNew, NoNewCommand, NoNewStatus, Shrinks

LEMMA LineRead ==
  ASSUME TransportTypeOK, NEW c \in Conn, NEW m, RecvLine(c, m)
  PROVE  NothingNew /\ UNCHANGED link /\ \A k \in Conn \ {c} : up'[k] = up[k]
<1>1. /\ UNCHANGED <<link, down>> /\ up[c] # << >> /\ up'[c] = Tail(up[c])
      /\ \A k \in Conn \ {c} : up'[k] = up[k]
  BY DEF RecvLine, TransportTypeOK
<1> QED BY <1>1 DEF NothingNew, NoneNew, NoNewCommand, NoNewStatus, Shrinks

LEMMA AppendHead ==
  ASSUME NEW S, NEW s \in Seq(S), NEW m \in S, s # << >>
  PROVE  Append(s, m) # << >> /\ Head(Append(s, m)) = Head(s)
OBVIOUS

LEMMA FrameExchanged ==
  ASSUME TransportTypeOK, NEW c \in Conn, NEW m, NEW reply, DeviceExchange(c, m, reply),
         reply = << >> \/ \E r \in ToController : reply = <<r>> /\ r.msg_type # "STATUS"
  PROVE  NothingNew /\ UNCHANGED link /\ \A k \in Conn : HeadStays(k)
<1>1. /\ UNCHANGED link /\ \A k \in Conn \ {c} : up'[k] = up[k] /\ down'[k] = down[k]
      /\ down[c] # << >> /\ down'[c] = Tail(down[c])
      /\ up[c] \in Seq(ToController) /\ up'[c] \in {up[c], up[c] \o reply}
  BY DEF DeviceExchange, TransportTypeOK
<1>2. \/ up'[c] = up[c]
      \/ \E r \in ToController : r.msg_type # "STATUS" /\ up'[c] = Append(up[c], r)
  <2>1. CASE reply = << >>
    BY <1>1, <2>1, ConcatOne
  <2>2. ASSUME NEW r \in ToController, reply = <<r>>, r.msg_type # "STATUS"
        PROVE  up'[c] \in {up[c], Append(up[c], r)}
    BY <1>1, <2>2, ConcatOne
  <2> QED BY <2>1, <2>2
<1>3. NoNewStatus(up[c], up'[c]) /\ HeadStays(c)
  BY <1>1, <1>2, AppendHead DEF NoNewStatus, Shrinks, HeadStays
<1>4. \A k \in Conn : NoNewStatus(up[k], up'[k]) /\ HeadStays(k)
  BY <1>1, <1>3 DEF NoNewStatus, Shrinks, HeadStays
<1> QED BY <1>1, <1>4 DEF NothingNew, NoneNew, NoNewCommand, Shrinks

LEMMA ConnectionEnds ==
  ASSUME TransportTypeOK, NEW c \in Conn, Cut(c) \/ CloseConn(c)
  PROVE  /\ NothingNew /\ \A k \in Conn \ {c} : up'[k] = up[k]
         /\ \A k \in Conn : link'[k] = "unused" => link[k] = "unused"
         /\ Cut(c) => UNCHANGED up
<1>1. /\ down'[c] \in {down[c], << >>} /\ up'[c] \in {up[c], << >>}
      /\ \A k \in Conn \ {c} : UNCHANGED <<link[k], up[k], down[k]>>
      /\ link'[c] = "unused" => link[c] = "unused"
  BY DEF Cut, CloseConn, TransportTypeOK
<1> QED BY <1>1 DEF NothingNew, NoneNew, NoNewCommand, NoNewStatus, Shrinks, Cut

LEMMA LineOpened ==
  ASSUME TransportTypeOK, NEW c \in Conn, NEW m \in ToController, m.msg_type # "STATUS",
         Connect(c, m)
  PROVE  /\ NothingNew /\ link[c] = "unused" /\ \A k \in Conn \ {c} : up'[k] = up[k]
         /\ \A k \in Conn : link'[k] = "unused" => link[k] = "unused"
<1>1. /\ UNCHANGED down /\ up'[c] = <<m>> /\ link[c] = "unused"
      /\ \A k \in Conn \ {c} : UNCHANGED <<link[k], up[k]>>
      /\ link'[c] = "up"
  BY DEF Connect, Fresh, TransportTypeOK
<1> QED BY <1>1 DEF NothingNew, NoneNew, NoNewCommand, NoNewStatus, Shrinks

\* No answer is new where no STATUS is.
LEMMA OldStatus ==
  ASSUME TransportTypeOK, \A k \in Conn : NoNewStatus(up[k], up'[k])
  PROVE  \A c \in Cmd : StatusOf(c)' => StatusOf(c)
<1> SUFFICES ASSUME NEW c \in Cmd, NEW k \in Conn, NEW i \in DOMAIN up'[k],
                    up'[k][i].msg_type = "STATUS", up'[k][i].cmd_id = c
             PROVE  \E j \in DOMAIN up[k] : up[k][j].msg_type = "STATUS" /\ up[k][j].cmd_id = c
  BY DEF StatusOf
<1>1. up[k] \in Seq(ToController)
  BY DEF TransportTypeOK
<1>2. CASE up'[k] = up[k]
  BY <1>2
<1>3. CASE up[k] # << >> /\ up'[k] = Tail(up[k])
  BY <1>1, <1>3, TailElements
<1>4. ASSUME NEW m \in ToController, m.msg_type # "STATUS", up'[k] = Append(up[k], m)
      PROVE  \E j \in DOMAIN up[k] : up[k][j].msg_type = "STATUS" /\ up[k][j].cmd_id = c
  BY <1>1, <1>4, AppendElements
<1>5. ASSUME NEW m \in ToController, m.msg_type # "STATUS", up'[k] = <<m>>
      PROVE  FALSE
  BY <1>5
<1> QED BY <1>2, <1>3, <1>4, <1>5 DEF NoNewStatus, Shrinks

\* With nothing new on a connection and in hands, no command and no answer is new.
LEMMA NothingFlies ==
  ASSUME TypeInv, InOnePlace(down, job), NothingNew, \A d \in Device : job'[d] \in {job[d], None}
  PROVE  /\ InOnePlace(down, job)' /\ \A c, n : Flying(c, n)' => Flying(c, n)
         /\ \A c \in Cmd : StatusOf(c)' => StatusOf(c)
<1>1. down \in [Conn -> Seq(ToDevice)] /\ NoneNew(down, down')
  BY DEF TypeInv, TypeOK, TransportTypeOK, NothingNew
<1>2. InOnePlace(down', job') /\ \A c, n : UnderWay(down', job', c, n) => UnderWay(down, job, c, n)
  BY <1>1, CommandsLost
<1> QED BY <1>2, OldStatus DEF Flying, NothingNew, TypeInv, TypeOK

-----------------------------------------------------------------------------
(* The threads. *)

LEMMA AnswerKept ==
  ASSUME NEW c, StatusOf(c)' => StatusOf(c),
         (Tracked(c) /\ pending[c].executed)' => Answered(c)
  PROVE  Answered(c)' => Answered(c)
BY DEF Answered

\* What a session does apart from executing.
LEMMA SessionPending ==
  ASSUME TypeInv, NEW c \in Conn, SessionStep(c, 0), handler[c] # "status"
  PROVE  /\ \A b \in Cmd : Tracked(b)' = Tracked(b) /\ pending'[b].executed = pending[b].executed
         /\ Unfinished' \subseteq Unfinished
<1> USE DEF TypeInv, TypeOK
<1>1. CASE pending' = pending
  BY <1>1 DEF Tracked, Unfinished, TrackedCmds, Finished
<1>2. ASSUME NEW m \in NextLine(c), SessionReceivedAck(c, m), pending' # pending
      PROVE  /\ \A b \in Cmd : Tracked(b)' = Tracked(b) /\ pending'[b].executed = pending[b].executed
             /\ Unfinished' \subseteq Unfinished
  <2>1. m.cmd_id \in Cmd /\ Tracked(m.cmd_id)
        /\ pending' = [pending EXCEPT ![m.cmd_id].received = TRUE,
                                      ![m.cmd_id].ack_latency = pending[m.cmd_id].retry_count]
    BY <1>2, RecvTypes, Fields DEF SessionReceivedAck, mark_received, Receive
  <2>2. pending'[m.cmd_id] # None /\ pending[m.cmd_id] \in Item
    <3>1. pending[m.cmd_id] \in Item /\ pending[m.cmd_id].retry_count \in Nat
      BY <2>1, ItemTypes
    <3>2. pending'[m.cmd_id] \in Item
      BY <2>1, <3>1 DEF Item, PendingTypeOK
    <3> QED BY <3>1, <3>2, NoneIsNoItem
  <2>3. \A b \in Cmd : b # m.cmd_id => pending'[b] = pending[b]
    BY <2>1 DEF PendingTypeOK
  <2>4. /\ pending'[m.cmd_id].executed = pending[m.cmd_id].executed
        /\ pending'[m.cmd_id].failed = pending[m.cmd_id].failed
    BY <2>1, <2>2 DEF PendingTypeOK, Item
  <2> QED BY <2>1, <2>2, <2>3, <2>4 DEF Tracked, Unfinished, TrackedCmds, Finished
<1>3. \/ pending' = pending \/ \E m \in NextLine(c) : SessionReceivedAck(c, m)
  BY DEF SessionStep, SessionGarbage, SessionReject, SessionGreet, SessionTimeout, SessionHangup,
         SessionHeartbeatAck, SessionUnregister, SessionClose, SessionRefuse, SessionRegister,
         SessionStatus, SessionStatusDone, SessionIgnore, Goto
<1> QED BY <1>1, <1>2, <1>3

\* What it reads and writes, and where it goes.
LEMMA SessionLines ==
  ASSUME TypeInv, UnusedIsIdle, NEW c \in Conn, SessionStep(c, 0), handler[c] # "status"
  PROVE  /\ NothingNew /\ \A k \in Conn \ {c} : up'[k] = up[k] /\ handler'[k] = handler[k]
         /\ \A k \in Conn : link'[k] = "unused" => link[k] = "unused"
         /\ handler[c] # "none" /\ (handler'[c] = "status" => StatusAtHead(c)')
<1> USE DEF TypeInv, TypeOK
<1>1. CASE SessionReject(c) \/ SessionGreet(c)
  <2>1. NothingNew /\ UNCHANGED <<link, up>>
    BY <1>1, FrameTypes, GreetingSent DEF SessionReject, SessionGreet, make_auth_ok, make_auth_fail
  <2>2. /\ handler[c] # "none" /\ handler'[c] # "status"
        /\ \A k \in Conn \ {c} : handler'[k] = handler[k]
    BY <1>1 DEF SessionReject, SessionGreet, Goto, SessionTypeOK
  <2> QED BY <2>1, <2>2
<1>2. CASE SessionTimeout(c) \/ SessionHangup(c) \/ SessionUnregister(c)
  <2>1. NothingNew /\ UNCHANGED <<link, up>>
    BY <1>2, NothingMoves DEF SessionTimeout, SessionHangup, SessionUnregister, transportVars
  <2>2. /\ handler[c] # "none" /\ handler'[c] # "status"
        /\ \A k \in Conn \ {c} : handler'[k] = handler[k]
    BY <1>2 DEF SessionTimeout, SessionHangup, SessionUnregister, Goto, SessionTypeOK
  <2> QED BY <2>1, <2>2
<1>3. CASE SessionClose(c)
  <2>1. /\ handler[c] # "none" /\ handler'[c] # "status" /\ CloseConn(c)
        /\ \A k \in Conn \ {c} : handler'[k] = handler[k]
    BY <1>3 DEF SessionClose, Goto, SessionTypeOK
  <2> QED BY <2>1, ConnectionEnds
<1>4. ASSUME NEW m, RecvLine(c, m),
             \/ SessionGarbage(c) \/ SessionHeartbeatAck(c, 0)
             \/ SessionReceivedAck(c, m) \/ SessionIgnore(c, m)
             \/ SessionRefuse(c, m) \/ SessionRegister(c, m, 0)
      PROVE  /\ NothingNew /\ \A k \in Conn \ {c} : up'[k] = up[k] /\ handler'[k] = handler[k]
             /\ \A k \in Conn : link'[k] = "unused" => link[k] = "unused"
             /\ handler[c] # "none" /\ handler'[c] # "status"
  <2>1. /\ handler[c] # "none" /\ handler'[c] # "status"
        /\ \A k \in Conn \ {c} : handler'[k] = handler[k]
    BY <1>4 DEF SessionGarbage, SessionHeartbeatAck, SessionReceivedAck, SessionIgnore,
                SessionRefuse, SessionRegister, Goto, SessionTypeOK, sessionVars
  <2> QED BY <1>4, <2>1, LineRead
<1>5. ASSUME NEW m \in NextLine(c), SessionStatus(c, m)
      PROVE  /\ NothingNew /\ \A k \in Conn \ {c} : up'[k] = up[k] /\ handler'[k] = handler[k]
             /\ \A k \in Conn : link'[k] = "unused" => link[k] = "unused"
             /\ handler[c] # "none" /\ StatusAtHead(c)'
  <2>1. /\ handler[c] # "none" /\ up[c] # << >> /\ Head(up[c]).msg_type = "STATUS"
        /\ \A k \in Conn \ {c} : handler'[k] = handler[k]
    BY <1>5 DEF SessionStatus, Goto, SessionTypeOK
  <2>2. NothingNew /\ UNCHANGED <<link, up>>
    BY <1>5, NothingMoves DEF SessionStatus, transportVars
  <2> QED BY <2>1, <2>2 DEF StatusAtHead
<1> QED BY <1>1, <1>2, <1>3, <1>4, <1>5
        DEF SessionStep, SessionGarbage, SessionHeartbeatAck, SessionReceivedAck, SessionIgnore,
            SessionRefuse, SessionRegister, SessionStatusDone, Goto

LEMMA SessionThreadFlights ==
  ASSUME TypeInv, FlightInv, NEW c \in Conn, SessionThread(c) PROVE FlightInv' /\ NoNewFlights
<1> USE DEF TypeInv, TypeOK
<1>1. InOnePlace(down, job) /\ UnusedIsIdle /\ StatusRead
  BY DEF FlightInv, Flights
<1>2. UNCHANGED <<job, benchVars>>
  BY DEF SessionThread, deviceVars
<1>3. /\ NothingNew /\ \A k \in Conn \ {c} : up'[k] = up[k] /\ handler'[k] = handler[k]
      /\ \A k \in Conn : link'[k] = "unused" => link[k] = "unused"
      /\ handler[c] # "none" /\ (handler'[c] = "status" => StatusAtHead(c)')
      /\ \A b \in Cmd : (Tracked(b) /\ pending[b].executed)' => Answered(b)
      /\ Unfinished' \subseteq Unfinished
  <2>1. CASE handler[c] # "status" /\ SessionStep(c, 0)
    BY <1>1, <2>1, SessionPending, SessionLines DEF Answered
  <2>2. ASSUME NEW m \in NextLine(c), SessionMarks(c, m)
        PROVE  /\ NothingNew /\ \A k \in Conn \ {c} : up'[k] = up[k] /\ handler'[k] = handler[k]
               /\ \A k \in Conn : link'[k] = "unused" => link[k] = "unused"
               /\ handler[c] # "none" /\ (handler'[c] = "status" => StatusAtHead(c)')
               /\ \A b \in Cmd : (Tracked(b) /\ pending[b].executed)' => Answered(b)
               /\ Unfinished' \subseteq Unfinished
    <3>1. /\ handler[c] = "status" /\ up[c] # << >> /\ m = Head(up[c]) /\ m.msg_type = "STATUS"
          /\ m.cmd_id \in Cmd /\ Tracked(m.cmd_id) /\ SetExecuted(m.cmd_id)
          /\ UNCHANGED <<link, up, down, handler>>
      BY <1>1, <2>2 DEF SessionMarks, NextLine, StatusRead, StatusAtHead, Unexecuted, TrackedCmds,
                        transportVars, sessionVars
    <3>2. NothingNew /\ StatusAtHead(c)'
      BY <3>1, NothingMoves DEF StatusAtHead, transportVars
    <3>3. StatusOf(m.cmd_id)
      <4>1. 1 \in DOMAIN up[c] /\ up[c][1] = m
        BY <3>1, TailElements DEF TransportTypeOK
      <4> QED BY <3>1, <4>1 DEF StatusOf
    <3>4. \A b \in Cmd : b # m.cmd_id => pending'[b] = pending[b]
      BY <3>1 DEF SetExecuted, PendingTypeOK
    <3>5. pending'[m.cmd_id].executed
      <4>1. pending[m.cmd_id] \in Item
        BY <3>1, ItemTypes
      <4> QED BY <3>1, <4>1 DEF SetExecuted, PendingTypeOK, Item
    <3>6. \A b \in Cmd : (Tracked(b) /\ pending[b].executed)' => Answered(b)
      BY <3>3, <3>4 DEF Answered, Tracked
    <3>7. Unfinished' \subseteq Unfinished
      BY <3>4, <3>5 DEF Unfinished, TrackedCmds, Tracked, Finished
    <3> QED BY <3>1, <3>2, <3>6, <3>7
  <2>3. ASSUME NEW m \in NextLine(c), SessionRecords(c, m) \/ SessionPasses(c, m)
        PROVE  /\ NothingNew /\ \A k \in Conn \ {c} : up'[k] = up[k] /\ handler'[k] = handler[k]
               /\ \A k \in Conn : link'[k] = "unused" => link[k] = "unused"
               /\ handler[c] # "none" /\ (handler'[c] = "status" => StatusAtHead(c)')
               /\ \A b \in Cmd : (Tracked(b) /\ pending[b].executed)' => Answered(b)
               /\ Unfinished' \subseteq Unfinished
    <3>1. /\ handler[c] = "status" /\ handler'[c] = "open" /\ UNCHANGED pending /\ RecvLine(c, m)
          /\ \A k \in Conn \ {c} : handler'[k] = handler[k]
      BY <2>3 DEF SessionRecords, SessionPasses, Goto, SessionTypeOK
    <3>2. /\ \A b \in Cmd : (Tracked(b) /\ pending[b].executed)' => Answered(b)
          /\ Unfinished' = Unfinished
      BY <3>1 DEF Answered, Tracked, Unfinished, TrackedCmds, Finished
    <3> QED BY <3>1, <3>2, LineRead
  <2> QED BY <2>1, <2>2, <2>3 DEF SessionThread
<1>4. UnusedIsIdle'
  BY <1>1, <1>3 DEF UnusedIsIdle
<1>5. StatusRead'
  BY <1>1, <1>3 DEF StatusRead, StatusAtHead
<1>6. OnlyLoses
  <2>1. /\ InOnePlace(down, job)' /\ \A b, n : Flying(b, n)' => Flying(b, n)
        /\ \A b \in Cmd : StatusOf(b)' => StatusOf(b)
    BY <1>1, <1>2, <1>3, NothingFlies
  <2>2. \A b \in Cmd : Answered(b)' => Answered(b)
    BY <1>3, <2>1, AnswerKept
  <2> QED BY <1>3, <2>1, <2>2 DEF OnlyLoses
<1>7. MovesOn
  BY <1>2 DEF MovesOn, benchVars
<1> QED BY <1>4, <1>5, <1>6, <1>7, FlightsKept DEF FlightInv, OnlyLoses, NoNewFlights

\* The table stays as it is.
LEMMA TableKept ==
  ASSUME UNCHANGED pending, \A c \in Cmd : StatusOf(c)' => StatusOf(c)
  PROVE  Unfinished' = Unfinished /\ \A c \in Cmd : Answered(c)' => Answered(c)
BY DEF Answered, Tracked, Unfinished, TrackedCmds, Finished

LEMMA AcceptFlights ==
  ASSUME TypeInv, FlightInv, NEW c \in Conn, AcceptForever(c) PROVE FlightInv' /\ NoNewFlights
<1>1. /\ UNCHANGED <<transportVars, pending, job, benchVars>>
      /\ link[c] # "unused" /\ handler' = [handler EXCEPT ![c] = "accepted"]
  BY DEF AcceptForever, Accept, Goto, deviceVars
<1>2. UnusedIsIdle' /\ StatusRead'
  BY <1>1 DEF FlightInv, UnusedIsIdle, StatusRead, StatusAtHead, transportVars,
              TypeInv, TypeOK, SessionTypeOK
<1>3. /\ InOnePlace(down, job)' /\ \A b, n : Flying(b, n)' => Flying(b, n)
      /\ \A b \in Cmd : StatusOf(b)' => StatusOf(b)
  BY <1>1, NothingMoves, NothingFlies DEF FlightInv, Flights
<1>4. OnlyLoses
  BY <1>1, <1>3, TableKept DEF OnlyLoses
<1>5. MovesOn
  BY <1>1 DEF MovesOn, benchVars
<1> QED BY <1>2, <1>3, <1>4, <1>5, FlightsKept DEF FlightInv, NoNewFlights

\* What a device does apart from executing.
LEMMA DeviceKeeps ==
  ASSUME TypeInv, FlightInv, UNCHANGED <<pending, handler, benchVars>>,
         InOnePlace(down, job)', \A c, n : Flying(c, n)' => Flying(c, n),
         \A c \in Cmd : StatusOf(c)' => StatusOf(c),
         \A k \in Conn : link'[k] = "unused" => link[k] = "unused",
         \A k \in Conn : HeadStays(k) \/ link[k] = "unused"
  PROVE  FlightInv' /\ NoNewFlights
<1>1. UnusedIsIdle' /\ StatusRead'
  BY DEF FlightInv, UnusedIsIdle, StatusRead, StatusAtHead, HeadStays
<1>2. OnlyLoses
  BY TableKept DEF OnlyLoses
<1>3. MovesOn
  BY DEF MovesOn, benchVars
<1> QED BY <1>1, <1>2, <1>3, FlightsKept DEF FlightInv, NoNewFlights

\* The command leaves the hands of the device when its STATUS is sent.
LEMMA ExecuteFlights ==
  ASSUME TypeInv, FlightInv, NEW d \in Device, DeviceExecute(d),
         UNCHANGED <<pending, handler, benchVars>>
  PROVE  FlightInv' /\ NoNewFlights
<1> USE DEF TypeInv, TypeOK
<1>c. PICK c : c = job[d].cmd_id
  OBVIOUS
<1> DEFINE m == make_status(level[d] + 1, c, job[d].attempt)
<1>1. /\ sock[d] \in Conn /\ job[d] # None /\ c \in Cmd /\ job[d].attempt \in Nat /\ level[d] + 1 \in Nat
      /\ job' = [job EXCEPT ![d] = None] /\ DeviceSend(sock[d], m)
      /\ UNCHANGED <<link, down, driver, issued, overrun, pending, handler>>
  BY <1>c DEF DeviceExecute, DeviceSend, DeviceTypeOK, DeviceCoherent, benchVars
<1>2. m \in ToController /\ m.msg_type = "STATUS" /\ m.cmd_id = c
  <2>1. m \in ToController
    BY <1>1, FrameTypes
  <2> QED BY <2>1 DEF make_status
<1>3. \A e \in Device : job'[e] = IF e = d THEN None ELSE job[e]
  BY <1>1 DEF DeviceTypeOK
<1>f. Flying(c, 0) /\ job[d].attempt = 0 /\ ~Answered(c) /\ c <= issued
  <2>1. Flying(c, job[d].attempt)
    BY <1>c, <1>1 DEF Flying, UnderWay
  <2>2. job[d].attempt = 0 /\ c \in 1 .. issued /\ ~Answered(c)
    BY <2>1 DEF FlightInv, Flights
  <2> QED BY <2>1, <2>2
<1> HIDE DEF m
<1>4. /\ \A k \in Conn : HeadStays(k)
      /\ \A b \in Cmd : StatusOf(b)' => StatusOf(b) \/ b = c
  <2>1. \A k \in Conn : up'[k] = up[k] \/ up'[k] = Append(up[k], m)
    BY <1>1 DEF DeviceSend, TransportTypeOK
  <2>2. \A k \in Conn : up[k] \in Seq(ToController)
    BY DEF TransportTypeOK
  <2>3. ASSUME NEW k \in Conn PROVE HeadStays(k)
    <3>1. up[k] # << >> => Append(up[k], m) # << >> /\ Head(Append(up[k], m)) = Head(up[k])
      BY <1>2, <2>2, AppendHead
    <3> QED BY <2>1, <3>1 DEF HeadStays
  <2>4. ASSUME NEW b \in Cmd, NEW k \in Conn, NEW i \in DOMAIN up'[k],
               up'[k][i].msg_type = "STATUS", up'[k][i].cmd_id = b
        PROVE  b = c \/ \E j \in DOMAIN up[k] : up[k][j].msg_type = "STATUS" /\ up[k][j].cmd_id = b
    <3>1. CASE up'[k] = up[k]
      BY <2>4, <3>1
    <3>2. CASE up'[k] = Append(up[k], m)
      <4>1. DOMAIN up'[k] = DOMAIN up[k] \cup {Len(up[k]) + 1} /\ up'[k][Len(up[k]) + 1] = m
            /\ \A j \in DOMAIN up[k] : up'[k][j] = up[k][j]
        BY <1>2, <2>2, <3>2, AppendElements
      <4> QED BY <1>2, <2>4, <4>1
    <3> QED BY <2>1, <3>1, <3>2
  <2> QED BY <2>3, <2>4 DEF StatusOf
<1>5. UnusedIsIdle' /\ StatusRead'
  BY <1>1, <1>4 DEF FlightInv, UnusedIsIdle, StatusRead, StatusAtHead, HeadStays
<1>6. InOnePlace(down, job)' /\ \A b, n : Flying(b, n)' => Flying(b, n)
  <2>1. NoneNew(down, down') /\ \A e \in Device : job'[e] \in {job[e], None}
    BY <1>1, <1>3 DEF NoneNew, NoNewCommand, Shrinks
  <2>2. down \in [Conn -> Seq(ToDevice)] /\ InOnePlace(down, job)
    BY DEF TransportTypeOK, FlightInv, Flights
  <2>3. InOnePlace(down', job') /\ \A b, n : UnderWay(down', job', b, n) => UnderWay(down, job, b, n)
    BY <2>1, <2>2, CommandsLost
  <2> QED BY <2>3 DEF Flying
<1>7. \A n : ~Flying(c, n)'
  <2> SUFFICES ASSUME NEW n, UnderWay(down', job', c, n) PROVE FALSE
    BY DEF Flying
  <2>1. n = 0
    BY <1>6 DEF Flying, FlightInv, Flights
  <2>2. ASSUME NEW k \in Conn, NEW i \in DOMAIN down[k], CommandAt(down, k, i),
               down[k][i].cmd_id = c, down[k][i].attempt = n
        PROVE  FALSE
    BY <1>c, <1>1, <1>f, <2>1, <2>2 DEF FlightInv, Flights, InOnePlace, SameAttempt
  <2>3. ASSUME NEW e \in Device, job'[e] # None, job'[e].cmd_id = c, job'[e].attempt = n
        PROVE  FALSE
    BY <1>c, <1>1, <1>3, <1>f, <2>1, <2>3 DEF FlightInv, Flights, InOnePlace, SameAttempt
  <2> QED BY <1>1, <2>2, <2>3 DEF UnderWay, CommandAt
<1>8. \A b \in Cmd : Answered(b)' => Answered(b) \/ b = c
  BY <1>1, <1>4 DEF Answered, Tracked
<1>9. \A b \in 1 .. issued : b \in Cmd
  <2>1. issued <= Warmup + Samples + Burst /\ issued \in Nat
    BY SizeNumbers
  <2> QED BY <2>1, SizeNumbers DEF Cmd
<1>10. Flights'
  <2>1. ASSUME NEW b, NEW n, Flying(b, n)' PROVE b \in 1 .. issued' /\ n = 0 /\ ~Answered(b)'
    <3>1. b \in 1 .. issued /\ n = 0 /\ ~Answered(b) /\ b # c
      BY <1>6, <1>7, <2>1 DEF FlightInv, Flights
    <3> QED BY <1>1, <1>8, <1>9, <3>1
  <2>2. \A b \in Cmd : Answered(b)' => b <= issued'
    BY <1>1, <1>8, <1>f DEF FlightInv, Flights
  <2>3. ASSUME driver'.at \in {"send", "fail"} PROVE ~Flying(issued, 0)' /\ ~Answered(issued)'
    <3>1. ~Flying(issued, 0) /\ ~Answered(issued) /\ issued # c
      BY <1>1, <1>f, <2>3 DEF FlightInv, Flights
    <3>2. issued \in Cmd
      <4>1. issued >= 1 /\ issued \in Nat
        BY <1>1, <2>3 DEF DriverCoherent, IssuedInTime, Sending
      <4> QED BY <1>9, <4>1
    <3> QED BY <1>1, <1>6, <1>8, <3>1, <3>2
  <2> QED BY <1>6, <2>1, <2>2, <2>3 DEF Flights
<1>11. Quiet'
  BY <1>1, <1>6 DEF FlightInv, Quiet, Unfinished, TrackedCmds, Tracked, Finished
<1> QED BY <1>5, <1>6, <1>10, <1>11 DEF FlightInv, NoNewFlights

LEMMA DeviceThreadFlights ==
  ASSUME TypeInv, FlightInv, NEW d \in Device, DeviceThread(d) PROVE FlightInv' /\ NoNewFlights
<1> USE DEF TypeInv, TypeOK
<1>0. /\ UNCHANGED <<pending, handler, benchVars>> /\ InOnePlace(down, job)
      /\ Listening(d) => sock[d] \in Conn
  BY DEF DeviceThread, sessionVars, FlightInv, Flights, Listening, DeviceTypeOK
<1>1. CASE DeviceExecute(d)
  BY <1>0, <1>1, ExecuteFlights
<1>2. CASE DeviceAuthOk(d) \/ DeviceAuthFail(d)
  <2>1. NothingNew /\ UNCHANGED link /\ \A k \in Conn : HeadStays(k)
    BY <1>0, <1>2, FrameExchanged DEF DeviceAuthOk, DeviceAuthFail
  <2>2. UNCHANGED job
    BY <1>2 DEF DeviceAuthOk, DeviceAuthFail
  <2> QED BY <1>0, <2>1, <2>2, NothingFlies, DeviceKeeps
<1>3. ASSUME NEW m \in NextFrame(d), DeviceTakeCommand(d, m) PROVE FlightInv' /\ NoNewFlights
  <2>1. /\ sock[d] \in Conn /\ m.msg_type = "COMMAND" /\ down[sock[d]] # << >>
        /\ m = Head(down[sock[d]]) /\ job[d] = None
        /\ DeviceExchange(sock[d], m, <<make_received_ack(m.cmd_id, m.attempt)>>)
        /\ job' = [job EXCEPT ![d] = [cmd_id |-> m.cmd_id, attempt |-> m.attempt]]
    BY <1>0, <1>3 DEF DeviceTakeCommand, DeviceExchange, Listening
  <2>2. make_received_ack(m.cmd_id, m.attempt) \in ToController
    <3>1. m \in ToDevice
      BY <2>1 DEF TransportTypeOK
    <3> QED BY <2>1, <3>1, FrameTypes, Fields
  <2>3. NothingNew /\ UNCHANGED link /\ \A k \in Conn : HeadStays(k)
    <3>1. make_received_ack(m.cmd_id, m.attempt).msg_type # "STATUS"
      BY DEF make_received_ack
    <3> QED BY <2>1, <2>2, <3>1, FrameExchanged
  <2>4. Takes(down, job, sock[d], d, down', job')
    BY <2>1 DEF Takes, DeviceExchange, TransportTypeOK, DeviceTypeOK
  <2>5. InOnePlace(down', job') /\ \A c, n : UnderWay(down', job', c, n) => UnderWay(down, job, c, n)
    <3>1. down \in [Conn -> Seq(ToDevice)] /\ job \in [Device -> [cmd_id : Cmd, attempt : Nat] \cup {None}]
      BY DEF TransportTypeOK, DeviceTypeOK
    <3>2. d \in Device /\ sock[d] \in Conn /\ InOnePlace(down, job)
      BY <1>0, <2>1
    <3> QED BY ONLY <2>4, <3>1, <3>2, CommandTaken
  <2>6. \A c \in Cmd : StatusOf(c)' => StatusOf(c)
    BY <2>3, OldStatus DEF NothingNew
  <2> QED BY <1>0, <2>3, <2>5, <2>6, DeviceKeeps DEF Flying
<1>4. CASE DeviceDials(d)
  <2>1. UNCHANGED <<transportVars, job>>
    BY <1>4 DEF DeviceDials, deviceVars
  <2>2. NothingNew /\ \A k \in Conn : HeadStays(k)
    BY <2>1, NothingMoves
  <2> QED BY <1>0, <2>1, <2>2, NothingFlies, DeviceKeeps DEF transportVars
<1>5. ASSUME NEW c \in Conn, DeviceConnects(d, c) PROVE FlightInv' /\ NoNewFlights
  <2>1. make_auth(d, TRUE) \in ToController /\ make_auth(d, TRUE).msg_type # "STATUS"
    BY FrameTypes DEF make_auth
  <2>2. UNCHANGED job /\ Connect(c, make_auth(d, TRUE))
    BY <1>5 DEF DeviceConnects
  <2>3. /\ NothingNew /\ link[c] = "unused" /\ \A k \in Conn \ {c} : up'[k] = up[k]
        /\ \A k \in Conn : link'[k] = "unused" => link[k] = "unused"
    BY <2>1, <2>2, LineOpened
  <2>4. \A k \in Conn : HeadStays(k) \/ link[k] = "unused"
    BY <2>3 DEF HeadStays
  <2> QED BY <1>0, <2>2, <2>3, <2>4, NothingFlies, DeviceKeeps
<1>6. CASE DeviceLost(d)
  <2>1. sock[d] \in Conn /\ Cut(sock[d]) /\ job' = [job EXCEPT ![d] = None]
    BY <1>6 DEF DeviceLost, DeviceTypeOK
  <2>2. /\ NothingNew /\ UNCHANGED up
        /\ \A k \in Conn : link'[k] = "unused" => link[k] = "unused"
    BY <2>1, ConnectionEnds
  <2>3. \A e \in Device : job'[e] \in {job[e], None}
    BY <2>1 DEF DeviceTypeOK
  <2>4. \A k \in Conn : HeadStays(k)
    BY <2>2 DEF HeadStays
  <2> QED BY <1>0, <2>2, <2>3, <2>4, NothingFlies, DeviceKeeps
<1> QED BY <1>1, <1>2, <1>3, <1>4, <1>5, <1>6 DEF DeviceThread, DeviceWorks, DeviceComesAndGoes

-----------------------------------------------------------------------------
(* The driver. *)

\* After a round the driver is at no send.
LEMMA RoundMoves ==
  ASSUME TypeInv, NEW sent, NEW completed, Round(sent, completed)
  PROVE  driver'.at \notin Sending /\ driver'.phase = driver.phase
<1>1. driver.phase \in Phases /\ driver.i + 1 \in Nat
  BY DEF TypeInv, TypeOK
<1>2. From(driver.phase, driver.i + 1) \in {"look", "clear_lm", "ack_stats", "drain"}
  BY <1>1, PhaseGoesOn DEF From, Phases
<1>3. driver'.at = From(driver.phase, driver.i + 1) /\ driver'.phase = driver.phase
  BY DEF Round, TypeInv, TypeOK
<1> QED BY <1>2, <1>3 DEF Sending

\* What the driver does besides making, sending and giving up commands.
DriverElse ==
  \/ DriverWaitsForDevices \/ DriverCollects \/ DriverLooksUp \/ DriverDrains \/ DriverReads
  \/ DriverClearsSamples \/ DriverClearsTable \/ DriverReturns \/ DriverStops
  \/ DriverClosesListener

LEMMA ElseMovesOn == ASSUME TypeInv, DriverElse PROVE MovesOn
<1> USE DEF TypeInv, TypeOK
<1>1. CASE DriverWaitsForDevices \/ DriverClearsSamples \/ DriverClosesListener
  BY <1>1 DEF DriverWaitsForDevices, DriverClearsSamples, DriverClosesListener, Goes, MovesOn, Sending
<1>2. CASE DriverCollects
  <2>1. From("warmup", 0) \in {"look", "clear_lm"}
    BY DEF From
  <2> QED BY <1>2, <2>1 DEF DriverCollects, MovesOn, Sending
<1>3. CASE DriverLooksUp
  <2>1. CASE Round(driver.sent, driver.completed)
    BY <1>3, <2>1, RoundMoves DEF DriverLooksUp, MovesOn, Sending
  <2>2. CASE driver' = [driver EXCEPT !.at = "make", !.conn = get_conn(Target)]
    BY <1>3, <2>2 DEF DriverLooksUp, MovesOn, Sending
  <2> QED BY <1>3, <2>1, <2>2 DEF DriverLooksUp
<1>4. CASE DriverDrains
  <2>1. /\ driver.at = "drain" /\ driver'.at = "ack_stats" /\ driver'.phase = driver.phase
        /\ issued' = issued /\ (~overrun' => ~overrun)
    BY <1>4 DEF DriverDrains
  <2> QED BY <2>1 DEF MovesOn, Sending
<1>5. CASE DriverReads
  BY <1>5 DEF DriverReads, Goes, MovesOn, Sending
<1>6. CASE DriverClearsTable
  <2>1. driver'.at \in {"look", "ack_stats", "drain"} /\ driver.at = "clear_ct"
        /\ driver.phase # "open" /\ UNCHANGED <<issued, overrun>>
    BY <1>6 DEF DriverClearsTable, Start, From, DriverCoherent
  <2> QED BY <2>1 DEF MovesOn, Sending
<1>7. CASE DriverReturns
  <2>1. driver'.at = "stop" /\ driver'.phase = "open" /\ driver.at = "return" /\ issued' = issued
    BY <1>7 DEF DriverReturns, Start
  <2> QED BY <2>1 DEF MovesOn
<1>8. CASE DriverStops
  BY <1>8 DEF DriverStops, MovesOn
<1> QED BY <1>1, <1>2, <1>3, <1>4, <1>5, <1>6, <1>7, <1>8 DEF DriverElse

LEMMA ElseLoses ==
  ASSUME TypeInv, FlightInv, DriverElse
  PROVE  /\ OnlyLoses /\ UNCHANGED <<up, handler>>
         /\ \A k \in Conn : link'[k] = "unused" => link[k] = "unused"
<1> USE DEF TypeInv, TypeOK
<1>0. InOnePlace(down, job)
  BY DEF FlightInv, Flights
<1>1. CASE UNCHANGED <<transportVars, job, handler>>
  <2>1. /\ InOnePlace(down, job)' /\ \A b, n : Flying(b, n)' => Flying(b, n)
        /\ \A b \in Cmd : StatusOf(b)' => StatusOf(b)
    BY <1>0, <1>1, NothingMoves, NothingFlies
  <2>2. Unfinished' \subseteq Unfinished /\ \A b \in Cmd : Answered(b)' => Answered(b)
    <3>1. CASE UNCHANGED pending
      BY <2>1, <3>1, TableKept
    <3>2. CASE DriverClearsTable
      <4>1. \A b \in Cmd : ~Tracked(b)'
        BY <3>2 DEF DriverClearsTable, clear_pending, Tracked
      <4> QED BY <2>1, <4>1 DEF Answered, Unfinished, TrackedCmds
    <3>3. UNCHANGED pending \/ DriverClearsTable
      BY DEF DriverElse, DriverWaitsForDevices, DriverCollects, DriverLooksUp, DriverDrains,
             DriverReads, DriverClearsSamples, DriverReturns, DriverStops, DriverClosesListener,
             controllerVars
    <3> QED BY <3>1, <3>2, <3>3
  <2> QED BY <1>1, <2>1, <2>2 DEF OnlyLoses, transportVars
<1>2. CASE DriverStops
  <2>1. PICK d \in Device : DeviceStops(d)
    BY <1>2 DEF DriverStops
  <2>2. UNCHANGED <<pending, handler>> /\ \A e \in Device : job'[e] \in {job[e], None}
    BY <1>2, <2>1 DEF DriverStops, DeviceStops, DeviceTypeOK, sessionVars
  <2>3. /\ NothingNew /\ UNCHANGED up
        /\ \A k \in Conn : link'[k] = "unused" => link[k] = "unused"
    <3>1. CASE sock[d] # None
      <4>1. sock[d] \in Conn /\ Cut(sock[d])
        BY <2>1, <3>1 DEF DeviceStops, DeviceTypeOK
      <4> QED BY <4>1, ConnectionEnds
    <3>2. CASE sock[d] = None
      BY <2>1, <3>2, NothingMoves DEF DeviceStops, transportVars
    <3> QED BY <3>1, <3>2
  <2>4. /\ InOnePlace(down, job)' /\ \A b, n : Flying(b, n)' => Flying(b, n)
        /\ \A b \in Cmd : StatusOf(b)' => StatusOf(b)
    BY <1>0, <2>2, <2>3, NothingFlies
  <2> QED BY <2>2, <2>3, <2>4, TableKept DEF OnlyLoses
<1>3. UNCHANGED <<transportVars, job, handler>> \/ DriverStops
  BY DEF DriverElse, DriverWaitsForDevices, DriverCollects, DriverLooksUp, DriverDrains,
         DriverReads, DriverClearsSamples, DriverClearsTable, DriverReturns, DriverClosesListener,
         controllerVars, deviceVars, sessionVars
<1> QED BY <1>1, <1>2, <1>3

LEMMA MakesFlights == ASSUME TypeInv, FlightInv, DriverMakes PROVE Flights' /\ Quiet'
<1> USE DEF TypeInv, TypeOK
<1>b. PICK b : b = issued + 1
  OBVIOUS
<1>1. /\ driver.at = "make" /\ issued \in Nat /\ b \in Cmd /\ issued' = b
      /\ driver'.at = "send" /\ driver'.phase = driver.phase /\ overrun' = overrun
      /\ UNCHANGED <<up, down, job>>
  <2>1. issued' = issued + 1 /\ issued \in Nat
    BY SizeNumbers DEF DriverMakes
  <2>2. issued + 1 \in 0 .. Warmup + Samples + Burst
    <3>1. TypeInv'
      BY DriverTypes DEF Driver
    <3> QED BY <2>1, <3>1
  <2>3. issued + 1 \in Cmd
    BY <2>1, <2>2, SizeNumbers DEF Cmd
  <2> QED BY <1>b, <2>1, <2>3 DEF DriverMakes, Goes, transportVars, deviceVars
<1>2. pending' = [pending EXCEPT ![b] = NewItem(Target)]
  BY <1>b DEF DriverMakes, add_command
<1>3. /\ InOnePlace(down, job)' /\ \A c, n : Flying(c, n)' = Flying(c, n)
      /\ \A c : StatusOf(c)' = StatusOf(c)
  BY <1>1 DEF FlightInv, Flights, InOnePlace, Flying, UnderWay, StatusOf, CommandAt, SameAttempt
<1>4. \A c \in Cmd : c # b => pending'[c] = pending[c]
  BY <1>2 DEF PendingTypeOK
<1>5. ~Answered(b)'
  <2>1. ~StatusOf(b)
    BY <1>b, <1>1 DEF FlightInv, Flights, Answered
  <2>2. ~pending'[b].executed
    BY <1>1, <1>2 DEF PendingTypeOK, NewItem
  <2>3. ~StatusOf(b)'
    BY <1>3, <2>1
  <2> QED BY <1>1, <2>2, <2>3 DEF Answered, Tracked
<1>6. \A c \in Cmd : Answered(c)' => Answered(c) /\ c # b
  BY <1>1, <1>3, <1>4, <1>5 DEF Answered, Tracked
<1>7. \A c, n : Flying(c, n) => c \in 1 .. issued /\ c \in Cmd /\ n = 0 /\ ~Answered(c)
  <2>1. \A c \in 1 .. issued : c \in Cmd
    BY <1>b, <1>1, SizeNumbers DEF Cmd
  <2> QED BY <2>1 DEF FlightInv, Flights
<1>8. Flights'
  <2>1. ASSUME NEW c, NEW n, Flying(c, n)' PROVE c \in 1 .. issued' /\ n = 0 /\ ~Answered(c)'
    BY <1>b, <1>1, <1>3, <1>6, <1>7, <2>1
  <2>2. \A c \in Cmd : Answered(c)' => c <= issued'
    BY <1>b, <1>1, <1>6 DEF FlightInv, Flights, Cmd
  <2>3. ~Flying(issued, 0)' /\ ~Answered(issued)'
    <3>1. ~Flying(b, 0)
      BY <1>b, <1>1, <1>7
    <3>2. ~Flying(b, 0)'
      BY <1>3, <3>1
    <3> QED BY <1>1, <1>5, <3>2
  <2> QED BY <1>3, <2>1, <2>2, <2>3 DEF Flights
<1>9. Quiet'
  <2> SUFFICES ASSUME driver'.phase # "open", ~overrun'
               PROVE  /\ \A c, n : Flying(c, n)' => driver'.at = "wait" /\ c = issued'
                      /\ \A c \in Unfinished' : driver'.at \in Sending /\ c = issued'
    BY DEF Quiet
  <2>1. (\A c, n : ~Flying(c, n)) /\ Unfinished = {}
    BY <1>1 DEF FlightInv, Quiet, Sending
  <2>2. ASSUME NEW c \in Unfinished' PROVE c = b
    BY <1>4, <2>1, <2>2 DEF Unfinished, TrackedCmds, Tracked, Finished
  <2> QED BY <1>1, <1>3, <2>1, <2>2 DEF Sending
<1> QED BY <1>8, <1>9

LEMMA SendsFlights == ASSUME TypeInv, FlightInv, DriverSends PROVE Flights' /\ Quiet'
<1> USE DEF TypeInv, TypeOK
<1>1. /\ driver.at = "send" /\ driver.conn \in Conn /\ issued \in Cmd /\ UNCHANGED <<issued, overrun>>
      /\ UNCHANGED <<up, job, pending>> /\ make_command(Target, issued, 0) \in ToDevice
  <2>1. driver.at = "send" /\ driver.conn \in Conn
    BY DEF DriverSends, DriverCoherent
  <2>2. issued \in Cmd
    <3>1. issued >= 1 /\ issued <= Warmup + Samples + Burst /\ issued \in Nat
      BY <2>1, SizeNumbers DEF DriverCoherent, IssuedInTime, Sending
    <3> QED BY <3>1, SizeNumbers DEF Cmd
  <2>3. Target \in Device
    <3>1. driver.ids \in Seq(Device) /\ driver.ids # << >> /\ driver.i \in Nat
      BY <2>1 DEF DriverCoherent, Rounds
    <3>2. (driver.i % Len(driver.ids)) + 1 \in 1 .. Len(driver.ids)
      BY <3>1
    <3> QED BY <3>1, <3>2 DEF Target
  <2> QED BY <2>1, <2>2, <2>3, FrameTypes DEF DriverSends, SendOk, SendRaises, transportVars, deviceVars
<1> DEFINE m == make_command(Target, issued, 0)
<1>2. m \in ToDevice /\ m.msg_type = "COMMAND" /\ m.cmd_id = issued /\ m.attempt = 0
  BY <1>1 DEF make_command
<1>3. ~Flying(issued, 0) /\ ~Answered(issued) /\ InOnePlace(down, job)
  BY <1>1 DEF FlightInv, Flights
<1>4. /\ \A c \in Cmd : Answered(c)' = Answered(c)
      /\ Unfinished' = Unfinished
  BY <1>1 DEF Answered, StatusOf, Tracked, Unfinished, TrackedCmds, Finished
<1> HIDE DEF m
<1>5. CASE SendOk(driver.conn, m) /\ driver'.at \notin {"send", "fail"}
           /\ ((driver'.at = "wait" /\ driver'.phase = driver.phase) \/ driver'.phase = "open")
  <2>1. /\ InOnePlace(down, job)'
        /\ \A c, n : Flying(c, n)' => Flying(c, n) \/ (c = issued /\ n = 0)
    <3>1. CASE down' = down
      BY <1>1, <1>3, <3>1 DEF InOnePlace, Flying, UnderWay, CommandAt, SameAttempt
    <3>2. CASE down' = [down EXCEPT ![driver.conn] = Append(@, m)]
      <4>1. down \in [Conn -> Seq(ToDevice)] /\ Puts(down, driver.conn, m, down')
        BY <3>2 DEF TransportTypeOK, Puts
      <4>2. ~UnderWay(down, job, m.cmd_id, m.attempt)
        BY <1>2, <1>3 DEF Flying
      <4>3. driver.conn \in Conn
        BY <1>1
      <4>4. /\ InOnePlace(down', job)
            /\ \A c, n : UnderWay(down', job, c, n) =>
                           UnderWay(down, job, c, n) \/ (c = m.cmd_id /\ n = m.attempt)
        BY ONLY <1>2, <1>3, <4>1, <4>2, <4>3, CommandSent
      <4> QED BY <1>1, <1>2, <4>4 DEF Flying
    <3> QED BY <1>5, <3>1, <3>2 DEF SendOk
  <2>2. ASSUME NEW c, NEW n, Flying(c, n)' PROVE c \in 1 .. issued' /\ n = 0 /\ ~Answered(c)'
    <3>1. CASE c = issued /\ n = 0
      <4>1. c \in 1 .. issued
        BY <1>1, <3>1 DEF Cmd
      <4> QED BY <1>1, <1>3, <1>4, <3>1, <4>1
    <3>2. CASE Flying(c, n)
      <4>1. c \in 1 .. issued /\ n = 0 /\ ~Answered(c)
        BY <3>2 DEF FlightInv, Flights
      <4>2. c \in Cmd
        BY <1>1, <4>1, MaxCommandsAssumption DEF Cmd
      <4> QED BY <1>1, <1>4, <4>1, <4>2
    <3> QED BY <2>1, <2>2, <3>1, <3>2
  <2>3. Flights'
    <3>1. \A c \in Cmd : Answered(c)' => c <= issued'
      BY <1>1, <1>4 DEF FlightInv, Flights
    <3> QED BY <1>5, <2>1, <2>2, <3>1 DEF Flights
  <2>4. Quiet'
    <3> SUFFICES ASSUME driver'.phase # "open", ~overrun'
                 PROVE  /\ \A c, n : Flying(c, n)' => driver'.at = "wait" /\ c = issued'
                        /\ \A c \in Unfinished' : driver'.at \in Sending /\ c = issued'
      BY DEF Quiet
    <3>1. driver'.at = "wait" /\ driver.phase # "open" /\ ~overrun
      BY <1>1, <1>5
    <3>2. (\A c, n : ~Flying(c, n)) /\ \A c \in Unfinished : c = issued
      BY <1>1, <3>1 DEF FlightInv, Quiet
    <3> QED BY <1>1, <1>4, <2>1, <3>1, <3>2 DEF Sending
  <2> QED BY <2>3, <2>4
<1>6. CASE SendRaises(driver.conn) /\ driver' = [driver EXCEPT !.at = "fail"]
  <2>1. down' = down /\ driver'.at = "fail" /\ driver'.phase = driver.phase
    BY <1>6 DEF SendRaises, transportVars
  <2>2. InOnePlace(down, job)' /\ \A c, n : Flying(c, n)' = Flying(c, n)
    BY <1>1, <1>3, <2>1 DEF InOnePlace, Flying, UnderWay, CommandAt, SameAttempt
  <2>3. \A c \in 1 .. issued : c \in Cmd
    BY <1>1, MaxCommandsAssumption DEF Cmd
  <2>4. Flights'
    <3>1. \A c, n : Flying(c, n)' => c \in 1 .. issued' /\ n = 0 /\ ~Answered(c)'
      BY <1>1, <1>4, <2>2, <2>3 DEF FlightInv, Flights
    <3>2. \A c \in Cmd : Answered(c)' => c <= issued'
      BY <1>1, <1>4 DEF FlightInv, Flights
    <3>3. ~Flying(issued, 0)' /\ ~Answered(issued)'
      BY <1>1, <1>3, <1>4, <2>2
    <3> QED BY <2>2, <3>1, <3>2, <3>3 DEF Flights
  <2>5. Quiet'
    <3> SUFFICES ASSUME driver'.phase # "open", ~overrun'
                 PROVE  /\ \A c, n : Flying(c, n)' => driver'.at = "wait" /\ c = issued'
                        /\ \A c \in Unfinished' : driver'.at \in Sending /\ c = issued'
      BY DEF Quiet
    <3>1. (\A c, n : ~Flying(c, n)) /\ \A c \in Unfinished : c = issued
      BY <1>1, <2>1 DEF FlightInv, Quiet
    <3> QED BY <1>1, <1>4, <2>1, <2>2, <3>1 DEF Sending
  <2> QED BY <2>4, <2>5
<1>7. \/ SendRaises(driver.conn) /\ driver' = [driver EXCEPT !.at = "fail"]
      \/ SendOk(driver.conn, m) /\ driver'.at \notin {"send", "fail"}
         /\ ((driver'.at = "wait" /\ driver'.phase = driver.phase) \/ driver'.phase = "open")
  <2>1. CASE SendRaises(driver.conn) /\ Goes("fail")
    BY <2>1 DEF Goes
  <2>2. CASE driver.phase = "open" /\ Round(driver.sent \cup {issued}, {}) /\ SendOk(driver.conn, m)
    <3>1. driver'.at \notin Sending /\ driver'.phase = driver.phase
      BY <2>2, RoundMoves
    <3> QED BY <2>2, <3>1 DEF Sending
  <2>3. CASE driver' = [driver EXCEPT !.at = "wait", !.sent = @ \cup {issued}] /\ SendOk(driver.conn, m)
    BY <2>3
  <2> QED BY <2>1, <2>2, <2>3 DEF DriverSends, m
<1> QED BY <1>5, <1>6, <1>7

\* Giving up or having waited.
LEMMA EndsFlights == ASSUME TypeInv, FlightInv, DriverFails \/ DriverWaits PROVE Flights' /\ Quiet'
<1> USE DEF TypeInv, TypeOK
<1>1. /\ driver.at \in {"fail", "wait"} /\ UNCHANGED <<up, down, job, issued>>
      /\ driver'.at \notin Sending /\ driver'.phase = driver.phase
  <2>1. \E sent, completed : Round(sent, completed)
    BY DEF DriverFails, DriverWaits
  <2>2. driver'.at \notin Sending /\ driver'.phase = driver.phase
    BY <2>1, RoundMoves
  <2> QED BY <2>2 DEF DriverFails, DriverWaits, controllerVars, transportVars, deviceVars
<1>2. issued \in Cmd
  <2>1. issued >= 1 /\ issued <= Warmup + Samples + Burst /\ issued \in Nat
    BY <1>1, SizeNumbers DEF DriverCoherent, IssuedInTime, Sending
  <2> QED BY <2>1, SizeNumbers DEF Cmd
<1>3. /\ \A c \in Cmd : Answered(c)' => Answered(c)
      /\ \A c \in Unfinished' : c \in Unfinished
      /\ driver.at = "fail" => issued \notin Unfinished'
  <2>1. CASE DriverWaits
    BY <1>1, <2>1 DEF DriverWaits, controllerVars, Answered, StatusOf, Tracked, Unfinished,
                      TrackedCmds, Finished
  <2>2. CASE DriverFails /\ ~Tracked(issued)
    BY <1>1, <2>2 DEF DriverFails, mark_failed, Answered, StatusOf, Tracked, Unfinished,
                      TrackedCmds, Finished
  <2>3. CASE DriverFails /\ Tracked(issued)
    <3>1. /\ pending' = [pending EXCEPT ![issued].failed = TRUE,
                           ![issued].expired = pending[issued].expired /\ pending[issued].executed]
          /\ pending[issued] \in Item
      BY <1>2, <2>3, ItemTypes DEF DriverFails, mark_failed
    <3>2. \A c \in Cmd : c # issued => pending'[c] = pending[c]
      BY <3>1 DEF PendingTypeOK
    <3>3. pending'[issued].failed /\ pending'[issued].executed = pending[issued].executed
      BY <1>2, <3>1 DEF PendingTypeOK, Item
    <3>4. \A c \in Cmd : StatusOf(c)' = StatusOf(c)
      BY <1>1 DEF StatusOf
    <3>5. \A c \in Cmd : Answered(c)' => Answered(c)
      BY <2>3, <3>2, <3>3, <3>4 DEF Answered, Tracked
    <3>6. (\A c \in Unfinished' : c \in Unfinished) /\ issued \notin Unfinished'
      BY <1>1, <3>2, <3>3 DEF Unfinished, TrackedCmds, Tracked, Finished
    <3> QED BY <3>5, <3>6
  <2> QED BY <2>1, <2>2, <2>3
<1>4. InOnePlace(down, job)' /\ \A c, n : Flying(c, n)' = Flying(c, n)
  BY <1>1 DEF FlightInv, Flights, InOnePlace, Flying, UnderWay, CommandAt, SameAttempt
<1>5. Flights'
  <2>1. \A c \in 1 .. issued : c \in Cmd
    BY <1>2, MaxCommandsAssumption DEF Cmd
  <2>2. \A c, n : Flying(c, n)' => c \in 1 .. issued' /\ n = 0 /\ ~Answered(c)'
    BY <1>1, <1>3, <1>4, <2>1 DEF FlightInv, Flights
  <2>3. \A c \in Cmd : Answered(c)' => c <= issued'
    BY <1>1, <1>3 DEF FlightInv, Flights
  <2> QED BY <1>1, <1>4, <2>2, <2>3 DEF Flights, Sending
<1>6. Quiet'
  <2> SUFFICES ASSUME driver'.phase # "open", ~overrun'
               PROVE  (\A c, n : ~Flying(c, n)') /\ Unfinished' = {}
    BY DEF Quiet
  <2>1. driver.phase # "open" /\ ~overrun
    BY <1>1 DEF DriverFails, DriverWaits
  <2>2. /\ \A c, n : Flying(c, n) => driver.at = "wait" /\ c = issued
        /\ \A c \in Unfinished : c = issued
    BY <2>1 DEF FlightInv, Quiet
  <2>3. CASE driver.at = "fail"
    BY <1>3, <1>4, <2>2, <2>3
  <2>4. CASE driver.at = "wait"
    <3>1. DriverWaits /\ ExecutedOf({issued}) # {}
      BY <2>4 DEF DriverWaits, DriverFails
    <3>2. Tracked(issued) /\ pending[issued].executed
      BY <3>1 DEF ExecutedOf
    <3>3. \A n : ~Flying(issued, n)
      BY <3>2 DEF FlightInv, Flights, Answered
    <3>4. issued \notin Unfinished
      BY <3>2 DEF Unfinished, Finished
    <3> QED BY <1>3, <1>4, <2>2, <3>3, <3>4
  <2> QED BY <1>1, <2>3, <2>4
<1> QED BY <1>5, <1>6

LEMMA DriverFlights == ASSUME TypeInv, FlightInv, Driver PROVE FlightInv'
<1>1. CASE DriverElse
  <2>1. UnusedIsIdle' /\ StatusRead'
    BY <1>1, ElseLoses DEF FlightInv, UnusedIsIdle, StatusRead, StatusAtHead
  <2> QED BY <1>1, <2>1, ElseLoses, ElseMovesOn, FlightsKept DEF FlightInv
<1>2. CASE DriverMakes \/ DriverSends \/ DriverFails \/ DriverWaits
  <2>1. UNCHANGED <<link, up, handler>>
    BY <1>2 DEF DriverMakes, DriverSends, DriverFails, DriverWaits, SendOk, SendRaises,
                controllerVars, transportVars, sessionVars
  <2>2. UnusedIsIdle' /\ StatusRead'
    BY <2>1 DEF FlightInv, UnusedIsIdle, StatusRead, StatusAtHead
  <2> QED BY <1>2, <2>2, MakesFlights, SendsFlights, EndsFlights DEF FlightInv
<1> QED BY <1>1, <1>2 DEF Driver, DriverElse

-----------------------------------------------------------------------------

LEMMA InitFlights == Init => FlightInv
<1> SUFFICES ASSUME Init PROVE FlightInv
  OBVIOUS
<1>1. UnusedIsIdle /\ StatusRead
  BY DEF Init, SessionInit, UnusedIsIdle, StatusRead
<1>2. /\ \A k \in Conn : down[k] = << >> /\ up[k] = << >>
      /\ \A d \in Device : job[d] = None
      /\ \A c \in Cmd : ~Tracked(c)
      /\ driver.at = "connect"
  BY DEF Init, TransportInit, DeviceInit, PendingInit, Tracked, Start
<1>3. Flights /\ Quiet
  BY <1>2 DEF Flights, Quiet, InOnePlace, Flying, UnderWay, Answered, StatusOf, Unfinished, TrackedCmds
<1> QED BY <1>1, <1>3 DEF FlightInv

LEMMA NextFlights == TypeInv /\ FlightInv /\ [Next]_vars => FlightInv'
<1> SUFFICES ASSUME TypeInv, FlightInv, [Next]_vars PROVE FlightInv'
  OBVIOUS
<1>1. CASE UNCHANGED vars
  BY <1>1 DEF vars, controllerVars, transportVars, sessionVars, deviceVars, benchVars,
              FlightInv, UnusedIsIdle, StatusRead, StatusAtHead, Flights, Quiet, InOnePlace,
              CommandAt, SameAttempt, Flying, UnderWay, Answered, StatusOf, Tracked, Unfinished,
              TrackedCmds, Finished
<1> QED BY <1>1, DriverFlights, AcceptFlights, SessionThreadFlights, DeviceThreadFlights DEF Next

\* "one command in flight at a time" (latency_benchmark.py:11) holds of the tables, the
\* queues and the devices until a wait runs out, across phases and reconnections: the
\* table is empty but for the command being waited for, and nothing of an earlier one
\* is still to be executed.
THEOREM OneCommandInFlight == Spec => []OneInFlight
<1>1. TypeInv /\ FlightInv => OneInFlight
  <2> SUFFICES ASSUME TypeInv, FlightInv, driver.phase # "open", ~overrun
               PROVE  /\ Unfinished \subseteq {issued}
                      /\ \A k \in Conn : \A i \in DOMAIN down[k] :
                           down[k][i].msg_type = "COMMAND" => down[k][i].cmd_id = issued
                      /\ \A d \in Device : job[d] # None => job[d].cmd_id = issued
    BY DEF OneInFlight
  <2>1. (\A c, n : Flying(c, n) => c = issued) /\ \A c \in Unfinished : c = issued
    BY DEF FlightInv, Quiet
  <2> QED BY <2>1 DEF Flying, UnderWay, CommandAt
<1> QED BY BenchInitTypes, BenchNextTypes, InitFlights, NextFlights, <1>1, PTL DEF Spec
-----------------------------------------------------------------------------
(* What a step does to the frames, the sockets and the sessions. *)

\* Sessions that read, or will.
Live == {"none", "accepted", "registered", "open", "status"}

IsStatusOf(k, i, c) == up[k][i].msg_type = "STATUS" /\ up[k][i].cmd_id = c

IsAckOf(k, i, c) == up[k][i].msg_type = "RECEIVED_ACK" /\ up[k][i].cmd_id = c

\* Nothing is missing from the entry of c.
Acked(c) == Tracked(c) => pending[c].received

\* The next frame is read; an ack is entered in the table.
ReadsUp(k) ==
  /\ up[k] # << >> /\ up'[k] = Tail(up[k])
  /\ handler'[k] \in Live /\ Head(up[k]).msg_type = "RECEIVED_ACK" =>
       \E c : c = Head(up[k]).cmd_id /\ Acked(c)'

Drops(k) == up'[k] = << >> /\ handler'[k] \notin Live

Opens(k) == link[k] = "unused" /\ \E m \in ToController : m.msg_type = "AUTH" /\ up'[k] = <<m>>

\* The device acks a command it takes, and answers the one it executed.
Arrives(k) ==
  /\ link[k] = "up"
  /\ \E m \in ToController :
       /\ up'[k] = Append(up[k], m) /\ m.msg_type \in {"RECEIVED_ACK", "STATUS"}
       /\ m.msg_type = "RECEIVED_ACK" => \E n : Flying(m.cmd_id, n)
       /\ m.msg_type = "STATUS" =>
            \E d \in Device : job[d] # None /\ sock[d] = k /\ m.cmd_id = job[d].cmd_id

LineMoves(k) ==
  /\ up'[k] = up[k] \/ ReadsUp(k) \/ Drops(k) \/ Opens(k) \/ Arrives(k)
  /\ handler'[k] \in Live => handler[k] \in Live
  /\ link'[k] = "unused" => link[k] = "unused"
  /\ link'[k] = "up" => link[k] \in {"up", "unused"}

\* A device takes a command only with an ack, and connects with empty hands.
HandsMove(d) ==
  \/ job'[d] = None
  \/ job'[d] = job[d] /\ sock'[d] = sock[d]
  \/ /\ sock[d] \in Conn /\ sock'[d] = sock[d]
     /\ link[sock[d]] = "up" =>
          \E m \in ToController : /\ m.msg_type = "RECEIVED_ACK" /\ m.cmd_id = job'[d].cmd_id
                                  /\ up'[sock[d]] = Append(up[sock[d]], m)

\* A device that has a connection is not about to open one.
SocksOpen == \A d \in Device : sock[d] # None => link[sock[d]] # "unused" /\ ~dialing[d]

LineSteps ==
  /\ \A k \in Conn : LineMoves(k)
  /\ \A d \in Device : HandsMove(d)
  /\ SocksOpen'

LEMMA DriverLines == ASSUME TypeInv, FlightInv, SocksOpen, Driver PROVE LineSteps
<1> USE DEF TypeInv, TypeOK
<1>1. /\ UNCHANGED <<up, handler, dialing>>
      /\ \A k \in Conn : link'[k] = link[k] \/ (link[k] = "up" /\ link'[k] = "cut")
      /\ \A d \in Device : \/ job'[d] = job[d] /\ sock'[d] = sock[d]
                           \/ job'[d] = None /\ sock'[d] = None
  <2>1. CASE DriverStops
    <3>1. PICK d \in Device : DeviceStops(d)
      BY <2>1 DEF DriverStops
    <3>2. UNCHANGED <<up, handler, dialing>>
      BY <2>1, <3>1 DEF DriverStops, DeviceStops, Cut, transportVars, sessionVars
    <3>3. \A k \in Conn : link'[k] = link[k] \/ (link[k] = "up" /\ link'[k] = "cut")
      BY <3>1 DEF DeviceStops, Cut, transportVars, TransportTypeOK
    <3> QED BY <3>1, <3>2, <3>3 DEF DeviceStops, DeviceTypeOK
  <2>2. CASE UNCHANGED <<up, link, handler, dialing, job, sock>>
    BY <2>2
  <2> QED BY <2>1, <2>2 DEF Driver, DriverWaitsForDevices, DriverCollects, DriverLooksUp, DriverMakes,
        DriverSends, DriverFails, DriverWaits, DriverDrains, DriverReads, DriverClearsSamples,
        DriverClearsTable, DriverReturns, DriverClosesListener, SendOk, SendRaises,
        controllerVars, transportVars, sessionVars, deviceVars
<1>2. \A k \in Conn : LineMoves(k)
  BY <1>1 DEF LineMoves
<1>3. \A d \in Device : HandsMove(d)
  BY <1>1 DEF HandsMove
<1>4. SocksOpen'
  <2> SUFFICES ASSUME NEW d \in Device, sock'[d] # None
               PROVE  link'[sock'[d]] # "unused" /\ ~dialing'[d]
    BY DEF SocksOpen
  <2>1. sock'[d] = sock[d] /\ sock[d] \in Conn
    BY <1>1 DEF DeviceTypeOK
  <2> QED BY <1>1, <2>1 DEF SocksOpen
<1> QED BY <1>2, <1>3, <1>4 DEF LineSteps

LEMMA AcceptLines ==
  ASSUME TypeInv, SocksOpen, NEW c \in Conn, AcceptForever(c) PROVE LineSteps
<1>1. /\ UNCHANGED <<link, up, down, job, sock, dialing>>
      /\ handler[c] = "none" /\ handler' = [handler EXCEPT ![c] = "accepted"]
  BY DEF AcceptForever, Accept, Goto, deviceVars, transportVars
<1>2. \A k \in Conn : LineMoves(k)
  BY <1>1 DEF LineMoves, Live, TypeInv, TypeOK, SessionTypeOK
<1> QED BY <1>1, <1>2 DEF LineSteps, HandsMove, SocksOpen

\* The session of c reads its next frame.
LEMMA ReadingLines ==
  ASSUME TypeInv, NEW c \in Conn, NEW m, RecvLine(c, m), handler'[c] \in Live => handler[c] \in Live,
         \A k \in Conn \ {c} : handler'[k] = handler[k],
         handler'[c] \in Live /\ m.msg_type = "RECEIVED_ACK" => Acked(m.cmd_id)'
  PROVE  \A k \in Conn : LineMoves(k)
<1>1. /\ UNCHANGED link /\ up[c] # << >> /\ m = Head(up[c]) /\ up'[c] = Tail(up[c])
      /\ \A k \in Conn \ {c} : up'[k] = up[k]
  BY DEF RecvLine, TypeInv, TypeOK, TransportTypeOK
<1>2. ReadsUp(c)
  BY <1>1 DEF ReadsUp
<1> QED BY <1>1, <1>2 DEF LineMoves

\* Marking an ack leaves nothing missing.
LEMMA MarkedAcked == ASSUME TypeInv, NEW c \in Cmd, mark_received(c) PROVE Acked(c)'
<1>1. CASE Tracked(c)
  <2>1. pending[c] \in Item
    BY <1>1, ItemTypes DEF TypeInv, TypeOK
  <2> QED BY <1>1, <2>1 DEF mark_received, Receive, Acked, Tracked, TypeInv, TypeOK, PendingTypeOK, Item
<1>2. CASE ~Tracked(c)
  BY <1>2 DEF mark_received, Acked, Tracked
<1> QED BY <1>1, <1>2

LEMMA SessionLinesMove ==
  ASSUME TypeInv, FlightInv, NEW c \in Conn, SessionThread(c) PROVE \A k \in Conn : LineMoves(k)
<1> USE DEF TypeInv, TypeOK
<1>1. CASE SessionReject(c) \/ SessionGreet(c) \/ SessionTimeout(c) \/ SessionHangup(c)
           \/ SessionUnregister(c)
  <2>1. UNCHANGED <<link, up>>
    BY <1>1 DEF SessionReject, SessionGreet, SessionTimeout, SessionHangup, SessionUnregister,
                SendOk, SendRaises, transportVars
  <2>2. \A k \in Conn : handler'[k] \in Live => handler[k] \in Live
    BY <1>1 DEF SessionReject, SessionGreet, SessionTimeout, SessionHangup, SessionUnregister,
                Goto, SessionTypeOK, Live
  <2> QED BY <2>1, <2>2 DEF LineMoves
<1>2. CASE SessionClose(c)
  <2>1. /\ handler' = [handler EXCEPT ![c] = "closed"]
        /\ link' = [link EXCEPT ![c] = "closed"] /\ up' = [up EXCEPT ![c] = << >>]
    BY <1>2 DEF SessionClose, Goto, CloseConn
  <2> QED BY <2>1 DEF LineMoves, Drops, Live, SessionTypeOK, TransportTypeOK
<1>3. CASE SessionGarbage(c) \/ SessionHeartbeatAck(c, 0)
  <2>1. PICK m \in {Garbage, make_heartbeat_ack} : RecvLine(c, m) /\ UNCHANGED handler
    BY <1>3 DEF SessionGarbage, SessionHeartbeatAck, sessionVars
  <2>2. m.msg_type # "RECEIVED_ACK"
    BY DEF Garbage, make_heartbeat_ack
  <2> QED BY <2>1, <2>2, ReadingLines
<1>4. ASSUME NEW m \in NextLine(c), SessionRefuse(c, m) \/ SessionRegister(c, m, 0) \/ SessionIgnore(c, m)
      PROVE  \A k \in Conn : LineMoves(k)
  <2>1. /\ RecvLine(c, m) /\ handler[c] \in Live
        /\ handler'[c] = "refusing" \/ m.msg_type # "RECEIVED_ACK"
        /\ \A k \in Conn \ {c} : handler'[k] = handler[k]
    BY <1>4 DEF SessionRefuse, SessionRegister, SessionIgnore, Goto, sessionVars, SessionTypeOK,
                Acceptable, Live
  <2> QED BY <2>1, ReadingLines DEF Live
<1>5. ASSUME NEW m \in NextLine(c), SessionReceivedAck(c, m) PROVE \A k \in Conn : LineMoves(k)
  <2>1. m.cmd_id \in Cmd
    BY <1>5, RecvTypes, Fields DEF SessionReceivedAck
  <2>2. RecvLine(c, m) /\ UNCHANGED handler /\ Acked(m.cmd_id)'
    BY <1>5, <2>1, MarkedAcked DEF SessionReceivedAck, sessionVars
  <2> QED BY <2>2, ReadingLines
<1>6. ASSUME NEW m \in NextLine(c), SessionStatus(c, m) \/ SessionMarks(c, m)
      PROVE  \A k \in Conn : LineMoves(k)
  <2>1. UNCHANGED <<link, up>> /\ \A k \in Conn : handler'[k] \in Live => handler[k] \in Live
    BY <1>6 DEF SessionStatus, SessionMarks, Goto, transportVars, sessionVars, SessionTypeOK, Live
  <2> QED BY <2>1 DEF LineMoves
<1>7. ASSUME NEW m \in NextLine(c), SessionRecords(c, m) \/ SessionPasses(c, m)
      PROVE  \A k \in Conn : LineMoves(k)
  <2>1. /\ RecvLine(c, m) /\ handler[c] = "status"
        /\ \A k \in Conn \ {c} : handler'[k] = handler[k]
    BY <1>7 DEF SessionRecords, SessionPasses, Goto, SessionTypeOK
  <2>2. m.msg_type = "STATUS"
    BY <2>1 DEF RecvLine, FlightInv, StatusRead, StatusAtHead
  <2> QED BY <2>1, <2>2, ReadingLines DEF Live
<1> QED BY <1>1, <1>2, <1>3, <1>4, <1>5, <1>6, <1>7
        DEF SessionThread, SessionStep, SessionStatusDone, Goto

LEMMA SessionThreadLines ==
  ASSUME TypeInv, FlightInv, SocksOpen, NEW c \in Conn, SessionThread(c) PROVE LineSteps
<1>1. UNCHANGED <<job, sock, dialing>>
  BY DEF SessionThread, deviceVars
<1>2. \A k \in Conn : LineMoves(k)
  BY SessionLinesMove
<1>3. SocksOpen'
  <2> SUFFICES ASSUME NEW d \in Device, sock[d] # None PROVE link'[sock[d]] # "unused" /\ ~dialing'[d]
    BY <1>1 DEF SocksOpen
  <2>1. sock[d] \in Conn
    BY DEF TypeInv, TypeOK, DeviceTypeOK
  <2> QED BY <1>1, <1>2, <2>1 DEF SocksOpen, LineMoves
<1> QED BY <1>1, <1>2, <1>3 DEF LineSteps, HandsMove

LEMMA DeviceLines ==
  ASSUME TypeInv, FlightInv, SocksOpen, NEW d \in Device, DeviceThread(d) PROVE LineSteps
<1> USE DEF TypeInv, TypeOK
<1>0. /\ UNCHANGED handler /\ \A k \in Conn : up[k] \in Seq(ToController)
      /\ \A e \in Device : sock[e] # None => sock[e] \in Conn /\ link[sock[e]] # "unused" /\ ~dialing[e]
      /\ \A e \in Device : job[e] # None => sock[e] \in Conn
  BY DEF DeviceThread, sessionVars, TransportTypeOK, SocksOpen, DeviceTypeOK, DeviceCoherent
<1>1. CASE DeviceExecute(d) /\ UNCHANGED dialing
  <2>c. PICK c : c = job[d].cmd_id
    OBVIOUS
  <2> DEFINE m == make_status(level[d] + 1, c, job[d].attempt)
  <2>1. /\ sock[d] \in Conn /\ job[d] # None /\ c \in Cmd /\ job[d].attempt \in Nat /\ level[d] + 1 \in Nat
        /\ job' = [job EXCEPT ![d] = None] /\ DeviceSend(sock[d], m) /\ UNCHANGED <<link, sock>>
    BY <1>1, <2>c DEF DeviceExecute, DeviceSend, DeviceTypeOK, DeviceCoherent
  <2>2. m \in ToController /\ m.msg_type = "STATUS" /\ m.cmd_id = c
    <3>1. m \in ToController
      BY <2>1, FrameTypes
    <3> QED BY <3>1 DEF make_status
  <2> HIDE DEF m
  <2>3. \A k \in Conn : up'[k] = up[k] \/ (k = sock[d] /\ link[k] = "up" /\ up'[k] = Append(up[k], m))
    BY <2>1 DEF DeviceSend, TransportTypeOK
  <2>4. \A k \in Conn : LineMoves(k)
    BY <1>0, <2>c, <2>1, <2>2, <2>3 DEF LineMoves, Arrives
  <2>5. \A e \in Device : HandsMove(e)
    BY <2>1 DEF HandsMove, DeviceTypeOK
  <2>6. SocksOpen'
    BY <1>1, <2>1 DEF SocksOpen
  <2> QED BY <2>4, <2>5, <2>6 DEF LineSteps
<1>2. CASE (DeviceAuthOk(d) \/ DeviceAuthFail(d)) /\ UNCHANGED dialing
  <2>1. /\ Listening(d) /\ UNCHANGED <<job, sock, link>>
        /\ \E m : DeviceExchange(sock[d], m, << >>)
    BY <1>2 DEF DeviceAuthOk, DeviceAuthFail, DeviceExchange
  <2>2. sock[d] \in Conn /\ up[sock[d]] \o << >> = up[sock[d]]
    BY <1>0, <2>1 DEF Listening
  <2>3. \A k \in Conn : up'[k] = up[k]
    BY <2>1, <2>2 DEF DeviceExchange, TransportTypeOK
  <2>4. \A k \in Conn : LineMoves(k)
    BY <1>0, <2>1, <2>3 DEF LineMoves
  <2> QED BY <1>2, <2>1, <2>4 DEF LineSteps, HandsMove, SocksOpen
<1>3. ASSUME NEW f \in NextFrame(d), DeviceTakeCommand(d, f), UNCHANGED dialing PROVE LineSteps
  <2>1. /\ sock[d] \in Conn /\ f.msg_type = "COMMAND" /\ down[sock[d]] # << >>
        /\ f = Head(down[sock[d]]) /\ UNCHANGED <<link, sock>>
        /\ DeviceExchange(sock[d], f, <<make_received_ack(f.cmd_id, f.attempt)>>)
        /\ job' = [job EXCEPT ![d] = [cmd_id |-> f.cmd_id, attempt |-> f.attempt]]
    BY <1>0, <1>3 DEF DeviceTakeCommand, DeviceExchange, Listening
  <2>2. f \in ToDevice /\ 1 \in DOMAIN down[sock[d]] /\ down[sock[d]][1] = f
    BY <2>1 DEF TransportTypeOK
  <2>3. f.cmd_id \in Cmd /\ f.attempt \in Nat /\ Flying(f.cmd_id, f.attempt)
    BY <2>1, <2>2, Fields DEF Flying, UnderWay, CommandAt
  <2>m. PICK m : m = make_received_ack(f.cmd_id, f.attempt)
    OBVIOUS
  <2>4. m \in ToController /\ m.msg_type = "RECEIVED_ACK" /\ m.cmd_id = f.cmd_id
    <3>1. m \in ToController
      BY <2>3, <2>m, FrameTypes
    <3> QED BY <2>m, <3>1 DEF make_received_ack
  <2>5. /\ \A k \in Conn \ {sock[d]} : up'[k] = up[k]
        /\ up'[sock[d]] = IF link[sock[d]] = "up" THEN Append(up[sock[d]], m) ELSE up[sock[d]]
    <3>1. up[sock[d]] \o <<m>> = Append(up[sock[d]], m)
      BY <1>0, <2>1, <2>4, ConcatOne
    <3>2. up' = IF link[sock[d]] = "up" THEN [up EXCEPT ![sock[d]] = @ \o <<m>>] ELSE up
      BY <2>1, <2>m DEF DeviceExchange
    <3> QED BY <2>1, <3>1, <3>2 DEF TransportTypeOK
  <2>6. \A k \in Conn : LineMoves(k)
    BY <1>0, <2>1, <2>3, <2>4, <2>5 DEF LineMoves, Arrives
  <2>7. job'[d].cmd_id = f.cmd_id /\ \A e \in Device \ {d} : job'[e] = job[e]
    BY <2>1 DEF DeviceTypeOK
  <2>8. \A e \in Device : HandsMove(e)
    <3>1. HandsMove(d)
      BY <2>1, <2>4, <2>5, <2>7 DEF HandsMove
    <3> QED BY <2>1, <2>7, <3>1 DEF HandsMove
  <2> QED BY <1>3, <2>1, <2>6, <2>8 DEF LineSteps, SocksOpen
<1>4. CASE DeviceDials(d)
  <2>1. /\ UNCHANGED <<link, up, job, sock>> /\ sock[d] = None
        /\ dialing' = [dialing EXCEPT ![d] = TRUE]
    BY <1>4 DEF DeviceDials, deviceVars, transportVars
  <2>2. SocksOpen'
    BY <1>0, <2>1 DEF SocksOpen
  <2> QED BY <1>0, <2>1, <2>2 DEF LineSteps, LineMoves, HandsMove
<1>5. ASSUME NEW c \in Conn, DeviceConnects(d, c) PROVE LineSteps
  <2>m. PICK m : m = make_auth(d, TRUE)
    OBVIOUS
  <2>1. m \in ToController /\ m.msg_type = "AUTH"
    BY <2>m, FrameTypes DEF make_auth
  <2>2. /\ dialing[d] /\ link[c] = "unused" /\ UNCHANGED job
        /\ link' = [link EXCEPT ![c] = "up"] /\ up' = [up EXCEPT ![c] = <<m>>]
        /\ sock' = [sock EXCEPT ![d] = c] /\ dialing' = [dialing EXCEPT ![d] = FALSE]
    BY <1>5, <2>m DEF DeviceConnects, Connect, Fresh
  <2>3. \A k \in Conn : LineMoves(k)
    BY <1>0, <2>1, <2>2 DEF LineMoves, Opens, TransportTypeOK
  <2>4. \A e \in Device : HandsMove(e)
    <3>1. sock[d] = None /\ job[d] = None
      <4>1. None \notin Conn
        BY NoneAssumption DEF Conn
      <4> QED BY <1>0, <2>2, <4>1
    <3> QED BY <2>2, <3>1 DEF HandsMove, DeviceTypeOK
  <2>5. SocksOpen'
    BY <1>0, <2>2 DEF SocksOpen, DeviceTypeOK, TransportTypeOK
  <2> QED BY <2>3, <2>4, <2>5 DEF LineSteps
<1>6. CASE DeviceLost(d) /\ UNCHANGED dialing
  <2>1. /\ sock[d] \in Conn /\ UNCHANGED up
        /\ \A k \in Conn : link'[k] = link[k] \/ (link[k] = "up" /\ link'[k] = "cut")
        /\ \A e \in Device : \/ job'[e] = job[e] /\ sock'[e] = sock[e]
                             \/ job'[e] = None /\ sock'[e] = None
    BY <1>6 DEF DeviceLost, Cut, DeviceTypeOK, TransportTypeOK
  <2>2. SocksOpen'
    <3> SUFFICES ASSUME NEW e \in Device, sock'[e] # None PROVE link'[sock'[e]] # "unused" /\ ~dialing'[e]
      BY DEF SocksOpen
    <3> QED BY <1>0, <1>6, <2>1
  <2> QED BY <1>0, <2>1, <2>2 DEF LineSteps, LineMoves, HandsMove
<1> QED BY <1>1, <1>2, <1>3, <1>4, <1>5, <1>6 DEF DeviceThread, DeviceWorks, DeviceComesAndGoes

LEMMA NextLineSteps == ASSUME TypeInv, FlightInv, SocksOpen, [Next]_vars PROVE LineSteps
<1>1. CASE UNCHANGED vars
  BY <1>1 DEF vars, controllerVars, transportVars, sessionVars, deviceVars, LineSteps, LineMoves,
              HandsMove, SocksOpen
<1> QED BY <1>1, DriverLines, AcceptLines, SessionThreadLines, DeviceLines DEF Next

-----------------------------------------------------------------------------
(* What a step does to the table. *)

\* Session c enters the ack of b, and samples it.
TakesAck(c, b) ==
  /\ up[c] # << >> /\ Head(up[c]).msg_type = "RECEIVED_ACK" /\ Head(up[c]).cmd_id = b
  /\ b \in Cmd /\ Tracked(b) /\ ~pending[b].received /\ Receive(b)
  /\ UNCHANGED <<holding, driver, issued, overrun, reports>>

\* Session c finds that b was executed, and holds its sample.
TakesStatus(c, b) ==
  /\ handler[c] = "status" /\ up[c] # << >> /\ IsStatusOf(c, 1, b)
  /\ b \in Cmd /\ Tracked(b) /\ ~pending[b].executed /\ SetExecuted(b)
  /\ holding[c] = None /\ holding' = [holding EXCEPT ![c] = b]
  /\ UNCHANGED <<samples, driver, issued, overrun, reports>>

\* Session c records the sample it holds.
PutsSample(c) ==
  /\ handler[c] = "status" /\ holding[c] # None /\ device_id[c] \in Device
  /\ record("execute", device_id[c], [cmd_id |-> holding[c], latency |-> 0])
  /\ holding' = [holding EXCEPT ![c] = None]
  /\ UNCHANGED <<pending, driver, issued, overrun, reports>>

\* Heartbeats are not about commands.
Idles ==
  /\ UNCHANGED <<pending, holding, driver, issued, overrun, reports>>
  /\ samples'["ack"] = samples["ack"] /\ samples'["execute"] = samples["execute"]

Works == \E c \in Conn : PutsSample(c) \/ \E b \in Cmd : TakesAck(c, b) \/ TakesStatus(c, b)

LEMMA SessionWorks ==
  ASSUME TypeInv, FlightInv, NEW c \in Conn, SessionThread(c) PROVE Idles \/ Works
<1> USE DEF TypeInv, TypeOK
<1>0. UNCHANGED <<driver, issued, overrun, reports>>
  BY DEF SessionThread, benchVars
<1>1. CASE SessionHeartbeatAck(c, 0) /\ UNCHANGED holding
  <2>1. samples'["ack"] = samples["ack"] /\ samples'["execute"] = samples["execute"]
    BY <1>1 DEF SessionHeartbeatAck, record, SamplesTypeOK, CHANNELS
  <2> QED BY <1>0, <1>1, <2>1 DEF SessionHeartbeatAck, Idles
<1>2. ASSUME NEW m \in NextLine(c), SessionReceivedAck(c, m), UNCHANGED holding
      PROVE  Idles \/ Works
  <2>1. /\ m.cmd_id \in Cmd /\ up[c] # << >> /\ m = Head(up[c]) /\ m.msg_type = "RECEIVED_ACK"
        /\ mark_received(m.cmd_id)
    BY <1>2, RecvTypes, Fields DEF SessionReceivedAck, RecvLine
  <2>2. CASE Tracked(m.cmd_id) /\ ~pending[m.cmd_id].received
    BY <1>0, <1>2, <2>1, <2>2 DEF mark_received, TakesAck, Works
  <2>3. CASE ~(Tracked(m.cmd_id) /\ ~pending[m.cmd_id].received)
    BY <1>0, <1>2, <2>1, <2>3 DEF mark_received, Idles
  <2> QED BY <2>2, <2>3
<1>3. ASSUME NEW m \in NextLine(c), SessionMarks(c, m) PROVE Works
  <2>1. /\ handler[c] = "status" /\ m.cmd_id \in Cmd /\ Tracked(m.cmd_id) /\ ~pending[m.cmd_id].executed
        /\ SetExecuted(m.cmd_id) /\ holding[c] = None /\ UNCHANGED samples
        /\ holding' = [holding EXCEPT ![c] = m.cmd_id]
    BY <1>3 DEF SessionMarks, Unexecuted, TrackedCmds
  <2>2. up[c] # << >> /\ m = Head(up[c]) /\ Head(up[c]).msg_type = "STATUS"
    BY <1>3, <2>1 DEF NextLine, FlightInv, StatusRead, StatusAtHead
  <2>3. up[c][1] = m
    BY <2>2 DEF TransportTypeOK
  <2> QED BY <1>0, <2>1, <2>2, <2>3 DEF TakesStatus, IsStatusOf, Works
<1>4. ASSUME NEW m \in NextLine(c), SessionRecords(c, m) PROVE Works
  <2>1. handler[c] = "status" /\ device_id[c] \in Device
    BY <1>4 DEF SessionRecords, Goto, SessionCoherent
  <2> QED BY <1>0, <1>4, <2>1 DEF SessionRecords, PutsSample, Works
<1>5. ASSUME NEW m \in NextLine(c), SessionPasses(c, m) PROVE Idles
  BY <1>0, <1>5 DEF SessionPasses, Idles
<1>6. CASE UNCHANGED <<pending, samples, holding>>
  BY <1>0, <1>6 DEF Idles
<1> QED BY <1>1, <1>2, <1>3, <1>4, <1>5, <1>6
        DEF SessionThread, SessionStep, SessionGarbage, SessionReject, SessionGreet, SessionTimeout,
            SessionHangup, SessionUnregister, SessionClose, SessionRefuse, SessionRegister,
            SessionStatus, SessionStatusDone, SessionIgnore, Goto

LEMMA NextWorks == ASSUME TypeInv, FlightInv, [Next]_vars PROVE Driver \/ Idles \/ Works
<1>1. ASSUME NEW c \in Conn, AcceptForever(c) PROVE Idles
  BY <1>1 DEF AcceptForever, Accept, Idles, benchVars
<1>2. ASSUME NEW d \in Device, DeviceThread(d) PROVE Idles
  BY <1>2 DEF DeviceThread, Idles, benchVars
<1>3. CASE UNCHANGED vars
  BY <1>3 DEF vars, controllerVars, Idles, benchVars
<1> QED BY <1>1, <1>2, <1>3, SessionWorks DEF Next

\* What the marks change.
LEMMA AckMarks ==
  ASSUME TypeInv, NEW c \in Conn, NEW b \in Cmd, TakesAck(c, b)
  PROVE  /\ \A e \in Cmd \ {b} : pending'[e] = pending[e]
         /\ Tracked(b)' /\ pending'[b].received /\ pending'[b].executed = pending[b].executed
<1>1. pending[b] \in Item /\ pending[b].retry_count \in Nat
  BY ItemTypes DEF TypeInv, TypeOK, TakesAck
<1>2. pending' = [pending EXCEPT ![b].received = TRUE, ![b].ack_latency = pending[b].retry_count]
  BY DEF TakesAck, Receive
<1>3. pending'[b] \in Item /\ pending'[b].received /\ pending'[b].executed = pending[b].executed
  BY <1>1, <1>2 DEF TypeInv, TypeOK, PendingTypeOK, Item
<1> QED BY <1>2, <1>3, NoneIsNoItem DEF TypeInv, TypeOK, PendingTypeOK, Tracked

LEMMA StatusMarks ==
  ASSUME TypeInv, NEW c \in Conn, NEW b \in Cmd, TakesStatus(c, b)
  PROVE  /\ \A e \in Cmd \ {b} : pending'[e] = pending[e]
         /\ Tracked(b)' /\ pending'[b].executed /\ pending'[b].received = pending[b].received
<1>1. pending[b] \in Item /\ pending[b].retry_count \in Nat
  BY ItemTypes DEF TypeInv, TypeOK, TakesStatus
<1>2. pending' = [pending EXCEPT ![b].executed = TRUE, ![b].expired = FALSE,
                                 ![b].execute_latency = pending[b].retry_count]
  BY DEF TakesStatus, SetExecuted
<1>3. pending'[b] \in Item /\ pending'[b].executed /\ pending'[b].received = pending[b].received
  BY <1>1, <1>2 DEF TypeInv, TypeOK, PendingTypeOK, Item
<1> QED BY <1>2, <1>3, NoneIsNoItem DEF TypeInv, TypeOK, PendingTypeOK, Tracked


\* What a step does to the marks of c.
MarksStay(c) ==
  \/ ~Tracked(c)'
  \/ /\ Tracked(c)
     /\ pending'[c].received = pending[c].received
     /\ pending'[c].executed = pending[c].executed

NewEntry(c) ==
  DriverMakes /\ c = issued + 1 /\ ~pending'[c].received /\ ~pending'[c].executed

MarksMove(c) ==
  \/ MarksStay(c)
  \/ NewEntry(c)
  \/ \E k \in Conn : TakesAck(k, c) /\ pending'[c].received
                     /\ pending'[c].executed = pending[c].executed
  \/ \E k \in Conn : TakesStatus(k, c) /\ pending'[c].executed
                     /\ pending'[c].received = pending[c].received

\* What the driver does to the tables.
DriverTables ==
  /\ UNCHANGED <<up, handler, holding>>
  /\ issued' = IF DriverMakes THEN issued + 1 ELSE issued
  /\ UNCHANGED samples \/ DriverClearsSamples

LEMMA DriverKeepsTables == ASSUME TypeInv, Driver PROVE DriverTables
<1>1. CASE DriverStops
  <2>1. PICK d \in Device : DeviceStops(d)
    BY <1>1 DEF DriverStops
  <2>2. UNCHANGED up
    BY <2>1 DEF DeviceStops, Cut, transportVars
  <2> QED BY <1>1, <2>2 DEF DriverTables, DriverStops, DriverMakes, sessionVars
<1>2. CASE DriverMakes
  BY <1>2 DEF DriverMakes, DriverTables, transportVars, sessionVars
<1>3. CASE ~DriverMakes
  BY <1>1, <1>3 DEF Driver, DriverWaitsForDevices, DriverCollects, DriverLooksUp, DriverSends,
     DriverFails, DriverWaits, DriverDrains, DriverReads, DriverClearsSamples, DriverClearsTable,
     DriverReturns, DriverClosesListener, SendOk, SendRaises, controllerVars, transportVars,
     sessionVars, DriverTables
<1> QED BY <1>2, <1>3

LEMMA DriverMarks == ASSUME TypeInv, Driver, NEW c \in Cmd PROVE MarksStay(c) \/ NewEntry(c)
<1> USE DEF TypeInv, TypeOK
<1>1. CASE UNCHANGED pending
  BY <1>1 DEF MarksStay, Tracked
<1>2. CASE DriverMakes
  <2>t. PICK t : t = Target
    OBVIOUS
  <2>1. pending' = [pending EXCEPT ![issued + 1] = NewItem(t)]
    BY <1>2, <2>t DEF DriverMakes, add_command
  <2>2. CASE c = issued + 1
    <3>1. pending'[c] = NewItem(t)
      BY <2>1, <2>2 DEF PendingTypeOK
    <3> QED BY <1>2, <2>2, <3>1 DEF NewEntry, NewItem
  <2>3. CASE c # issued + 1
    BY <2>1, <2>3 DEF MarksStay, Tracked, PendingTypeOK
  <2> QED BY <2>2, <2>3
<1>3. CASE DriverFails /\ Tracked(c)
  <2>1. pending[c] \in Item
    BY <1>3, ItemTypes
  <2>2. mark_failed(issued)
    BY <1>3 DEF DriverFails
  <2>3. CASE c = issued
    BY <1>3, <2>1, <2>2, <2>3 DEF mark_failed, MarksStay, PendingTypeOK, Item
  <2>4. CASE c # issued
    BY <1>3, <2>2, <2>4 DEF mark_failed, MarksStay, PendingTypeOK
  <2> QED BY <2>3, <2>4
<1>4. CASE DriverFails /\ ~Tracked(c)
  <2>1. mark_failed(issued)
    BY <1>4 DEF DriverFails
  <2>2. pending'[c] = pending[c]
    BY <1>4, <2>1 DEF mark_failed, PendingTypeOK, Tracked
  <2> QED BY <1>4, <2>2 DEF MarksStay, Tracked
<1>5. CASE DriverClearsTable
  BY <1>5 DEF DriverClearsTable, clear_pending, MarksStay, Tracked
<1> QED BY <1>1, <1>2, <1>3, <1>4, <1>5 DEF Driver, DriverWaitsForDevices, DriverCollects,
     DriverLooksUp, DriverSends, DriverWaits, DriverDrains, DriverReads, DriverClearsSamples,
     DriverReturns, DriverStops, DriverClosesListener, controllerVars

LEMMA NextMarks == ASSUME TypeInv, FlightInv, [Next]_vars, NEW c \in Cmd PROVE MarksMove(c)
<1>1. CASE UNCHANGED pending
  BY <1>1 DEF MarksMove, MarksStay, Tracked
<1>2. CASE Driver
  BY <1>2, DriverMarks DEF MarksMove
<1>3. ASSUME NEW k \in Conn, NEW b \in Cmd, TakesAck(k, b) PROVE MarksMove(c)
  <2>1. /\ \A e \in Cmd \ {b} : pending'[e] = pending[e]
        /\ pending'[b].received /\ pending'[b].executed = pending[b].executed
    BY <1>3, AckMarks
  <2>2. CASE c = b
    BY <1>3, <2>1, <2>2 DEF MarksMove
  <2>3. CASE c # b
    BY <2>1, <2>3 DEF MarksMove, MarksStay, Tracked
  <2> QED BY <2>2, <2>3
<1>4. ASSUME NEW k \in Conn, NEW b \in Cmd, TakesStatus(k, b) PROVE MarksMove(c)
  <2>1. /\ \A e \in Cmd \ {b} : pending'[e] = pending[e]
        /\ pending'[b].executed /\ pending'[b].received = pending[b].received
    BY <1>4, StatusMarks
  <2>2. CASE c = b
    BY <1>4, <2>1, <2>2 DEF MarksMove
  <2>3. CASE c # b
    BY <2>1, <2>3 DEF MarksMove, MarksStay, Tracked
  <2> QED BY <2>2, <2>3
<1> QED BY <1>1, <1>2, <1>3, <1>4, NextWorks DEF Idles, Works, PutsSample

\* The numbers of commands.
LEMMA IssuedNumbers ==
  ASSUME TypeInv, FlightInv, [Next]_vars
  PROVE  /\ issued \in Nat /\ issued' \in Nat /\ issued <= issued'
         /\ issued' = issued \/ (DriverMakes /\ issued' = issued + 1)
         /\ \A c \in 1 .. issued : c \in Cmd
<1>1. issued \in Nat /\ issued <= Warmup + Samples + Burst
  BY SizeNumbers DEF TypeInv, TypeOK
<1>2. issued' = issued \/ (DriverMakes /\ issued' = issued + 1)
  BY NextWorks, DriverKeepsTables DEF DriverTables, Idles, Works, PutsSample, TakesAck, TakesStatus
<1> QED BY <1>1, <1>2, SizeNumbers DEF Cmd

LEMMA AckedStays ==
  ASSUME TypeInv, FlightInv, [Next]_vars, NEW c \in Cmd, c <= issued, Acked(c) PROVE Acked(c)'
<1>1. c # issued + 1
  BY IssuedNumbers DEF Cmd
<1> QED BY <1>1, NextMarks DEF MarksMove, MarksStay, NewEntry, TakesAck, TakesStatus, Acked, Tracked
-----------------------------------------------------------------------------
(* The ack of a command goes before its STATUS. *)

\* It is entered, or among the first n - 1 frames of k.
AckBefore(k, n, c) == Acked(c) \/ \E j \in DOMAIN up[k] : j < n /\ IsAckOf(k, j, c)

AckFirst ==
  \A k \in Conn : handler[k] \in Live =>
    \A i \in DOMAIN up[k], c \in Cmd : IsStatusOf(k, i, c) => AckBefore(k, i, c)

JobAcked ==
  \A d \in Device : job[d] # None /\ link[sock[d]] = "up" /\ handler[sock[d]] \in Live =>
    AckBefore(sock[d], Len(up[sock[d]]) + 1, job[d].cmd_id)

ExecutedAcked == \A c \in TrackedCmds : pending[c].executed => pending[c].received

AckInv == SocksOpen /\ AckFirst /\ JobAcked /\ ExecutedAcked

\* An ack that goes before something still does when frames are read or come after it.
LEMMA AckStaysBefore ==
  ASSUME TypeInv, FlightInv, [Next]_vars, NEW k \in Conn, NEW c \in Cmd, c <= issued,
         NEW n \in Nat, NEW t \in {0, 1}, AckBefore(k, n + t, c), handler'[k] \in Live,
         \/ t = 0 /\ (up'[k] = up[k] \/ \E m \in ToController : up'[k] = Append(up[k], m))
         \/ t = 1 /\ ReadsUp(k)
  PROVE  AckBefore(k, n, c)'
<1>0. up[k] \in Seq(ToController)
  BY DEF TypeInv, TypeOK, TransportTypeOK
<1>1. CASE Acked(c)
  BY <1>1, AckedStays DEF AckBefore
<1>2. ASSUME NEW j \in DOMAIN up[k], j < n + t, IsAckOf(k, j, c) PROVE AckBefore(k, n, c)'
  <2>1. CASE t = 0
    <3>1. j \in DOMAIN up'[k] /\ up'[k][j] = up[k][j]
      BY <1>0, <2>1, AppendElements
    <3> QED BY <1>2, <2>1, <3>1 DEF AckBefore, IsAckOf
  <2>2. CASE t = 1 /\ j = 1
    <3>1. Head(up[k]).msg_type = "RECEIVED_ACK" /\ Head(up[k]).cmd_id = c
      BY <1>0, <1>2, <2>2 DEF IsAckOf
    <3>2. Acked(c)'
      BY <2>2, <3>1 DEF ReadsUp
    <3> QED BY <3>2 DEF AckBefore
  <2>3. CASE t = 1 /\ j # 1
    <3>1. up[k] # << >> /\ up'[k] = Tail(up[k])
      BY <2>3 DEF ReadsUp
    <3>2. j - 1 \in DOMAIN up'[k] /\ up'[k][j - 1] = up[k][j] /\ j - 1 < n
      BY <1>0, <1>2, <2>3, <3>1
    <3> QED BY <1>2, <3>2 DEF AckBefore, IsAckOf
  <2> QED BY <2>1, <2>2, <2>3
<1> QED BY <1>1, <1>2 DEF AckBefore

LEMMA AckFirstStep ==
  ASSUME TypeInv, FlightInv, AckInv, [Next]_vars, NEW k \in Conn, handler'[k] \in Live,
         NEW i \in DOMAIN up'[k], NEW c \in Cmd, IsStatusOf(k, i, c)'
  PROVE  AckBefore(k, i, c)'
<1>0. LineMoves(k) /\ handler[k] \in Live /\ up[k] \in Seq(ToController) /\ i \in Nat
  <2>1. LineMoves(k) /\ up[k] \in Seq(ToController)
    BY NextLineSteps DEF AckInv, LineSteps, TypeInv, TypeOK, TransportTypeOK
  <2>2. up'[k] \in Seq(ToController)
    BY BenchNextTypes DEF TypeInv, TypeOK, TransportTypeOK
  <2> QED BY <2>1, <2>2 DEF LineMoves
<1>1. up'[k][i].msg_type = "STATUS" /\ up'[k][i].cmd_id = c
  BY DEF IsStatusOf
<1>2. ASSUME NEW j \in DOMAIN up[k], up[k][j] = up'[k][i] PROVE AckBefore(k, j, c) /\ c <= issued
  <2>1. IsStatusOf(k, j, c)
    BY <1>1, <1>2 DEF IsStatusOf
  <2>2. Answered(c)
    BY <2>1 DEF IsStatusOf, Answered, StatusOf
  <2> QED BY <1>0, <2>1, <2>2 DEF AckInv, AckFirst, FlightInv, Flights
<1>3. CASE up'[k] = up[k]
  <2>1. AckBefore(k, i + 0, c) /\ c <= issued
    BY <1>0, <1>2, <1>3
  <2> QED BY <1>0, <1>3, <2>1, AckStaysBefore
<1>4. CASE ReadsUp(k)
  <2>1. i + 1 \in DOMAIN up[k] /\ up[k][i + 1] = up'[k][i]
    BY <1>0, <1>4, TailElements DEF ReadsUp
  <2>2. AckBefore(k, i + 1, c) /\ c <= issued
    BY <1>2, <2>1
  <2> QED BY <1>0, <1>4, <2>2, AckStaysBefore
<1>5. CASE Opens(k)
  BY <1>1, <1>5 DEF Opens
<1>6. CASE Arrives(k)
  <2>1. PICK m \in ToController :
          /\ up'[k] = Append(up[k], m)
          /\ m.msg_type = "STATUS" =>
               \E d \in Device : job[d] # None /\ sock[d] = k /\ m.cmd_id = job[d].cmd_id
    BY <1>6 DEF Arrives
  <2>2. CASE i \in DOMAIN up[k]
    <3>1. up[k][i] = up'[k][i]
      BY <1>0, <2>1, <2>2, AppendElements
    <3>2. AckBefore(k, i + 0, c) /\ c <= issued
      BY <1>0, <1>2, <2>2, <3>1
    <3> QED BY <1>0, <2>1, <3>2, AckStaysBefore
  <2>3. CASE i = Len(up[k]) + 1
    <3>1. up'[k][i] = m
      BY <1>0, <2>1, <2>3, AppendElements
    <3>2. PICK d \in Device : job[d] # None /\ sock[d] = k /\ c = job[d].cmd_id
      BY <1>1, <2>1, <3>1
    <3>3. AckBefore(k, i + 0, c)
      BY <1>0, <1>6, <2>3, <3>2 DEF AckInv, JobAcked, Arrives
    <3>4. c <= issued
      <4>1. Flying(c, job[d].attempt)
        BY <3>2 DEF Flying, UnderWay
      <4> QED BY <4>1 DEF FlightInv, Flights
    <3> QED BY <1>0, <2>1, <3>3, <3>4, AckStaysBefore
  <2> QED BY <1>0, <2>1, <2>2, <2>3, AppendElements
<1> QED BY <1>0, <1>3, <1>4, <1>5, <1>6 DEF LineMoves, Drops

LEMMA JobAckedStep ==
  ASSUME TypeInv, FlightInv, AckInv, [Next]_vars, NEW d \in Device, NEW k, NEW c,
         job'[d] # None, k = sock'[d], c = job'[d].cmd_id, link'[k] = "up", handler'[k] \in Live
  PROVE  AckBefore(k, Len(up[k]) + 1, c)'
<1>0. /\ k \in Conn /\ c \in Cmd /\ LineMoves(k) /\ HandsMove(d) /\ up[k] \in Seq(ToController)
      /\ up'[k] \in Seq(ToController)
  <2>1. k \in Conn /\ c \in Cmd /\ up'[k] \in Seq(ToController)
    BY BenchNextTypes DEF TypeInv, TypeOK, TransportTypeOK, DeviceCoherent, DeviceTypeOK
  <2> QED BY <2>1, NextLineSteps DEF AckInv, LineSteps, TypeInv, TypeOK, TransportTypeOK
<1>n. PICK n \in Nat : n = Len(up'[k]) + 1
  BY <1>0
<1>l. handler[k] \in Live /\ link[k] \in {"up", "unused"}
  BY <1>0 DEF LineMoves
<1>1. CASE job'[d] = job[d] /\ sock'[d] = sock[d]
  <2>1. link[k] = "up"
    <3>1. k # None
      BY <1>0, NoneAssumption DEF Conn
    <3> QED BY <1>1, <1>l, <3>1 DEF AckInv, SocksOpen
  <2>2. AckBefore(k, Len(up[k]) + 1, c)
    BY <1>1, <1>l, <2>1 DEF AckInv, JobAcked
  <2>3. c <= issued
    <3>1. Flying(c, job[d].attempt)
      BY <1>1 DEF Flying, UnderWay
    <3> QED BY <3>1 DEF FlightInv, Flights
  <2>4. CASE up'[k] = up[k]
    <3>1. AckBefore(k, n + 0, c)
      BY <1>n, <2>2, <2>4
    <3> QED BY <1>0, <1>n, <2>3, <2>4, <3>1, AckStaysBefore
  <2>5. CASE ReadsUp(k)
    <3>1. Len(up'[k]) = Len(up[k]) - 1
      BY <1>0, <2>5, TailElements DEF ReadsUp
    <3>2. AckBefore(k, n + 1, c)
      <4>1. n + 1 = Len(up[k]) + 1
        BY <1>0, <1>n, <3>1
      <4> QED BY <2>2, <4>1
    <3> QED BY <1>0, <1>n, <2>3, <2>5, <3>2, AckStaysBefore
  <2>6. CASE Arrives(k)
    <3>1. PICK m \in ToController : up'[k] = Append(up[k], m)
      BY <2>6 DEF Arrives
    <3>2. AckBefore(k, n + 0, c)
      <4>1. Len(up[k]) + 1 < n /\ Len(up[k]) \in Nat
        BY <1>0, <1>n, <3>1
      <4> QED BY <1>0, <2>2, <4>1 DEF AckBefore
    <3> QED BY <1>0, <1>n, <2>3, <3>1, <3>2, AckStaysBefore
  <2> QED BY <1>0, <2>1, <2>4, <2>5, <2>6 DEF LineMoves, Drops, Opens
<1>2. ASSUME NEW m \in ToController, m.msg_type = "RECEIVED_ACK", m.cmd_id = c,
             up'[k] = Append(up[k], m)
      PROVE  AckBefore(k, Len(up[k]) + 1, c)'
  <2>1. PICK j : j = Len(up[k]) + 1
    OBVIOUS
  <2>2. j \in DOMAIN up'[k] /\ up'[k][j] = m /\ j < Len(up'[k]) + 1
    BY <1>0, <1>2, <2>1
  <2> QED BY <1>2, <2>2 DEF AckBefore, IsAckOf
<1>3. CASE sock[d] \in Conn /\ sock'[d] = sock[d]
  <2>1. link[k] = "up"
    <3>1. k # None
      BY <1>0, NoneAssumption DEF Conn
    <3> QED BY <1>3, <1>l, <3>1 DEF AckInv, SocksOpen
  <2> QED BY <1>0, <1>1, <1>2, <1>3, <2>1 DEF HandsMove
<1> QED BY <1>0, <1>1, <1>3 DEF HandsMove

LEMMA ExecutedAckedStep ==
  ASSUME TypeInv, FlightInv, AckInv, [Next]_vars, NEW c \in Cmd, Tracked(c)', pending'[c].executed
  PROVE  pending'[c].received
<1>1. CASE MarksStay(c)
  BY <1>1 DEF MarksStay, AckInv, ExecutedAcked, TrackedCmds
<1>2. ASSUME NEW k \in Conn, TakesStatus(k, c), pending'[c].received = pending[c].received
      PROVE  pending'[c].received
  <2>1. handler[k] \in Live /\ 1 \in DOMAIN up[k] /\ IsStatusOf(k, 1, c)
    BY <1>2 DEF TakesStatus, Live, TypeInv, TypeOK, TransportTypeOK
  <2>2. AckBefore(k, 1, c)
    BY <2>1 DEF AckInv, AckFirst
  <2>3. \A j \in DOMAIN up[k] : ~(j < 1)
    BY DEF TypeInv, TypeOK, TransportTypeOK
  <2> QED BY <1>2, <2>2, <2>3 DEF AckBefore, Acked, TakesStatus
<1> QED BY <1>1, <1>2, NextMarks DEF MarksMove, NewEntry, TakesAck

LEMMA NextAcks == TypeInv /\ FlightInv /\ AckInv /\ [Next]_vars => AckInv'
<1> SUFFICES ASSUME TypeInv, FlightInv, AckInv, [Next]_vars PROVE AckInv'
  OBVIOUS
<1>1. SocksOpen'
  BY NextLineSteps DEF AckInv, LineSteps
<1>2. AckFirst'
  BY AckFirstStep DEF AckFirst
<1>3. JobAcked'
  <2> SUFFICES ASSUME NEW d \in Device, job'[d] # None, link'[sock'[d]] = "up",
                      handler'[sock'[d]] \in Live
               PROVE  AckBefore(sock[d], Len(up[sock[d]]) + 1, job[d].cmd_id)'
    BY DEF JobAcked
  <2>1. PICK k, c : k = sock'[d] /\ c = job'[d].cmd_id
    OBVIOUS
  <2>2. AckBefore(k, Len(up[k]) + 1, c)'
    BY <2>1, JobAckedStep
  <2> QED BY <2>1, <2>2 DEF AckBefore, IsAckOf, Acked, Tracked
<1>4. ExecutedAcked'
  BY ExecutedAckedStep DEF ExecutedAcked, TrackedCmds
<1> QED BY <1>1, <1>2, <1>3, <1>4 DEF AckInv

-----------------------------------------------------------------------------
(* The rings of a channel. *)

\* All that is sampled is in S, and once.
OnceFrom(S, s) ==
  /\ \A i \in DOMAIN s : s[i].cmd_id \in S
  /\ \A i, j \in DOMAIN s : i # j => s[i].cmd_id # s[j].cmd_id

LEMMA OncePushed ==
  ASSUME NEW S, NEW s \in Seq(Sample), NEW x \in Sample, OnceFrom(S, s), x.cmd_id \notin S
  PROVE  OnceFrom(S \cup {x.cmd_id}, PushRing(s, x))
<1> DEFINE r == PushRing(s, x)
<1>1. PICK t \in {0, 1} : \A i \in DOMAIN r :
        \/ i \in Nat /\ i + t \in DOMAIN s /\ r[i] = s[i + t]
        \/ i \in Nat /\ i + t = Len(s) + 1 /\ r[i] = x
  BY PushElements
<1> HIDE DEF r
<1>2. \A i \in DOMAIN r : r[i].cmd_id \in S \cup {x.cmd_id}
  BY <1>1 DEF OnceFrom
<1>3. ASSUME NEW i \in DOMAIN r, NEW j \in DOMAIN r, i # j PROVE r[i].cmd_id # r[j].cmd_id
  <2>1. i \in Nat /\ j \in Nat /\ i + t # j + t
    BY <1>1, <1>3
  <2>2. CASE i + t \in DOMAIN s /\ r[i] = s[i + t]
    BY <1>1, <2>1, <2>2 DEF OnceFrom
  <2>3. CASE i + t = Len(s) + 1 /\ r[i] = x
    BY <1>1, <2>1, <2>3 DEF OnceFrom
  <2> QED BY <1>1, <2>2, <2>3
<1> QED BY <1>2, <1>3 DEF r, OnceFrom

\* A full ring has samples of as many commands.
LEMMA FullNames ==
  ASSUME NEW T, IsFiniteSet(T), NEW s \in Seq(Sample), OnceFrom(T, s), Len(s) >= MAX_SAMPLES
  PROVE  Cardinality(T) >= MAX_SAMPLES
<1>1. PICK n \in Nat : n = Len(s) /\ DOMAIN s = 1 .. n
  OBVIOUS
<1> DEFINE f == [i \in 1 .. n |-> s[i].cmd_id]
<1>2. f \in Injection(1 .. n, T)
  BY <1>1 DEF OnceFrom, Injection, IsInjective
<1>3. Cardinality(1 .. n) <= Cardinality(T) /\ Cardinality(T) \in Nat
  BY <1>2, FS_Injection, FS_CardinalityType
<1>4. Cardinality(1 .. n) = n
  <2>1. Cardinality(1 .. n) = IF 1 > n THEN 0 ELSE n - 1 + 1
    BY FS_Interval
  <2> QED BY <2>1
<1> QED BY <1>1, <1>3, <1>4, MaxSamplesAssumption

\* The commands of the samples of a channel.
Names(rings) == {x.cmd_id : x \in UNION {ToSet(rings[d]) : d \in Device}}

LEMMA NamesAre ==
  ASSUME NEW rings, NEW c
  PROVE  c \in Names(rings) <=> \E d \in Device : \E i \in DOMAIN rings[d] : rings[d][i].cmd_id = c
BY DEF Names, ToSet

LEMMA SampledNames ==
  ASSUME NEW channel PROVE Sampled(channel) = Names(samples[channel])
                           /\ Sampled(channel)' = Names(samples'[channel])
BY DEF Sampled, Names

LEMMA NoNames == ASSUME NEW rings, \A d \in Device : rings[d] = << >> PROVE Names(rings) = {}
BY NamesAre

LEMMA NamesPushed ==
  ASSUME NEW rings \in [Device -> Seq(Sample)], NEW d \in Device, NEW x \in Sample,
         Len(rings[d]) < MAX_SAMPLES,
         NEW new, new = [rings EXCEPT ![d] = PushRing(rings[d], x)]
  PROVE  Names(new) = Names(rings) \cup {x.cmd_id}
<1>1. /\ new[d] = Append(rings[d], x) /\ \A e \in Device \ {d} : new[e] = rings[e]
      /\ rings[d] \in Seq(Sample)
  BY DEF PushRing
<1>2. /\ DOMAIN new[d] = DOMAIN rings[d] \cup {Len(rings[d]) + 1}
      /\ \A i \in DOMAIN rings[d] : new[d][i] = rings[d][i]
      /\ new[d][Len(rings[d]) + 1] = x
  BY <1>1, AppendElements
<1>3. ASSUME NEW c, c \in Names(new) PROVE c \in Names(rings) \cup {x.cmd_id}
  <2>1. PICK e \in Device : \E i \in DOMAIN new[e] : new[e][i].cmd_id = c
    BY ONLY <1>3, NamesAre
  <2>2. PICK i \in DOMAIN new[e] : new[e][i].cmd_id = c
    BY <2>1
  <2>3. CASE e = d /\ i = Len(rings[d]) + 1
    BY <1>2, <2>2, <2>3
  <2>4. CASE ~(e = d /\ i = Len(rings[d]) + 1)
    <3>1. i \in DOMAIN rings[e] /\ rings[e][i].cmd_id = c
      BY <1>1, <1>2, <2>2, <2>4
    <3> QED BY <3>1, NamesAre
  <2> QED BY <2>3, <2>4
<1>4. ASSUME NEW c, c \in Names(rings) PROVE c \in Names(new)
  <2>1. PICK e \in Device : \E i \in DOMAIN rings[e] : rings[e][i].cmd_id = c
    BY <1>4, NamesAre
  <2>2. PICK i \in DOMAIN rings[e] : rings[e][i].cmd_id = c
    BY <2>1
  <2>3. i \in DOMAIN new[e] /\ new[e][i].cmd_id = c
    BY <1>1, <1>2, <2>2
  <2> QED BY <2>3, NamesAre
<1>5. x.cmd_id \in Names(new)
  BY <1>2, NamesAre
<1> QED BY <1>3, <1>4, <1>5

LEMMA NamesFromPush ==
  ASSUME NEW rings, NEW new, NEW d \in Device, NEW x \in Sample, rings[d] \in Seq(Sample),
         new[d] = PushRing(rings[d], x), \A e \in Device \ {d} : new[e] = rings[e]
  PROVE  Names(new) \subseteq Names(rings) \cup {x.cmd_id}
<1>1. \A i \in DOMAIN new[d] : new[d][i] = x \/ \E j \in DOMAIN rings[d] : new[d][i] = rings[d][j]
  <2>1. PICK s \in Seq(Sample) : s = rings[d]
    OBVIOUS
  <2>2. \A i \in DOMAIN PushRing(s, x) :
          PushRing(s, x)[i] = x \/ \E j \in DOMAIN s : PushRing(s, x)[i] = s[j]
    BY PushElements
  <2> QED BY <2>1, <2>2
<1>2. ASSUME NEW c, c \in Names(new), c # x.cmd_id PROVE c \in Names(rings)
  <2>1. PICK e \in Device : \E i \in DOMAIN new[e] : new[e][i].cmd_id = c
    BY ONLY <1>2, NamesAre
  <2>2. \E j \in DOMAIN rings[e] : rings[e][j].cmd_id = c
    BY <1>1, <1>2, <2>1
  <2> QED BY ONLY <2>2, NamesAre
<1> QED BY <1>2

LEMMA PushKeepsFull ==
  ASSUME NEW s \in Seq(Sample), NEW x \in Sample, Len(s) >= MAX_SAMPLES
  PROVE  Len(PushRing(s, x)) >= MAX_SAMPLES
<1>1. s # << >> /\ ~(Len(s) < MAX_SAMPLES) /\ Len(s) \in Nat
  BY MaxSamplesAssumption
<1>2. Tail(s) \in Seq(Sample) /\ Len(Tail(s)) = Len(s) - 1
  BY <1>1
<1>3. Len(Append(Tail(s), x)) = Len(s)
  BY <1>1, <1>2
<1> QED BY <1>1, <1>3 DEF PushRing

\* record() adds to one ring of its channel.
LEMMA RecordRings ==
  ASSUME TypeInv, NEW channel \in {"ack", "execute"}, NEW d \in Device, NEW x \in Sample,
         record(channel, d, x)
  PROVE  /\ samples[channel] \in [Device -> Seq(Sample)]
         /\ samples'[channel] = [samples[channel] EXCEPT ![d] = PushRing(samples[channel][d], x)]
         /\ \A e \in Device \ {d} : samples'[channel][e] = samples[channel][e]
         /\ samples'[channel][d] = PushRing(samples[channel][d], x)
         /\ \A other \in {"ack", "execute"} \ {channel} : samples'[other] = samples[other]
<1>1. samples \in [CHANNELS -> [Device -> Seq(Sample)]] /\ {"ack", "execute"} \subseteq CHANNELS
  BY DEF TypeInv, TypeOK, SamplesTypeOK, CHANNELS
<1>2. samples' = [samples EXCEPT ![channel] =
                      [samples[channel] EXCEPT ![d] = PushRing(samples[channel][d], x)]]
  BY DEF record
<1> QED BY <1>1, <1>2

\* The name of its sample is added, and nothing is lost but from a full ring, which
\* stays full.
LEMMA RecordNames ==
  ASSUME TypeInv, NEW channel \in {"ack", "execute"}, NEW d \in Device, NEW x \in Sample,
         record(channel, d, x)
  PROVE  /\ Sampled(channel)' \subseteq Sampled(channel) \cup {x.cmd_id}
         /\ RingFull(channel)' \/ Sampled(channel)' = Sampled(channel) \cup {x.cmd_id}
         /\ RingFull(channel) => RingFull(channel)'
<1>0. d \in Device /\ x \in Sample
  OBVIOUS
<1>1. PICK rings, new : rings = samples[channel] /\ new = samples'[channel]
  OBVIOUS
<1>2. /\ rings \in [Device -> Seq(Sample)]
      /\ new = [rings EXCEPT ![d] = PushRing(rings[d], x)]
      /\ new[d] = PushRing(rings[d], x) /\ \A e \in Device \ {d} : new[e] = rings[e]
  BY <1>1, RecordRings
<1>3. rings \in [Device -> Seq(Sample)]
  BY <1>2
<1>4. new = [rings EXCEPT ![d] = PushRing(rings[d], x)]
  BY <1>2
<1>5. Names(new) \subseteq Names(rings) \cup {x.cmd_id}
  <2>1. rings[d] \in Seq(Sample)
    BY <1>3
  <2>2. new[d] = PushRing(rings[d], x)
    BY <1>2
  <2>3. \A e \in Device \ {d} : new[e] = rings[e]
    BY <1>2
  <2> QED BY ONLY <1>0, <2>1, <2>2, <2>3, NamesFromPush
<1>6. CASE Len(rings[d]) < MAX_SAMPLES
  <2>1. Names(new) = Names(rings) \cup {x.cmd_id}
    BY ONLY <1>0, <1>3, <1>4, <1>6, NamesPushed
  <2>2. RingFull(channel) => RingFull(channel)'
    BY <1>1, <1>2, <1>6, MaxSamplesAssumption DEF RingFull
  <2> QED BY <1>1, <1>5, <2>1, <2>2, SampledNames
<1>7. CASE ~(Len(rings[d]) < MAX_SAMPLES)
  <2>1. Len(rings[d]) >= MAX_SAMPLES /\ rings[d] \in Seq(Sample)
    BY <1>2, <1>7, MaxSamplesAssumption
  <2>2. Len(new[d]) >= MAX_SAMPLES
    BY <1>2, <2>1, PushKeepsFull
  <2> QED BY <1>1, <1>5, <2>2, SampledNames DEF RingFull
<1> QED BY <1>6, <1>7

-----------------------------------------------------------------------------
(* What the driver did not send leaves no traces. *)

AckOnWire(c) == \E k \in Conn : \E i \in DOMAIN up[k] : IsAckOf(k, i, c)

Traces(c) == (\E n : Flying(c, n)) \/ AckOnWire(c) \/ pending[c].received

AcksIssued == \A c \in Cmd : AckOnWire(c) => c <= issued

\* The driver keeps its lists to its end.
TracesSent ==
  driver.at \notin {"stop", "done"} => \A c \in TrackedCmds : Traces(c) => c \in driver.sent

SentInv == AcksIssued /\ TracesSent

\* The driver goes round its loop.
LEMMA RoundGoes ==
  ASSUME TypeInv, driver.at \in Rounds, NEW sent, NEW completed, Round(sent, completed)
  PROVE  /\ driver'.i = driver.i + 1 /\ driver'.phase = driver.phase
         /\ driver'.sent = sent /\ driver'.completed = completed /\ driver'.ack = driver.ack
         /\ driver'.at \in {"look", "clear_lm", "ack_stats", "drain"}
         /\ driver'.at = "clear_lm" => driver.phase = "warmup"
         /\ driver'.at = "ack_stats" => driver.phase = "closed"
         /\ driver'.at = "drain" => driver.phase = "open"
<1>1. driver.phase \in Phases
  BY DEF TypeInv, TypeOK
<1>2. /\ driver'.i = driver.i + 1 /\ driver'.phase = driver.phase
      /\ driver'.sent = sent /\ driver'.completed = completed /\ driver'.ack = driver.ack
      /\ driver'.at = From(driver.phase, driver.i + 1)
  BY DEF Round, TypeInv, TypeOK
<1> QED BY <1>1, <1>2 DEF From, Phases

LEMMA SendsFlying ==
  ASSUME TypeInv, DriverSends
  PROVE  \/ \A c, n : Flying(c, n)' => Flying(c, n)
         \/ /\ \A c, n : Flying(c, n)' => Flying(c, n) \/ c = issued
            /\ driver'.sent = driver.sent \cup {issued}
<1> USE DEF TypeInv, TypeOK
<1>0. driver.at = "send" /\ driver.conn \in Conn /\ UNCHANGED job
  BY DEF DriverSends, DriverCoherent, deviceVars
<1>1. CASE UNCHANGED down
  BY <1>0, <1>1 DEF Flying, UnderWay, CommandAt
<1>2. ASSUME NEW m, m = make_command(Target, issued, 0), down' = [down EXCEPT ![driver.conn] = Append(@, m)],
             driver'.sent = driver.sent \cup {issued}
      PROVE  \A c, n : Flying(c, n)' => Flying(c, n) \/ c = issued
  <2> SUFFICES ASSUME NEW c, NEW n, Flying(c, n)' PROVE Flying(c, n) \/ c = issued
    OBVIOUS
  <2>1. m.cmd_id = issued
    BY <1>2 DEF make_command
  <2>2. CASE \E d \in Device : job'[d] # None /\ job'[d].cmd_id = c /\ job'[d].attempt = n
    BY <1>0, <2>2 DEF Flying, UnderWay
  <2>3. ASSUME NEW k \in Conn, NEW i \in DOMAIN down'[k], CommandAt(down', k, i),
               down'[k][i].cmd_id = c, down'[k][i].attempt = n
        PROVE  Flying(c, n) \/ c = issued
    <3>1. /\ \A l \in Conn : down[l] \in Seq(ToDevice)
          /\ down'[k] = IF k = driver.conn THEN Append(down[k], m) ELSE down[k]
      BY <1>2 DEF TransportTypeOK
    <3>2. (i \in DOMAIN down[k] /\ down'[k][i] = down[k][i]) \/ down'[k][i] = m
      BY <3>1
    <3> QED BY <2>1, <2>3, <3>2 DEF Flying, UnderWay, CommandAt
  <2> QED BY <2>2, <2>3 DEF Flying, UnderWay
<1>3. CASE SendRaises(driver.conn)
  BY <1>1, <1>3 DEF SendRaises, transportVars
<1>4. CASE SendOk(driver.conn, make_command(Target, issued, 0)) /\ driver'.sent = driver.sent \cup {issued}
  BY <1>1, <1>2, <1>4 DEF SendOk
<1>5. Round(driver.sent \cup {issued}, {}) => driver'.sent = driver.sent \cup {issued}
  BY <1>0, RoundGoes DEF Rounds
<1> QED BY <1>3, <1>4, <1>5 DEF DriverSends

LEMMA NextFlying ==
  ASSUME TypeInv, FlightInv, [Next]_vars
  PROVE  \/ NoNewFlights
         \/ /\ \A c, n : Flying(c, n)' => Flying(c, n) \/ c = issued
            /\ Driver /\ driver'.sent = driver.sent \cup {issued}
<1>1. CASE DriverElse
  BY <1>1, ElseLoses DEF OnlyLoses, NoNewFlights
<1>2. CASE DriverMakes \/ DriverFails \/ DriverWaits \/ UNCHANGED vars
  BY <1>2 DEF DriverMakes, DriverFails, DriverWaits, controllerVars, transportVars, deviceVars, vars,
              NoNewFlights, Flying, UnderWay, CommandAt
<1>3. CASE DriverSends
  BY <1>3, SendsFlying DEF NoNewFlights, Driver
<1> QED BY <1>1, <1>2, <1>3, AcceptFlights, SessionThreadFlights, DeviceThreadFlights
        DEF Next, Driver, DriverElse

LEMMA NextOnWire ==
  ASSUME TypeInv, FlightInv, SocksOpen, [Next]_vars, NEW c, AckOnWire(c)'
  PROVE  AckOnWire(c) \/ \E n : Flying(c, n)
<1>1. PICK k \in Conn : \E i \in DOMAIN up'[k] : IsAckOf(k, i, c)'
  BY DEF AckOnWire
<1>2. PICK i \in DOMAIN up'[k] : up'[k][i].msg_type = "RECEIVED_ACK" /\ up'[k][i].cmd_id = c
  BY <1>1 DEF IsAckOf
<1>3. LineMoves(k) /\ up[k] \in Seq(ToController)
  BY NextLineSteps DEF LineSteps, TypeInv, TypeOK, TransportTypeOK
<1>4. ASSUME NEW j \in DOMAIN up[k], up[k][j] = up'[k][i] PROVE AckOnWire(c)
  BY <1>2, <1>4 DEF AckOnWire, IsAckOf
<1>5. CASE ReadsUp(k)
  BY <1>2, <1>3, <1>4, <1>5, TailElements DEF ReadsUp
<1>6. CASE Arrives(k)
  <2>1. PICK m \in ToController :
          up'[k] = Append(up[k], m) /\ (m.msg_type = "RECEIVED_ACK" => \E n : Flying(m.cmd_id, n))
    BY <1>6 DEF Arrives
  <2>2. CASE up'[k][i] = m
    BY <1>2, <2>1, <2>2
  <2>3. CASE i \in DOMAIN up[k] /\ up'[k][i] = up[k][i]
    BY <1>4, <2>3
  <2> QED BY <1>2, <1>3, <2>1, <2>2, <2>3, AppendElements
<1>7. CASE Opens(k)
  BY <1>2, <1>7 DEF Opens
<1> QED BY <1>2, <1>3, <1>4, <1>5, <1>6, <1>7 DEF LineMoves, Drops

LEMMA AcksIssuedStep ==
  ASSUME TypeInv, FlightInv, SocksOpen, AcksIssued, [Next]_vars PROVE AcksIssued'
<1> SUFFICES ASSUME NEW c \in Cmd, AckOnWire(c)' PROVE c <= issued'
  BY DEF AcksIssued
<1>1. c <= issued
  BY NextOnWire DEF AcksIssued, FlightInv, Flights
<1> QED BY <1>1, IssuedNumbers DEF Cmd

\* An entry with traces had them, or its command is being sent.
LEMMA TracesMove ==
  ASSUME TypeInv, FlightInv, SocksOpen, AcksIssued, [Next]_vars,
         NEW c \in Cmd, Tracked(c)', Traces(c)'
  PROVE  \/ Tracked(c) /\ Traces(c)
         \/ c = issued /\ Driver /\ driver'.sent = driver.sent \cup {issued}
<1>1. \/ \E n : Flying(c, n)
      \/ c = issued /\ Driver /\ driver'.sent = driver.sent \cup {issued}
      \/ AckOnWire(c)
      \/ pending'[c].received
  BY NextFlying, NextOnWire DEF Traces, NoNewFlights
<1>2. CASE MarksStay(c)
  BY <1>1, <1>2 DEF MarksStay, Traces
<1>3. CASE NewEntry(c)
  <2>1. issued' = issued + 1 /\ issued \in Nat /\ driver'.at = "send" /\ UNCHANGED up
    BY <1>3, DriverKeepsTables
       DEF NewEntry, DriverMakes, Goes, TypeInv, TypeOK, Driver, transportVars, IssuedInTime
  <2>2. ~Flying(c, 0)' /\ \A n : Flying(c, n)' => n = 0
    <3>1. FlightInv'
      BY NextFlights
    <3>2. c = issued'
      BY <1>3, <2>1 DEF NewEntry
    <3>3. ~Flying(issued, 0)' /\ \A b, n : Flying(b, n)' => n = 0
      BY <2>1, <3>1 DEF FlightInv, Flights
    <3> QED BY <3>2, <3>3 DEF Flying
  <2>3. ~AckOnWire(c)'
    <3>1. AckOnWire(c)' = AckOnWire(c)
      BY <2>1 DEF AckOnWire, IsAckOf
    <3> QED BY <1>3, <2>1, <3>1 DEF AcksIssued, NewEntry, Cmd
  <2> QED BY <1>3, <2>2, <2>3 DEF NewEntry, Traces
<1>4. ASSUME NEW k \in Conn, TakesAck(k, c) PROVE Tracked(c) /\ Traces(c)
  <2>1. 1 \in DOMAIN up[k] /\ IsAckOf(k, 1, c)
    BY <1>4 DEF TakesAck, IsAckOf, TypeInv, TypeOK, TransportTypeOK
  <2> QED BY <1>4, <2>1 DEF TakesAck, Traces, AckOnWire
<1>5. ASSUME NEW k \in Conn, TakesStatus(k, c), pending'[c].received = pending[c].received
      PROVE  Tracked(c) /\ (Traces(c) \/ (c = issued /\ Driver /\ driver'.sent = driver.sent \cup {issued}))
  BY <1>1, <1>5 DEF TakesStatus, Traces
<1> QED BY <1>2, <1>3, <1>4, <1>5, NextMarks DEF MarksMove

\* What was sent stays so until the table is cleared or the driver is done.
LEMMA SentStays ==
  ASSUME TypeInv, Driver
  PROVE  \/ /\ driver.sent \subseteq driver'.sent
            /\ driver.at \in {"stop", "done"} => driver'.at \in {"stop", "done"}
         \/ DriverClearsTable
         \/ driver'.at = "stop"
<1> USE DEF TypeInv, TypeOK
<1>1. CASE DriverLooksUp \/ DriverFails \/ DriverWaits
  <2>1. driver.at \in Rounds \ {"stop", "done"}
    BY <1>1 DEF DriverLooksUp, DriverFails, DriverWaits, Rounds
  <2> QED BY <1>1, <2>1, RoundGoes DEF DriverLooksUp, DriverFails, DriverWaits
<1>2. CASE DriverSends
  <2>1. driver.at \in Rounds \ {"stop", "done"}
    BY <1>2 DEF DriverSends, Rounds
  <2>2. CASE Round(driver.sent \cup {issued}, {})
    BY <2>1, <2>2, RoundGoes
  <2>3. CASE driver' = [driver EXCEPT !.at = "wait", !.sent = @ \cup {issued}]
    BY <2>1, <2>3
  <2>4. CASE Goes("fail")
    BY <2>1, <2>4 DEF Goes
  <2> QED BY <1>2, <2>2, <2>3, <2>4 DEF DriverSends
<1> QED BY <1>1, <1>2 DEF Driver, DriverWaitsForDevices, DriverCollects, DriverMakes, DriverDrains,
        DriverReads, DriverClearsSamples, DriverReturns, DriverStops, DriverClosesListener, Goes, Start

LEMMA TracesSentStep ==
  ASSUME TypeInv, FlightInv, SocksOpen, SentInv, [Next]_vars PROVE TracesSent'
<1> SUFFICES ASSUME driver'.at \notin {"stop", "done"}, NEW c \in Cmd, Tracked(c)', Traces(c)'
             PROVE  c \in driver'.sent
  BY DEF TracesSent, TrackedCmds
<1>1. \/ Tracked(c) /\ Traces(c)
      \/ c = issued /\ Driver /\ driver'.sent = driver.sent \cup {issued}
  BY TracesMove DEF SentInv
<1>2. CASE ~Driver
  <2>1. driver' = driver
    BY <1>2, NextWorks DEF Idles, Works, PutsSample, TakesAck, TakesStatus
  <2> QED BY <1>1, <1>2, <2>1 DEF SentInv, TracesSent, TrackedCmds
<1>3. CASE Driver /\ Tracked(c) /\ Traces(c)
  <2>1. ~DriverClearsTable
    BY DEF DriverClearsTable, clear_pending, Tracked
  <2> QED BY <1>3, <2>1, SentStays DEF SentInv, TracesSent, TrackedCmds
<1> QED BY <1>1, <1>2, <1>3

LEMMA NextSent == TypeInv /\ FlightInv /\ AckInv /\ SentInv /\ [Next]_vars => SentInv'
BY AcksIssuedStep, TracesSentStep DEF AckInv, SentInv

-----------------------------------------------------------------------------
(* The lists of the driver. *)

\* Which phase it is, and that the first one starts with empty lists.
PhaseKnown ==
  /\ driver.at \in {"connect", "collect"} => driver.sent = {} /\ driver.completed = {}
  /\ driver.at \in {"drain", "ack_stats", "execute_stats"} => driver.phase # "warmup"
  /\ driver.at = "wait" => driver.phase # "open" /\ issued \in driver.sent

CompletedDone == \A c \in driver.completed : Tracked(c) /\ pending[c].executed

\* While no wait runs out, what was sent is completed, but for what is waited for.
AllComplete ==
  ~overrun /\ driver.at \in Rounds \cup Ends =>
    /\ driver.phase # "open" =>
         /\ driver.completed \subseteq driver.sent
         /\ driver.sent \subseteq driver.completed \cup (IF driver.at = "wait" THEN {issued} ELSE {})
    /\ driver.at \in {"ack_stats", "execute_stats"} => driver.completed = driver.sent

ListsInv == PhaseKnown /\ CompletedDone /\ AllComplete

LEMMA CompletedStay ==
  ASSUME TypeInv, FlightInv, CompletedDone, [Next]_vars, ~DriverClearsTable,
         NEW c \in driver.completed
  PROVE  Tracked(c)' /\ pending'[c].executed
<1>0. c \in Cmd /\ Tracked(c) /\ pending[c].executed
  BY DEF CompletedDone, TypeInv, TypeOK
<1>1. c <= issued
  BY <1>0 DEF FlightInv, Flights, Answered
<1>2. CASE Driver
  <2>1. CASE DriverMakes
    <3>1. pending'[c] = pending[c]
      <4>1. c # issued + 1
        BY <1>0, <1>1, IssuedNumbers DEF Cmd
      <4> QED BY <1>0, <2>1, <4>1 DEF DriverMakes, add_command, TypeInv, TypeOK, PendingTypeOK
    <3> QED BY <1>0, <3>1 DEF Tracked
  <2>2. CASE DriverFails
    <3>1. pending[c] \in Item
      BY <1>0, ItemTypes DEF TypeInv, TypeOK
    <3>2. pending'[c] \in Item /\ pending'[c].executed
      BY <1>0, <2>2, <3>1 DEF DriverFails, mark_failed, TypeInv, TypeOK, PendingTypeOK, Item
    <3> QED BY <3>2, NoneIsNoItem DEF Tracked
  <2> QED BY <1>0, <1>2, <2>1, <2>2 DEF Driver, DriverWaitsForDevices, DriverCollects,
       DriverLooksUp, DriverSends, DriverWaits, DriverDrains, DriverReads, DriverClearsSamples,
       DriverReturns, DriverStops, DriverClosesListener, controllerVars, Tracked
<1>3. ASSUME NEW k \in Conn, NEW b \in Cmd, TakesAck(k, b) PROVE Tracked(c)' /\ pending'[c].executed
  BY <1>0, <1>3, AckMarks DEF Tracked
<1>4. ASSUME NEW k \in Conn, NEW b \in Cmd, TakesStatus(k, b) PROVE Tracked(c)' /\ pending'[c].executed
  BY <1>0, <1>4, StatusMarks DEF Tracked
<1> QED BY <1>0, <1>2, <1>3, <1>4, NextWorks DEF Idles, Works, PutsSample, Tracked

\* The driver keeps its lists, in a round and elsewhere.
LEMMA RoundLists ==
  ASSUME TypeInv, ListsInv, driver.at \in Rounds, NEW sent \in SUBSET Cmd, NEW completed \in SUBSET Cmd,
         Round(sent, completed),
         ~overrun' /\ driver.phase # "open" => sent = completed
  PROVE  PhaseKnown' /\ AllComplete'
<1>1. /\ driver'.i = driver.i + 1 /\ driver'.phase = driver.phase
      /\ driver'.sent = sent /\ driver'.completed = completed
      /\ driver'.at \in {"look", "clear_lm", "ack_stats", "drain"}
      /\ driver'.at = "clear_lm" => driver.phase = "warmup"
      /\ driver'.at = "ack_stats" => driver.phase = "closed"
      /\ driver'.at = "drain" => driver.phase = "open"
  BY RoundGoes
<1>2. PhaseKnown'
  BY <1>1 DEF PhaseKnown
<1>3. AllComplete'
  BY <1>1 DEF AllComplete
<1> QED BY <1>2, <1>3

LEMMA SentFinite == ASSUME TypeInv PROVE IsFiniteSet(driver.sent)
<1>1. IsFiniteSet(Cmd)
  BY FS_Interval, MaxCommandsAssumption DEF Cmd
<1> QED BY <1>1, FS_Subset DEF TypeInv, TypeOK

LEMMA DriverLists ==
  ASSUME TypeInv, FlightInv, ListsInv, Driver PROVE PhaseKnown' /\ AllComplete'
<1> USE DEF TypeInv, TypeOK
<1>1. CASE DriverWaitsForDevices \/ DriverReturns \/ DriverStops \/ DriverClosesListener
  <2>1. driver'.at \in {"collect", "stop", "done"} /\ driver'.phase \in Phases
    BY <1>1 DEF DriverWaitsForDevices, DriverReturns, DriverStops, DriverClosesListener, Goes, Start,
                Phases
  <2>2. driver'.at = "collect" => driver'.sent = {} /\ driver'.completed = {}
    BY <1>1 DEF DriverWaitsForDevices, DriverReturns, DriverStops, DriverClosesListener, Goes, Start,
                ListsInv, PhaseKnown
  <2> QED BY <2>1, <2>2 DEF PhaseKnown, AllComplete, Rounds, Ends
<1>2. CASE DriverCollects
  <2>1. /\ driver'.at \in {"stop", "look", "clear_lm"} /\ driver'.sent = {} /\ driver'.completed = {}
        /\ driver'.i = driver.i
    BY <1>2 DEF DriverCollects, From, ListsInv, PhaseKnown
  <2> QED BY <2>1 DEF PhaseKnown, AllComplete
<1>3. CASE DriverLooksUp
  <2>0. driver.at = "look" /\ driver.at \in Rounds
    BY <1>3 DEF DriverLooksUp, Rounds
  <2>1. CASE Round(driver.sent, driver.completed)
    <3>1. overrun' = overrun
      BY <1>3 DEF DriverLooksUp
    <3>2. ~overrun' /\ driver.phase # "open" => driver.sent = driver.completed
      BY <2>0, <3>1 DEF ListsInv, AllComplete
    <3> QED BY <2>0, <2>1, <3>2, RoundLists
  <2>2. CASE driver' = [driver EXCEPT !.at = "make", !.conn = get_conn(Target)]
    <3>1. /\ driver'.at = "make" /\ driver'.sent = driver.sent /\ driver'.completed = driver.completed
          /\ driver'.i = driver.i /\ driver'.phase = driver.phase /\ overrun' = overrun
      BY <1>3, <2>2 DEF DriverLooksUp
    <3> QED BY <2>0, <3>1 DEF ListsInv, PhaseKnown, AllComplete, Rounds
  <2> QED BY <1>3, <2>1, <2>2 DEF DriverLooksUp
<1>4. CASE DriverMakes
  <2>1. /\ driver.at = "make" /\ driver'.at = "send" /\ driver'.sent = driver.sent
        /\ driver'.completed = driver.completed
        /\ driver'.i = driver.i /\ driver'.phase = driver.phase /\ overrun' = overrun
    BY <1>4 DEF DriverMakes, Goes
  <2> QED BY <2>1 DEF ListsInv, PhaseKnown, AllComplete, Rounds
<1>5. CASE DriverSends
  <2>0. driver.at = "send" /\ driver.at \in Rounds /\ UNCHANGED <<issued, overrun>>
    BY <1>5 DEF DriverSends, Rounds
  <2>2. CASE driver.phase = "open" /\ Round(driver.sent \cup {issued}, {})
    <3>1. driver.sent \cup {issued} \in SUBSET Cmd
      <4>1. issued \in Nat /\ issued >= 1 /\ issued <= Warmup + Samples + Burst
        BY <2>0, SizeNumbers DEF DriverCoherent, IssuedInTime, Sending
      <4> QED BY <4>1, SizeNumbers DEF Cmd
    <3> QED BY <2>0, <2>2, <3>1, RoundLists
  <2>3. CASE driver.phase # "open" /\ driver' = [driver EXCEPT !.at = "wait", !.sent = @ \cup {issued}]
    <3>1. /\ driver'.at = "wait" /\ driver'.sent = driver.sent \cup {issued}
          /\ driver'.completed = driver.completed
          /\ driver'.i = driver.i /\ driver'.phase = driver.phase
      BY <2>3
    <3> QED BY <2>0, <2>3, <3>1 DEF ListsInv, PhaseKnown, AllComplete, Rounds
  <2>4. CASE Goes("fail")
    <3>1. /\ driver'.at = "fail" /\ driver'.sent = driver.sent /\ driver'.completed = driver.completed
          /\ driver'.i = driver.i /\ driver'.phase = driver.phase
      BY <2>4 DEF Goes
    <3> QED BY <2>0, <3>1 DEF ListsInv, PhaseKnown, AllComplete, Rounds
  <2> QED BY <1>5, <2>2, <2>3, <2>4 DEF DriverSends
<1>6. CASE DriverFails
  <2>0. driver.at = "fail" /\ driver.at \in Rounds /\ UNCHANGED overrun
        /\ Round(driver.sent, driver.completed)
    BY <1>6 DEF DriverFails, Rounds
  <2>2. ~overrun' /\ driver.phase # "open" => driver.sent = driver.completed
    BY <2>0 DEF ListsInv, AllComplete
  <2> QED BY <2>0, <2>2, RoundLists
<1>7. CASE DriverWaits
  <2>d. PICK done : done = ExecutedOf({issued})
    OBVIOUS
  <2>0. driver.at = "wait" /\ driver.at \in Rounds /\ overrun' = (overrun \/ done = {})
        /\ Round(driver.sent, driver.completed \cup done) /\ done \subseteq {issued}
    BY <1>7, <2>d DEF DriverWaits, Rounds, ExecutedOf
  <2>2. issued \in driver.sent
    BY <2>0 DEF ListsInv, PhaseKnown
  <2>3. ASSUME ~overrun', driver.phase # "open" PROVE driver.sent = driver.completed \cup done
    <3>1. done = {issued} /\ ~overrun
      BY <2>0, <2>3
    <3>2. /\ driver.completed \subseteq driver.sent
          /\ driver.sent \subseteq driver.completed \cup {issued}
      BY <2>0, <2>3, <3>1 DEF ListsInv, AllComplete
    <3> QED BY <2>2, <3>1, <3>2
  <2>4. driver.sent \in SUBSET Cmd /\ driver.completed \cup done \in SUBSET Cmd
    BY <2>0, <2>2
  <2> QED BY <2>0, <2>3, <2>4, RoundLists
<1>8. CASE DriverDrains
  <2>d. PICK done : done = ExecutedOf(driver.sent)
    OBVIOUS
  <2>1. /\ driver.at = "drain" /\ driver'.at = "ack_stats" /\ driver'.sent = driver.sent
        /\ driver'.completed = done /\ done \subseteq driver.sent
        /\ driver'.i = driver.i /\ driver'.phase = driver.phase
        /\ overrun' = (overrun \/ done # driver.sent)
    BY <1>8, <2>d DEF DriverDrains, ExecutedOf
  <2> QED BY <2>1 DEF ListsInv, PhaseKnown, AllComplete, Ends
<1>9. CASE DriverReads \/ DriverClearsSamples
  <2>1. /\ driver.at \in {"ack_stats", "execute_stats", "clear_lm"}
        /\ driver'.at \in {"execute_stats", "clear_lm", "return", "clear_ct"}
        /\ driver'.at = "execute_stats" => driver.at = "ack_stats"
        /\ driver'.sent = driver.sent /\ driver'.completed = driver.completed
        /\ driver'.i = driver.i /\ driver'.phase = driver.phase /\ UNCHANGED overrun
    BY <1>9 DEF DriverReads, DriverClearsSamples, Goes
  <2> QED BY <2>1 DEF ListsInv, PhaseKnown, AllComplete, Ends
<1>10. CASE DriverClearsTable
  <2>1. /\ driver'.at \in {"look", "ack_stats", "drain"} /\ driver'.sent = {} /\ driver'.completed = {}
        /\ driver'.i = 0 /\ driver'.phase # "warmup"
    BY <1>10 DEF DriverClearsTable, Start, From
  <2> QED BY <2>1 DEF PhaseKnown, AllComplete
<1> QED BY <1>1, <1>2, <1>3, <1>4, <1>5, <1>6, <1>7, <1>8, <1>9, <1>10 DEF Driver

LEMMA DriverCompleted ==
  ASSUME TypeInv, CompletedDone, Driver
  PROVE  \/ driver'.completed \subseteq driver.completed
         \/ /\ UNCHANGED pending
            /\ \A c \in driver'.completed \ driver.completed : Tracked(c) /\ pending[c].executed
<1> USE DEF TypeInv, TypeOK
<1>1. CASE DriverLooksUp \/ DriverFails
  <2>1. driver.at \in Rounds
    BY <1>1 DEF DriverLooksUp, DriverFails, Rounds
  <2> QED BY <1>1, <2>1, RoundGoes DEF DriverLooksUp, DriverFails
<1>2. CASE DriverSends
  <2>1. driver.at \in Rounds
    BY <1>2 DEF DriverSends, Rounds
  <2>2. CASE Round(driver.sent \cup {issued}, {})
    BY <2>1, <2>2, RoundGoes
  <2>3. CASE driver' = [driver EXCEPT !.at = "wait", !.sent = @ \cup {issued}] \/ Goes("fail")
    BY <2>3 DEF Goes
  <2> QED BY <1>2, <2>2, <2>3 DEF DriverSends
<1>3. CASE DriverWaits
  <2>d. PICK done : done = ExecutedOf({issued})
    OBVIOUS
  <2>0. /\ driver.at \in Rounds /\ UNCHANGED pending
        /\ Round(driver.sent, driver.completed \cup done)
        /\ \A c \in done : Tracked(c) /\ pending[c].executed
    BY <1>3, <2>d DEF DriverWaits, Rounds, ExecutedOf, controllerVars
  <2> QED BY <2>0, RoundGoes
<1>4. CASE DriverDrains
  <2>d. PICK done : done = ExecutedOf(driver.sent)
    OBVIOUS
  <2>1. driver'.completed = done /\ UNCHANGED pending /\ \A c \in done : Tracked(c) /\ pending[c].executed
    BY <1>4, <2>d DEF DriverDrains, ExecutedOf, controllerVars
  <2> QED BY <2>1
<1> QED BY <1>1, <1>2, <1>3, <1>4 DEF Driver, DriverWaitsForDevices, DriverCollects, DriverMakes,
     DriverReads, DriverClearsSamples, DriverClearsTable, DriverReturns, DriverStops,
     DriverClosesListener, Goes, Start

LEMMA NextLists == TypeInv /\ FlightInv /\ ListsInv /\ [Next]_vars => ListsInv'
<1> SUFFICES ASSUME TypeInv, FlightInv, ListsInv, [Next]_vars PROVE ListsInv'
  OBVIOUS
<1>1. CASE Driver
  <2>1. PhaseKnown' /\ AllComplete'
    BY <1>1, DriverLists
  <2>2. CompletedDone'
    <3>1. CASE DriverClearsTable
      BY <3>1 DEF DriverClearsTable, Start, CompletedDone
    <3>2. CASE ~DriverClearsTable
      <4>1. \A c \in driver.completed : Tracked(c)' /\ pending'[c].executed
        BY <3>2, CompletedStay DEF ListsInv
      <4> QED BY <1>1, <4>1, DriverCompleted DEF ListsInv, CompletedDone, Tracked
    <3> QED BY <3>1, <3>2
  <2> QED BY <2>1, <2>2 DEF ListsInv
<1>2. CASE ~Driver
  <2>1. UNCHANGED <<driver, issued, overrun>> /\ ~DriverClearsTable
    BY <1>2, NextWorks DEF Idles, Works, PutsSample, TakesAck, TakesStatus, Driver
  <2>2. PhaseKnown' /\ AllComplete'
    BY <2>1 DEF ListsInv, PhaseKnown, AllComplete
  <2>3. CompletedDone'
    <3>1. \A c \in driver.completed : Tracked(c)' /\ pending'[c].executed
      BY <2>1, CompletedStay DEF ListsInv
    <3> QED BY <2>1, <3>1 DEF CompletedDone
  <2> QED BY <2>2, <2>3 DEF ListsInv
<1> QED BY <1>1, <1>2

-----------------------------------------------------------------------------
(* Where the samples are. *)

\* The entry of c, if there still is one, says that it was executed.
Done(c) == Tracked(c) => pending[c].executed

AckBooked == {c \in Cmd : c <= issued /\ Acked(c)}

DoneBooked == {c \in Cmd : c <= issued /\ Done(c)}

\* A command has an ack sample only when its entry says so, and an execute sample or
\* a session about to record it.
SamplesBooked ==
  /\ \A d \in Device : OnceFrom(AckBooked, samples["ack"][d])
  /\ \A d \in Device : OnceFrom(DoneBooked \ Held, samples["execute"][d])

HeldOnce ==
  /\ Held \subseteq DoneBooked
  /\ \A k, l \in Conn : holding[k] # None /\ holding[k] = holding[l] => k = l

BooksInv == SamplesBooked /\ HeldOnce

LEMMA BookedGrow ==
  ASSUME TypeInv, FlightInv, [Next]_vars
  PROVE  AckBooked \subseteq AckBooked' /\ DoneBooked \subseteq DoneBooked'
<1> SUFFICES ASSUME NEW c \in Cmd, c <= issued
             PROVE  (Acked(c) => Acked(c)') /\ (Done(c) => Done(c)') /\ c <= issued'
  BY DEF AckBooked, DoneBooked
<1>1. c # issued + 1 /\ c <= issued'
  BY IssuedNumbers DEF Cmd
<1>2. Done(c) => Done(c)'
  BY <1>1, NextMarks DEF MarksMove, MarksStay, NewEntry, TakesAck, TakesStatus, Done, Tracked
<1> QED BY <1>1, <1>2, AckedStays

LEMMA OnceGrows ==
  ASSUME NEW S, NEW T, S \subseteq T, NEW s, OnceFrom(S, s) PROVE OnceFrom(T, s)
BY DEF OnceFrom

LEMMA HeldTaken ==
  ASSUME TypeInv, NEW k \in Conn, NEW b \in Cmd, TakesStatus(k, b)
  PROVE  /\ Held' = Held \cup {b} /\ \A l \in Conn \ {k} : holding'[l] = holding[l]
         /\ holding'[k] = b
<1>1. /\ holding[k] = None /\ holding'[k] = b
      /\ \A l \in Conn \ {k} : holding'[l] = holding[l]
  BY DEF TakesStatus, TypeInv, TypeOK
<1>2. b # None
  BY NoneAssumption DEF Cmd
<1> QED BY <1>1, <1>2 DEF Held

LEMMA HeldPut ==
  ASSUME TypeInv, HeldOnce, NEW k \in Conn, PutsSample(k)
  PROVE  /\ Held' = Held \ {holding[k]} /\ holding[k] \in Held /\ holding[k] \in Cmd
         /\ \A l \in Conn : holding'[l] # None => holding'[l] = holding[l]
<1>1. /\ holding[k] # None /\ holding'[k] = None /\ holding[k] \in Cmd
      /\ \A l \in Conn \ {k} : holding'[l] = holding[l]
  BY DEF PutsSample, TypeInv, TypeOK
<1>2. \A l \in Conn \ {k} : holding[l] # holding[k]
  BY <1>1 DEF HeldOnce
<1> QED BY <1>1, <1>2 DEF Held

\* The sample an ack leaves, and the one a session puts.
LEMMA AckSampled ==
  ASSUME TypeInv, NEW k \in Conn, NEW b \in Cmd, TakesAck(k, b)
  PROVE  \E d \in Device, x \in Sample : x.cmd_id = b /\ record("ack", d, x)
<1>1. pending[b] \in Item
  BY ItemTypes DEF TakesAck, TypeInv, TypeOK
<1>2. pending[b].device_id \in Device /\ pending[b].retry_count \in Nat
  BY <1>1 DEF Item
<1> DEFINE x == [cmd_id |-> b, latency |-> pending[b].retry_count]
<1>3. x \in Sample /\ x.cmd_id = b
  BY <1>2 DEF Sample
<1>4. record("ack", pending[b].device_id, x)
  BY DEF TakesAck, Receive, record_since_send
<1> QED BY <1>2, <1>3, <1>4

LEMMA HeldSampled ==
  ASSUME TypeInv, NEW k \in Conn, PutsSample(k)
  PROVE  \E d \in Device, x \in Sample : x.cmd_id = holding[k] /\ record("execute", d, x)
<1>1. [cmd_id |-> holding[k], latency |-> 0] \in Sample
  BY DEF PutsSample, TypeInv, TypeOK, Sample
<1> QED BY <1>1 DEF PutsSample

LEMMA FullStays ==
  ASSUME TypeInv, FlightInv, [Next]_vars, ~DriverClearsSamples,
         NEW channel \in {"ack", "execute"}, RingFull(channel)
  PROVE  RingFull(channel)'
<1>1. samples'[channel] = samples[channel] => RingFull(channel)'
  BY DEF RingFull
<1>2. ASSUME NEW other \in {"ack", "execute"}, NEW d \in Device, NEW x \in Sample,
             record(other, d, x)
      PROVE  RingFull(channel)'
  BY <1>1, <1>2, RecordRings, RecordNames
<1>3. CASE Driver
  BY <1>1, <1>3, DriverKeepsTables DEF DriverTables
<1>4. CASE Idles
  BY <1>1, <1>4 DEF Idles
<1>5. ASSUME NEW k \in Conn, NEW b \in Cmd, TakesAck(k, b) PROVE RingFull(channel)'
  BY <1>2, <1>5, AckSampled
<1>6. ASSUME NEW k \in Conn, NEW b \in Cmd, TakesStatus(k, b) PROVE RingFull(channel)'
  BY <1>1, <1>6 DEF TakesStatus
<1>7. ASSUME NEW k \in Conn, PutsSample(k) PROVE RingFull(channel)'
  BY <1>2, <1>7, HeldSampled
<1> QED BY <1>3, <1>4, <1>5, <1>6, <1>7, NextWorks DEF Works

LEMMA BooksKept ==
  ASSUME TypeInv, FlightInv, BooksInv, [Next]_vars, UNCHANGED holding,
         \A channel \in {"ack", "execute"}, d \in Device :
           samples'[channel][d] \in {samples[channel][d], << >>}
  PROVE  BooksInv'
<1>1. Held' = Held
  BY DEF Held
<1>2. PICK A, D : A = AckBooked' /\ D = DoneBooked'
  OBVIOUS
<1>3. AckBooked \subseteq A /\ DoneBooked \subseteq D
  BY <1>2, BookedGrow
<1>4. \A S : OnceFrom(S, << >>)
  BY DEF OnceFrom
<1>5. ASSUME NEW d \in Device
      PROVE  OnceFrom(A, samples'["ack"][d]) /\ OnceFrom(D \ Held, samples'["execute"][d])
  <2>1. OnceFrom(A, samples["ack"][d])
    BY <1>3, OnceGrows DEF BooksInv, SamplesBooked
  <2>2. OnceFrom(D \ Held, samples["execute"][d])
    <3>1. DoneBooked \ Held \subseteq D \ Held
      BY <1>3
    <3> QED BY <3>1, OnceGrows DEF BooksInv, SamplesBooked
  <2> QED BY <1>4, <2>1, <2>2
<1>6. SamplesBooked'
  BY <1>1, <1>2, <1>5 DEF SamplesBooked, OnceFrom
<1>7. HeldOnce'
  BY <1>1, <1>2, <1>3 DEF BooksInv, HeldOnce
<1> QED BY <1>6, <1>7 DEF BooksInv

LEMMA AckBooks ==
  ASSUME TypeInv, FlightInv, SentInv, BooksInv, [Next]_vars, NEW k \in Conn, NEW b \in Cmd, TakesAck(k, b)
  PROVE  BooksInv'
<1>0. Held' = Held /\ UNCHANGED holding
  BY DEF TakesAck, Held
<1>1. PICK e \in Device, x \in Sample : x.cmd_id = b /\ record("ack", e, x)
  BY AckSampled
<1>2. PICK A, D : A = AckBooked' /\ D = DoneBooked'
  OBVIOUS
<1>3. AckBooked \subseteq A /\ DoneBooked \subseteq D /\ b \notin AckBooked
  BY <1>2, BookedGrow DEF TakesAck, AckBooked, Acked
<1>4. b \in A
  <2>1. AckOnWire(b)
    <3>1. 1 \in DOMAIN up[k] /\ IsAckOf(k, 1, b)
      BY DEF TakesAck, IsAckOf, TypeInv, TypeOK, TransportTypeOK
    <3> QED BY <3>1 DEF AckOnWire
  <2>2. b <= issued'
    BY <2>1 DEF SentInv, AcksIssued, TakesAck
  <2>3. Acked(b)'
    BY AckMarks DEF Acked
  <2> QED BY <1>2, <2>2, <2>3 DEF AckBooked
<1>5. ASSUME NEW d \in Device
      PROVE  OnceFrom(A, samples'["ack"][d]) /\ OnceFrom(D \ Held, samples'["execute"][d])
  <2>0. OnceFrom(AckBooked, samples["ack"][d]) /\ samples["ack"][d] \in Seq(Sample)
    BY DEF BooksInv, SamplesBooked, TypeInv, TypeOK, SamplesTypeOK, CHANNELS
  <2>1. OnceFrom(D \ Held, samples'["execute"][d])
    <3>1. DoneBooked \ Held \subseteq D \ Held
      BY <1>3
    <3>2. samples'["execute"] = samples["execute"]
      BY <1>1, RecordRings
    <3> QED BY <3>1, <3>2, OnceGrows DEF BooksInv, SamplesBooked
  <2>2. CASE d = e
    <3>1. samples'["ack"][d] = PushRing(samples["ack"][d], x)
      <4>1. samples'["ack"] = [samples["ack"] EXCEPT ![e] = PushRing(samples["ack"][e], x)]
        BY <1>1, RecordRings
      <4>2. samples["ack"] \in [Device -> Seq(Sample)]
        BY DEF TypeInv, TypeOK, SamplesTypeOK, CHANNELS
      <4> QED BY <2>2, <4>1, <4>2
    <3>2. OnceFrom(AckBooked \cup {x.cmd_id}, samples'["ack"][d])
      BY <1>1, <1>3, <2>0, <3>1, OncePushed
    <3>3. AckBooked \cup {x.cmd_id} \subseteq A
      BY <1>1, <1>3, <1>4
    <3> QED BY <2>1, <3>2, <3>3, OnceGrows
  <2>3. CASE d # e
    <3>1. samples'["ack"][d] = samples["ack"][d]
      BY <1>1, <2>3, RecordRings
    <3> QED BY <1>3, <2>0, <2>1, <3>1, OnceGrows
  <2> QED BY <2>2, <2>3
<1>6. SamplesBooked'
  BY <1>0, <1>2, <1>5 DEF SamplesBooked, OnceFrom
<1>7. HeldOnce'
  BY <1>0, <1>2, <1>3 DEF BooksInv, HeldOnce
<1> QED BY <1>6, <1>7 DEF BooksInv

LEMMA StatusBooks ==
  ASSUME TypeInv, FlightInv, BooksInv, [Next]_vars, NEW k \in Conn, NEW b \in Cmd, TakesStatus(k, b)
  PROVE  BooksInv'
<1>0. /\ Held' = Held \cup {b} /\ \A l \in Conn \ {k} : holding'[l] = holding[l]
      /\ holding'[k] = b /\ UNCHANGED samples
  BY HeldTaken DEF TakesStatus
<1>2. PICK A, D : A = AckBooked' /\ D = DoneBooked'
  OBVIOUS
<1>3. AckBooked \subseteq A /\ DoneBooked \subseteq D /\ b \notin DoneBooked
  BY <1>2, BookedGrow DEF TakesStatus, DoneBooked, Done
<1>4. b \in D
  <2>1. Answered(b)
    <3>1. 1 \in DOMAIN up[k]
      BY DEF TakesStatus, TypeInv, TypeOK, TransportTypeOK
    <3> QED BY <3>1 DEF TakesStatus, IsStatusOf, Answered, StatusOf
  <2>2. b <= issued'
    BY <2>1 DEF FlightInv, Flights, TakesStatus
  <2>3. Done(b)'
    BY StatusMarks DEF Done
  <2> QED BY <1>2, <2>2, <2>3 DEF DoneBooked
<1>5. ASSUME NEW d \in Device
      PROVE  OnceFrom(A, samples'["ack"][d]) /\ OnceFrom(D \ Held', samples'["execute"][d])
  <2>1. DoneBooked \ Held \subseteq D \ Held'
    BY <1>0, <1>3
  <2>2. OnceFrom(D \ Held', samples["execute"][d])
    BY <2>1, OnceGrows DEF BooksInv, SamplesBooked
  <2>3. OnceFrom(A, samples["ack"][d])
    BY <1>3, OnceGrows DEF BooksInv, SamplesBooked
  <2> QED BY <1>0, <2>2, <2>3
<1>6. SamplesBooked'
  BY <1>2, <1>5 DEF SamplesBooked, OnceFrom
<1>7. HeldOnce'
  <2>1. Held' \subseteq D
    BY <1>0, <1>3, <1>4 DEF BooksInv, HeldOnce
  <2>2. b \notin Held
    BY <1>3 DEF BooksInv, HeldOnce
  <2>3. \A l \in Conn : holding[l] # b
    <3>1. b # None
      BY NoneAssumption DEF Cmd
    <3> QED BY <2>2, <3>1 DEF Held
  <2>4. ASSUME NEW i \in Conn, NEW j \in Conn, holding'[i] # None, holding'[i] = holding'[j] PROVE i = j
    <3>1. CASE i = k \/ j = k
      BY <1>0, <2>3, <2>4, <3>1
    <3>2. CASE i # k /\ j # k
      BY <1>0, <2>4, <3>2 DEF BooksInv, HeldOnce
    <3> QED BY <3>1, <3>2
  <2> QED BY <1>2, <2>1, <2>4 DEF HeldOnce
<1> QED BY <1>6, <1>7 DEF BooksInv

LEMMA PutBooks ==
  ASSUME TypeInv, FlightInv, BooksInv, [Next]_vars, NEW k \in Conn, PutsSample(k) PROVE BooksInv'
<1>0. /\ Held' = Held \ {holding[k]} /\ holding[k] \in Held
      /\ \A l \in Conn : holding'[l] # None => holding'[l] = holding[l]
  BY HeldPut DEF BooksInv
<1>1. PICK e \in Device, x \in Sample : x.cmd_id = holding[k] /\ record("execute", e, x)
  BY HeldSampled
<1>2. PICK A, D : A = AckBooked' /\ D = DoneBooked'
  OBVIOUS
<1>3. AckBooked \subseteq A /\ DoneBooked \subseteq D
  BY <1>2, BookedGrow
<1>4. x.cmd_id \notin DoneBooked \ Held /\ (DoneBooked \ Held) \cup {x.cmd_id} \subseteq D \ Held'
  BY <1>0, <1>1, <1>3 DEF BooksInv, HeldOnce
<1>5. ASSUME NEW d \in Device
      PROVE  OnceFrom(A, samples'["ack"][d]) /\ OnceFrom(D \ Held', samples'["execute"][d])
  <2>0. OnceFrom(DoneBooked \ Held, samples["execute"][d]) /\ samples["execute"][d] \in Seq(Sample)
    BY DEF BooksInv, SamplesBooked, TypeInv, TypeOK, SamplesTypeOK, CHANNELS
  <2>1. OnceFrom(A, samples'["ack"][d])
    <3>1. samples'["ack"] = samples["ack"]
      BY <1>1, RecordRings
    <3> QED BY <1>3, <3>1, OnceGrows DEF BooksInv, SamplesBooked
  <2>2. CASE d = e
    <3>1. samples'["execute"][d] = PushRing(samples["execute"][d], x)
      BY <1>1, <2>2, RecordRings
    <3>2. OnceFrom((DoneBooked \ Held) \cup {x.cmd_id}, samples'["execute"][d])
      BY <1>4, <2>0, <3>1, OncePushed
    <3> QED BY <1>4, <2>1, <3>2, OnceGrows
  <2>3. CASE d # e
    <3>1. samples'["execute"][d] = samples["execute"][d]
      BY <1>1, <2>3, RecordRings
    <3>2. DoneBooked \ Held \subseteq D \ Held'
      BY <1>4
    <3> QED BY <2>0, <2>1, <3>1, <3>2, OnceGrows
  <2> QED BY <2>2, <2>3
<1>6. SamplesBooked'
  BY <1>2, <1>5 DEF SamplesBooked, OnceFrom
<1>7. HeldOnce'
  BY <1>0, <1>2, <1>3 DEF BooksInv, HeldOnce
<1> QED BY <1>6, <1>7 DEF BooksInv

LEMMA NextBooks ==
  ASSUME TypeInv, FlightInv, SentInv, BooksInv, [Next]_vars PROVE BooksInv'
<1>1. CASE Driver
  <2>1. \A channel \in {"ack", "execute"}, d \in Device :
          samples'[channel][d] \in {samples[channel][d], << >>}
    BY <1>1, DriverKeepsTables DEF DriverTables, DriverClearsSamples, clear, CHANNELS
  <2>2. UNCHANGED holding
    BY <1>1, DriverKeepsTables DEF DriverTables
  <2> QED BY <2>1, <2>2, BooksKept
<1>2. CASE Idles
  <2>1. \A channel \in {"ack", "execute"}, d \in Device :
          samples'[channel][d] \in {samples[channel][d], << >>}
    BY <1>2 DEF Idles
  <2>2. UNCHANGED holding
    BY <1>2 DEF Idles
  <2> QED BY <2>1, <2>2, BooksKept
<1>3. CASE Works
  BY <1>3, AckBooks, StatusBooks, PutBooks DEF Works
<1> QED BY <1>1, <1>2, <1>3, NextWorks

-----------------------------------------------------------------------------
(* What statistics find. *)

\* As long as no ring is full, an executed command is sampled or held.
FoundInv ==
  driver.at # "clear_ct" =>
    \/ RingFull("execute")
    \/ \A c \in TrackedCmds : pending[c].executed => c \in Sampled("execute") \cup Held

LEMMA PutFound ==
  ASSUME TypeInv, BooksInv, NEW k \in Conn, PutsSample(k), ~RingFull("execute")'
  PROVE  Sampled("execute") \cup Held \subseteq Sampled("execute")' \cup Held'
<1>1. Held' = Held \ {holding[k]}
  BY HeldPut DEF BooksInv
<1>2. PICK e \in Device, x \in Sample : x.cmd_id = holding[k] /\ record("execute", e, x)
  BY HeldSampled
<1>3. Sampled("execute")' = Sampled("execute") \cup {x.cmd_id}
  BY <1>2, RecordNames
<1> QED BY <1>1, <1>2, <1>3

LEMMA ClearsNext ==
  ASSUME TypeInv, Driver
  PROVE  /\ DriverClearsSamples => driver'.at = "clear_ct"
         /\ driver.at = "clear_ct" => DriverClearsTable
<1>1. DriverClearsSamples => driver'.at = "clear_ct"
  BY DEF DriverClearsSamples, Goes, TypeInv, TypeOK
<1>2. driver.at = "clear_ct" => DriverClearsTable
  BY DEF Driver, DriverWaitsForDevices, DriverCollects, DriverLooksUp, DriverMakes, DriverSends,
         DriverFails, DriverWaits, DriverDrains, DriverReads, DriverClearsSamples, DriverReturns,
         DriverStops, DriverClosesListener
<1> QED BY <1>1, <1>2

LEMMA FoundStays ==
  ASSUME TypeInv, FlightInv, BooksInv, [Next]_vars, ~DriverClearsSamples, ~RingFull("execute")'
  PROVE  Sampled("execute") \cup Held \subseteq Sampled("execute")' \cup Held'
<1>1. samples'["execute"] = samples["execute"] => Sampled("execute")' = Sampled("execute")
  BY SampledNames
<1>2. UNCHANGED holding => Held' = Held
  BY DEF Held
<1>3. CASE Driver
  BY <1>1, <1>2, <1>3, DriverKeepsTables DEF DriverTables
<1>4. CASE Idles
  BY <1>1, <1>2, <1>4 DEF Idles
<1>5. ASSUME NEW k \in Conn, NEW b \in Cmd, TakesAck(k, b)
      PROVE  Sampled("execute") \cup Held \subseteq Sampled("execute")' \cup Held'
  <2>1. samples'["execute"] = samples["execute"]
    <3>1. PICK e \in Device, x \in Sample : x.cmd_id = b /\ record("ack", e, x)
      BY <1>5, AckSampled
    <3> QED BY <3>1, RecordRings
  <2> QED BY <1>1, <1>2, <1>5, <2>1 DEF TakesAck
<1>6. ASSUME NEW k \in Conn, NEW b \in Cmd, TakesStatus(k, b)
      PROVE  Sampled("execute") \cup Held \subseteq Sampled("execute")' \cup Held'
  BY <1>1, <1>6, HeldTaken DEF TakesStatus
<1> QED BY <1>3, <1>4, <1>5, <1>6, PutFound, NextWorks DEF Works

LEMMA NextFound ==
  ASSUME TypeInv, FlightInv, BooksInv, FoundInv, [Next]_vars PROVE FoundInv'
<1> SUFFICES ASSUME driver'.at # "clear_ct", ~RingFull("execute")',
                    NEW c \in Cmd, Tracked(c)', pending'[c].executed
             PROVE  c \in Sampled("execute")' \cup Held'
  BY DEF FoundInv, TrackedCmds
<1>1. ~DriverClearsSamples
  BY ClearsNext DEF Driver
<1>2. ~RingFull("execute")
  BY <1>1, FullStays
<1>3. Sampled("execute") \cup Held \subseteq Sampled("execute")' \cup Held'
  BY <1>1, FoundStays
<1>4. driver.at # "clear_ct"
  <2>1. CASE Driver
    <3>1. ~DriverClearsTable
      BY DEF DriverClearsTable, clear_pending, Tracked
    <3> QED BY <2>1, <3>1, ClearsNext
  <2>2. CASE ~Driver
    BY <2>2, NextWorks DEF Idles, Works, PutsSample, TakesAck, TakesStatus
  <2> QED BY <2>1, <2>2
<1>5. CASE Tracked(c) /\ pending[c].executed
  BY <1>2, <1>3, <1>4, <1>5 DEF FoundInv, TrackedCmds
<1>6. ASSUME NEW k \in Conn, TakesStatus(k, c) PROVE c \in Held'
  BY <1>6, HeldTaken
<1> QED BY <1>5, <1>6, NextMarks DEF MarksMove, MarksStay, NewEntry, TakesAck

\* Where a report is being made, or its commands.
Counting == driver.phase # "warmup" /\ driver.at \in Rounds \cup {"drain", "ack_stats", "execute_stats"}

\* While no wait runs out, the ack samples are those of the phase: of what it sent, and
\* of all that is acked, unless a ring is full.
AcksOfPhase ==
  /\ driver.at = "clear_ct" => Sampled("ack") = {}
  /\ Counting => /\ Sampled("ack") \subseteq driver.sent
                 /\ \/ RingFull("ack")
                    \/ \A c \in TrackedCmds : pending[c].received => c \in Sampled("ack")
  /\ driver.at = "execute_stats" =>
       /\ driver.ack \subseteq driver.sent
       /\ driver.ack = driver.sent \/ Cardinality(driver.ack) >= MAX_SAMPLES

AcksInv == ~overrun => AcksOfPhase

LEMMA AckTraces ==
  ASSUME TypeInv, SentInv, driver.at \notin {"stop", "done"},
         NEW k \in Conn, NEW b \in Cmd, TakesAck(k, b)
  PROVE  b \in driver.sent
<1>1. 1 \in DOMAIN up[k] /\ IsAckOf(k, 1, b)
  BY DEF TakesAck, IsAckOf, TypeInv, TypeOK, TransportTypeOK
<1> QED BY <1>1 DEF TakesAck, AckOnWire, Traces, SentInv, TracesSent, TrackedCmds

\* Between the phases all is acked.
LEMMA NoAckAtClear ==
  ASSUME TypeInv, AckInv, SentInv, ListsInv, ~overrun, driver.at = "clear_ct",
         NEW k \in Conn, NEW b \in Cmd, TakesAck(k, b)
  PROVE  FALSE
<1>1. b \in driver.sent
  BY AckTraces
<1>2. driver.phase # "open"
  BY DEF TypeInv, DriverCoherent
<1>3. b \in driver.completed
  BY <1>1, <1>2 DEF ListsInv, AllComplete, Ends
<1> QED BY <1>3 DEF ListsInv, CompletedDone, AckInv, ExecutedAcked, TrackedCmds, TakesAck

\* A full ring shows as many commands as it holds.
LEMMA FullSampled ==
  ASSUME TypeInv, BooksInv, RingFull("ack"), Sampled("ack") \subseteq driver.sent
  PROVE  Cardinality(Sampled("ack")) >= MAX_SAMPLES
<1>1. PICK d \in Device : Len(samples["ack"][d]) >= MAX_SAMPLES
  BY DEF RingFull
<1>2. PICK rings, T : rings = samples["ack"] /\ T = Sampled("ack") /\ T = Names(rings)
  BY SampledNames
<1>3. IsFiniteSet(T)
  BY <1>2, SentFinite, FS_Subset
<1>4. OnceFrom(T, rings[d])
  <2>1. OnceFrom(AckBooked, rings[d])
    BY <1>2 DEF BooksInv, SamplesBooked
  <2>2. \A i \in DOMAIN rings[d] : rings[d][i].cmd_id \in T
    BY <1>2, NamesAre
  <2> QED BY <2>1, <2>2 DEF OnceFrom
<1>5. rings[d] \in Seq(Sample)
  BY <1>2 DEF TypeInv, TypeOK, SamplesTypeOK, CHANNELS
<1> QED BY <1>1, <1>2, <1>3, <1>4, <1>5, FullNames

LEMMA AckFound ==
  ASSUME TypeInv, SentInv, Counting, NEW k \in Conn, NEW b \in Cmd, TakesAck(k, b)
  PROVE  /\ b \in driver.sent /\ Sampled("ack")' \subseteq Sampled("ack") \cup {b}
         /\ RingFull("ack")' \/ Sampled("ack")' = Sampled("ack") \cup {b}
         /\ RingFull("ack") => RingFull("ack")'
<1>1. PICK e \in Device, x \in Sample : x.cmd_id = b /\ record("ack", e, x)
  BY AckSampled
<1>2. b \in driver.sent
  BY AckTraces DEF Counting, Rounds
<1> QED BY <1>1, <1>2, RecordNames

LEMMA DriverAcks ==
  ASSUME TypeInv, FlightInv, AckInv, ListsInv, BooksInv, AcksInv, [Next]_vars, Driver, ~overrun'
  PROVE  AcksOfPhase'
<1> USE DEF TypeInv, TypeOK
<1>0. \A c \in Cmd : Tracked(c)' /\ pending'[c].received => Tracked(c) /\ pending[c].received
  BY DriverMarks DEF MarksStay, NewEntry
<1>1. CASE DriverWaitsForDevices \/ DriverCollects \/ DriverReturns \/ DriverStops \/ DriverClosesListener
  <2>1. /\ driver'.at \in {"collect", "stop", "look", "clear_lm", "done"}
        /\ driver'.at \in {"look"} => driver'.phase = "warmup"
    BY <1>1 DEF DriverWaitsForDevices, DriverCollects, DriverReturns, DriverStops,
                DriverClosesListener, Goes, Start, From, DriverCoherent, IssuedInTime
  <2> QED BY <2>1 DEF AcksOfPhase, Counting, Rounds
<1>2. ASSUME ~overrun, UNCHANGED samples, driver'.at \notin {"clear_ct", "execute_stats"},
             Counting' => Counting, driver.sent \subseteq driver'.sent
      PROVE  AcksOfPhase'
  <2>1. Sampled("ack")' = Sampled("ack") /\ (RingFull("ack") => RingFull("ack")')
    BY <1>2, SampledNames DEF RingFull
  <2> QED BY <1>0, <1>2, <2>1 DEF AcksOfPhase, AcksInv, TrackedCmds
<1>3. CASE DriverLooksUp \/ DriverMakes \/ DriverSends \/ DriverFails \/ DriverWaits
  <2>0. driver.at \in Rounds /\ UNCHANGED samples /\ ~overrun
    BY <1>3 DEF DriverLooksUp, DriverMakes, DriverSends, DriverFails, DriverWaits, Rounds,
                controllerVars
  <2>1. ASSUME NEW sent, NEW completed, Round(sent, completed), driver.sent \subseteq sent
        PROVE  AcksOfPhase'
    <3>1. /\ driver'.sent = sent /\ driver'.phase = driver.phase
          /\ driver'.at \in {"look", "clear_lm", "ack_stats", "drain"}
      BY <2>0, <2>1, RoundGoes
    <3> QED BY <1>2, <2>0, <2>1, <3>1 DEF Counting
  <2>2. CASE Goes("send") \/ Goes("fail")
    BY <1>2, <2>0, <2>2 DEF Goes, Counting
  <2>3. CASE driver' = [driver EXCEPT !.at = "wait", !.sent = @ \cup {issued}]
    BY <1>2, <2>0, <2>3 DEF Counting
  <2>4. CASE driver' = [driver EXCEPT !.at = "make", !.conn = get_conn(Target)]
    BY <1>2, <2>0, <2>4 DEF Counting
  <2>5. CASE DriverWaits
    BY <2>1, <2>5 DEF DriverWaits
  <2>6. CASE DriverSends
    BY <2>1, <2>2, <2>3, <2>6 DEF DriverSends
  <2> QED BY <1>3, <2>1, <2>2, <2>4, <2>5, <2>6 DEF DriverLooksUp, DriverMakes, DriverFails
<1>4. CASE DriverDrains
  <2>1. /\ driver.at = "drain" /\ driver'.at = "ack_stats" /\ driver'.sent = driver.sent
        /\ driver'.phase = driver.phase /\ UNCHANGED samples /\ ~overrun
    BY <1>4 DEF DriverDrains, controllerVars
  <2> QED BY <1>2, <2>1 DEF Counting
<1>5. CASE DriverReads
  <2>1. CASE driver.at = "ack_stats"
    <3>1. /\ driver'.at = "execute_stats" /\ driver'.sent = driver.sent /\ driver'.ack = Sampled("ack")
          /\ driver'.phase = driver.phase /\ UNCHANGED <<samples, overrun>>
      BY <1>5, <2>1 DEF DriverReads, controllerVars
    <3>2. Counting /\ AcksOfPhase
      BY <2>1, <3>1 DEF ListsInv, PhaseKnown, Counting, AcksInv
    <3>3. driver.completed = driver.sent
      BY <2>1, <3>1 DEF ListsInv, AllComplete, Ends
    <3>4. RingFull("ack") \/ driver.sent \subseteq Sampled("ack")
      <4>1. \A c \in driver.completed : c \in TrackedCmds /\ pending[c].received
        BY DEF ListsInv, CompletedDone, AckInv, ExecutedAcked, TrackedCmds
      <4> QED BY <3>2, <3>3, <4>1 DEF AcksOfPhase
    <3>5. Sampled("ack") = driver.sent \/ Cardinality(Sampled("ack")) >= MAX_SAMPLES
      BY <3>2, <3>4, FullSampled DEF AcksOfPhase
    <3>6. Sampled("ack")' = Sampled("ack") /\ (RingFull("ack") => RingFull("ack")')
      BY <3>1, SampledNames DEF RingFull
    <3>7. /\ driver'.ack \subseteq driver'.sent
          /\ driver'.ack = driver'.sent \/ Cardinality(driver'.ack) >= MAX_SAMPLES
      BY <3>1, <3>2, <3>5 DEF AcksOfPhase
    <3>8. /\ Sampled("ack")' \subseteq driver'.sent
          /\ \/ RingFull("ack")'
             \/ \A c \in TrackedCmds' : pending'[c].received => c \in Sampled("ack")'
      BY <1>0, <3>1, <3>2, <3>6 DEF AcksOfPhase, TrackedCmds
    <3> QED BY <3>1, <3>7, <3>8 DEF AcksOfPhase
  <2>2. CASE driver.at = "execute_stats"
    <3>1. driver'.at \in {"clear_lm", "return"}
      BY <1>5, <2>2 DEF DriverReads, Goes
    <3> QED BY <3>1 DEF AcksOfPhase, Counting, Rounds
  <2> QED BY <1>5, <2>1, <2>2 DEF DriverReads
<1>6. CASE DriverClearsSamples
  <2>1. driver'.at = "clear_ct" /\ \A d \in Device : samples'["ack"][d] = << >>
    BY <1>6 DEF DriverClearsSamples, clear, Goes, CHANNELS
  <2>2. Sampled("ack")' = {}
    BY <2>1, NoNames, SampledNames
  <2> QED BY <2>1, <2>2 DEF AcksOfPhase, Counting, Rounds
<1>7. CASE DriverClearsTable
  <2>1. /\ driver.at = "clear_ct" /\ driver'.at \in {"look", "ack_stats", "drain"}
        /\ UNCHANGED <<samples, overrun>> /\ \A c \in Cmd : ~Tracked(c)'
    BY <1>7 DEF DriverClearsTable, Start, From, clear_pending, Tracked, DriverCoherent
  <2>2. Sampled("ack")' = {}
    BY <2>1, SampledNames DEF AcksInv, AcksOfPhase
  <2> QED BY <2>1, <2>2 DEF AcksOfPhase, TrackedCmds
<1> QED BY <1>1, <1>3, <1>4, <1>5, <1>6, <1>7 DEF Driver

LEMMA NextAcksInv ==
  ASSUME TypeInv, FlightInv, AckInv, SentInv, ListsInv, BooksInv, AcksInv, [Next]_vars
  PROVE  AcksInv'
<1> SUFFICES ASSUME ~overrun' PROVE AcksOfPhase'
  BY DEF AcksInv
<1>1. CASE Driver
  BY <1>1, DriverAcks
<1>2. ASSUME UNCHANGED <<driver, overrun>>, samples'["ack"] = samples["ack"],
             \A c \in Cmd : Tracked(c)' /\ pending'[c].received => Tracked(c) /\ pending[c].received
      PROVE  AcksOfPhase'
  <2>1. Sampled("ack")' = Sampled("ack") /\ (RingFull("ack") => RingFull("ack")')
    BY <1>2, SampledNames DEF RingFull
  <2> QED BY <1>2, <2>1 DEF AcksInv, AcksOfPhase, Counting, TrackedCmds
<1>3. CASE Idles
  BY <1>2, <1>3 DEF Idles, Tracked
<1>4. ASSUME NEW k \in Conn, NEW b \in Cmd, TakesStatus(k, b) PROVE AcksOfPhase'
  <2>1. /\ \A c \in Cmd \ {b} : pending'[c] = pending[c]
        /\ Tracked(b) /\ pending'[b].received = pending[b].received
    BY <1>4, StatusMarks DEF TakesStatus
  <2> QED BY <1>2, <1>4, <2>1 DEF TakesStatus, Tracked
<1>5. ASSUME NEW k \in Conn, PutsSample(k) PROVE AcksOfPhase'
  <2>1. PICK e \in Device, x \in Sample : x.cmd_id = holding[k] /\ record("execute", e, x)
    BY <1>5, HeldSampled
  <2>2. samples'["ack"] = samples["ack"]
    BY <2>1, RecordRings
  <2> QED BY <1>2, <1>5, <2>2 DEF PutsSample, Tracked
<1>6. ASSUME NEW k \in Conn, NEW b \in Cmd, TakesAck(k, b) PROVE AcksOfPhase'
  <2>1. UNCHANGED <<driver, overrun>> /\ ~overrun /\ AcksOfPhase
    BY <1>6 DEF TakesAck, AcksInv
  <2>2. driver.at # "clear_ct"
    BY <1>6, <2>1, NoAckAtClear
  <2>3. CASE Counting
    <3>1. /\ b \in driver.sent /\ Sampled("ack")' \subseteq Sampled("ack") \cup {b}
          /\ RingFull("ack")' \/ Sampled("ack")' = Sampled("ack") \cup {b}
          /\ RingFull("ack") => RingFull("ack")'
      BY <1>6, <2>3, AckFound
    <3>2. \A c \in Cmd \ {b} : pending'[c] = pending[c]
      BY <1>6, AckMarks
    <3> QED BY <2>1, <2>2, <2>3, <3>1, <3>2 DEF AcksOfPhase, TrackedCmds, Tracked
  <2>4. CASE ~Counting
    BY <2>1, <2>2, <2>4 DEF AcksOfPhase, Counting
  <2> QED BY <2>3, <2>4
<1> QED BY <1>1, <1>3, <1>4, <1>5, <1>6, NextWorks DEF Works

LEMMA NextAgree ==
  ASSUME TypeInv, FlightInv, ListsInv, AcksInv, ReportsAgree, [Next]_vars PROVE ReportsAgree'
<1>1. CASE UNCHANGED <<reports, overrun>>
  BY <1>1 DEF ReportsAgree
<1>2. CASE DriverReads
  <2>1. CASE UNCHANGED reports
    BY <1>2, <2>1 DEF DriverReads, ReportsAgree
  <2>2. CASE ~UNCHANGED reports
    <3>1. PICK r : r = [sent |-> driver.sent, completed |-> driver.completed,
                        ack |-> driver.ack, execute |-> Sampled("execute")]
      OBVIOUS
    <3>2. driver.at = "execute_stats" /\ reports' = [reports EXCEPT ![driver.phase] = r]
          /\ UNCHANGED overrun
      BY <1>2, <2>2, <3>1 DEF DriverReads
    <3>3. ~overrun => /\ r.sent = r.completed /\ r.ack \subseteq r.sent
                      /\ r.ack = r.sent \/ Cardinality(r.ack) >= MAX_SAMPLES
      BY <3>1, <3>2 DEF ListsInv, AllComplete, Ends, AcksInv, AcksOfPhase
    <3> QED BY <3>2, <3>3 DEF ReportsAgree, TypeInv, TypeOK
  <2> QED BY <2>1, <2>2
<1>3. CASE DriverReturns
  BY <1>3 DEF DriverReturns, ReportsAgree
<1>4. CASE DriverWaits \/ DriverDrains
  BY <1>4 DEF DriverWaits, DriverDrains, ReportsAgree
<1> QED BY <1>1, <1>2, <1>3, <1>4, NextWorks
        DEF Driver, DriverWaitsForDevices, DriverCollects, DriverLooksUp, DriverMakes, DriverSends,
            DriverFails, DriverClearsSamples, DriverClearsTable, DriverStops,
            DriverClosesListener, Idles, Works, PutsSample, TakesAck, TakesStatus

-----------------------------------------------------------------------------

CountInv == TypeInv /\ FlightInv /\ AckInv /\ SentInv /\ ListsInv /\ BooksInv /\ FoundInv

LEMMA InitCounts == Init => CountInv /\ AcksInv /\ ReportsAgree
<1> SUFFICES ASSUME Init PROVE CountInv /\ AcksInv /\ ReportsAgree
  OBVIOUS
<1>1. TypeInv /\ FlightInv
  BY BenchInitTypes, InitFlights
<1>2. /\ \A k \in Conn : down[k] = << >> /\ up[k] = << >> /\ holding[k] = None
      /\ \A d \in Device : job[d] = None /\ sock[d] = None
      /\ \A c \in Cmd : ~Tracked(c)
      /\ driver.at = "connect" /\ driver.sent = {} /\ driver.completed = {}
      /\ \A channel \in {"ack", "execute"}, d \in Device : samples[channel][d] = << >>
      /\ issued = 0
  BY DEF Init, TransportInit, DeviceInit, PendingInit, SamplesInit, CHANNELS, Tracked, Start
<1>3. AckInv
  BY <1>2 DEF AckInv, SocksOpen, AckFirst, JobAcked, ExecutedAcked, TrackedCmds
<1>4. SentInv
  BY <1>2 DEF SentInv, AcksIssued, TracesSent, AckOnWire, TrackedCmds
<1>5. ListsInv
  BY <1>2 DEF ListsInv, PhaseKnown, CompletedDone, AllComplete, Rounds, Ends
<1>6. BooksInv
  BY <1>2 DEF BooksInv, SamplesBooked, HeldOnce, OnceFrom, Held
<1>7. FoundInv
  BY <1>2 DEF FoundInv, TrackedCmds
<1>8. AcksInv
  BY <1>2 DEF AcksInv, AcksOfPhase, Counting, Rounds
<1>9. ReportsAgree
  BY DEF Init, ReportsAgree
<1> QED BY <1>1, <1>3, <1>4, <1>5, <1>6, <1>7, <1>8, <1>9 DEF CountInv

LEMMA NextCounts == CountInv /\ [Next]_vars => CountInv'
BY BenchNextTypes, NextFlights, NextAcks, NextSent, NextLists, NextBooks, NextFound DEF CountInv

\* When no wait ran out, "sent" and "completed" of a report are the same commands
\* (latency_benchmark.py:266-274) and so are its ack samples, as many as a ring holds:
\* none is of another phase, and none is missing while no ring is full.  A completed
\* command without an execute sample is one a session still holds, or a ring is full.
THEOREM ReportsOfBenchmarkAddUp == Spec => []ReportsAddUp
<1>1. CountInv => MissingAreHeld
  BY DEF CountInv, ListsInv, CompletedDone, FoundInv, MissingAreHeld, TrackedCmds, TypeInv, TypeOK
<1>2. CountInv /\ AcksInv /\ ReportsAgree /\ [Next]_vars => (CountInv /\ AcksInv /\ ReportsAgree)'
  BY NextCounts, NextAcksInv, NextAgree DEF CountInv
<1> QED BY InitCounts, <1>1, <1>2, PTL DEF Spec, ReportsAddUp
=============================================================================
