--------------------------- MODULE FramingProofs ----------------------------
(***************************************************************************)
(* The byte streams of a connection, for any number of writers and frames  *)
(* and any size of the kernels' buffers: a request that no other one and   *)
(* no timeout came across is never spoilt, and the device's replies reach  *)
(* the session as the frame channel that Transport takes for granted.      *)
(***************************************************************************)
EXTENDS Framing, SequenceTheorems, WellFoundedInduction, TLAPS

AllReplies == UNION {ToSet(Replies(f)) : f \in Requests}

\* The bytes of a set of frames.
BytesOf(F) == {b \in F \X (1 .. 3) : b[2] <= Width(b[1])}

\* What the session has not taken out of its buffer.
Unread == session.buffer \o up \o device.out

\* The bytes are those of the frame from one of them on.
EndOf(f, bytes) ==
  \E p \in 1 .. Width(f) :
    /\ Len(bytes) = Width(f) - p + 1
    /\ \A i \in 1 .. Len(bytes) : bytes[i] = <<f, p + i - 1>>

\* What a writer still has to hand over is the end of its frame.
WritesOn(w) ==
  writing[w] # << >> => begun[w] >= 1 /\ EndOf(FrameOf(w, begun[w]), writing[w])

TypeInv ==
  /\ open \in BOOLEAN
  /\ begun \in [Writer -> Nat] /\ \A w \in Writer : begun[w] <= Quota(w)
  /\ writing \in [Writer -> Seq(BytesOf(Requests))] /\ \A w \in Writer : WritesOn(w)
  /\ down \in Seq(BytesOf(Requests)) /\ Len(down) <= SendBuffer
  /\ up \in Seq(BytesOf(AllReplies)) /\ Len(up) <= SendBuffer
  /\ device \in [at : {"recv", "lines", "closed"}, buffer : Seq(BytesOf(Requests)),
                 out : Seq(BytesOf(AllReplies))]
  /\ device.at # "lines" => device.out = << >>
  /\ session \in [at : {"greet", "recv", "lines", "closed"},
                  buffer : Seq(BytesOf(AllReplies))]
  /\ timed \in [Writer -> BOOLEAN]
  /\ overlapped \subseteq Requests /\ givenUp \subseteq Requests /\ glued \subseteq Requests
  /\ handled \subseteq Requests /\ torn \subseteq Requests
  /\ answered \in Seq(AllReplies) /\ got \in Seq(AllReplies \cup {Torn})

-----------------------------------------------------------------------------
(* Frames and bytes. *)

LEMMA WidthIs == \A f : Width(f) \in {2, 3} /\ Width(f) \in Nat
BY DEF Width

\* The n-th frame of a writer is a request, and no other frame.
LEMMA FramesOfWriters ==
  /\ \A w \in Writer : Quota(w) \in Nat /\ Quota(w) >= 1
  /\ \A w \in Writer, n \in Nat : 1 <= n /\ n <= Quota(w) => FrameOf(w, n) \in Requests
  /\ \A v, w, m, n : FrameOf(v, m) = FrameOf(w, n) => v = w /\ m = n
<1>1. \A w \in Writer : Quota(w) \in Nat /\ Quota(w) >= 1
  BY BoundsAssumption DEF Quota
<1>2. ASSUME NEW w \in Writer, NEW n \in Nat, 1 <= n, n <= Quota(w)
      PROVE  FrameOf(w, n) \in Requests
  <2>1. CASE w = "session"
    <3>1. n = 1
      BY <1>2, <2>1 DEF Quota
    <3> QED BY <2>1, <3>1 DEF Requests
  <2>2. CASE w # "session"
    <3>1. w \in Sender /\ n \in 1 .. MaxFrames
      BY <1>2, <2>2, BoundsAssumption DEF Writer, Quota
    <3> QED BY <3>1 DEF Requests
  <2> QED BY <2>1, <2>2
<1>3. ASSUME NEW v, NEW w, NEW m, NEW n, FrameOf(v, m) = FrameOf(w, n) PROVE v = w /\ m = n
  <2>1. FrameOf(v, m).id = FrameOf(w, n).id
    BY <1>3
  <2> QED BY <2>1 DEF FrameOf
<1> QED BY <1>1, <1>2, <1>3

\* encode() gives the bytes of the frame.
LEMMA BytesAre ==
  ASSUME NEW F, NEW f \in F
  PROVE  /\ Bytes(f) \in Seq(BytesOf(F)) /\ Len(Bytes(f)) = Width(f) /\ Bytes(f) # << >>
         /\ \A i \in 1 .. Width(f) : Bytes(f)[i] = <<f, i>>
<1>1. \A i \in 1 .. Width(f) : <<f, i>> \in BytesOf(F)
  BY WidthIs DEF BytesOf
<1>2. Width(f) \in Nat /\ Width(f) > 0
  BY WidthIs
<1>3. Bytes(f) \in [1 .. Width(f) -> BytesOf(F)]
  BY <1>1 DEF Bytes
<1> QED BY <1>2, <1>3 DEF Bytes

\* FlattenSeq of one sequence, and of two.
LEMMA FlattenFew ==
  /\ \A seqs : Len(seqs) = 0 => FlattenSeq(seqs) = seqs
  /\ \A s, t : FlattenSeq(<<s>>) = s /\ FlattenSeq(<<s, t>>) = s \o t
<1>1. \A seqs : Len(seqs) = 0 => FlattenSeq(seqs) = seqs
  BY DEF FlattenSeq
<1>2. ASSUME NEW s PROVE FlattenSeq(<<s>>) = s
  <2> DEFINE flat == [i \in 1 .. 1 |-> s]
             eq(f) == f = [i \in 1 .. Len(<<s>>) |->
                             IF i = 1 THEN <<s>>[i] ELSE f[i - 1] \o <<s>>[i]]
             fl == CHOOSE f : eq(f)
  <2>1. eq(flat)
    OBVIOUS
  <2>2. eq(fl)
    BY <2>1
  <2>3. fl[1] = s
    BY <2>2
  <2> QED BY <2>3 DEF FlattenSeq
<1>3. ASSUME NEW s, NEW t PROVE FlattenSeq(<<s, t>>) = s \o t
  <2> DEFINE flat == [i \in 1 .. 2 |-> IF i = 1 THEN s ELSE s \o t]
             eq(f) == f = [i \in 1 .. Len(<<s, t>>) |->
                             IF i = 1 THEN <<s, t>>[i] ELSE f[i - 1] \o <<s, t>>[i]]
             fl == CHOOSE f : eq(f)
  <2>1. eq(flat)
    OBVIOUS
  <2>2. eq(fl)
    BY <2>1
  <2>3. FlattenSeq(<<s, t>>) = fl[2]
    BY DEF FlattenSeq
  <2> HIDE DEF fl
  <2>4. fl = [i \in 1 .. 2 |-> IF i = 1 THEN <<s, t>>[i] ELSE fl[i - 1] \o <<s, t>>[i]]
    BY <2>2
  <2>5. fl[1] = s
    BY <2>4
  <2>6. fl[2] = fl[2 - 1] \o <<s, t>>[2]
    <3>1. \A i \in 1 .. 2 : fl[i] = IF i = 1 THEN <<s, t>>[i] ELSE fl[i - 1] \o <<s, t>>[i]
      BY <2>4, Zenon
    <3> QED BY <3>1
  <2>7. 2 - 1 = 1 /\ <<s, t>>[2] = t
    OBVIOUS
  <2>8. fl[2] = s \o t
    BY <2>5, <2>6, <2>7, Zenon
  <2> QED BY <2>3, <2>8
<1> QED BY <1>1, <1>2, <1>3

\* There is a least number in a set of numbers.
LEMMA LeastNumber ==
  ASSUME NEW T \in SUBSET Nat, T # {}
  PROVE  \E m \in T : \A n \in T : m <= n
<1>1. PICK m \in T : \A n \in T : ~ (<<n, m>> \in OpToRel(<, Nat))
  BY NatLessThanWellFounded, WFMin
<1>2. ASSUME NEW n \in T PROVE m <= n
  <2>1. <<n, m>> \in Nat \X Nat
    OBVIOUS
  <2>2. ~(n < m)
    BY <1>1, <2>1 DEF OpToRel
  <2> QED BY <2>2
<1> QED BY <1>2

\* What the kernel takes and what is left are the two parts of the bytes.
LEMMA TakenAndLeft ==
  ASSUME NEW S, NEW bytes \in Seq(S), NEW stream \in Seq(S), Len(stream) <= SendBuffer
  PROVE  \E k \in 0 .. Len(bytes) :
           /\ Taken(bytes, stream) = stream \o SubSeq(bytes, 1, k)
           /\ Left(bytes, stream) = SubSeq(bytes, k + 1, Len(bytes))
           /\ Len(stream) + k <= SendBuffer
           /\ Room(stream) > 0 /\ bytes # << >> => k >= 1
<1>1. /\ SendBuffer \in Nat /\ Len(stream) \in Nat /\ Len(bytes) \in Nat
      /\ Room(stream) \in Nat /\ Room(stream) = SendBuffer - Len(stream)
  BY BoundsAssumption DEF Room
<1> DEFINE k == Min({Room(stream), Len(bytes)})
<1>2. /\ k \in {Room(stream), Len(bytes)} /\ k <= Room(stream) /\ k <= Len(bytes)
  <2>1. \E x \in {Room(stream), Len(bytes)} : \A y \in {Room(stream), Len(bytes)} : x <= y
    BY <1>1
  <2> QED BY <2>1 DEF Min
<1>3. Left(bytes, stream) = SubSeq(bytes, k + 1, Len(bytes))
  <2>1. CASE k = Room(stream)
    BY <2>1 DEF Left
  <2>2. CASE k = Len(bytes) /\ k < Room(stream)
    <3>1. SubSeq(bytes, k + 1, Len(bytes)) = << >>
      BY <1>1, <2>2, SubSeqEmpty
    <3>2. SubSeq(bytes, Room(stream) + 1, Len(bytes)) = << >>
      BY <1>1, <2>2, SubSeqEmpty
    <3> QED BY <3>1, <3>2 DEF Left
  <2> HIDE DEF k
  <2> QED BY <1>1, <1>2, <2>1, <2>2
<1>4. Taken(bytes, stream) = stream \o SubSeq(bytes, 1, k)
  BY DEF Taken
<1>5. bytes # << >> => Len(bytes) >= 1
  OBVIOUS
<1>6. k \in 0 .. Len(bytes) /\ Len(stream) + k <= SendBuffer
      /\ (Room(stream) > 0 /\ bytes # << >> => k >= 1)
  <2> HIDE DEF k
  <2> QED BY <1>1, <1>2, <1>5
<1> HIDE DEF k
<1> QED BY <1>3, <1>4, <1>6

\* The first k elements of a sequence, and the others.
LEMMA PartsOf ==
  ASSUME NEW S, NEW s \in Seq(S), NEW k \in 0 .. Len(s)
  PROVE  /\ SubSeq(s, 1, k) \in Seq(S) /\ Len(SubSeq(s, 1, k)) = k
         /\ \A i \in 1 .. k : SubSeq(s, 1, k)[i] = s[i]
         /\ SubSeq(s, k + 1, Len(s)) \in Seq(S)
         /\ Len(SubSeq(s, k + 1, Len(s))) = Len(s) - k
         /\ \A i \in 1 .. Len(s) - k : SubSeq(s, k + 1, Len(s))[i] = s[k + i]
         /\ SubSeq(s, 1, k) \o SubSeq(s, k + 1, Len(s)) = s
<1> DEFINE n == Len(s)
           r == SubSeq(s, k + 1, n)
<1>1. n \in Nat /\ k \in Nat /\ k <= n /\ \A i \in 1 .. n : s[i] \in S
  OBVIOUS
<1>2. /\ r \in Seq(S) /\ Len(r) = IF k + 1 <= n THEN n - (k + 1) + 1 ELSE 0
      /\ \A i \in 1 .. n - (k + 1) + 1 : r[i] = s[(k + 1) + i - 1]
  <2>1. k + 1 \in Int /\ n \in Int /\ \A i \in k + 1 .. n : s[i] \in S
    BY <1>1
  <2> HIDE DEF n
  <2> QED BY <2>1, SubSeqProperties
<1>3. /\ SubSeq(s, 1, k) \in Seq(S) /\ Len(SubSeq(s, 1, k)) = k
      /\ \A i \in 1 .. k : SubSeq(s, 1, k)[i] = s[i]
  BY <1>1
<1>4. SubSeq(s, 1, k) \o r = s
  <2>1. SubSeq(s, 1, k) \o r = SubSeq(s, 1, n)
    <3>1. 1 \in 1 .. n + 1 /\ k \in 1 - 1 .. n /\ n \in k .. n
      BY <1>1
    <3> QED BY <3>1, ConcatAdjacentSubSeq
  <2> QED BY <2>1, SubSeqFull
<1> HIDE DEF n, r
<1>5. Len(r) = n - k
  BY ONLY <1>1, <1>2
<1>6. ASSUME NEW i \in 1 .. n - k PROVE r[i] = s[k + i]
  <2>1. (k + 1) + i - 1 = k + i /\ i \in 1 .. n - (k + 1) + 1
    BY ONLY <1>1, <1>6
  <2> QED BY <1>2, <2>1
<1> QED BY <1>2, <1>3, <1>4, <1>5, <1>6 DEF n, r

LEMMA EndsOfFrames ==
  /\ \A f : EndOf(f, Bytes(f))
  /\ \A S, f : \A s \in Seq(S) : \A k \in 0 .. Len(s) :
       k < Len(s) /\ EndOf(f, s) => EndOf(f, SubSeq(s, k + 1, Len(s)))
<1>1. ASSUME NEW f PROVE EndOf(f, Bytes(f))
  <2>1. /\ Width(f) \in Nat /\ 1 \in 1 .. Width(f) /\ Width(f) = Width(f) - 1 + 1
        /\ \A i \in 1 .. Width(f) : 1 + i - 1 = i
    <3>1. Width(f) = 2 \/ Width(f) = 3
      BY WidthIs
    <3> QED BY <3>1
  <2>2. Len(Bytes(f)) = Width(f) /\ \A i \in 1 .. Width(f) : Bytes(f)[i] = <<f, i>>
    BY BytesAre
  <2> QED BY <2>1, <2>2 DEF EndOf
<1>2. ASSUME NEW S, NEW f, NEW s \in Seq(S), NEW k \in 0 .. Len(s), k < Len(s), EndOf(f, s)
      PROVE  EndOf(f, SubSeq(s, k + 1, Len(s)))
  <2> DEFINE r == SubSeq(s, k + 1, Len(s))
             n == Len(s)
  <2>1. PICK p \in 1 .. Width(f) : /\ n = Width(f) - p + 1
                                   /\ \A i \in 1 .. n : s[i] = <<f, p + i - 1>>
    BY <1>2 DEF EndOf
  <2>2. n \in Nat /\ k \in Nat /\ k < n /\ Len(r) = n - k /\ \A i \in 1 .. n - k : r[i] = s[k + i]
    BY <1>2, PartsOf
  <2> HIDE DEF r, n
  <2>3. Width(f) \in Nat
    BY WidthIs
  <2>4. p + k \in 1 .. Width(f) /\ Len(r) = Width(f) - (p + k) + 1
    BY ONLY <2>1, <2>2, <2>3
  <2>5. ASSUME NEW i \in 1 .. Len(r) PROVE r[i] = <<f, (p + k) + i - 1>>
    <3>1. k + i \in 1 .. n /\ p + (k + i) - 1 = (p + k) + i - 1 /\ i \in 1 .. n - k
      BY ONLY <2>1, <2>2, <2>3, <2>5
    <3> QED BY <2>1, <2>2, <3>1
  <2> QED BY <2>4, <2>5 DEF EndOf, r, n
<1> QED BY <1>1, <1>2

\* The first line of a buffer.
LEMMA LineOf ==
  ASSUME NEW S, NEW buffer \in Seq(S), HasLine(buffer)
  PROVE  /\ LineEnd(buffer) \in 1 .. Len(buffer) /\ IsNewline(buffer[LineEnd(buffer)])
         /\ \A j \in 1 .. LineEnd(buffer) - 1 : ~IsNewline(buffer[j])
         /\ Line(buffer) \in Seq(S) /\ Len(Line(buffer)) = LineEnd(buffer) - 1
         /\ \A j \in 1 .. LineEnd(buffer) - 1 : Line(buffer)[j] = buffer[j]
         /\ Rest(buffer) \in Seq(S) /\ Len(Rest(buffer)) = Len(buffer) - LineEnd(buffer)
         /\ \A j \in 1 .. Len(Rest(buffer)) : Rest(buffer)[j] = buffer[LineEnd(buffer) + j]
<1> DEFINE N == {i \in DOMAIN buffer : IsNewline(buffer[i])}
           e == LineEnd(buffer)
<1>1. DOMAIN buffer = 1 .. Len(buffer) /\ Len(buffer) \in Nat
  OBVIOUS
<1>2. PICK m \in N : \A n \in N : m <= n
  <2>1. N \in SUBSET Nat /\ N # {}
    BY <1>1 DEF HasLine
  <2> HIDE DEF N
  <2> QED BY <2>1, LeastNumber
<1>3. \A j \in 1 .. m - 1 : ~IsNewline(buffer[j])
  <2> SUFFICES ASSUME NEW j \in 1 .. m - 1, IsNewline(buffer[j]) PROVE FALSE
    OBVIOUS
  <2>1. j \in N
    BY <1>1
  <2> QED BY <1>1, <1>2, <2>1
<1>4. \E i \in DOMAIN buffer : IsNewline(buffer[i]) /\ \A j \in 1 .. i - 1 : ~IsNewline(buffer[j])
  BY <1>2, <1>3
<1>5. e \in DOMAIN buffer /\ IsNewline(buffer[e]) /\ \A j \in 1 .. e - 1 : ~IsNewline(buffer[j])
  BY <1>4 DEF LineEnd
<1> HIDE DEF e
<1>6. /\ Line(buffer) = SubSeq(buffer, 1, e - 1) /\ Rest(buffer) = SubSeq(buffer, e + 1, Len(buffer))
      /\ e \in 1 .. Len(buffer)
  BY <1>1, <1>5 DEF Line, Rest, e
<1>7. /\ Line(buffer) \in Seq(S) /\ Len(Line(buffer)) = e - 1
      /\ \A j \in 1 .. e - 1 : Line(buffer)[j] = buffer[j]
  BY <1>1, <1>6
<1>8. /\ Rest(buffer) \in Seq(S) /\ Len(Rest(buffer)) = Len(buffer) - e
      /\ \A j \in 1 .. Len(Rest(buffer)) : Rest(buffer)[j] = buffer[e + j]
  <2>1. e + 1 \in Int /\ Len(buffer) \in Int /\ \A i \in e + 1 .. Len(buffer) : buffer[i] \in S
    BY <1>1, <1>6
  <2>2. /\ SubSeq(buffer, e + 1, Len(buffer)) \in Seq(S)
        /\ Len(SubSeq(buffer, e + 1, Len(buffer))) =
             IF e + 1 <= Len(buffer) THEN Len(buffer) - (e + 1) + 1 ELSE 0
        /\ \A i \in 1 .. Len(buffer) - (e + 1) + 1 :
             SubSeq(buffer, e + 1, Len(buffer))[i] = buffer[(e + 1) + i - 1]
    BY <2>1, SubSeqProperties
  <2> DEFINE r == SubSeq(buffer, e + 1, Len(buffer))
             n == Len(buffer)
  <2>3. /\ n \in Nat /\ e \in 1 .. n /\ r \in Seq(S)
        /\ Len(r) = IF e + 1 <= n THEN n - (e + 1) + 1 ELSE 0
        /\ \A i \in 1 .. n - (e + 1) + 1 : r[i] = buffer[(e + 1) + i - 1]
    BY <1>1, <1>6, <2>2
  <2> HIDE DEF r, n
  <2>4. Len(r) = n - e
    BY ONLY <2>3
  <2>5. ASSUME NEW j \in 1 .. Len(r) PROVE r[j] = buffer[e + j]
    <3>1. (e + 1) + j - 1 = e + j /\ j \in 1 .. n - (e + 1) + 1
      BY ONLY <2>3, <2>4, <2>5
    <3> QED BY <2>3, <3>1
  <2> QED BY <1>6, <2>3, <2>4, <2>5 DEF r, n
<1> QED BY <1>5, <1>6, <1>7, <1>8 DEF e

\* The bytes of the replies to one request.
SentFor(replies) == FlattenSeq([i \in DOMAIN replies |-> Bytes(replies[i])])

LEMMA RepliesAre ==
  ASSUME NEW f \in Requests
  PROVE  \/ Replies(f) = << >> /\ SentFor(Replies(f)) = << >>
         \/ \E a \in AllReplies : Replies(f) = <<a>> /\ SentFor(Replies(f)) = Bytes(a)
         \/ \E a, b \in AllReplies :
              Replies(f) = <<a, b>> /\ SentFor(Replies(f)) = Bytes(a) \o Bytes(b)
<1> DEFINE r == Replies(f)
<1>1. PICK a, b : r = << >> \/ r = <<a>> \/ r = <<a, b>>
  BY DEF Replies
<1>2. AllReplies = UNION {ToSet(Replies(g)) : g \in Requests}
  BY DEF AllReplies
<1>3. ToSet(r) \subseteq AllReplies
  BY <1>2
<1> HIDE DEF r
<1>4. /\ r = << >> => SentFor(r) = << >>
      /\ r = <<a>> => SentFor(r) = Bytes(a)
      /\ r = <<a, b>> => SentFor(r) = Bytes(a) \o Bytes(b)
  <2> DEFINE bytes == [i \in DOMAIN r |-> Bytes(r[i])]
  <2>1. CASE r = << >>
    <3>1. bytes = << >>
      BY <2>1
    <3> HIDE DEF bytes
    <3>2. SentFor(r) = << >>
      <4>1. FlattenSeq(bytes) = bytes
        BY <3>1, FlattenFew
      <4> QED BY <3>1, <4>1 DEF SentFor, bytes
    <3> QED BY <2>1, <3>2
  <2>2. CASE r = <<a>>
    <3>1. bytes = <<Bytes(a)>>
      BY <2>2
    <3> QED BY <2>2, <3>1, FlattenFew DEF SentFor
  <2>3. CASE r = <<a, b>>
    <3>1. bytes = <<Bytes(a), Bytes(b)>>
      BY <2>3
    <3> QED BY <2>3, <3>1, FlattenFew DEF SentFor
  <2> QED BY <1>1, <2>1, <2>2, <2>3
<1>5. r = <<a>> => a \in AllReplies
  BY <1>3 DEF ToSet
<1>6. r = <<a, b>> => a \in AllReplies /\ b \in AllReplies
  <2>1. r = <<a, b>> => r[1] \in ToSet(r) /\ r[2] \in ToSet(r)
    BY DEF ToSet
  <2> QED BY <1>3, <2>1
<1>7. \/ r = << >> /\ SentFor(r) = << >>
      \/ \E x \in AllReplies : r = <<x>> /\ SentFor(r) = Bytes(x)
      \/ \E x, y \in AllReplies : r = <<x, y>> /\ SentFor(r) = Bytes(x) \o Bytes(y)
  BY <1>1, <1>4, <1>5, <1>6
<1> QED BY <1>7 DEF r

-----------------------------------------------------------------------------
(* Types. *)

LEMMA FramingInitTypes == Init => TypeInv
<1> SUFFICES ASSUME Init PROVE TypeInv
  OBVIOUS
<1> USE DEF Init
<1>1. "session" \in Writer /\ 1 <= Quota("session") /\ \A w \in Writer : Quota(w) \in Nat
  BY FramesOfWriters DEF Writer, Quota
<1> DEFINE f == FrameOf("session", 1)
<1>2. f \in Requests
  BY DEF Requests
<1>3. begun \in [Writer -> Nat] /\ \A w \in Writer : begun[w] <= Quota(w)
  BY <1>1
<1> HIDE DEF f
<1>4. /\ Bytes(f) \in Seq(BytesOf(Requests)) /\ Len(Bytes(f)) = Width(f)
      /\ \A i \in 1 .. Width(f) : Bytes(f)[i] = <<f, i>>
  BY <1>2, BytesAre
<1>5. writing \in [Writer -> Seq(BytesOf(Requests))]
  BY <1>4 DEF f
<1>6. ASSUME NEW w \in Writer PROVE WritesOn(w)
  <2>1. CASE w = "session"
    <3>1. begun[w] = 1 /\ writing[w] = Bytes(f) /\ FrameOf(w, begun[w]) = f
      BY <1>1, <2>1 DEF f
    <3> QED BY <3>1, EndsOfFrames DEF WritesOn
  <2>2. CASE w # "session"
    BY <2>2 DEF WritesOn
  <2> QED BY <2>1, <2>2
<1>7. 0 <= SendBuffer /\ Len(down) = 0 /\ Len(up) = 0
  BY BoundsAssumption
<1> QED BY <1>3, <1>5, <1>6, <1>7 DEF TypeInv

LEMMA SendTypes == ASSUME TypeInv, NEW w \in Writer, Send(w) PROVE TypeInv'
<1> USE DEF TypeInv, controllerVars, deviceSide, sessionSide
<1>1. ASSUME NEW v \in Writer, writing'[v] = writing[v], begun'[v] = begun[v] PROVE WritesOn(v)'
  BY <1>1 DEF WritesOn
<1>2. CASE SendBegin(w)
  <2> DEFINE f == FrameOf(w, begun[w] + 1)
  <2>1. /\ begun[w] < Quota(w) /\ begun' = [begun EXCEPT ![w] = begun[w] + 1]
        /\ writing' = [writing EXCEPT ![w] = Bytes(f)]
        /\ timed' = [timed EXCEPT ![w] = session.at = "greet"]
        /\ UNCHANGED <<open, down, up, overlapped, givenUp, glued, deviceSide, sessionSide>>
    BY <1>2 DEF SendBegin
  <2>2. /\ begun[w] + 1 \in Nat /\ begun[w] + 1 >= 1 /\ begun[w] + 1 <= Quota(w)
        /\ f \in Requests
    BY <2>1, FramesOfWriters
  <2> HIDE DEF f
  <2>3. /\ Bytes(f) \in Seq(BytesOf(Requests)) /\ Len(Bytes(f)) = Width(f)
        /\ \A i \in 1 .. Width(f) : Bytes(f)[i] = <<f, i>>
    BY <2>2, BytesAre
  <2>4. writing' \in [Writer -> Seq(BytesOf(Requests))] /\ begun' \in [Writer -> Nat]
    BY <2>1, <2>2, <2>3
  <2>5. \A v \in Writer : begun'[v] <= Quota(v)
    BY <2>1, <2>2
  <2>6. WritesOn(w)'
    <3>1. begun'[w] = begun[w] + 1 /\ writing'[w] = Bytes(f) /\ FrameOf(w, begun'[w]) = f
      BY <2>1 DEF f
    <3> QED BY <2>2, <3>1, EndsOfFrames DEF WritesOn
  <2>7. \A v \in Writer : WritesOn(v)'
    BY <1>1, <2>1, <2>6
  <2>8. timed' \in [Writer -> BOOLEAN]
    BY <2>1, Zenon
  <2> QED BY <2>1, <2>4, <2>5, <2>7, <2>8
<1>3. CASE SendSome(w)
  <2> DEFINE f == FrameOf(w, begun[w])
             bytes == writing[w]
  <2>1. /\ bytes # << >> /\ down' = Taken(bytes, down)
        /\ writing' = [writing EXCEPT ![w] = Left(bytes, down)]
        /\ UNCHANGED <<open, begun, timed, givenUp, up, deviceSide, sessionSide>>
    BY <1>3 DEF SendSome
  <2>2. PICK k \in 0 .. Len(bytes) :
           /\ Taken(bytes, down) = down \o SubSeq(bytes, 1, k)
           /\ Left(bytes, down) = SubSeq(bytes, k + 1, Len(bytes))
           /\ Len(down) + k <= SendBuffer
    BY TakenAndLeft
  <2>3. bytes \in Seq(BytesOf(Requests)) /\ Len(bytes) \in Nat
    OBVIOUS
  <2> HIDE DEF bytes
  <2>4. /\ SubSeq(bytes, 1, k) \in Seq(BytesOf(Requests)) /\ Len(SubSeq(bytes, 1, k)) = k
        /\ SubSeq(bytes, k + 1, Len(bytes)) \in Seq(BytesOf(Requests))
        /\ Len(SubSeq(bytes, k + 1, Len(bytes))) = Len(bytes) - k
        /\ \A i \in 1 .. Len(bytes) - k : SubSeq(bytes, k + 1, Len(bytes))[i] = bytes[k + i]
    BY ONLY <2>2, <2>3, PartsOf
  <2>5. down' \in Seq(BytesOf(Requests)) /\ Len(down') <= SendBuffer
    BY <2>1, <2>2, <2>4
  <2>6. writing' \in [Writer -> Seq(BytesOf(Requests))]
    BY <2>1, <2>2, <2>4
  <2>7. WritesOn(w)'
    <3>1. begun[w] >= 1 /\ EndOf(f, bytes)
      BY <2>1 DEF WritesOn, bytes
    <3>2. writing'[w] = SubSeq(bytes, k + 1, Len(bytes)) /\ begun'[w] = begun[w]
      BY <2>1, <2>2
    <3>3. writing'[w] # << >> => k < Len(bytes)
      BY <2>3, <2>4, <3>2
    <3>4. k < Len(bytes) => EndOf(f, SubSeq(bytes, k + 1, Len(bytes)))
      BY <2>3, <3>1, EndsOfFrames
    <3> QED BY <3>1, <3>2, <3>3, <3>4 DEF WritesOn
  <2>8. \A v \in Writer : WritesOn(v)'
    BY <1>1, <2>1, <2>7
  <2>9. overlapped' \subseteq Requests /\ glued' \subseteq Requests
    <3>1. ASSUME NEW u \in Writer, MidFrame(u) \/ u = w PROVE FrameOf(u, begun[u]) \in Requests
      <4>1. writing[u] # << >>
        BY <2>1, <3>1 DEF MidFrame, bytes
      <4>2. begun[u] >= 1 /\ begun[u] \in Nat /\ begun[u] <= Quota(u)
        BY <4>1 DEF WritesOn
      <4> QED BY <4>2, FramesOfWriters
    <3> QED BY <1>3, <3>1 DEF SendSome
  <2> QED BY <2>1, <2>5, <2>6, <2>8, <2>9
<1>4. CASE SendTimesOut(w)
  <2>1. \A v \in Writer : WritesOn(v)'
    BY <1>1, <1>4 DEF SendTimesOut, WritesOn
  <2>2. writing' \in [Writer -> Seq(BytesOf(Requests))]
    BY <1>4 DEF SendTimesOut
  <2>3. FrameOf(w, begun[w]) \in Requests
    <3>1. begun[w] >= 1 /\ begun[w] \in Nat /\ begun[w] <= Quota(w)
      BY <1>4 DEF SendTimesOut, WritesOn
    <3> QED BY <3>1, FramesOfWriters
  <2>4. givenUp' \subseteq Requests
    BY <1>4, <2>3 DEF SendTimesOut
  <2> QED BY <1>4, <2>1, <2>2, <2>4 DEF SendTimesOut
<1>5. CASE SendIsLost(w)
  <2>1. \A v \in Writer : WritesOn(v)'
    BY <1>1, <1>5 DEF SendIsLost, WritesOn
  <2>2. writing' \in [Writer -> Seq(BytesOf(Requests))]
    BY <1>5 DEF SendIsLost
  <2> QED BY <1>5, <2>1, <2>2 DEF SendIsLost
<1> QED BY <1>2, <1>3, <1>4, <1>5 DEF Send

\* What the device's thread does not touch.
LEMMA DeviceKeeps ==
  ASSUME TypeInv, Device
  PROVE  /\ UNCHANGED <<begun, writing, timed, overlapped, givenUp, glued, session, got>>
         /\ (\A w \in Writer : WritesOn(w))'
<1>1. UNCHANGED <<begun, writing, timed, overlapped, givenUp, glued, session, got>>
  BY DEF Device, DeviceRecv, DeviceLine, DeviceNoLine, DeviceSend, DeviceCloses, controllerVars,
         sessionSide
<1> QED BY <1>1 DEF TypeInv, WritesOn

\* A line that is a frame is one of a request, as are the bytes of one that is not.
LEMMA LinesAreTyped ==
  ASSUME NEW F, NEW buffer \in Seq(BytesOf(F)), HasLine(buffer)
  PROVE  /\ IsFrame(Line(buffer)) => Line(buffer)[1][1] \in F
         /\ {b[1] : b \in ToSet(Line(buffer))} \subseteq F
         /\ Rest(buffer) \in Seq(BytesOf(F))
<1> DEFINE line == Line(buffer)
<1>1. line \in Seq(BytesOf(F)) /\ Rest(buffer) \in Seq(BytesOf(F))
  BY LineOf
<1> HIDE DEF line
<1>2. \A i \in DOMAIN line : line[i][1] \in F
  BY <1>1 DEF BytesOf
<1>3. IsFrame(line) => 1 \in DOMAIN line
  <2>1. line # << >> => Len(line) >= 1
    BY <1>1
  <2> QED BY <1>1, <2>1 DEF IsFrame
<1> QED BY <1>1, <1>2, <1>3 DEF ToSet, line

LEMMA DeviceTypes == ASSUME TypeInv, Device PROVE TypeInv'
<1>1. /\ UNCHANGED <<begun, writing, timed, overlapped, givenUp, glued, session, got>>
      /\ (\A w \in Writer : WritesOn(w))'
  BY DeviceKeeps
<1> DEFINE ReqBytes == BytesOf(Requests)
           RepBytes == BytesOf(AllReplies)
<1>2. /\ device \in [at : {"recv", "lines", "closed"}, buffer : Seq(ReqBytes), out : Seq(RepBytes)]
      /\ device.at # "lines" => device.out = << >>
      /\ down \in Seq(ReqBytes) /\ Len(down) <= SendBuffer
      /\ up \in Seq(RepBytes) /\ Len(up) <= SendBuffer
      /\ open \in BOOLEAN /\ handled \subseteq Requests /\ torn \subseteq Requests
      /\ answered \in Seq(AllReplies)
  BY DEF TypeInv
<1> HIDE DEF ReqBytes, RepBytes
<1> SUFFICES /\ device' \in [at : {"recv", "lines", "closed"}, buffer : Seq(ReqBytes), out : Seq(RepBytes)]
             /\ device'.at # "lines" => device'.out = << >>
             /\ down' \in Seq(ReqBytes) /\ Len(down') <= SendBuffer
             /\ up' \in Seq(RepBytes) /\ Len(up') <= SendBuffer
             /\ open' \in BOOLEAN /\ handled' \subseteq Requests /\ torn' \subseteq Requests
             /\ answered' \in Seq(AllReplies)
  BY <1>1 DEF TypeInv, ReqBytes, RepBytes
<1>3. CASE DeviceRecv
  <2>1. PICK n \in 1 .. Len(down) :
           /\ device' = [device EXCEPT !.at = "lines", !.buffer = device.buffer \o SubSeq(down, 1, n)]
           /\ down' = SubSeq(down, n + 1, Len(down))
           /\ device.at = "recv" /\ UNCHANGED <<open, up, handled, torn, answered>>
    BY <1>3 DEF DeviceRecv, Chunks
  <2>2. /\ SubSeq(down, 1, n) \in Seq(ReqBytes) /\ SubSeq(down, n + 1, Len(down)) \in Seq(ReqBytes)
        /\ Len(SubSeq(down, n + 1, Len(down))) = Len(down) - n
    <3>1. n \in 0 .. Len(down)
      BY <1>2
    <3> QED BY <1>2, <3>1, PartsOf
  <2>3. device.buffer \o SubSeq(down, 1, n) \in Seq(ReqBytes)
    BY <1>2, <2>2
  <2>4. Len(down') <= SendBuffer
    BY <1>2, <2>1, <2>2, BoundsAssumption
  <2> QED BY <1>2, <2>1, <2>2, <2>3, <2>4
<1>4. CASE DeviceLine
  <2> DEFINE line == Line(device.buffer)
             frame == line[1][1]
             replies == IF IsFrame(line) THEN Replies(frame) ELSE << >>
  <2>1. /\ device.at = "lines" /\ HasLine(device.buffer)
        /\ device' = [device EXCEPT !.buffer = Rest(device.buffer), !.out = SentFor(replies)]
        /\ answered' = answered \o replies
        /\ handled' = handled \/ (IsFrame(line) /\ handled' = handled \cup {frame})
        /\ torn' \subseteq torn \cup {b[1] : b \in ToSet(line)}
        /\ UNCHANGED <<open, down, up>>
    BY <1>4 DEF DeviceLine, SentFor
  <2>2. /\ IsFrame(line) => frame \in Requests
        /\ {b[1] : b \in ToSet(line)} \subseteq Requests /\ Rest(device.buffer) \in Seq(ReqBytes)
    BY <1>2, <2>1, LinesAreTyped DEF ReqBytes
  <2>3. replies \in Seq(AllReplies) /\ SentFor(replies) \in Seq(RepBytes)
    <3>1. CASE IsFrame(line)
      <4> HIDE DEF line
      <4>1. frame \in Requests /\ replies = Replies(frame)
        BY <2>2, <3>1
      <4> HIDE DEF replies, frame
      <4>2. \A a, b \in AllReplies :
              Bytes(a) \in Seq(RepBytes) /\ Bytes(a) \o Bytes(b) \in Seq(RepBytes)
        BY BytesAre DEF RepBytes
      <4>3. << >> \in Seq(AllReplies) /\ << >> \in Seq(RepBytes)
        OBVIOUS
      <4>4. \A a, b \in AllReplies : <<a>> \in Seq(AllReplies) /\ <<a, b>> \in Seq(AllReplies)
        OBVIOUS
      <4> QED BY <4>1, <4>2, <4>3, <4>4, RepliesAre
    <3>2. CASE ~IsFrame(line)
      <4>1. replies = << >>
        BY <3>2
      <4>2. SentFor(<< >>) = << >>
        <5>1. [i \in DOMAIN << >> |-> Bytes(<< >>[i])] = << >>
          OBVIOUS
        <5> QED BY <5>1, FlattenFew DEF SentFor
      <4>3. << >> \in Seq(AllReplies) /\ << >> \in Seq(RepBytes)
        OBVIOUS
      <4> HIDE DEF replies
      <4> QED BY <4>1, <4>2, <4>3
    <3> QED BY <3>1, <3>2
  <2> HIDE DEF line, frame, replies
  <2>4. answered' \in Seq(AllReplies)
    BY <1>2, <2>1, <2>3
  <2>5. handled' \subseteq Requests /\ torn' \subseteq Requests
    BY <1>2, <2>1, <2>2
  <2> QED BY <1>2, <2>1, <2>2, <2>3, <2>4, <2>5
<1>5. CASE DeviceNoLine
  BY <1>2, <1>5 DEF DeviceNoLine
<1>6. CASE DeviceSend
  <2>1. /\ device.out # << >> /\ up' = Taken(device.out, up)
        /\ device' = [device EXCEPT !.out = Left(device.out, up)]
        /\ UNCHANGED <<open, down, handled, torn, answered>>
    BY <1>6 DEF DeviceSend
  <2>2. PICK k \in 0 .. Len(device.out) :
           /\ Taken(device.out, up) = up \o SubSeq(device.out, 1, k)
           /\ Left(device.out, up) = SubSeq(device.out, k + 1, Len(device.out))
           /\ Len(up) + k <= SendBuffer
    BY <1>2, TakenAndLeft
  <2>3. /\ SubSeq(device.out, 1, k) \in Seq(RepBytes) /\ Len(SubSeq(device.out, 1, k)) = k
        /\ SubSeq(device.out, k + 1, Len(device.out)) \in Seq(RepBytes)
    BY <1>2, PartsOf
  <2>4. up' \in Seq(RepBytes) /\ Len(up') <= SendBuffer
    BY <1>2, <2>1, <2>2, <2>3
  <2> QED BY <1>2, <2>1, <2>2, <2>3, <2>4
<1>7. CASE DeviceCloses
  <2>1. 0 <= SendBuffer
    BY BoundsAssumption
  <2>2. << >> \in Seq(ReqBytes) /\ << >> \in Seq(RepBytes) /\ Len(<< >>) = 0
    OBVIOUS
  <2>3. /\ open' = FALSE /\ down' = << >>
        /\ device' = [at |-> "closed", buffer |-> << >>, out |-> << >>]
        /\ UNCHANGED <<up, handled, torn, answered>>
    BY <1>7 DEF DeviceCloses
  <2>4. device'.at = "closed" /\ device'.out = << >> /\ Len(down') <= SendBuffer
    BY <2>1, <2>2, <2>3
  <2> QED BY <1>2, <2>2, <2>3, <2>4
<1> QED BY <1>3, <1>4, <1>5, <1>6, <1>7 DEF Device

LEMMA SessionKeeps ==
  ASSUME TypeInv, Session
  PROVE  /\ UNCHANGED <<begun, writing, timed, overlapped, givenUp, glued, down, device,
                      handled, torn, answered>>
         /\ (\A w \in Writer : WritesOn(w))'
<1>1. UNCHANGED <<begun, writing, timed, overlapped, givenUp, glued, down, device,
                      handled, torn, answered>>
  BY DEF Session, SessionGreeted, SessionRecv, SessionLine, SessionNoLine, SessionCloses,
         controllerVars, deviceSide
<1> QED BY <1>1 DEF TypeInv, WritesOn

LEMMA SessionTypes == ASSUME TypeInv, Session PROVE TypeInv'
<1> DEFINE RepBytes == BytesOf(AllReplies)
<1>1. /\ session \in [at : {"greet", "recv", "lines", "closed"}, buffer : Seq(RepBytes)]
      /\ up \in Seq(RepBytes) /\ Len(up) <= SendBuffer /\ open \in BOOLEAN
      /\ got \in Seq(AllReplies \cup {Torn})
  BY DEF TypeInv
<1>2. SUFFICES /\ session' \in [at : {"greet", "recv", "lines", "closed"}, buffer : Seq(RepBytes)]
               /\ up' \in Seq(RepBytes) /\ Len(up') <= SendBuffer /\ open' \in BOOLEAN
               /\ got' \in Seq(AllReplies \cup {Torn})
  BY SessionKeeps DEF TypeInv
<1> HIDE DEF RepBytes
<1>3. CASE SessionGreeted \/ SessionNoLine
  BY <1>1, <1>3 DEF SessionGreeted, SessionNoLine
<1>4. CASE SessionRecv
  <2>1. PICK n \in 1 .. Len(up) :
           /\ session' = [at |-> "lines", buffer |-> session.buffer \o SubSeq(up, 1, n)]
           /\ up' = SubSeq(up, n + 1, Len(up)) /\ UNCHANGED <<open, got>>
    BY <1>4 DEF SessionRecv, Chunks
  <2>2. /\ SubSeq(up, 1, n) \in Seq(RepBytes) /\ SubSeq(up, n + 1, Len(up)) \in Seq(RepBytes)
        /\ Len(SubSeq(up, n + 1, Len(up))) = Len(up) - n
    <3>1. n \in 0 .. Len(up)
      BY <1>1
    <3> QED BY <1>1, <3>1, PartsOf
  <2>3. session.buffer \o SubSeq(up, 1, n) \in Seq(RepBytes)
    BY <1>1, <2>2
  <2>4. Len(up') <= SendBuffer
    BY <1>1, <2>1, <2>2, BoundsAssumption
  <2> QED BY <1>1, <2>1, <2>2, <2>3, <2>4
<1>5. CASE SessionLine
  <2> DEFINE line == Line(session.buffer)
             frame == IF IsFrame(line) THEN line[1][1] ELSE Torn
  <2>1. /\ HasLine(session.buffer) /\ got' = Append(got, frame)
        /\ session' = [session EXCEPT !.buffer = Rest(session.buffer)] /\ UNCHANGED <<open, up>>
    BY <1>5 DEF SessionLine
  <2>2. frame \in AllReplies \cup {Torn} /\ Rest(session.buffer) \in Seq(RepBytes)
    BY <1>1, <2>1, LinesAreTyped DEF RepBytes
  <2> HIDE DEF frame
  <2> QED BY <1>1, <2>1, <2>2
<1>6. CASE SessionCloses
  <2>1. 0 <= SendBuffer
    BY BoundsAssumption
  <2>2. << >> \in Seq(RepBytes) /\ Len(<< >>) = 0
    OBVIOUS
  <2>3. /\ open' = FALSE /\ up' = << >> /\ session' = [at |-> "closed", buffer |-> << >>]
        /\ UNCHANGED got
    BY <1>6 DEF SessionCloses
  <2>4. Len(up') <= SendBuffer
    BY <2>1, <2>2, <2>3
  <2> QED BY <1>1, <2>2, <2>3, <2>4
<1> QED BY <1>3, <1>4, <1>5, <1>6 DEF Session

LEMMA StutterTypes == ASSUME TypeInv, UNCHANGED vars PROVE TypeInv'
BY DEF TypeInv, WritesOn, vars, controllerVars, deviceSide, sessionSide

LEMMA TypeInvHolds == Spec => []TypeInv
<1>1. TypeInv /\ [Next]_vars => TypeInv'
  <2> QED BY StutterTypes, DeviceTypes, SessionTypes, SendTypes DEF Next
<1> QED BY <1>1, FramingInitTypes, PTL DEF Spec

LEMMA TypeInvIsTyped == TypeInv => TypeOK
<1> SUFFICES ASSUME TypeInv PROVE TypeOK
  OBVIOUS
<1> USE DEF TypeInv
<1>1. /\ BytesOf(Requests) \subseteq AllBytes /\ BytesOf(AllReplies) \subseteq AllBytes
  <2> DEFINE F == Requests \cup AllReplies
  <2>1. AllBytes = UNION {ToSet(Bytes(f)) : f \in F}
    BY DEF AllBytes, AllReplies
  <2>2. ASSUME NEW b \in BytesOf(F) PROVE \E f \in F : b \in ToSet(Bytes(f))
    <3>1. /\ b = <<b[1], b[2]>> /\ b[1] \in F /\ b[2] \in 1 .. Width(b[1])
      BY <2>2, WidthIs DEF BytesOf
    <3>2. b[2] \in DOMAIN Bytes(b[1]) /\ Bytes(b[1])[b[2]] = b
      BY <3>1, WidthIs DEF Bytes
    <3>3. b \in ToSet(Bytes(b[1]))
      BY <3>2 DEF ToSet
    <3> QED BY <3>1, <3>3
  <2>3. BytesOf(Requests) \subseteq BytesOf(F) /\ BytesOf(AllReplies) \subseteq BytesOf(F)
    BY DEF BytesOf
  <2> QED BY <2>1, <2>2, <2>3
<1>2. Seq(BytesOf(Requests)) \subseteq Seq(AllBytes) /\ Seq(BytesOf(AllReplies)) \subseteq Seq(AllBytes)
  BY <1>1, SeqMonotonic
<1>3. \A w \in Writer : begun[w] \in 0 .. Quota(w) /\ writing[w] \in Seq(AllBytes)
  BY <1>2, FramesOfWriters
<1>4. \A b \in {device.buffer, device.out, session.buffer} : b \in Seq(AllBytes)
  BY <1>2
<1> QED BY <1>2, <1>3, <1>4 DEF TypeOK

\* In every interleaving of the writers, the device and the session all state keeps
\* its type, and the kernels never hold more than there is room for.
THEOREM FramingTyped == Spec => []TypeOK
BY TypeInvHolds, TypeInvIsTyped, PTL

-----------------------------------------------------------------------------
(* A request that nothing came across is in one piece. *)

\* In a stream, the bytes before and after one of its bytes are next to it.
Whole(stream, spoilt) ==
  \A k \in 1 .. Len(stream) : stream[k][1] \notin spoilt =>
    LET f == stream[k][1]
        i == stream[k][2]
    IN  /\ i > 1 => k > 1 /\ stream[k - 1] = <<f, i - 1>>
        /\ i = 1 => k = 1 \/ IsNewline(stream[k - 1])
        /\ i < Width(f) /\ k < Len(stream) => stream[k + 1] = <<f, i + 1>>

\* The last byte, when its frame is not complete, was written by a writer that is
\* still about to write the next one, or gave up ...
LastIsCarriedOn ==
  open /\ ToRead # << >> =>
    LET b == Last(ToRead)
    IN  \/ IsNewline(b) \/ b[1] \in givenUp
        \/ \E w \in Writer : writing[w] # << >> /\ writing[w][1] = <<b[1], b[2] + 1>>

\* ... and a writer in the middle of its frame wrote that last byte, or was disturbed.
MidFrameIsLast ==
  \A w \in Writer : open /\ MidFrame(w) /\ FrameOf(w, begun[w]) \notin Disturbed =>
    /\ ToRead # << >>
    /\ Last(ToRead) = <<FrameOf(w, begun[w]), writing[w][1][2] - 1>>

ClearInv ==
  /\ TypeInv /\ Whole(ToRead, Disturbed) /\ LastIsCarriedOn /\ MidFrameIsLast
  /\ OnlyDisturbedFramesAreTorn

LEMMA ByteIs ==
  ASSUME NEW F, NEW b \in BytesOf(F)
  PROVE  /\ b = <<b[1], b[2]>> /\ b[1] \in F /\ b[2] \in 1 .. Width(b[1])
         /\ ~IsNewline(b) => b[2] < Width(b[1])
<1>1. b \in F \X (1 .. 3) /\ b[2] <= Width(b[1])
  BY DEF BytesOf
<1>2. b = <<b[1], b[2]>> /\ b[1] \in F /\ b[2] \in 1 .. 3
  BY <1>1
<1>3. Width(b[1]) \in Nat
  BY WidthIs
<1> QED BY <1>1, <1>2, <1>3 DEF IsNewline

\* A line taken from the front leaves the others whole.
LEMMA WithoutLine ==
  ASSUME NEW F, NEW s \in Seq(BytesOf(F)), NEW r \in Seq(BytesOf(F)), NEW spoilt,
         NEW e \in 1 .. Len(s), IsNewline(s[e]), Len(r) = Len(s) - e,
         \A i \in 1 .. Len(r) : r[i] = s[e + i], Whole(s, spoilt)
  PROVE  Whole(r, spoilt)
<1> SUFFICES ASSUME NEW k \in 1 .. Len(r), r[k][1] \notin spoilt
             PROVE  /\ r[k][2] > 1 => k > 1 /\ r[k - 1] = <<r[k][1], r[k][2] - 1>>
                    /\ r[k][2] = 1 => k = 1 \/ IsNewline(r[k - 1])
                    /\ r[k][2] < Width(r[k][1]) /\ k < Len(r) => r[k + 1] = <<r[k][1], r[k][2] + 1>>
  BY DEF Whole
<1> DEFINE f == r[k][1]
           i == r[k][2]
<1>1. Len(s) \in Nat /\ Len(r) \in Nat /\ k \in Nat /\ e \in Nat /\ e + k \in 1 .. Len(s)
      /\ r[k] = s[e + k]
  OBVIOUS
<1>2. /\ i > 1 => e + k > 1 /\ s[(e + k) - 1] = <<f, i - 1>>
      /\ i = 1 => e + k = 1 \/ IsNewline(s[(e + k) - 1])
      /\ i < Width(f) /\ e + k < Len(s) => s[(e + k) + 1] = <<f, i + 1>>
  BY <1>1 DEF Whole
<1>3. r[k] \in BytesOf(F) /\ i \in 1 .. Width(f) /\ Width(f) \in Nat
  <2>1. r[k] \in BytesOf(F)
    OBVIOUS
  <2>2. Width(f) \in Nat
    BY WidthIs, Zenon
  <2> QED BY <2>1, <2>2, ByteIs
<1>4. k > 1 => r[k - 1] = s[(e + k) - 1]
  <2> SUFFICES ASSUME k > 1 PROVE r[k - 1] = s[(e + k) - 1]
    OBVIOUS
  <2>1. k - 1 \in 1 .. Len(r) /\ e + (k - 1) = (e + k) - 1
    BY <1>1
  <2> QED BY <2>1
<1>5. k < Len(r) => r[k + 1] = s[(e + k) + 1] /\ e + k < Len(s)
  <2> SUFFICES ASSUME k < Len(r) PROVE r[k + 1] = s[(e + k) + 1] /\ e + k < Len(s)
    OBVIOUS
  <2>1. k + 1 \in 1 .. Len(r) /\ e + (k + 1) = (e + k) + 1
    BY <1>1
  <2> QED BY <1>1, <2>1
<1>6. k = 1 => (e + k) - 1 = e
  BY <1>1
<1>7. ~(k = 1 /\ i > 1)
  <2> SUFFICES ASSUME k = 1, i > 1 PROVE FALSE
    OBVIOUS
  <2>1. s[e] = <<f, i - 1>>
    BY <1>2, <1>6
  <2>2. i - 1 = Width(f)
    BY <2>1 DEF IsNewline
  <2> HIDE DEF f, i
  <2> QED BY <1>3, <2>2
<1>8. k = 1 \/ k > 1
  BY <1>1
<1> HIDE DEF f, i
<1>9. /\ i > 1 => k > 1 /\ r[k - 1] = <<f, i - 1>>
      /\ i = 1 => k = 1 \/ IsNewline(r[k - 1])
      /\ i < Width(f) /\ k < Len(r) => r[k + 1] = <<f, i + 1>>
  BY <1>2, <1>4, <1>5, <1>7, <1>8
<1> QED BY <1>9 DEF f, i

Regroups(s, t, u) == (s \o t) \o u = s \o (t \o u)

LEMMA Regroup == \A S : \A s, t, u \in Seq(S) : Regroups(s, t, u)
<1> TAKE S
<1> TAKE s, t, u \in Seq(S)
<1>1. /\ (s \o t) \o u \in Seq(S) /\ s \o (t \o u) \in Seq(S)
      /\ Len((s \o t) \o u) = Len(s \o (t \o u))
  OBVIOUS
<1>2. \A i \in 1 .. Len((s \o t) \o u) : ((s \o t) \o u)[i] = (s \o (t \o u))[i]
  OBVIOUS
<1> QED BY <1>1, <1>2, SeqEqual DEF Regroups

\* What is left of a sequence without its first elements.
Without(r, s, e) ==
  e \in 1 .. Len(s) /\ Len(r) = Len(s) - e /\ \A j \in 1 .. Len(r) : r[j] = s[e + j]

\* What is taken from the front of a buffer is taken from the front of the stream.
LEMMA FrontTaken ==
  \A S : \A s, r, d \in Seq(S) : \A e : Without(r, s, e) => Without(r \o d, s \o d, e)
<1> TAKE S
<1> TAKE s, r, d \in Seq(S)
<1> TAKE e
<1> HAVE Without(r, s, e)
<1> USE DEF Without
<1>1. /\ Len(s) \in Nat /\ Len(r) \in Nat /\ Len(d) \in Nat /\ e \in Nat
      /\ Len(s \o d) = Len(s) + Len(d) /\ Len(r \o d) = Len(r) + Len(d)
      /\ \A i \in 1 .. Len(s) + Len(d) : (s \o d)[i] = IF i <= Len(s) THEN s[i] ELSE d[i - Len(s)]
      /\ \A i \in 1 .. Len(r) + Len(d) : (r \o d)[i] = IF i <= Len(r) THEN r[i] ELSE d[i - Len(r)]
  <2>1. ASSUME NEW t \in Seq(S)
        PROVE  /\ Len(t \o d) = Len(t) + Len(d)
               /\ \A i \in 1 .. Len(t) + Len(d) :
                    (t \o d)[i] = IF i <= Len(t) THEN t[i] ELSE d[i - Len(t)]
    BY ConcatProperties
  <2>2. Len(s) \in Nat /\ Len(r) \in Nat /\ Len(d) \in Nat /\ e \in Nat
    OBVIOUS
  <2> QED BY <2>1, <2>2
<1>2. ASSUME NEW i \in 1 .. Len(r) + Len(d) PROVE (r \o d)[i] = (s \o d)[e + i]
  <2>1. e + i \in 1 .. Len(s) + Len(d)
    BY <1>1
  <2>2. CASE i <= Len(r)
    <3>1. e + i <= Len(s) /\ i \in 1 .. Len(r)
      BY <1>1, <2>2
    <3> QED BY <1>1, <2>1, <2>2, <3>1
  <2>3. CASE ~(i <= Len(r))
    <3>1. ~(e + i <= Len(s)) /\ (e + i) - Len(s) = i - Len(r)
      BY <1>1, <2>3
    <3> QED BY <1>1, <2>1, <2>3, <3>1
  <2> QED BY <2>2, <2>3
<1>3. Len(r) + Len(d) = Len(s) + Len(d) - e
  BY <1>1
<1> QED BY <1>1, <1>2, <1>3

\* The first line of a stream is a frame if it has a byte of one that is not spoilt.
LEMMA FirstLineIsWhole ==
  ASSUME NEW F, NEW s \in Seq(BytesOf(F)), NEW spoilt, Whole(s, spoilt),
         NEW e \in 1 .. Len(s), IsNewline(s[e]), \A j \in 1 .. e - 1 : ~IsNewline(s[j]),
         NEW k \in 1 .. e - 1, s[k][1] \notin spoilt
  PROVE  e = Width(s[k][1]) /\ \A j \in 1 .. e - 1 : s[j] = <<s[k][1], j>>
<1> DEFINE f == s[k][1]
           i == s[k][2]
<1>1. Len(s) \in Nat /\ e \in Nat /\ k \in Nat /\ k < e /\ e <= Len(s) /\ k \in 1 .. Len(s)
  OBVIOUS
<1>2. s[k] = <<f, i>> /\ i \in 1 .. Width(f) /\ i < Width(f) /\ Width(f) \in {2, 3}
  <2>1. s[k] \in BytesOf(F) /\ ~IsNewline(s[k])
    BY <1>1
  <2> QED BY <2>1, ByteIs, WidthIs
<1>3. \A j \in 1 .. Len(s) : s[j] = <<f, 1>> => j = 1 \/ IsNewline(s[j - 1])
  BY DEF Whole
<1>4. \A j \in 1 .. Len(s) : s[j] = <<f, 2>> => j > 1 /\ s[j - 1] = <<f, 1>>
  <2> SUFFICES ASSUME NEW j \in 1 .. Len(s), s[j] = <<f, 2>> PROVE j > 1 /\ s[j - 1] = <<f, 1>>
    OBVIOUS
  <2>1. s[j][1] = f /\ s[j][2] = 2 /\ 2 > 1 /\ 2 - 1 = 1
    OBVIOUS
  <2>2. s[j][2] > 1 => j > 1 /\ s[j - 1] = <<s[j][1], s[j][2] - 1>>
    BY <2>1 DEF Whole
  <2> QED BY <2>1, <2>2
<1>5. \A j \in 1 .. Len(s), p \in 1 .. 2 :
        s[j] = <<f, p>> /\ p < Width(f) /\ j < Len(s) => s[j + 1] = <<f, p + 1>>
  BY DEF Whole
<1>6. \A p \in 1 .. 3 : IsNewline(<<f, p>>) <=> p = Width(f)
  BY DEF IsNewline
<1> HIDE DEF f, i
<1>7. s[1] = <<f, 1>>
  <2>1. i = 1 \/ i = 2
    BY <1>2
  <2>2. CASE i = 1
    <3>1. k = 1 \/ IsNewline(s[k - 1])
      BY <1>1, <1>2, <1>3, <2>2
    <3>2. k # 1 => k - 1 \in 1 .. e - 1
      BY <1>1
    <3> QED BY <1>2, <2>2, <3>1, <3>2
  <2>3. CASE i = 2
    <3>1. k > 1 /\ s[k - 1] = <<f, 1>>
      BY <1>1, <1>2, <1>4, <2>3
    <3>2. k - 1 \in 1 .. Len(s) /\ (k - 1 # 1 => k - 1 - 1 \in 1 .. e - 1)
      BY <1>1, <3>1
    <3>3. k - 1 = 1 \/ IsNewline(s[k - 1 - 1])
      BY <1>3, <3>1, <3>2
    <3> QED BY <3>1, <3>2, <3>3
  <2> QED BY <2>1, <2>2, <2>3
<1>8. s[2] = <<f, 2>>
  <2>1. 1 \in 1 .. Len(s) /\ 1 \in 1 .. 2 /\ 1 < Width(f) /\ 1 < Len(s) /\ 1 + 1 = 2
    BY <1>1, <1>2
  <2> QED BY <1>5, <1>7, <2>1
<1>9. CASE Width(f) = 2
  <2>1. IsNewline(s[2])
    BY <1>6, <1>8, <1>9
  <2>2. e = 2
    BY <1>1, <2>1
  <2>3. \A j \in 1 .. e - 1 : j = 1
    BY <2>2
  <2> QED BY <1>7, <1>9, <2>2, <2>3 DEF f
<1>10. CASE Width(f) = 3
  <2>1. e # 2 /\ 3 <= Len(s)
    <3>1. ~IsNewline(s[2])
      BY <1>6, <1>8, <1>10
    <3> QED BY <1>1, <3>1
  <2>2. s[3] = <<f, 3>>
    <3>1. 2 \in 1 .. Len(s) /\ 2 \in 1 .. 2 /\ 2 < Width(f) /\ 2 < Len(s) /\ 2 + 1 = 3
      BY <1>1, <1>10, <2>1
    <3> QED BY <1>5, <1>8, <3>1
  <2>3. IsNewline(s[3])
    BY <1>6, <1>10, <2>2
  <2>4. e = 3
    BY <1>1, <2>1, <2>3
  <2>5. \A j \in 1 .. e - 1 : j = 1 \/ j = 2
    BY <2>4
  <2> QED BY <1>7, <1>8, <1>10, <2>4, <2>5 DEF f
<1> QED BY <1>2, <1>9, <1>10

\* A list behind another one.
LEMMA Joined ==
  ASSUME NEW S, NEW s \in Seq(S), NEW c \in Seq(S), c # << >>
  PROVE  /\ Len(s) \in Nat /\ Len(c) \in Nat /\ Len(c) >= 1
         /\ Len(s \o c) = Len(s) + Len(c)
         /\ \A k \in 1 .. Len(s) : (s \o c)[k] = s[k]
         /\ \A j \in 1 .. Len(c) : (s \o c)[Len(s) + j] = c[j]
         /\ s # << >> <=> Len(s) >= 1
<1>1. /\ Len(s) \in Nat /\ Len(c) \in Nat /\ Len(c) >= 1 /\ s # << >> <=> Len(s) >= 1
  OBVIOUS
<1>2. Len(s \o c) = Len(s) + Len(c)
  OBVIOUS
<1>3. \A k \in 1 .. Len(s) : (s \o c)[k] = s[k]
  OBVIOUS
<1>4. \A j \in 1 .. Len(c) : (s \o c)[Len(s) + j] = c[j]
  OBVIOUS
<1> QED BY <1>1, <1>2, <1>3, <1>4

\* Bytes of a frame written behind the last ones leave what is not spoilt whole, if
\* they go on where the frame was left and cut no other one.
LEMMA WithMore ==
  ASSUME NEW F, NEW s \in Seq(BytesOf(F)), NEW c \in Seq(BytesOf(F)), c # << >>,
         NEW f, NEW p \in Nat, p >= 1, \A i \in 1 .. Len(c) : c[i] = <<f, p + i - 1>>,
         NEW spoilt, NEW more, spoilt \subseteq more, Whole(s, spoilt),
         f \notin more /\ p > 1 => s # << >> /\ s[Len(s)] = <<f, p - 1>>,
         f \notin more /\ p = 1 /\ s # << >> => IsNewline(s[Len(s)]),
         s # << >> /\ s[Len(s)][1] \notin more /\ ~IsNewline(s[Len(s)]) =>
           c[1] = <<s[Len(s)][1], s[Len(s)][2] + 1>>
  PROVE  Whole(s \o c, more)
<1> DEFINE n == Len(s)
           m == Len(c)
           t == s \o c
<1>1. /\ n \in Nat /\ m \in Nat /\ m >= 1 /\ Len(t) = n + m
      /\ \A k \in 1 .. n : t[k] = s[k]
      /\ \A j \in 1 .. m : t[n + j] = c[j]
      /\ s # << >> <=> n >= 1
  BY Joined
<1> SUFFICES ASSUME NEW k \in 1 .. n + m, t[k][1] \notin more
             PROVE  /\ t[k][2] > 1 => k > 1 /\ t[k - 1] = <<t[k][1], t[k][2] - 1>>
                    /\ t[k][2] = 1 => k = 1 \/ IsNewline(t[k - 1])
                    /\ t[k][2] < Width(t[k][1]) /\ k < n + m =>
                         t[k + 1] = <<t[k][1], t[k][2] + 1>>
  BY <1>1 DEF Whole
<1>2. CASE k <= n
  <2>1. k \in 1 .. n /\ t[k] = s[k] /\ (k > 1 => t[k - 1] = s[k - 1])
        /\ (k < n => t[k + 1] = s[k + 1])
    <3>1. k \in 1 .. n /\ (k > 1 => k - 1 \in 1 .. n) /\ (k < n => k + 1 \in 1 .. n)
      BY <1>1, <1>2
    <3> HIDE DEF t, n
    <3> QED BY <1>1, <3>1
  <2>2. s[k][1] \notin spoilt
    BY <2>1
  <2>3. /\ s[k][2] > 1 => k > 1 /\ s[k - 1] = <<s[k][1], s[k][2] - 1>>
        /\ s[k][2] = 1 => k = 1 \/ IsNewline(s[k - 1])
        /\ s[k][2] < Width(s[k][1]) /\ k < n => s[k + 1] = <<s[k][1], s[k][2] + 1>>
    BY <2>1, <2>2 DEF Whole
  <2>4. k = n /\ s[k][2] < Width(s[k][1]) => t[k + 1] = <<s[k][1], s[k][2] + 1>>
    <3> SUFFICES ASSUME k = n, s[k][2] < Width(s[k][1]) PROVE t[k + 1] = <<s[k][1], s[k][2] + 1>>
      OBVIOUS
    <3>1. ~IsNewline(s[n])
      <4>1. s[n] \in BytesOf(F)
        BY <2>1
      <4>2. s[n][2] \in Nat /\ Width(s[n][1]) \in Nat
        BY <4>1, WidthIs DEF BytesOf
      <4> QED BY <4>2 DEF IsNewline
    <3>2. t[n + 1] = c[1] /\ s # << >>
      BY <1>1, <2>1
    <3> QED BY <2>1, <3>1, <3>2
  <2>5. k < n \/ k = n
    BY <1>1, <2>1
  <2> HIDE DEF t, n, m
  <2> QED BY <2>1, <2>3, <2>4, <2>5
<1>3. CASE k > n
  <2> DEFINE j == k - n
  <2>1. j \in 1 .. m /\ k = n + j
    BY <1>1, <1>3
  <2>2. t[k] = <<f, p + j - 1>> /\ f \notin more
    <3>1. t[k] = c[j] /\ c[j] = <<f, p + j - 1>>
      BY <1>1, <2>1
    <3> HIDE DEF t, j
    <3> QED BY <3>1
  <2>3. j > 1 => t[k - 1] = <<f, p + j - 2>> /\ k > 1
    <3> SUFFICES ASSUME j > 1 PROVE t[k - 1] = <<f, p + j - 2>> /\ k > 1
      OBVIOUS
    <3>1. j - 1 \in 1 .. m /\ n + (j - 1) = k - 1 /\ p + (j - 1) - 1 = p + j - 2 /\ k > 1
      BY <1>1, <2>1
    <3>2. t[n + (j - 1)] = c[j - 1] /\ c[j - 1] = <<f, p + (j - 1) - 1>>
      BY <1>1, <3>1
    <3> HIDE DEF t, j, n
    <3> QED BY <3>1, <3>2
  <2>4. k < n + m => t[k + 1] = <<f, p + j>>
    <3> SUFFICES ASSUME k < n + m PROVE t[k + 1] = <<f, p + j>>
      OBVIOUS
    <3>1. j + 1 \in 1 .. m /\ n + (j + 1) = k + 1 /\ p + (j + 1) - 1 = p + j
      BY <1>1, <2>1
    <3>2. t[n + (j + 1)] = c[j + 1] /\ c[j + 1] = <<f, p + (j + 1) - 1>>
      BY <1>1, <3>1
    <3> HIDE DEF t, j, n
    <3> QED BY <3>1, <3>2
  <2>5. j = 1 => k - 1 = n /\ k = n + 1
    BY <1>1, <2>1
  <2>6. j = 1 /\ p > 1 => k > 1 /\ t[k - 1] = <<f, p - 1>>
    <3>1. n >= 1 => t[n] = s[n] /\ n + 1 > 1
      BY <1>1
    <3> QED BY <1>1, <2>2, <2>5, <3>1
  <2>7. j = 1 /\ p = 1 => k = 1 \/ IsNewline(t[k - 1])
    <3>1. n >= 1 => t[n] = s[n]
      BY <1>1
    <3>2. n = 0 => n + 1 = 1
      OBVIOUS
    <3> QED BY <1>1, <2>2, <2>5, <3>1, <3>2
  <2> HIDE DEF t, j, n, m
  <2>8. /\ j \in Nat /\ j >= 1 /\ p \in Nat /\ p >= 1
        /\ p + j - 1 > 1 => j > 1 \/ (j = 1 /\ p > 1)
        /\ p + j - 1 = 1 => j = 1 /\ p = 1
        /\ p + j - 1 - 1 = p + j - 2 /\ p + j - 1 + 1 = p + j
        /\ j = 1 => p + j - 1 - 1 = p - 1
    BY <2>1
  <2> DEFINE g == t[k][1]
             i == t[k][2]
  <2>9. g = f /\ i = p + j - 1
    BY <2>2
  <2> HIDE DEF g, i
  <2>10. i > 1 => k > 1 /\ t[k - 1] = <<g, i - 1>>
    BY <2>3, <2>6, <2>8, <2>9
  <2>11. i = 1 => k = 1 \/ IsNewline(t[k - 1])
    BY <2>7, <2>8, <2>9
  <2>12. k < n + m => t[k + 1] = <<g, i + 1>>
    BY <2>4, <2>8, <2>9
  <2> QED BY <2>10, <2>11, <2>12 DEF g, i
<1>4. k <= n \/ k > n
  BY <1>1
<1> HIDE DEF t, n, m
<1> QED BY <1>2, <1>3, <1>4

LEMMA InitClear == Init => ClearInv
<1> SUFFICES ASSUME Init PROVE ClearInv
  OBVIOUS
<1>1. TypeInv /\ OnlyDisturbedFramesAreTorn
  BY FramingInitTypes DEF Init, OnlyDisturbedFramesAreTorn
<1>2. ToRead = << >> /\ Len(ToRead) = 0
  BY DEF Init, ToRead
<1>3. Whole(ToRead, Disturbed) /\ LastIsCarriedOn
  BY <1>2 DEF Whole, LastIsCarriedOn
<1>4. ASSUME NEW w \in Writer PROVE ~MidFrame(w)
  <2>1. writing[w] = << >> \/ (w = "session" /\ writing[w] = Bytes(FrameOf("session", 1)))
    BY DEF Init
  <2>2. Head(Bytes(FrameOf("session", 1)))[2] = 1
    <3> DEFINE f == FrameOf("session", 1)
    <3> HIDE DEF f
    <3>1. /\ Bytes(f) \in Seq(BytesOf({f})) /\ Bytes(f) # << >>
          /\ \A i \in 1 .. Width(f) : Bytes(f)[i] = <<f, i>>
      BY BytesAre
    <3>2. 1 \in 1 .. Width(f)
      <4>1. Width(f) = 2 \/ Width(f) = 3
        BY WidthIs
      <4> QED BY <4>1
    <3>3. Head(Bytes(f)) = <<f, 1>>
      BY <3>1, <3>2
    <3> QED BY <3>3 DEF f
  <2> QED BY <2>1, <2>2 DEF MidFrame
<1> QED BY <1>1, <1>2, <1>3, <1>4 DEF ClearInv, MidFrameIsLast

\* The next byte of a writer.
LEMMA NextByte ==
  ASSUME TypeInv, NEW w \in Writer, writing[w] # << >>
  PROVE  /\ FrameOf(w, begun[w]) \in Requests /\ Len(writing[w]) >= 1
         /\ EndOf(FrameOf(w, begun[w]), writing[w])
         /\ writing[w][1][2] \in 1 .. Width(FrameOf(w, begun[w]))
         /\ writing[w][1] = <<FrameOf(w, begun[w]), writing[w][1][2]>>
         /\ MidFrame(w) <=> writing[w][1][2] > 1
<1> DEFINE f == FrameOf(w, begun[w])
<1>1. /\ begun[w] \in Nat /\ begun[w] >= 1 /\ begun[w] <= Quota(w) /\ EndOf(f, writing[w])
      /\ writing[w] \in Seq(BytesOf(Requests))
  BY DEF TypeInv, WritesOn
<1>2. f \in Requests
  BY <1>1, FramesOfWriters
<1>3. Len(writing[w]) >= 1 /\ Head(writing[w]) = writing[w][1]
  BY <1>1
<1> HIDE DEF f
<1>4. PICK p \in 1 .. Width(f) : writing[w][1] = <<f, p + 1 - 1>>
  BY <1>1, <1>3 DEF EndOf
<1>5. Width(f) \in Nat /\ p + 1 - 1 = p
  BY WidthIs
<1> QED BY <1>1, <1>2, <1>3, <1>4, <1>5 DEF f, MidFrame

\* The reader takes no byte of a half-written frame, as that is no line yet.
LEMMA SameLast ==
  ASSUME ClearInv, UNCHANGED <<begun, writing, givenUp>>, Disturbed' = Disturbed, open' => open,
         open' /\ ToRead' # << >> => ToRead # << >> /\ Last(ToRead') = Last(ToRead),
         open' /\ ToRead # << >> /\ ~IsNewline(Last(ToRead)) => ToRead' # << >>
  PROVE  LastIsCarriedOn' /\ MidFrameIsLast'
<1>1. LastIsCarriedOn'
  BY DEF ClearInv, LastIsCarriedOn
<1>2. ASSUME NEW w \in Writer, open', MidFrame(w)', FrameOf(w, begun'[w]) \notin Disturbed'
      PROVE  /\ ToRead' # << >>
             /\ Last(ToRead') = <<FrameOf(w, begun'[w]), writing'[w][1][2] - 1>>
  <2> DEFINE f == FrameOf(w, begun[w])
             p == writing[w][1][2]
  <2>1. open /\ MidFrame(w) /\ f \notin Disturbed /\ begun' = begun /\ writing' = writing
    BY <1>2 DEF MidFrame
  <2>2. ToRead # << >> /\ Last(ToRead) = <<f, p - 1>>
    BY <2>1 DEF ClearInv, MidFrameIsLast
  <2>3. p \in 1 .. Width(f)
    BY <2>1, NextByte DEF ClearInv, MidFrame
  <2>4. Width(f) \in Nat
    BY WidthIs, Zenon
  <2> HIDE DEF f, p
  <2>5. ~IsNewline(<<f, p - 1>>)
    BY <2>3, <2>4 DEF IsNewline
  <2>6. ToRead' # << >> /\ Last(ToRead') = <<f, p - 1>>
    BY <1>2, <2>2, <2>5
  <2> QED BY <2>1, <2>6 DEF f, p
<1> QED BY <1>1, <1>2 DEF MidFrameIsLast

LEMMA DeviceClear == ASSUME ClearInv, Device PROVE ClearInv'
<1>1. /\ TypeInv /\ TypeInv' /\ UNCHANGED <<begun, writing, givenUp, session, got>>
      /\ Disturbed' = Disturbed
  BY DeviceTypes, DeviceKeeps DEF ClearInv, Disturbed
<1> DEFINE B == BytesOf(Requests)
<1>2. /\ device.buffer \in Seq(B) /\ down \in Seq(B) /\ ToRead \in Seq(B)
      /\ device'.buffer \in Seq(B) /\ down' \in Seq(B) /\ ToRead' \in Seq(B)
  BY <1>1 DEF TypeInv, ToRead
<1>3. Whole(ToRead, Disturbed) /\ torn \subseteq Disturbed
  BY DEF ClearInv, OnlyDisturbedFramesAreTorn
<1> HIDE DEF B
<1>4. CASE ToRead' = ToRead /\ open' = open /\ torn' = torn
  <2>1. LastIsCarriedOn' /\ MidFrameIsLast'
    BY <1>1, <1>4, SameLast
  <2>2. Whole(ToRead', Disturbed')
    BY <1>1, <1>3, <1>4
  <2> QED BY <1>1, <1>3, <1>4, <2>1, <2>2 DEF ClearInv, OnlyDisturbedFramesAreTorn
<1>5. CASE DeviceRecv
  <2>1. PICK n \in 1 .. Len(down) :
           /\ device' = [device EXCEPT !.at = "lines", !.buffer = device.buffer \o SubSeq(down, 1, n)]
           /\ down' = SubSeq(down, n + 1, Len(down)) /\ UNCHANGED <<open, torn>>
    BY <1>5 DEF DeviceRecv, Chunks
  <2>2. /\ SubSeq(down, 1, n) \in Seq(B) /\ SubSeq(down, n + 1, Len(down)) \in Seq(B)
        /\ SubSeq(down, 1, n) \o SubSeq(down, n + 1, Len(down)) = down
    <3>1. n \in 0 .. Len(down)
      BY <1>2
    <3> QED BY <1>2, <3>1, PartsOf
  <2>3. device'.buffer = device.buffer \o SubSeq(down, 1, n)
    BY <1>1, <2>1 DEF TypeInv
  <2>4. ToRead' = device.buffer \o down
    <3> DEFINE a == SubSeq(down, 1, n)
               b == SubSeq(down, n + 1, Len(down))
    <3>1. /\ a \in Seq(B) /\ b \in Seq(B) /\ a \o b = down /\ device.buffer \in Seq(B)
          /\ ToRead' = (device.buffer \o a) \o b
      BY <1>2, <2>1, <2>2, <2>3 DEF ToRead
    <3> HIDE DEF a, b
    <3>2. Regroups(device.buffer, a, b)
      BY <3>1, Regroup
    <3>3. (device.buffer \o a) \o b = device.buffer \o (a \o b)
      BY <3>2 DEF Regroups
    <3> QED BY <3>1, <3>3
  <2> QED BY <1>4, <2>1, <2>4 DEF ToRead
<1>6. CASE DeviceNoLine \/ DeviceSend
  <2>1. ToRead' = ToRead /\ open' = open /\ torn' = torn
    BY <1>1, <1>6 DEF DeviceNoLine, DeviceSend, ToRead, TypeInv
  <2> QED BY <1>4, <2>1
<1>7. CASE DeviceCloses
  <2>1. open' = FALSE /\ torn' = torn /\ ToRead' = << >>
    BY <1>7 DEF DeviceCloses, ToRead
  <2>2. Whole(ToRead', Disturbed')
    <3>1. Len(<< >>) = 0
      OBVIOUS
    <3> QED BY <2>1, <3>1 DEF Whole
  <2>3. LastIsCarriedOn' /\ MidFrameIsLast'
    BY <2>1 DEF LastIsCarriedOn, MidFrameIsLast
  <2> QED BY <1>1, <1>3, <2>1, <2>2, <2>3 DEF ClearInv, OnlyDisturbedFramesAreTorn
<1>8. CASE DeviceLine
  <2> DEFINE e == LineEnd(device.buffer)
             line == Line(device.buffer)
  <2>1. /\ HasLine(device.buffer) /\ down' = down /\ open' = open
        /\ device'.buffer = Rest(device.buffer)
        /\ IsFrame(line) => torn' = torn
        /\ torn' \subseteq torn \cup {b[1] : b \in ToSet(line)}
    BY <1>1, <1>8 DEF DeviceLine, TypeInv
  <2>2. /\ e \in 1 .. Len(device.buffer) /\ IsNewline(device.buffer[e])
        /\ \A j \in 1 .. e - 1 : ~IsNewline(device.buffer[j])
        /\ line \in Seq(B) /\ Len(line) = e - 1
        /\ \A j \in 1 .. e - 1 : line[j] = device.buffer[j]
        /\ Rest(device.buffer) \in Seq(B) /\ Len(Rest(device.buffer)) = Len(device.buffer) - e
        /\ \A j \in 1 .. Len(Rest(device.buffer)) : Rest(device.buffer)[j] = device.buffer[e + j]
    BY <1>2, <2>1, LineOf
  <2> HIDE DEF e, line
  <2>3. /\ e \in 1 .. Len(ToRead) /\ IsNewline(ToRead[e])
        /\ \A j \in 1 .. e - 1 : ~IsNewline(ToRead[j]) /\ line[j] = ToRead[j]
    <3>1. \A j \in 1 .. Len(device.buffer) : ToRead[j] = device.buffer[j]
      BY <1>2 DEF ToRead
    <3>2. Len(ToRead) = Len(device.buffer) + Len(down)
      BY <1>2 DEF ToRead
    <3>3. e \in 1 .. Len(ToRead) /\ \A j \in 1 .. e - 1 : j \in 1 .. Len(device.buffer)
      BY <1>2, <2>2, <3>2
    <3> QED BY <2>2, <3>1, <3>3
  <2>4. Len(ToRead') = Len(ToRead) - e /\ \A i \in 1 .. Len(ToRead') : ToRead'[i] = ToRead[e + i]
    <3> DEFINE r == Rest(device.buffer)
               s == device.buffer
    <3>1. r \in Seq(B) /\ s \in Seq(B) /\ down \in Seq(B) /\ Without(r, s, e)
      BY <1>2, <2>2 DEF Without
    <3>2. ToRead = s \o down /\ ToRead' = r \o down
      BY <2>1 DEF ToRead
    <3> HIDE DEF r, s
    <3>3. Without(r \o down, s \o down, e)
      BY <3>1, FrontTaken
    <3> QED BY <3>2, <3>3 DEF Without
  <2>5. Whole(ToRead', Disturbed')
    BY <1>1, <1>2, <1>3, <2>3, <2>4, WithoutLine DEF B
  <2>6. LastIsCarriedOn' /\ MidFrameIsLast'
    <3>1. Len(ToRead) \in Nat /\ Len(ToRead') \in Nat /\ (ToRead # << >> <=> Len(ToRead) >= 1)
          /\ (ToRead' # << >> <=> Len(ToRead') >= 1)
      BY <1>2
    <3>2. Len(ToRead') >= 1 => ToRead'[Len(ToRead')] = ToRead[Len(ToRead)] /\ Len(ToRead) >= 1
      <4> SUFFICES ASSUME Len(ToRead') >= 1
                   PROVE  ToRead'[Len(ToRead')] = ToRead[Len(ToRead)] /\ Len(ToRead) >= 1
        OBVIOUS
      <4>1. Len(ToRead') \in 1 .. Len(ToRead') /\ e + Len(ToRead') = Len(ToRead) /\ e \in Nat
        BY <2>3, <2>4, <3>1
      <4>2. ToRead'[Len(ToRead')] = ToRead[e + Len(ToRead')]
        BY <2>4, <4>1
      <4> QED BY <3>1, <4>1, <4>2
    <3>3. Len(ToRead') = 0 => IsNewline(ToRead[Len(ToRead)])
      <4>1. Len(ToRead') = 0 => e = Len(ToRead)
        BY <2>3, <2>4, <3>1
      <4> QED BY <2>3, <4>1
    <3>4. Len(ToRead') = 0 \/ Len(ToRead') >= 1
      BY <3>1
    <3> QED BY <1>1, <2>1, <3>1, <3>2, <3>3, <3>4, SameLast DEF Last
  <2>7. torn' \subseteq Disturbed'
    <3> SUFFICES ASSUME NEW f \in torn', f \notin Disturbed PROVE FALSE
      BY <1>1
    <3>1. PICK b \in ToSet(line) : f = b[1] /\ ~IsFrame(line)
      BY <1>3, <2>1
    <3>2. PICK k \in 1 .. e - 1 : line[k] = b
      BY <2>2, <3>1 DEF ToSet
    <3>3. ToRead[k][1] = f
      BY <2>3, <3>1, <3>2
    <3>4. e = Width(f) /\ \A j \in 1 .. e - 1 : ToRead[j] = <<f, j>>
      BY <1>2, <1>3, <2>3, <3>3, FirstLineIsWhole DEF B
    <3>5. \A j \in 1 .. e - 1 : line[j] = <<f, j>>
      BY <2>3, <3>4
    <3>6. line = [j \in 1 .. Width(f) - 1 |-> <<f, j>>]
      <4>1. line = [j \in 1 .. Len(line) |-> line[j]]
        BY <2>2
      <4>2. Len(line) = Width(f) - 1 /\ e - 1 = Width(f) - 1
        BY <2>2, <3>4
      <4>3. \A j \in 1 .. Len(line) : line[j] = <<f, j>>
        BY <3>5, <4>2
      <4> QED BY <4>1, <4>2, <4>3, Zenon
    <3>7. 1 \in 1 .. Width(f) - 1
      <4>1. Width(f) = 2 \/ Width(f) = 3
        BY WidthIs
      <4> QED BY <4>1
    <3>8. line[1][1] = f /\ line # << >>
      BY <3>6, <3>7
    <3> QED BY <3>1, <3>6, <3>8 DEF IsFrame
  <2> QED BY <1>1, <2>5, <2>6, <2>7 DEF ClearInv, OnlyDisturbedFramesAreTorn
<1> QED BY <1>5, <1>6, <1>7, <1>8 DEF Device

LEMMA SessionClear == ASSUME ClearInv, Session PROVE ClearInv'
<1>1. TypeInv /\ TypeInv' /\ ToRead' = ToRead
      /\ UNCHANGED <<begun, writing, givenUp, torn>> /\ Disturbed' = Disturbed
  BY SessionKeeps, SessionTypes DEF ClearInv, ToRead, Disturbed
<1>2. open' => open
  BY DEF Session, SessionGreeted, SessionRecv, SessionLine, SessionNoLine, SessionCloses
<1>3. LastIsCarriedOn' /\ MidFrameIsLast'
  BY <1>1, <1>2, SameLast
<1>4. Whole(ToRead', Disturbed')
  BY <1>1 DEF ClearInv
<1> QED BY <1>1, <1>3, <1>4 DEF ClearInv, OnlyDisturbedFramesAreTorn

\* A frame that is begun cuts no other one.
LEMMA BeginClear == ASSUME ClearInv, NEW w \in Writer, SendBegin(w) PROVE ClearInv'
<1> DEFINE f == FrameOf(w, begun[w] + 1)
<1>1. TypeInv /\ TypeInv'
  BY SendTypes DEF ClearInv, Send
<1>2. /\ writing[w] = << >> /\ ToRead' = ToRead /\ UNCHANGED <<open, givenUp, torn>>
      /\ Disturbed' = Disturbed
      /\ \A v \in Writer \ {w} : writing'[v] = writing[v] /\ begun'[v] = begun[v]
      /\ writing'[w] = Bytes(f)
  BY <1>1 DEF SendBegin, ToRead, deviceSide, TypeInv, Disturbed
<1>3. ~MidFrame(w)'
  <2> HIDE DEF f
  <2>1. Bytes(f) # << >> /\ Bytes(f) \in Seq(BytesOf({f})) /\ \A i \in 1 .. Width(f) : Bytes(f)[i] = <<f, i>>
    BY BytesAre
  <2>2. 1 \in 1 .. Width(f)
    <3>1. Width(f) = 2 \/ Width(f) = 3
      BY WidthIs
    <3> QED BY <3>1
  <2>3. Head(Bytes(f)) = <<f, 1>>
    BY <2>1, <2>2
  <2> QED BY <1>2, <2>3 DEF MidFrame
<1> HIDE DEF f
<1>4. LastIsCarriedOn'
  <2> SUFFICES ASSUME open, ToRead # << >>, ~IsNewline(Last(ToRead)), Last(ToRead)[1] \notin givenUp
               PROVE  \E u \in Writer : /\ writing'[u] # << >>
                                        /\ writing'[u][1] = <<Last(ToRead)[1], Last(ToRead)[2] + 1>>
    BY <1>2 DEF LastIsCarriedOn
  <2>1. PICK u \in Writer : /\ writing[u] # << >>
                            /\ writing[u][1] = <<Last(ToRead)[1], Last(ToRead)[2] + 1>>
    BY DEF ClearInv, LastIsCarriedOn
  <2>2. writing'[u] = writing[u]
    BY <1>2, <2>1
  <2> QED BY <2>1, <2>2
<1>5. MidFrameIsLast'
  <2> SUFFICES ASSUME NEW v \in Writer, open, MidFrame(v)', FrameOf(v, begun'[v]) \notin Disturbed
               PROVE  /\ ToRead # << >>
                      /\ Last(ToRead) = <<FrameOf(v, begun'[v]), writing'[v][1][2] - 1>>
    BY <1>2 DEF MidFrameIsLast
  <2>1. writing'[v] = writing[v] /\ begun'[v] = begun[v]
    BY <1>2, <1>3
  <2>2. MidFrame(v)
    BY <2>1 DEF MidFrame
  <2> QED BY <2>1, <2>2 DEF ClearInv, MidFrameIsLast
<1>6. Whole(ToRead', Disturbed')
  BY <1>2 DEF ClearInv
<1> QED BY <1>1, <1>2, <1>4, <1>5, <1>6 DEF ClearInv, OnlyDisturbedFramesAreTorn

\* What a writer hands over goes on where its frame was left; the frame it cuts, if
\* any, and its own are overlapped from then on; behind a given-up half its own is glued.
LEMMA SomeClear == ASSUME ClearInv, NEW w \in Writer, SendSome(w) PROVE ClearInv'
<1> DEFINE f == FrameOf(w, begun[w])
           B == BytesOf(Requests)
           cut == {u \in Writer \ {w} : MidFrame(u)}
<1>1. TypeInv /\ TypeInv'
  BY SendTypes DEF ClearInv, Send
<1>2. /\ open /\ writing[w] # << >> /\ Room(down) > 0 /\ down' = Taken(writing[w], down)
      /\ writing' = [writing EXCEPT ![w] = Left(writing[w], down)]
      /\ UNCHANGED <<open, begun, givenUp, device, torn>>
      /\ Disturbed \subseteq Disturbed' /\ givenUp \subseteq Disturbed'
      /\ cut # {} => \A u \in cut \cup {w} : FrameOf(u, begun[u]) \in Disturbed'
      /\ EndsGivenUp => f \in Disturbed'
  BY DEF SendSome, deviceSide, Disturbed
<1>3. PICK bytes \in Seq(B) : bytes = writing[w]
  BY <1>1 DEF TypeInv
<1>4. /\ down \in Seq(B) /\ Len(down) <= SendBuffer /\ device.buffer \in Seq(B)
      /\ ToRead \in Seq(B) /\ ToRead' \in Seq(B)
  BY <1>1 DEF TypeInv, ToRead
<1>5. PICK p \in 1 .. Width(f) : /\ Len(bytes) = Width(f) - p + 1
                                 /\ \A i \in 1 .. Len(bytes) : bytes[i] = <<f, p + i - 1>>
  <2>1. EndOf(f, bytes)
    BY <1>1, <1>2, <1>3, NextByte
  <2> HIDE DEF f
  <2> QED BY <2>1 DEF EndOf
<1>6. PICK k \in 0 .. Len(bytes) :
         /\ down' = down \o SubSeq(bytes, 1, k)
         /\ Left(bytes, down) = SubSeq(bytes, k + 1, Len(bytes)) /\ k >= 1
  BY <1>2, <1>3, <1>4, TakenAndLeft
<1> DEFINE c == SubSeq(bytes, 1, k)
           r == SubSeq(bytes, k + 1, Len(bytes))
<1>7. /\ c \in Seq(B) /\ Len(c) = k /\ \A i \in 1 .. k : c[i] = bytes[i]
      /\ r \in Seq(B) /\ Len(r) = Len(bytes) - k
      /\ \A i \in 1 .. Len(bytes) - k : r[i] = bytes[k + i]
  BY PartsOf
<1>8. writing'[w] = r /\ \A v \in Writer \ {w} : writing'[v] = writing[v]
  BY <1>1, <1>2, <1>3, <1>6 DEF TypeInv
<1> HIDE DEF f, B, c, r
<1>9. /\ Width(f) \in Nat /\ p \in Nat /\ p >= 1 /\ Len(bytes) \in Nat /\ k \in Nat
      /\ 1 \in 1 .. k /\ k \in 1 .. k /\ 1 \in 1 .. Len(bytes) /\ k \in 1 .. Len(bytes)
      /\ p + 1 - 1 = p
  <2>1. Width(f) \in Nat
    BY WidthIs, Zenon
  <2> QED BY <1>3, <1>5, <1>6, <2>1
<1>10. /\ \A i \in 1 .. k : c[i] = <<f, p + i - 1>>
       /\ c # << >> /\ bytes[1] = <<f, p>> /\ c[1] = <<f, p>>
  <2>1. \A i \in 1 .. k : i \in 1 .. Len(bytes)
    BY <1>9
  <2>2. \A i \in 1 .. k : c[i] = <<f, p + i - 1>>
    BY <1>5, <1>7, <2>1
  <2> QED BY <1>5, <1>7, <1>9, <2>2
<1>11. ToRead' = ToRead \o c
  <2>2. (device.buffer \o down) \o c = device.buffer \o (down \o c)
    <3>1. device.buffer \in Seq(B) /\ down \in Seq(B) /\ c \in Seq(B)
      BY <1>4, <1>7
    <3>2. Regroups(device.buffer, down, c)
      BY <3>1, Regroup
    <3> QED BY <3>2 DEF Regroups
  <2> QED BY <1>2, <1>6, <2>2 DEF ToRead, c
<1>12. MidFrame(w) <=> p > 1
  <2>1. MidFrame(w) <=> writing[w][1][2] > 1
    BY <1>1, <1>2, NextByte
  <2>2. writing[w][1] = <<f, p>>
    BY <1>3, <1>10
  <2> QED BY <2>1, <2>2
<1>13. ToRead # << >> => Last(ToRead) = ToRead[Len(ToRead)] /\ ToRead[Len(ToRead)] \in B
  BY <1>4 DEF Last
\* The writer that carries on with the frame of the last byte.
<1>14. ASSUME ToRead # << >>, ~IsNewline(ToRead[Len(ToRead)]),
              ToRead[Len(ToRead)][1] \notin givenUp
       PROVE  \E u \in Writer : /\ MidFrame(u)
                                /\ writing[u][1] = <<ToRead[Len(ToRead)][1], ToRead[Len(ToRead)][2] + 1>>
                                /\ FrameOf(u, begun[u]) = ToRead[Len(ToRead)][1]
  <2> DEFINE b == ToRead[Len(ToRead)]
  <2>1. b = Last(ToRead) /\ b \in B
    BY <1>13, <1>14
  <2>2. b[2] \in 1 .. Width(b[1]) /\ Width(b[1]) \in Nat
    <3> HIDE DEF b
    <3>1. Width(b[1]) \in Nat
      BY WidthIs, Zenon
    <3> QED BY <2>1, <3>1, ByteIs DEF B
  <2>3. PICK u \in Writer : writing[u] # << >> /\ writing[u][1] = <<b[1], b[2] + 1>>
    BY <1>2, <1>14, <2>1 DEF ClearInv, LastIsCarriedOn
  <2> HIDE DEF b
  <2>4. /\ writing[u][1] = <<FrameOf(u, begun[u]), writing[u][1][2]>>
        /\ MidFrame(u) <=> writing[u][1][2] > 1
    BY <1>1, <2>3, NextByte
  <2>5. writing[u][1][2] = b[2] + 1 /\ FrameOf(u, begun[u]) = b[1]
    BY <2>3, <2>4
  <2>6. MidFrame(u)
    BY <2>2, <2>4, <2>5
  <2> QED BY <2>3, <2>5, <2>6 DEF b
<1>15. Whole(ToRead', Disturbed')
  <2>1. f \notin Disturbed' /\ p > 1 => ToRead # << >> /\ ToRead[Len(ToRead)] = <<f, p - 1>>
    <3> SUFFICES ASSUME f \notin Disturbed', p > 1
                 PROVE  ToRead # << >> /\ ToRead[Len(ToRead)] = <<f, p - 1>>
      OBVIOUS
    <3>1. MidFrame(w) /\ FrameOf(w, begun[w]) \notin Disturbed /\ writing[w][1] = <<f, p>>
      BY <1>2, <1>3, <1>10, <1>12 DEF f
    <3>2. ToRead # << >> /\ Last(ToRead) = <<f, p - 1>>
      BY <1>2, <3>1 DEF ClearInv, MidFrameIsLast, f
    <3> QED BY <1>13, <3>2
  <2>2. f \notin Disturbed' /\ p = 1 /\ ToRead # << >> => IsNewline(ToRead[Len(ToRead)])
    <3> SUFFICES ASSUME f \notin Disturbed', p = 1, ToRead # << >>,
                        ~IsNewline(ToRead[Len(ToRead)])
                 PROVE  FALSE
      OBVIOUS
    <3>0. ToRead[Len(ToRead)][1] \notin givenUp
      BY <1>2, <1>13 DEF EndsGivenUp
    <3>1. PICK u \in Writer : MidFrame(u)
      BY <1>14, <3>0
    <3>2. u \in cut
      BY <1>12, <3>1
    <3> QED BY <1>2, <3>2 DEF f
  <2>3. ToRead # << >> /\ ToRead[Len(ToRead)][1] \notin Disturbed' /\ ~IsNewline(ToRead[Len(ToRead)])
          => c[1] = <<ToRead[Len(ToRead)][1], ToRead[Len(ToRead)][2] + 1>>
    <3> SUFFICES ASSUME ToRead # << >>, ToRead[Len(ToRead)][1] \notin Disturbed',
                        ~IsNewline(ToRead[Len(ToRead)])
                 PROVE  c[1] = <<ToRead[Len(ToRead)][1], ToRead[Len(ToRead)][2] + 1>>
      OBVIOUS
    <3>1. PICK u \in Writer : /\ MidFrame(u)
                              /\ writing[u][1] = <<ToRead[Len(ToRead)][1], ToRead[Len(ToRead)][2] + 1>>
                              /\ FrameOf(u, begun[u]) = ToRead[Len(ToRead)][1]
      BY <1>2, <1>14
    <3>2. u = w
      BY <1>2, <3>1
    <3> QED BY <1>3, <1>10, <3>1, <3>2
  <2>4. PICK s \in Seq(B), spoilt \in {Disturbed}, more \in {Disturbed'} :
           s = ToRead /\ spoilt = Disturbed /\ more = Disturbed'
    BY <1>4
  <2>5. /\ spoilt \subseteq more /\ Whole(s, spoilt)
        /\ f \notin more /\ p > 1 => s # << >> /\ s[Len(s)] = <<f, p - 1>>
        /\ f \notin more /\ p = 1 /\ s # << >> => IsNewline(s[Len(s)])
        /\ s # << >> /\ s[Len(s)][1] \notin more /\ ~IsNewline(s[Len(s)]) =>
             c[1] = <<s[Len(s)][1], s[Len(s)][2] + 1>>
    BY <1>2, <2>1, <2>2, <2>3, <2>4 DEF ClearInv
  <2>6. Whole(s \o c, more)
    <3>1. /\ s \in Seq(B) /\ c \in Seq(B) /\ c # << >> /\ p \in Nat /\ p >= 1
          /\ \A i \in 1 .. Len(c) : c[i] = <<f, p + i - 1>>
      BY <1>7, <1>9, <1>10
    <3> QED BY <2>5, <3>1, WithMore DEF B
  <2> QED BY <1>11, <2>4, <2>6
<1>16. ToRead' # << >> /\ Last(ToRead') = <<f, p + k - 1>>
  <2>1. /\ Len(ToRead \o c) = Len(ToRead) + k /\ Len(ToRead) \in Nat
        /\ \A i \in 1 .. k : (ToRead \o c)[Len(ToRead) + i] = c[i]
    <3>1. \A s \in Seq(B) : /\ Len(s \o c) = Len(s) + k /\ Len(s) \in Nat
                            /\ \A i \in 1 .. k : (s \o c)[Len(s) + i] = c[i]
      <4> TAKE s \in Seq(B)
      <4>1. c \in Seq(B) /\ Len(c) = k
        BY <1>7
      <4>2. /\ Len(s \o c) = Len(s) + Len(c) /\ Len(s) \in Nat
            /\ \A i \in 1 .. Len(c) : (s \o c)[Len(s) + i] = c[i]
        BY <4>1
      <4> QED BY <4>1, <4>2
    <3> QED BY <1>4, <3>1, Zenon
  <2>2. (ToRead \o c)[Len(ToRead) + k] = <<f, p + k - 1>>
    BY <1>9, <1>10, <2>1
  <2>3. Len(ToRead') >= 1 /\ ToRead'[Len(ToRead')] = <<f, p + k - 1>>
    BY <1>9, <1>11, <2>1, <2>2
  <2> QED BY <1>4, <2>3 DEF Last
<1>17. r # << >> => k < Len(bytes) /\ r[1] = <<f, p + k>>
  <2> SUFFICES ASSUME r # << >> PROVE k < Len(bytes) /\ r[1] = <<f, p + k>>
    OBVIOUS
  <2>1. Len(r) >= 1
    BY <1>7
  <2>2. k < Len(bytes) /\ 1 \in 1 .. Len(bytes) - k /\ k + 1 \in 1 .. Len(bytes)
        /\ p + (k + 1) - 1 = p + k
    BY <1>7, <1>9, <2>1
  <2> QED BY <1>5, <1>7, <2>2
<1>18. LastIsCarriedOn'
  <2> SUFFICES ASSUME ~IsNewline(<<f, p + k - 1>>)
               PROVE  writing'[w] # << >> /\ writing'[w][1] = <<f, (p + k - 1) + 1>>
    BY <1>16 DEF LastIsCarriedOn
  <2>1. k # Len(bytes)
    BY <1>5, <1>9 DEF IsNewline
  <2>2. r # << >>
    BY <1>7, <1>9, <2>1
  <2>3. (p + k - 1) + 1 = p + k
    BY <1>9
  <2> QED BY <1>8, <1>17, <2>2, <2>3
<1>19. MidFrameIsLast'
  <2> SUFFICES ASSUME NEW v \in Writer, MidFrame(v)', FrameOf(v, begun[v]) \notin Disturbed'
               PROVE  <<f, p + k - 1>> = <<FrameOf(v, begun[v]), writing'[v][1][2] - 1>>
    BY <1>2, <1>16 DEF MidFrameIsLast
  <2>1. v = w
    <3> SUFFICES ASSUME v # w PROVE FALSE
      OBVIOUS
    <3>1. MidFrame(v)
      BY <1>8 DEF MidFrame
    <3> QED BY <1>2, <3>1
  <2>2. r # << >>
    BY <1>8, <2>1 DEF MidFrame
  <2>3. writing'[v][1] = <<f, p + k>>
    BY <1>8, <1>17, <2>1, <2>2
  <2> QED BY <1>9, <2>1, <2>3 DEF f
<1>20. torn' \subseteq Disturbed'
  BY <1>2 DEF ClearInv, OnlyDisturbedFramesAreTorn
<1> QED BY <1>1, <1>15, <1>18, <1>19, <1>20 DEF ClearInv, OnlyDisturbedFramesAreTorn

\* The half that a writer gives up stays in the stream, as one of a disturbed request.
LEMMA TimesOutClear == ASSUME ClearInv, NEW w \in Writer, SendTimesOut(w) PROVE ClearInv'
<1> DEFINE f == FrameOf(w, begun[w])
<1>1. TypeInv /\ TypeInv'
  BY SendTypes DEF ClearInv, Send
<1>2. /\ ToRead' = ToRead /\ UNCHANGED <<open, begun, torn>> /\ writing[w] # << >>
      /\ givenUp \subseteq givenUp' /\ f \in givenUp' /\ Disturbed \subseteq Disturbed'
      /\ writing'[w] = << >> /\ \A v \in Writer \ {w} : writing'[v] = writing[v]
  BY <1>1 DEF SendTimesOut, ToRead, deviceSide, Disturbed, TypeInv
<1>3. LastIsCarriedOn'
  <2> DEFINE b == Last(ToRead)
  <2> SUFFICES ASSUME open, ToRead # << >>, ~IsNewline(b), b[1] \notin givenUp'
               PROVE  \E u \in Writer : writing'[u] # << >> /\ writing'[u][1] = <<b[1], b[2] + 1>>
    BY <1>2 DEF LastIsCarriedOn
  <2>1. PICK u \in Writer : writing[u] # << >> /\ writing[u][1] = <<b[1], b[2] + 1>>
    BY <1>2 DEF ClearInv, LastIsCarriedOn
  <2> HIDE DEF b
  <2>2. u # w
    <3>1. writing[u][1] = <<FrameOf(u, begun[u]), writing[u][1][2]>>
      BY <1>1, <2>1, NextByte
    <3>2. FrameOf(u, begun[u]) = b[1]
      BY <2>1, <3>1
    <3> QED BY <1>2, <3>2
  <2> QED BY <1>2, <2>1, <2>2
<1>4. MidFrameIsLast'
  <2> SUFFICES ASSUME NEW v \in Writer, open, MidFrame(v)', FrameOf(v, begun[v]) \notin Disturbed'
               PROVE  /\ ToRead # << >>
                      /\ Last(ToRead) = <<FrameOf(v, begun[v]), writing'[v][1][2] - 1>>
    BY <1>2 DEF MidFrameIsLast
  <2>1. v # w
    BY <1>2 DEF MidFrame
  <2>2. writing'[v] = writing[v] /\ MidFrame(v) /\ FrameOf(v, begun[v]) \notin Disturbed
    BY <1>2, <2>1 DEF MidFrame
  <2> QED BY <2>2 DEF ClearInv, MidFrameIsLast
<1>5. Whole(ToRead', Disturbed')
  BY <1>2 DEF ClearInv, Whole
<1> QED BY <1>1, <1>2, <1>3, <1>4, <1>5 DEF ClearInv, OnlyDisturbedFramesAreTorn

LEMMA LostClear == ASSUME ClearInv, NEW w \in Writer, SendIsLost(w) PROVE ClearInv'
<1>1. TypeInv' /\ ToRead' = ToRead /\ ~open' /\ UNCHANGED torn /\ Disturbed' = Disturbed
  BY SendTypes DEF ClearInv, Send, SendIsLost, ToRead, deviceSide, Disturbed
<1>2. LastIsCarriedOn' /\ MidFrameIsLast'
  BY <1>1 DEF LastIsCarriedOn, MidFrameIsLast
<1>3. Whole(ToRead', Disturbed')
  BY <1>1 DEF ClearInv
<1> QED BY <1>1, <1>2, <1>3 DEF ClearInv, OnlyDisturbedFramesAreTorn

LEMMA ClearInvHolds == Spec => []ClearInv
<1>1. ASSUME ClearInv, [Next]_vars PROVE ClearInv'
  <2>1. CASE UNCHANGED vars
    <3>1. /\ UNCHANGED <<open, begun, writing, givenUp, torn>> /\ ToRead' = ToRead
          /\ Disturbed' = Disturbed
      BY <2>1 DEF vars, controllerVars, deviceSide, ToRead, Disturbed
    <3>2. TypeInv'
      BY <1>1, <2>1, StutterTypes DEF ClearInv
    <3>3. LastIsCarriedOn' /\ MidFrameIsLast'
      BY <1>1, <3>1, SameLast
    <3>4. Whole(ToRead', Disturbed')
      BY <1>1, <3>1 DEF ClearInv
    <3> QED BY <1>1, <3>1, <3>2, <3>3, <3>4 DEF ClearInv, OnlyDisturbedFramesAreTorn
  <2> QED BY <1>1, <2>1, DeviceClear, SessionClear, BeginClear, SomeClear, TimesOutClear, LostClear
         DEF Next, Send
<1> QED BY <1>1, InitClear, PTL DEF Spec

\* A frame is spoilt only by one that was written across it, by its own timeout before
\* settimeout(None), or by a half that such a timeout left right before it: however small
\* the kernels' buffers are, however many threads write and however the device's recv()
\* cuts the stream, any other request reaches _handle() in one piece.
THEOREM FramesThatKeepClearAreWhole == Spec => []OnlyDisturbedFramesAreTorn
<1>1. ClearInv => OnlyDisturbedFramesAreTorn
  BY DEF ClearInv
<1> QED BY <1>1, ClearInvHolds, PTL

-----------------------------------------------------------------------------
(* Upstream: the bytes on their way to the session are the device's replies *)
(* that it has not read, from the first byte of the next one on and without *)
(* a gap; all of them, unless the device closed and dropped the last ones.  *)

\* The bytes of stream are numbered with the positions of their frames in sent, of
\* which the first n were read.
Numbered(num, stream, sent, n) ==
  /\ num \in [1 .. Len(stream) -> n + 1 .. Len(sent)]
  /\ \A k \in 1 .. Len(stream) : stream[k][1] = sent[num[k]]
  /\ Len(stream) >= 1 => num[1] = n + 1 /\ stream[1][2] = 1
  /\ \A k \in 1 .. Len(stream) - 1 :
       IF IsNewline(stream[k])
       THEN num[k + 1] = num[k] + 1 /\ stream[k + 1][2] = 1
       ELSE num[k + 1] = num[k] /\ stream[k + 1][2] = stream[k][2] + 1

\* ... and end with the last frame of sent.
ToTheLast(num, stream, sent, n) ==
  IF Len(stream) = 0 THEN Len(sent) = n
  ELSE IsNewline(stream[Len(stream)]) /\ num[Len(stream)] = Len(sent)

InOrder(stream, sent, n) == \E num : Numbered(num, stream, sent, n)

AllInOrder(stream, sent, n) ==
  \E num : Numbered(num, stream, sent, n) /\ ToTheLast(num, stream, sent, n)

ReadsInOrder ==
  session.at # "closed" =>
    /\ InOrder(Unread, answered, Len(got))
    /\ device.at # "closed" => AllInOrder(Unread, answered, Len(got))

ChannelInv == TypeInv /\ ReadsInOrder

\* One more frame is sent behind the others.
LEMMA OneMore ==
  \A F : \A s \in Seq(BytesOf(F)), sent \in Seq(F), n \in Nat, a \in F :
    AllInOrder(s, sent, n) => AllInOrder(s \o Bytes(a), Append(sent, a), n)
<1> TAKE F
<1> TAKE s \in Seq(BytesOf(F)), sent \in Seq(F), n \in Nat, a \in F
<1> HAVE AllInOrder(s, sent, n)
<1>1. PICK num : Numbered(num, s, sent, n) /\ ToTheLast(num, s, sent, n)
  BY DEF AllInOrder
<1> DEFINE m == Len(s)
           l == Len(sent)
           w == Width(a)
           t == s \o Bytes(a)
           more == Append(sent, a)
           nu == [k \in 1 .. m + w |-> IF k <= m THEN num[k] ELSE l + 1]
<1>2. /\ Bytes(a) \in Seq(BytesOf(F)) /\ Len(Bytes(a)) = w
      /\ \A i \in 1 .. w : Bytes(a)[i] = <<a, i>>
  BY BytesAre
<1>3. w \in Nat /\ w >= 2
  BY WidthIs
<1>4. /\ m \in Nat /\ l \in Nat /\ Len(more) = l + 1 /\ more[l + 1] = a
      /\ \A i \in 1 .. l : more[i] = sent[i]
  OBVIOUS
<1>5. /\ Len(t) = m + w /\ \A k \in 1 .. m : t[k] = s[k]
      /\ \A i \in 1 .. w : t[m + i] = <<a, i>>
  <2>1. /\ Len(t) = m + Len(Bytes(a)) /\ \A k \in 1 .. m : t[k] = s[k]
        /\ \A i \in 1 .. Len(Bytes(a)) : t[m + i] = Bytes(a)[i]
    <3>1. PICK c \in Seq(BytesOf(F)) : c = Bytes(a)
      BY <1>2
    <3>2. /\ Len(s \o c) = Len(s) + Len(c) /\ \A k \in 1 .. Len(s) : (s \o c)[k] = s[k]
          /\ \A i \in 1 .. Len(c) : (s \o c)[Len(s) + i] = c[i]
      OBVIOUS
    <3> QED BY <3>1, <3>2
  <2> HIDE DEF t
  <2> QED BY <1>2, <2>1
<1>6. /\ num \in [1 .. m -> n + 1 .. l]
      /\ \A k \in 1 .. m : s[k][1] = sent[num[k]]
      /\ m >= 1 => num[1] = n + 1 /\ s[1][2] = 1
      /\ \A k \in 1 .. m - 1 : IF IsNewline(s[k])
                               THEN num[k + 1] = num[k] + 1 /\ s[k + 1][2] = 1
                               ELSE num[k + 1] = num[k] /\ s[k + 1][2] = s[k][2] + 1
  BY <1>1 DEF Numbered
<1>7. /\ m = 0 => l = n
      /\ m # 0 => IsNewline(s[m]) /\ num[m] = l
  BY <1>1 DEF ToTheLast
<1> HIDE DEF m, l, w, t, more
<1>8. n <= l
  <2>1. m # 0 => num[m] \in n + 1 .. l
    BY <1>4, <1>6
  <2> QED BY <1>4, <1>7, <2>1
<1>9. /\ \A k \in 1 .. m : nu[k] = num[k]
      /\ \A k \in m + 1 .. m + w : nu[k] = l + 1 /\ t[k] = <<a, k - m>>
  <2>1. \A k \in 1 .. m : nu[k] = num[k]
    BY <1>3, <1>4
  <2>2. ASSUME NEW k \in m + 1 .. m + w PROVE nu[k] = l + 1 /\ t[k] = <<a, k - m>>
    <3>1. k - m \in 1 .. w /\ m + (k - m) = k /\ ~(k <= m) /\ k \in 1 .. m + w
      BY <1>3, <1>4, <2>2
    <3>2. t[m + (k - m)] = <<a, k - m>>
      BY <1>5, <3>1
    <3> QED BY <3>1, <3>2
  <2> QED BY <2>1, <2>2
<1>10. nu \in [1 .. m + w -> n + 1 .. l + 1]
  <2>1. ASSUME NEW k \in 1 .. m + w PROVE (IF k <= m THEN num[k] ELSE l + 1) \in n + 1 .. l + 1
    <3>1. CASE k <= m
      <4>1. num[k] \in n + 1 .. l
        BY <1>4, <1>6, <3>1
      <4> QED BY <1>4, <3>1, <4>1
    <3>2. CASE ~(k <= m)
      BY <1>4, <1>8, <3>2
    <3> QED BY <3>1, <3>2
  <2> QED BY <2>1
<1> HIDE DEF nu
<1>11. \A k \in 1 .. m + w : t[k][1] = more[nu[k]]
  <2> TAKE k \in 1 .. m + w
  <2>1. CASE k \in 1 .. m
    <3>1. num[k] \in 1 .. l
      <4>1. num[k] \in n + 1 .. l
        BY <1>6, <2>1
      <4> QED BY <4>1
    <3> QED BY <1>4, <1>5, <1>6, <1>9, <2>1, <3>1
  <2>2. CASE k \in m + 1 .. m + w
    BY <1>4, <1>9, <2>2
  <2> QED BY <1>3, <1>4, <2>1, <2>2
<1>12. nu[1] = n + 1 /\ t[1][2] = 1
  <2>1. CASE m = 0
    <3>1. 1 \in m + 1 .. m + w /\ 1 - m = 1
      BY <1>3, <2>1
    <3> QED BY <1>7, <1>9, <2>1, <3>1
  <2>2. CASE m # 0
    <3>1. 1 \in 1 .. m /\ m >= 1
      BY <1>4, <2>2
    <3> QED BY <1>5, <1>6, <1>9, <3>1
  <2> QED BY <2>1, <2>2
<1>13. ASSUME NEW k \in 1 .. m + w - 1
       PROVE  IF IsNewline(t[k]) THEN nu[k + 1] = nu[k] + 1 /\ t[k + 1][2] = 1
                                 ELSE nu[k + 1] = nu[k] /\ t[k + 1][2] = t[k][2] + 1
  <2>1. CASE k < m
    <3>1. k \in 1 .. m /\ k + 1 \in 1 .. m /\ k \in 1 .. m - 1
      BY <1>3, <1>4, <2>1
    <3>2. t[k] = s[k] /\ t[k + 1] = s[k + 1] /\ nu[k] = num[k] /\ nu[k + 1] = num[k + 1]
      BY <1>5, <1>9, <3>1
    <3> QED BY <1>6, <3>1, <3>2
  <2>2. CASE k = m
    <3>1. m # 0 /\ m \in 1 .. m /\ m + 1 \in m + 1 .. m + w /\ (m + 1) - m = 1
      BY <1>3, <1>4, <2>2
    <3>2. IsNewline(t[k]) /\ nu[k] = l
      BY <1>5, <1>7, <1>9, <2>2, <3>1
    <3>3. nu[k + 1] = l + 1 /\ t[k + 1] = <<a, 1>>
      BY <1>9, <2>2, <3>1
    <3> QED BY <3>2, <3>3
  <2>3. CASE k > m
    <3>1. /\ k \in m + 1 .. m + w /\ k + 1 \in m + 1 .. m + w /\ (k + 1) - m = (k - m) + 1
          /\ k - m # w
      BY <1>3, <1>4, <2>3
    <3>2. t[k] = <<a, k - m>> /\ t[k + 1] = <<a, (k - m) + 1>> /\ nu[k] = l + 1 /\ nu[k + 1] = l + 1
      BY <1>9, <3>1
    <3>3. ~IsNewline(t[k])
      BY <3>1, <3>2 DEF IsNewline, w
    <3> QED BY <3>2, <3>3
  <2> QED BY <1>4, <2>1, <2>2, <2>3
<1>14. IsNewline(t[m + w]) /\ nu[m + w] = l + 1
  <2>1. m + w \in m + 1 .. m + w /\ (m + w) - m = w
    BY <1>3, <1>4
  <2>2. t[m + w] = <<a, w>>
    BY <1>9, <2>1
  <2> QED BY <1>9, <2>1, <2>2 DEF IsNewline, w
<1>15. Numbered(nu, t, more, n)
  <2>1. Len(t) = m + w /\ Len(more) = l + 1
    BY <1>4, <1>5
  <2>2. nu \in [1 .. Len(t) -> n + 1 .. Len(more)]
    BY <1>10, <2>1
  <2>3. \A k \in 1 .. Len(t) : t[k][1] = more[nu[k]]
    BY <1>11, <2>1
  <2>4. \A k \in 1 .. Len(t) - 1 :
          IF IsNewline(t[k]) THEN nu[k + 1] = nu[k] + 1 /\ t[k + 1][2] = 1
                             ELSE nu[k + 1] = nu[k] /\ t[k + 1][2] = t[k][2] + 1
    <3> TAKE k \in 1 .. Len(t) - 1
    <3>1. k \in 1 .. m + w - 1
      BY <1>3, <1>4, <2>1
    <3> QED BY <1>13, <3>1
  <2> QED BY <1>12, <2>2, <2>3, <2>4 DEF Numbered
<1>16. ToTheLast(nu, t, more, n)
  <2>1. m + w # 0
    BY <1>3, <1>4
  <2> QED BY <1>4, <1>5, <1>14, <2>1 DEF ToTheLast
<1> QED BY <1>15, <1>16 DEF AllInOrder, t, more

\* The first bytes of a stream are in order if the stream is.
LEMMA FirstInOrder ==
  \A S : \A s, t \in Seq(S) : \A sent, n : InOrder(s \o t, sent, n) => InOrder(s, sent, n)
<1> TAKE S
<1> TAKE s, t \in Seq(S)
<1> TAKE sent, n
<1> HAVE InOrder(s \o t, sent, n)
<1> DEFINE u == s \o t
           m == Len(s)
<1>1. PICK num : Numbered(num, u, sent, n)
  BY DEF InOrder
<1>2. m \in Nat /\ Len(t) \in Nat /\ Len(u) = m + Len(t) /\ \A k \in 1 .. m : u[k] = s[k]
  OBVIOUS
<1> HIDE DEF u, m
<1> DEFINE nu == [k \in 1 .. m |-> num[k]]
<1>3. \A k \in 1 .. m : k \in 1 .. Len(u) /\ (k \in 1 .. m - 1 => k \in 1 .. Len(u) - 1 /\ k + 1 \in 1 .. m)
  BY <1>2
<1>4. nu \in [1 .. m -> n + 1 .. Len(sent)] /\ \A k \in 1 .. m : nu[k] = num[k]
  BY <1>1, <1>3 DEF Numbered
<1> HIDE DEF nu
<1>5. \A k \in 1 .. m : s[k][1] = sent[nu[k]]
  BY <1>1, <1>2, <1>3, <1>4 DEF Numbered
<1>6. m >= 1 => nu[1] = n + 1 /\ s[1][2] = 1
  <2>1. m >= 1 => 1 \in 1 .. m /\ Len(u) >= 1
    BY <1>2
  <2> QED BY <1>1, <1>2, <1>4, <2>1 DEF Numbered
<1>7. \A k \in 1 .. m - 1 : IF IsNewline(s[k]) THEN nu[k + 1] = nu[k] + 1 /\ s[k + 1][2] = 1
                                               ELSE nu[k + 1] = nu[k] /\ s[k + 1][2] = s[k][2] + 1
  <2> TAKE k \in 1 .. m - 1
  <2>1. k \in 1 .. m /\ k + 1 \in 1 .. m /\ k \in 1 .. Len(u) - 1
    BY <1>2
  <2>2. s[k] = u[k] /\ s[k + 1] = u[k + 1] /\ nu[k] = num[k] /\ nu[k + 1] = num[k + 1]
    BY <1>2, <1>4, <2>1
  <2> QED BY <1>1, <2>1, <2>2 DEF Numbered
<1>8. Numbered(nu, s, sent, n)
  BY <1>4, <1>5, <1>6, <1>7 DEF Numbered, m
<1> QED BY <1>8 DEF InOrder

\* The first line of a stream in order is the next frame ...
LEMMA NextFrame ==
  ASSUME NEW F, NEW s \in Seq(BytesOf(F)), NEW sent \in Seq(F), NEW n \in Nat, NEW num,
         Numbered(num, s, sent, n), NEW e \in 1 .. Len(s), IsNewline(s[e]),
         \A j \in 1 .. e - 1 : ~IsNewline(s[j])
  PROVE  /\ n < Len(sent) /\ e = Width(sent[n + 1]) /\ num[e] = n + 1
         /\ \A j \in 1 .. e : s[j] = <<sent[n + 1], j>>
<1> DEFINE m == Len(s)
           a == sent[n + 1]
<1>1. m \in Nat /\ m >= 1 /\ e \in Nat /\ e >= 1 /\ e <= m /\ 1 \in 1 .. m
  OBVIOUS
<1>2. num[1] = n + 1 /\ s[1][2] = 1 /\ num[1] \in n + 1 .. Len(sent) /\ s[1][1] = a
  BY <1>1 DEF Numbered
<1>3. n < Len(sent)
  BY <1>2
<1>4. ASSUME NEW j \in 1 .. m, j < e, num[j] = n + 1, s[j] = <<a, j>>
      PROVE  num[j + 1] = n + 1 /\ s[j + 1] = <<a, j + 1>>
  <2>1. j \in 1 .. m - 1 /\ j + 1 \in 1 .. m /\ j \in 1 .. e - 1
    BY <1>1, <1>4
  <2>2. num[j + 1] = n + 1 /\ s[j + 1][2] = j + 1 /\ s[j + 1][1] = sent[num[j + 1]]
    BY <1>4, <2>1 DEF Numbered
  <2>3. s[j + 1] = <<s[j + 1][1], s[j + 1][2]>>
    <3>1. s[j + 1] \in BytesOf(F)
      BY <2>1
    <3> QED BY <3>1, ByteIs
  <2> QED BY <2>2, <2>3
<1>5. s[1] = <<a, 1>>
  <2>1. s[1] = <<s[1][1], s[1][2]>>
    BY <1>1, ByteIs
  <2> QED BY <1>2, <2>1
<1>6. \A i : IsNewline(<<a, i>>) <=> i = Width(a)
  BY DEF IsNewline
<1>7. Width(a) = 2 \/ Width(a) = 3
  BY WidthIs
<1> HIDE DEF a
<1>8. e # 1
  <2>1. e = 1 => IsNewline(<<a, 1>>)
    BY <1>5
  <2> QED BY <1>6, <1>7, <2>1
<1>9. num[2] = n + 1 /\ s[2] = <<a, 2>>
  <2>1. num[1 + 1] = n + 1 /\ s[1 + 1] = <<a, 1 + 1>>
    BY <1>1, <1>2, <1>4, <1>5, <1>8
  <2> QED BY <2>1
<1>10. CASE Width(a) = 2
  <2>1. IsNewline(s[2])
    BY <1>6, <1>9, <1>10
  <2>2. e = 2
    <3>1. e > 2 => 2 \in 1 .. e - 1
      BY <1>1
    <3> QED BY <1>1, <1>8, <2>1, <3>1
  <2>3. \A j \in 1 .. e : j = 1 \/ j = 2
    BY <2>2
  <2> QED BY <1>3, <1>5, <1>9, <1>10, <2>2, <2>3 DEF a
<1>11. CASE Width(a) = 3
  <2>1. ~IsNewline(s[2])
    BY <1>6, <1>9, <1>11
  <2>2. e >= 3 /\ 2 \in 1 .. m
    BY <1>1, <1>8, <2>1
  <2>3. num[3] = n + 1 /\ s[3] = <<a, 3>>
    <3>1. num[2 + 1] = n + 1 /\ s[2 + 1] = <<a, 2 + 1>>
      BY <1>4, <1>9, <2>2
    <3> QED BY <3>1
  <2>4. e = 3
    <3>1. IsNewline(s[3])
      BY <1>6, <1>11, <2>3
    <3>2. e > 3 => 3 \in 1 .. e - 1
      BY <1>1
    <3> QED BY <1>1, <2>2, <3>1, <3>2
  <2>5. \A j \in 1 .. e : j = 1 \/ j = 2 \/ j = 3
    BY <2>4
  <2> QED BY <1>3, <1>5, <1>9, <1>11, <2>3, <2>4, <2>5 DEF a
<1> QED BY <1>7, <1>10, <1>11

\* ... and what follows it is in order too.
LEMMA AfterFrame ==
  ASSUME NEW F, NEW s \in Seq(BytesOf(F)), NEW sent \in Seq(F), NEW n \in Nat, NEW num,
         Numbered(num, s, sent, n), NEW e \in 1 .. Len(s), IsNewline(s[e]), num[e] = n + 1,
         NEW r \in Seq(BytesOf(F)), Without(r, s, e)
  PROVE  InOrder(r, sent, n + 1) /\ (ToTheLast(num, s, sent, n) => AllInOrder(r, sent, n + 1))
<1> DEFINE m == Len(s)
           l == Len(r)
           nu == [k \in 1 .. l |-> num[e + k]]
<1>1. m \in Nat /\ l \in Nat /\ l = m - e /\ e \in 1 .. m /\ \A k \in 1 .. l : r[k] = s[e + k]
  BY DEF Without
<1>2. Numbered(num, s, sent, n) /\ m = Len(s)
  OBVIOUS
<1> HIDE DEF m, l
<1>3. /\ \A k \in 1 .. l : e + k \in 1 .. m
      /\ \A k \in 1 .. l - 1 : /\ k \in 1 .. l /\ k + 1 \in 1 .. l /\ e + k \in 1 .. m - 1
                               /\ (e + k) + 1 = e + (k + 1)
  BY <1>1
<1>4. \A k \in 1 .. l : num[e + k] \in n + 2 .. Len(sent)
  <2> DEFINE T == {k \in 1 .. l : num[e + k] <= n + 1}
  <2>1. \A k \in 1 .. m : num[k] \in n + 1 .. Len(sent)
    BY <1>2 DEF Numbered
  <2>2. ASSUME T # {} PROVE FALSE
    <3>1. PICK k \in T : \A j \in T : k <= j
      <4>1. T \in SUBSET Nat
        BY <1>1
      <4> HIDE DEF T
      <4> QED BY <2>2, <4>1, LeastNumber
    <3>4. k \in 1 .. l /\ num[e + k] <= n + 1 /\ (k - 1 \in 1 .. l /\ num[e + (k - 1)] <= n + 1 => k <= k - 1)
      BY <3>1
    <3> HIDE DEF T
    <3>2. CASE k = 1
      <4>1. e \in 1 .. m - 1
        BY <1>1, <3>4
      <4>2. num[e + 1] = num[e] + 1
        BY <1>2, <4>1 DEF Numbered
      <4> QED BY <3>2, <3>4, <4>2
    <3>3. CASE k # 1
      <4>1. k - 1 \in 1 .. l - 1 /\ k - 1 \in 1 .. l /\ (e + (k - 1)) + 1 = e + k
            /\ e + (k - 1) \in 1 .. m - 1 /\ e + (k - 1) \in 1 .. m /\ e + k \in 1 .. m
            /\ ~(k <= k - 1)
        BY <1>1, <3>3, <3>4
      <4>2. ~(num[e + (k - 1)] <= n + 1)
        BY <3>4, <4>1
      <4>3. num[e + (k - 1)] > n + 1 /\ num[e + (k - 1)] \in Nat
        BY <2>1, <4>1, <4>2
      <4>4. num[(e + (k - 1)) + 1] \in {num[e + (k - 1)], num[e + (k - 1)] + 1}
        BY <1>2, <4>1 DEF Numbered
      <4>5. num[e + k] > n + 1
        BY <4>1, <4>3, <4>4
      <4> QED BY <1>3, <2>1, <3>4, <4>5
    <3> QED BY <3>2, <3>3
  <2> TAKE k \in 1 .. l
  <2>3. ~(num[e + k] <= n + 1) /\ num[e + k] \in n + 1 .. Len(sent)
    BY <1>3, <2>1, <2>2
  <2> QED BY <2>3
<1>5. nu \in [1 .. l -> (n + 1) + 1 .. Len(sent)] /\ \A k \in 1 .. l : nu[k] = num[e + k]
  BY <1>4
<1> HIDE DEF nu
<1>6. \A k \in 1 .. l : r[k][1] = sent[nu[k]]
  BY <1>1, <1>2, <1>3, <1>5 DEF Numbered
<1>7. l >= 1 => nu[1] = (n + 1) + 1 /\ r[1][2] = 1
  <2> SUFFICES ASSUME l >= 1 PROVE nu[1] = (n + 1) + 1 /\ r[1][2] = 1
    OBVIOUS
  <2>1. e \in 1 .. m - 1 /\ 1 \in 1 .. l
    BY <1>1
  <2>2. num[e + 1] = num[e] + 1 /\ s[e + 1][2] = 1
    BY <1>2, <2>1 DEF Numbered
  <2> QED BY <1>1, <1>5, <2>1, <2>2
<1>8. \A k \in 1 .. l - 1 : IF IsNewline(r[k]) THEN nu[k + 1] = nu[k] + 1 /\ r[k + 1][2] = 1
                                               ELSE nu[k + 1] = nu[k] /\ r[k + 1][2] = r[k][2] + 1
  <2> TAKE k \in 1 .. l - 1
  <2>1. /\ r[k] = s[e + k] /\ r[k + 1] = s[(e + k) + 1]
        /\ nu[k] = num[e + k] /\ nu[k + 1] = num[(e + k) + 1] /\ e + k \in 1 .. m - 1
    BY <1>1, <1>3, <1>5
  <2> QED BY <1>2, <2>1 DEF Numbered
<1>9. Numbered(nu, r, sent, n + 1)
  BY <1>5, <1>6, <1>7, <1>8 DEF Numbered, l
<1>10. ASSUME ToTheLast(num, s, sent, n) PROVE ToTheLast(nu, r, sent, n + 1)
  <2>1. IsNewline(s[m]) /\ num[m] = Len(sent)
    BY <1>1, <1>2, <1>10 DEF ToTheLast
  <2>2. CASE l = 0
    <3>1. e = m
      BY <1>1, <2>2
    <3> QED BY <2>1, <2>2, <3>1 DEF ToTheLast, l
  <2>3. CASE l # 0
    <3>1. l \in 1 .. l /\ e + l = m
      BY <1>1, <2>3
    <3>2. r[l] = s[m] /\ nu[l] = num[m]
      BY <1>1, <1>5, <3>1
    <3> QED BY <2>1, <2>3, <3>2 DEF ToTheLast, l
  <2> QED BY <2>2, <2>3
<1> QED BY <1>9, <1>10 DEF InOrder, AllInOrder

LEMMA InitInOrder == Init => ChannelInv
<1> SUFFICES ASSUME Init PROVE ChannelInv
  OBVIOUS
<1>1. Unread = << >> /\ answered = << >> /\ Len(got) = 0
  BY DEF Init, Unread
<1>2. AllInOrder(<< >>, << >>, 0)
  <2>1. Len(<< >>) = 0 /\ << >> \in [1 .. 0 -> 0 + 1 .. 0]
    OBVIOUS
  <2>2. Numbered(<< >>, << >>, << >>, 0)
    BY <2>1 DEF Numbered
  <2> QED BY <2>1, <2>2 DEF AllInOrder, ToTheLast
<1>3. InOrder(<< >>, << >>, 0)
  BY <1>2 DEF AllInOrder, InOrder
<1> QED BY <1>1, <1>2, <1>3, FramingInitTypes DEF ChannelInv, ReadsInOrder

\* Steps that move no byte past another.
LEMMA SameUnread ==
  ASSUME ChannelInv, TypeInv', Unread' = Unread, UNCHANGED <<answered, got>>,
         session'.at # "closed" => session.at # "closed",
         device'.at # "closed" => device.at # "closed"
  PROVE  ChannelInv'
BY DEF ChannelInv, ReadsInOrder

LEMMA UnreadIs ==
  ASSUME TypeInv
  PROVE  /\ session.buffer \in Seq(BytesOf(AllReplies)) /\ up \in Seq(BytesOf(AllReplies))
         /\ device.out \in Seq(BytesOf(AllReplies)) /\ Unread \in Seq(BytesOf(AllReplies))
         /\ session.buffer \o up \in Seq(BytesOf(AllReplies))
         /\ answered \in Seq(AllReplies) /\ Len(got) \in Nat
BY DEF TypeInv, Unread

\* The bytes the device hands over stay in their place.
LEMMA DeviceSendInOrder == ASSUME ChannelInv, DeviceSend PROVE ChannelInv' /\ UNCHANGED <<answered, got>>
<1> DEFINE B == BytesOf(AllReplies)
<1>1. TypeInv /\ TypeInv'
  BY DeviceTypes DEF ChannelInv, Device
<1>2. /\ session.buffer \in Seq(B) /\ up \in Seq(B) /\ device.out \in Seq(B) /\ Len(up) <= SendBuffer
  BY <1>1, UnreadIs DEF TypeInv
<1> HIDE DEF B
<1>3. PICK out \in Seq(B), sb \in Seq(B), u \in Seq(B) :
         out = device.out /\ sb = session.buffer /\ u = up
  BY <1>2
<1>4. /\ up' = Taken(out, u) /\ device' = [device EXCEPT !.out = Left(out, u)]
      /\ UNCHANGED <<session, answered, got>>
  BY <1>3 DEF DeviceSend, sessionSide
<1>5. PICK k \in 0 .. Len(out) : /\ Taken(out, u) = u \o SubSeq(out, 1, k)
                                 /\ Left(out, u) = SubSeq(out, k + 1, Len(out))
  BY <1>2, <1>3, TakenAndLeft
<1> DEFINE c == SubSeq(out, 1, k)
           r == SubSeq(out, k + 1, Len(out))
<1>6. c \in Seq(B) /\ r \in Seq(B) /\ c \o r = out
  BY PartsOf
<1>7. device'.out = r /\ device'.at = device.at /\ up' = u \o c
  BY <1>1, <1>4, <1>5 DEF TypeInv
<1> HIDE DEF c, r
<1>8. (sb \o (u \o c)) \o r = (sb \o u) \o (c \o r)
  <2>1. sb \o u \in Seq(B)
    OBVIOUS
  <2>2. Regroups(sb, u, c) /\ Regroups(sb \o u, c, r)
    BY <1>6, <2>1, Regroup
  <2> QED BY <2>2 DEF Regroups
<1>9. Unread' = Unread
  BY <1>3, <1>4, <1>6, <1>7, <1>8 DEF Unread
<1> QED BY <1>1, <1>4, <1>7, <1>9, SameUnread

\* The replies to a line go behind those on their way.
LEMMA DeviceLineInOrder ==
  ASSUME ChannelInv, DeviceLine
  PROVE  ChannelInv' /\ (Upstream!Write \/ UNCHANGED <<answered, got>>)
<1> DEFINE line == Line(device.buffer)
           replies == IF IsFrame(line) THEN Replies(line[1][1]) ELSE << >>
<1>1. TypeInv /\ TypeInv'
  BY DeviceTypes DEF ChannelInv, Device
<1>2. /\ device.at = "lines" /\ device.out = << >> /\ HasLine(device.buffer)
      /\ device'.out = SentFor(replies) /\ device'.at = "lines"
      /\ answered' = answered \o replies /\ UNCHANGED <<up, session, got>>
  BY <1>1 DEF DeviceLine, SentFor, TypeInv, sessionSide
<1>3. IsFrame(line) => line[1][1] \in Requests
  BY <1>1, <1>2, LinesAreTyped DEF TypeInv
<1> HIDE DEF line
<1>4. \/ replies = << >> /\ SentFor(replies) = << >>
      \/ \E a \in AllReplies : replies = <<a>> /\ SentFor(replies) = Bytes(a)
      \/ \E a, b \in AllReplies : replies = <<a, b>> /\ SentFor(replies) = Bytes(a) \o Bytes(b)
  <2>1. CASE IsFrame(line)
    BY <1>3, <2>1, RepliesAre
  <2>2. CASE ~IsFrame(line)
    <3>1. replies = << >>
      BY <2>2
    <3>2. SentFor(<< >>) = << >>
      <4>1. [i \in DOMAIN << >> |-> Bytes(<< >>[i])] = << >>
        OBVIOUS
      <4> QED BY <4>1, FlattenFew DEF SentFor
    <3> HIDE DEF replies
    <3> QED BY <3>1, <3>2
  <2> QED BY <2>1, <2>2
<1> HIDE DEF replies
<1> DEFINE B == BytesOf(AllReplies)
<1>5. PICK s \in Seq(B), sent \in Seq(AllReplies), n \in Nat :
         s = session.buffer \o up /\ sent = answered /\ n = Len(got)
  BY <1>1, UnreadIs
<1>6. Unread = s /\ Unread' = s \o SentFor(replies)
  <2>1. s \o << >> = s
    BY <1>5
  <2> QED BY <1>2, <1>5, <2>1 DEF Unread
<1>7. session.at # "closed" => AllInOrder(s, sent, n)
  BY <1>2, <1>5, <1>6 DEF ChannelInv, ReadsInOrder
<1>8. \A b \in AllReplies : Bytes(b) \in Seq(B)
  BY BytesAre
<1> HIDE DEF B
<1>9. CASE replies = << >> /\ SentFor(replies) = << >>
  <2>1. s \o << >> = s /\ sent \o << >> = sent
    BY <1>5
  <2>2. Unread' = Unread /\ answered' = answered
    BY <1>2, <1>5, <1>6, <1>9, <2>1
  <2> QED BY <1>1, <1>2, <2>2, SameUnread
<1>10. ASSUME replies # << >>, session.at # "closed" => AllInOrder(Unread', answered', n)
       PROVE  ChannelInv'
  <2>1. session.at # "closed" => InOrder(Unread', answered', n)
    BY <1>10 DEF AllInOrder, InOrder
  <2> QED BY <1>1, <1>2, <1>5, <1>10, <2>1 DEF ChannelInv, ReadsInOrder
<1>11. ASSUME NEW r \in Seq(AllReplies), Len(r) > 0, replies = r PROVE Upstream!Write
  <2>1. Len(sent \o r) > Len(sent) /\ SubSeq(sent \o r, 1, Len(sent)) = sent
    <3>1. /\ Len(sent) \in Nat /\ Len(r) \in Nat /\ sent \o r \in Seq(AllReplies)
          /\ Len(sent \o r) = Len(sent) + Len(r)
          /\ \A k \in 1 .. Len(sent) : (sent \o r)[k] = sent[k]
      OBVIOUS
    <3>2. /\ SubSeq(sent \o r, 1, Len(sent)) \in Seq(AllReplies)
          /\ Len(SubSeq(sent \o r, 1, Len(sent))) = Len(sent)
          /\ \A k \in 1 .. Len(sent) : SubSeq(sent \o r, 1, Len(sent))[k] = (sent \o r)[k]
      <4>1. Len(sent) \in 0 .. Len(sent \o r)
        BY <3>1
      <4> QED BY <3>1, <4>1, PartsOf
    <3>3. \A k \in 1 .. Len(sent) : SubSeq(sent \o r, 1, Len(sent))[k] = sent[k]
      BY <3>1, <3>2
    <3>4. SubSeq(sent \o r, 1, Len(sent)) = sent
      BY <3>2, <3>3, SeqEqual
    <3> QED BY <1>11, <3>1, <3>4
  <2> QED BY <1>2, <1>5, <1>11, <2>1 DEF Upstream!Write
<1>12. ASSUME NEW a \in AllReplies, replies = <<a>>, SentFor(replies) = Bytes(a)
       PROVE  ChannelInv' /\ Upstream!Write
  <2>1. sent \o <<a>> = Append(sent, a) /\ <<a>> \in Seq(AllReplies) /\ Len(<<a>>) > 0
    OBVIOUS
  <2>2. AllInOrder(s, sent, n) => AllInOrder(s \o Bytes(a), Append(sent, a), n)
    BY <1>5, OneMore DEF B
  <2>3. session.at # "closed" => AllInOrder(Unread', answered', n)
    BY <1>2, <1>5, <1>6, <1>7, <1>12, <2>1, <2>2
  <2>4. Upstream!Write
    BY <1>11, <1>12, <2>1
  <2> QED BY <1>10, <1>12, <2>1, <2>3, <2>4
<1>13. ASSUME NEW a \in AllReplies, NEW b \in AllReplies, replies = <<a, b>>,
              SentFor(replies) = Bytes(a) \o Bytes(b)
       PROVE  ChannelInv' /\ Upstream!Write
  <2>1. /\ sent \o <<a, b>> = Append(Append(sent, a), b) /\ <<a, b>> \in Seq(AllReplies)
        /\ Len(<<a, b>>) > 0 /\ Append(sent, a) \in Seq(AllReplies)
    OBVIOUS
  <2>2. Bytes(a) \in Seq(B) /\ Bytes(b) \in Seq(B)
    BY <1>8
  <2>3. s \o Bytes(a) \in Seq(B) /\ s \o (Bytes(a) \o Bytes(b)) = (s \o Bytes(a)) \o Bytes(b)
    <3>1. PICK x \in Seq(B), y \in Seq(B) : x = Bytes(a) /\ y = Bytes(b)
      BY <2>2
    <3>2. s \o x \in Seq(B)
      OBVIOUS
    <3>3. Regroups(s, x, y)
      BY Regroup
    <3> QED BY <3>1, <3>2, <3>3 DEF Regroups
  <2>4. AllInOrder(s, sent, n) => AllInOrder(s \o Bytes(a), Append(sent, a), n)
    BY <1>5, OneMore DEF B
  <2>5. AllInOrder(s \o Bytes(a), Append(sent, a), n) =>
          AllInOrder((s \o Bytes(a)) \o Bytes(b), Append(Append(sent, a), b), n)
    BY <1>5, <2>1, <2>3, OneMore DEF B
  <2>6. session.at # "closed" => AllInOrder(Unread', answered', n)
    BY <1>2, <1>5, <1>6, <1>7, <1>13, <2>1, <2>3, <2>4, <2>5
  <2>7. Upstream!Write
    BY <1>11, <1>13, <2>1
  <2> QED BY <1>10, <1>13, <2>1, <2>6, <2>7
<1> QED BY <1>4, <1>9, <1>12, <1>13

\* Other steps of the device: it may only drop its last bytes.
LEMMA DeviceInOrder ==
  ASSUME ChannelInv, Device
  PROVE  ChannelInv' /\ (Upstream!Write \/ UNCHANGED <<answered, got>>)
<1>1. TypeInv /\ TypeInv'
  BY DeviceTypes DEF ChannelInv
<1>2. CASE DeviceRecv \/ DeviceNoLine
  <2>1. /\ UNCHANGED <<session, up, answered, got>> /\ device'.out = device.out
        /\ device.at # "closed"
    BY <1>1, <1>2 DEF DeviceRecv, DeviceNoLine, TypeInv, sessionSide
  <2>2. Unread' = Unread
    BY <2>1 DEF Unread
  <2> QED BY <1>1, <2>1, <2>2, SameUnread
<1>3. CASE DeviceCloses
  <2> DEFINE B == BytesOf(AllReplies)
  <2>1. /\ UNCHANGED <<session, up, answered, got>> /\ device'.out = << >>
        /\ device'.at = "closed"
    BY <1>3 DEF DeviceCloses, sessionSide
  <2>2. PICK s \in Seq(B), t \in Seq(B) : s = session.buffer \o up /\ t = device.out
    BY <1>1, UnreadIs
  <2>3. Unread = s \o t /\ Unread' = s
    <3>1. s \o << >> = s
      BY <2>2
    <3> QED BY <2>1, <2>2, <3>1 DEF Unread
  <2> HIDE DEF B
  <2>4. \A sent, n : InOrder(s \o t, sent, n) => InOrder(s, sent, n)
    BY FirstInOrder, SMT
  <2>5. session.at # "closed" => InOrder(s, answered, Len(got))
    BY <2>3, <2>4 DEF ChannelInv, ReadsInOrder
  <2> QED BY <1>1, <2>1, <2>3, <2>5 DEF ChannelInv, ReadsInOrder
<1> QED BY <1>2, <1>3, DeviceLineInOrder, DeviceSendInOrder DEF Device

\* The line the session takes out of its buffer is the next reply.
LEMMA SessionLineInOrder == ASSUME ChannelInv, SessionLine PROVE ChannelInv' /\ Upstream!Read
<1> DEFINE B == BytesOf(AllReplies)
           e == LineEnd(session.buffer)
           line == Line(session.buffer)
<1>1. TypeInv /\ TypeInv'
  BY SessionTypes DEF ChannelInv, Session
<1>2. /\ session.at = "lines" /\ HasLine(session.buffer)
      /\ got' = Append(got, IF IsFrame(line) THEN line[1][1] ELSE Torn)
      /\ session'.buffer = Rest(session.buffer) /\ session'.at = "lines"
      /\ UNCHANGED <<up, device, answered>>
  BY <1>1 DEF SessionLine, TypeInv, deviceSide
<1>3. PICK sb \in Seq(B), u \in Seq(B), out \in Seq(B), sent \in Seq(AllReplies), n \in Nat :
         sb = session.buffer /\ u = up /\ out = device.out /\ sent = answered /\ n = Len(got)
  BY <1>1, UnreadIs
<1> DEFINE s == (sb \o u) \o out
           rest == Rest(sb)
           r == (rest \o u) \o out
<1>4. /\ e \in 1 .. Len(sb) /\ IsNewline(sb[e]) /\ \A j \in 1 .. e - 1 : ~IsNewline(sb[j])
      /\ Len(line) = e - 1 /\ line \in Seq(B) /\ \A j \in 1 .. e - 1 : line[j] = sb[j]
      /\ rest \in Seq(B) /\ Len(rest) = Len(sb) - e
      /\ \A j \in 1 .. Len(rest) : rest[j] = sb[e + j]
  BY <1>2, <1>3, LineOf
<1>5. Unread = s /\ Unread' = r
  BY <1>2, <1>3 DEF Unread
<1> HIDE DEF e, line, rest, B
<1>6. s \in Seq(B) /\ r \in Seq(B) /\ Len(s) >= Len(sb) /\ \A j \in 1 .. Len(sb) : s[j] = sb[j]
  BY <1>4
<1>7. Without(r, s, e)
  <2>1. Without(rest, sb, e)
    BY <1>4 DEF Without
  <2>2. Without(rest \o u, sb \o u, e)
    BY <1>4, <2>1, FrontTaken
  <2>3. rest \o u \in Seq(B) /\ sb \o u \in Seq(B)
    BY <1>4
  <2> QED BY <2>2, <2>3, FrontTaken
<1> HIDE DEF s, r
<1>8. /\ e \in 1 .. Len(s) /\ IsNewline(s[e]) /\ \A j \in 1 .. e - 1 : ~IsNewline(s[j])
      /\ \A j \in 1 .. e - 1 : line[j] = s[j]
  BY <1>4, <1>6
<1>9. PICK num : /\ Numbered(num, s, sent, n)
                 /\ device.at # "closed" => ToTheLast(num, s, sent, n)
  <2>1. InOrder(s, sent, n) /\ (device.at # "closed" => AllInOrder(s, sent, n))
    BY <1>2, <1>3, <1>5 DEF ChannelInv, ReadsInOrder
  <2> QED BY <2>1 DEF InOrder, AllInOrder
<1> DEFINE a == sent[n + 1]
<1>10. /\ n < Len(sent) /\ e = Width(a) /\ num[e] = n + 1 /\ \A j \in 1 .. e : s[j] = <<a, j>>
  BY <1>6, <1>8, <1>9, NextFrame DEF B
<1>11. InOrder(r, sent, n + 1) /\ (device.at # "closed" => AllInOrder(r, sent, n + 1))
  BY <1>6, <1>7, <1>8, <1>9, <1>10, AfterFrame DEF B
<1> HIDE DEF a
<1>12. IsFrame(line) /\ line[1][1] = a
  <2>1. line = [j \in 1 .. Width(a) - 1 |-> <<a, j>>]
    <3>1. line = [j \in 1 .. Len(line) |-> line[j]]
      BY <1>4
    <3>2. Len(line) = Width(a) - 1 /\ \A j \in 1 .. Len(line) : line[j] = <<a, j>>
      <4>1. e - 1 \in Nat /\ \A j \in 1 .. e - 1 : j \in 1 .. e
        BY <1>8
      <4> QED BY <1>4, <1>8, <1>10, <4>1
    <3> QED BY <3>1, <3>2, Zenon
  <2>2. 1 \in 1 .. Width(a) - 1 /\ Len(line) >= 1
    <3>1. Width(a) = 2 \/ Width(a) = 3
      BY WidthIs
    <3>2. Len(line) = Width(a) - 1
      BY <1>4, <1>10
    <3> QED BY <3>1, <3>2
  <2>3. line[1] = <<a, 1>> /\ line # << >> /\ line[1][1] = a
    BY <2>1, <2>2
  <2> QED BY <2>1, <2>3 DEF IsFrame
<1>13. got' = Append(got, a) /\ Len(got') = n + 1
  <2>1. got' = Append(got, a)
    BY <1>2, <1>12
  <2> QED BY <1>1, <1>3, <2>1 DEF TypeInv
<1>14. Upstream!Read
  BY <1>2, <1>3, <1>10, <1>13 DEF Upstream!Read, a
<1> QED BY <1>1, <1>2, <1>3, <1>5, <1>11, <1>13, <1>14 DEF ChannelInv, ReadsInOrder

LEMMA SessionInOrder ==
  ASSUME ChannelInv, Session
  PROVE  ChannelInv' /\ (Upstream!Read \/ UNCHANGED <<answered, got>>)
<1>1. TypeInv /\ TypeInv'
  BY SessionTypes DEF ChannelInv
<1>2. CASE SessionGreeted \/ SessionNoLine
  <2>1. UNCHANGED <<up, device, answered, got>> /\ session'.buffer = session.buffer
        /\ session.at # "closed"
    BY <1>1, <1>2 DEF SessionGreeted, SessionNoLine, TypeInv, deviceSide
  <2>2. Unread' = Unread
    BY <2>1 DEF Unread
  <2> QED BY <1>1, <2>1, <2>2, SameUnread
<1>3. CASE SessionCloses
  <2>1. session'.at = "closed" /\ UNCHANGED <<answered, got>>
    BY <1>3 DEF SessionCloses, deviceSide
  <2> QED BY <1>1, <2>1 DEF ChannelInv, ReadsInOrder
<1>4. CASE SessionRecv
  <2> DEFINE B == BytesOf(AllReplies)
  <2>1. PICK sb \in Seq(B), u \in Seq(B) : sb = session.buffer /\ u = up
    BY <1>1, UnreadIs
  <2>2. PICK k \in 1 .. Len(u) :
           /\ session' = [at |-> "lines", buffer |-> sb \o SubSeq(u, 1, k)]
           /\ up' = SubSeq(u, k + 1, Len(u))
    BY <1>4, <2>1 DEF SessionRecv, Chunks
  <2>3. UNCHANGED <<device, answered, got>> /\ session.at # "closed"
    BY <1>4 DEF SessionRecv, deviceSide
  <2> DEFINE c == SubSeq(u, 1, k)
             r == SubSeq(u, k + 1, Len(u))
  <2>4. c \in Seq(B) /\ r \in Seq(B) /\ c \o r = u
    <3>1. k \in 0 .. Len(u)
      OBVIOUS
    <3> QED BY <3>1, PartsOf
  <2>5. session'.buffer = sb \o c /\ up' = r
    BY <2>2
  <2> HIDE DEF B, c, r
  <2>6. (sb \o c) \o r = sb \o (c \o r)
    <3>1. Regroups(sb, c, r)
      BY <2>4, Regroup
    <3> QED BY <3>1 DEF Regroups
  <2>7. Unread' = Unread
    BY <2>1, <2>3, <2>4, <2>5, <2>6 DEF Unread
  <2> QED BY <1>1, <2>3, <2>7, SameUnread
<1> QED BY <1>2, <1>3, <1>4, SessionLineInOrder DEF Session

LEMMA SendInOrder ==
  ASSUME ChannelInv, NEW w \in Writer, Send(w) PROVE ChannelInv' /\ UNCHANGED <<answered, got>>
<1>1. TypeInv'
  BY SendTypes DEF ChannelInv
<1>2. UNCHANGED <<up, device, session, answered, got>>
  BY DEF Send, SendBegin, SendSome, SendTimesOut, SendIsLost, deviceSide, sessionSide
<1>3. Unread' = Unread
  BY <1>2 DEF Unread
<1> QED BY <1>1, <1>2, <1>3, SameUnread

\* Every step of a connection is one of the channel, or none.
LEMMA ChannelStep ==
  ASSUME ChannelInv, [Next]_vars
  PROVE  ChannelInv' /\ [Upstream!Write \/ Upstream!Read]_<<answered, got>>
<1>1. CASE UNCHANGED vars
  <2>1. UNCHANGED <<up, device, session, answered, got>> /\ TypeInv'
    BY <1>1, StutterTypes DEF ChannelInv, vars, deviceSide, sessionSide
  <2>2. Unread' = Unread
    BY <2>1 DEF Unread
  <2> QED BY <2>1, <2>2, SameUnread
<1> QED BY <1>1, DeviceInOrder, SessionInOrder, SendInOrder DEF Next

\* The device's replies reach the session whole, in order and each at most once, however
\* the kernels cut the stream: what Transport's queues of frames take for granted.
THEOREM RepliesImplementLineChannel == Spec => RepliesAreAChannel
<1>1. Init => Upstream!Init
  BY DEF Init, Upstream!Init
<1> QED BY <1>1, InitInOrder, ChannelStep, PTL DEF Spec, RepliesAreAChannel, Upstream!Spec

=============================================================================
