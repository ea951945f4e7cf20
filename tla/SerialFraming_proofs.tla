------------------------ MODULE SerialFraming_proofs ------------------------
(***************************************************************************)
(* The framing of the serial line, for every set of messages, every size   *)
(* of the buffers and every number of messages sent.                       *)
(*                                                                         *)
(* The argument is about the stream, rx \o wire: units stand in the order  *)
(* in which they were sent, and behind the last name that was handled.     *)
(* While the driver drops nothing, a unit is followed by the next one of   *)
(* its message, and the last one of a message by the first of another.     *)
(***************************************************************************)
EXTENDS SerialFraming, SequenceTheorems, WellFoundedInduction, TLAPS

-----------------------------------------------------------------------------
(* Least elements: what indexOf returns. *)

\* A set of natural numbers has a least element.
LEMMA FirstIsLeast ==
  ASSUME NEW S \in SUBSET Nat, S # {}
  PROVE  First(S) \in S /\ \A j \in S : First(S) <= j
<1>1. \E i \in S : \A j \in S : ~(<<j, i>> \in OpToRel(<, Nat))
  BY NatLessThanWellFounded, WFMin
<1>2. PICK i \in S : \A j \in S : ~(<<j, i>> \in OpToRel(<, Nat))
  BY <1>1
<1>3. ASSUME NEW j \in S
      PROVE  i <= j
  <2>1. ~(j < i)
    BY <1>2, <1>3 DEF OpToRel
  <2>2. QED
    BY <1>3, <2>1
<1>4. \E k \in S : \A j \in S : k <= j
  BY <1>3
<1>5. QED
  BY <1>4 DEF First

\* Where the topic ends: at two slashes, or behind the line.
LEMMA StopIs ==
  ASSUME NEW line, Len(line) \in Nat, NEW from \in 1..Len(line)
  PROVE  /\ Stop(line, from) \in from..(Len(line) + 1)
         /\ Stop(line, from) # Len(line) + 1 =>
              /\ Stop(line, from) + 1 <= Len(line)
              /\ line[Stop(line, from)].byte = "/"
              /\ line[Stop(line, from) + 1].byte = "/"
<1> DEFINE F == {k \in from..(Len(line) - 1) : line[k].byte = "/" /\ line[k + 1].byte = "/"}
           S == F \cup {Len(line) + 1}
<1>1. S \in SUBSET Nat /\ S # {}
  OBVIOUS
<1>2. Stop(line, from) = First(S)
  BY DEF Stop
<1>3. First(S) \in S
  BY <1>1, FirstIsLeast
<1> HIDE DEF S
<1>4. Stop(line, from) \in F \cup {Len(line) + 1}
  BY <1>2, <1>3 DEF S
<1>5. QED
  BY <1>4

\* toInt: the digits before the first byte that is none.
LEMMA ValueIs ==
  ASSUME NEW p, Len(p) \in Nat
  PROVE  /\ Value(p) \in Seq(Digits) /\ Len(Value(p)) \in Nat /\ Len(Value(p)) <= Len(p)
         /\ \A k \in 1..Len(Value(p)) : Value(p)[k] = p[k].byte /\ p[k].byte \in Digits
         /\ Len(Value(p)) < Len(p) => p[Len(Value(p)) + 1].byte \notin Digits
<1> DEFINE F == {k \in 1..Len(p) : p[k].byte \notin Digits}
           S == F \cup {Len(p) + 1}
           e == First(S)
<1>1. S \in SUBSET Nat /\ S # {}
  OBVIOUS
<1>2. e \in S /\ \A j \in S : e <= j
  BY <1>1, FirstIsLeast
<1>3. Value(p) = [k \in 1..(e - 1) |-> p[k].byte]
  BY DEF Value
<1> HIDE DEF e
<1>4. e \in 1..(Len(p) + 1) /\ (e # Len(p) + 1 => p[e].byte \notin Digits)
  BY <1>2
<1>5. \A k \in 1..(e - 1) : p[k].byte \in Digits
  BY <1>2, <1>4
<1>6. Value(p) \in [1..(e - 1) -> Digits] /\ e - 1 \in Nat
  BY <1>3, <1>4, <1>5
<1>7. Value(p) \in Seq(Digits) /\ Len(Value(p)) = e - 1
  BY <1>6
<1>8. QED
  BY <1>3, <1>4, <1>5, <1>7

\* No two slashes stand before the end of the topic.
LEMMA StopIsLeast ==
  ASSUME NEW line, Len(line) \in Nat, NEW from \in 1..Len(line),
         NEW k \in from..(Len(line) - 1), line[k].byte = "/", line[k + 1].byte = "/"
  PROVE  Stop(line, from) <= k
<1> DEFINE F == {j \in from..(Len(line) - 1) : line[j].byte = "/" /\ line[j + 1].byte = "/"}
           S == F \cup {Len(line) + 1}
<1>1. S \in SUBSET Nat /\ S # {} /\ k \in S
  OBVIOUS
<1>2. Stop(line, from) = First(S)
  BY DEF Stop
<1> HIDE DEF S
<1>3. QED
  BY <1>1, <1>2, FirstIsLeast

\* toInt reads the same of two payloads of which one goes on behind the other
\* with no digit.
LEMMA ValueOfPrefix ==
  ASSUME NEW p, NEW q, Len(p) \in Nat, Len(q) \in Nat, Len(q) <= Len(p),
         \A k \in 1..Len(q) : p[k].byte = q[k].byte,
         Len(q) < Len(p) => p[Len(q) + 1].byte \notin Digits
  PROVE  Value(p) = Value(q)
<1> DEFINE v == Value(p)
           w == Value(q)
<1>1. /\ v \in Seq(Digits) /\ Len(v) \in Nat /\ Len(v) <= Len(p)
      /\ \A k \in 1..Len(v) : v[k] = p[k].byte /\ p[k].byte \in Digits
      /\ Len(v) < Len(p) => p[Len(v) + 1].byte \notin Digits
  BY ValueIs
<1>2. /\ w \in Seq(Digits) /\ Len(w) \in Nat /\ Len(w) <= Len(q)
      /\ \A k \in 1..Len(w) : w[k] = q[k].byte /\ q[k].byte \in Digits
      /\ Len(w) < Len(q) => q[Len(w) + 1].byte \notin Digits
  BY ValueIs
<1> HIDE DEF v, w
<1>3. ~(Len(v) < Len(w))
  <2>1. SUFFICES ASSUME Len(v) < Len(w)
                 PROVE  FALSE
    OBVIOUS
  <2>2. Len(v) + 1 \in 1..Len(w) /\ Len(v) + 1 \in 1..Len(q) /\ Len(v) < Len(p)
    BY <1>1, <1>2, <2>1
  <2>3. p[Len(v) + 1].byte \in Digits
    BY <1>2, <2>2
  <2>4. QED
    BY <1>1, <2>2, <2>3
<1>4. ~(Len(w) < Len(v))
  <2>1. SUFFICES ASSUME Len(w) < Len(v)
                 PROVE  FALSE
    OBVIOUS
  <2>2. Len(w) + 1 \in 1..Len(v) /\ Len(w) < Len(p)
    BY <1>1, <1>2, <2>1
  <2>3. p[Len(w) + 1].byte \in Digits
    BY <1>1, <2>2
  <2>4. CASE Len(w) < Len(q)
    <3>1. Len(w) + 1 \in 1..Len(q)
      BY <1>2, <2>4
    <3>2. p[Len(w) + 1].byte = q[Len(w) + 1].byte
      BY <3>1
    <3>3. QED
      BY <1>2, <2>3, <2>4, <3>2
  <2>5. CASE Len(w) = Len(q)
    BY <2>2, <2>3, <2>5
  <2>6. QED
    BY <1>2, <2>4, <2>5
<1>5. Len(v) = Len(w)
  BY <1>1, <1>2, <1>3, <1>4
<1>6. ASSUME NEW k \in 1..Len(v)
      PROVE  v[k] = w[k]
  <2>1. k \in 1..Len(w) /\ k \in 1..Len(q)
    BY <1>2, <1>5
  <2>2. QED
    BY <1>1, <1>2, <2>1
<1>7. v = w
  BY <1>1, <1>2, <1>5, <1>6, SeqEqual
<1>8. QED
  BY <1>7 DEF v, w

-----------------------------------------------------------------------------
(* Messages. *)

\* What the assumption says of a message that is spelled.
LEMMA SpelledIs ==
  ASSUME NEW m \in Messages
  PROVE  /\ m.name \in Names /\ m.rest \in Seq(Bytes) /\ Len(m.rest) \in Nat
         /\ Spelled(m) \in Seq(Bytes) /\ Len(Spelled(m)) = 3 + Len(m.rest)
         /\ Spelled(m)[1] = "clockiot" /\ Spelled(m)[2] = "/" /\ Spelled(m)[3] = m.name
         /\ \A k \in 1..Len(m.rest) : Spelled(m)[3 + k] = m.rest[k]
         /\ \A k \in 1..Len(m.rest) : m.rest[k] \notin Names \cup {"clockiot"}
<1> DEFINE s == <<"clockiot", "/", m.name>>
           R == Bytes \ (Names \cup {"clockiot"})
<1>1. m.name \in Names /\ m.rest \in Seq(R)
  BY MessageAssumption
<1>2. Len(m.rest) \in Nat /\ \A k \in 1..Len(m.rest) : m.rest[k] \in R
  BY <1>1, LenProperties
<1>3. m.rest \in Seq(Bytes)
  BY <1>2, <1>1, LenProperties
<1>4. s \in Seq(Bytes) /\ Len(s) = 3 /\ s[1] = "clockiot" /\ s[2] = "/" /\ s[3] = m.name
  BY <1>1 DEF Bytes
<1>5. Spelled(m) = s \o m.rest
  BY DEF Spelled
<1> HIDE DEF s
<1>6. /\ s \o m.rest \in Seq(Bytes) /\ Len(s \o m.rest) = Len(s) + Len(m.rest)
      /\ \A i \in 1..(Len(s) + Len(m.rest)) :
           (s \o m.rest)[i] = IF i <= Len(s) THEN s[i] ELSE m.rest[i - Len(s)]
  BY <1>3, <1>4, ConcatProperties
<1>7. Spelled(m)[1] = "clockiot" /\ Spelled(m)[2] = "/" /\ Spelled(m)[3] = m.name
  BY <1>2, <1>4, <1>5, <1>6
<1>8. \A k \in 1..Len(m.rest) : Spelled(m)[3 + k] = m.rest[k]
  BY <1>2, <1>4, <1>5, <1>6
<1>9. QED
  BY <1>1, <1>2, <1>3, <1>4, <1>5, <1>6, <1>7, <1>8

\* The text of a message.
LEMMA TextIs ==
  ASSUME NEW m \in Messages, NEW i \in 0..MaxSent
  PROVE  /\ Text(m, i) \in Seq(Units) /\ Len(Text(m, i)) = 3 + Len(m.rest)
         /\ \A k \in 1..(3 + Len(m.rest)) :
              Text(m, i)[k] = [byte |-> Spelled(m)[k], of |-> i, at |-> k]
<1>1. /\ DOMAIN Spelled(m) = 1..(3 + Len(m.rest)) /\ Len(m.rest) \in Nat
      /\ \A k \in 1..(3 + Len(m.rest)) : Spelled(m)[k] \in Bytes
  BY SpelledIs, LenProperties
<1>2. Text(m, i) = [k \in 1..(3 + Len(m.rest)) |-> [byte |-> Spelled(m)[k], of |-> i, at |-> k]]
  BY <1>1 DEF Text
<1>3. Text(m, i) \in [1..(3 + Len(m.rest)) -> Units]
  BY <1>1, <1>2 DEF Units
<1>4. QED
  BY <1>1, <1>2, <1>3

\* Only the third unit of a message is a name, only the first is the word.
LEMMA NameIsThird ==
  ASSUME NEW m \in Messages, NEW k \in 1..Len(Spelled(m))
  PROVE  /\ Spelled(m)[k] \in Names => k = 3
         /\ Spelled(m)[k] \in Digits \cup {"/"} => k # 1
<1>1. "clockiot" \notin Names /\ "/" \notin Names /\ "clockiot" \notin Digits
  BY MessageAssumption
<1>2. ASSUME k > 3
      PROVE  Spelled(m)[k] \notin Names
  <2>1. k - 3 \in 1..Len(m.rest) /\ k = 3 + (k - 3)
    BY <1>2, SpelledIs
  <2>2. Spelled(m)[k] = m.rest[k - 3]
    BY <2>1, SpelledIs
  <2>3. QED
    BY <2>1, <2>2, SpelledIs
<1>3. k = 1 => Spelled(m)[k] \notin Names
  BY <1>1, SpelledIs
<1>4. k = 2 => Spelled(m)[k] \notin Names
  BY <1>1, SpelledIs
<1>5. Spelled(m)[k] \in Names => k = 3
  BY <1>2, <1>3, <1>4, SpelledIs
<1>6. Spelled(m)[1] \notin Digits \cup {"/"}
  BY <1>1, SpelledIs
<1>7. QED
  BY <1>5, <1>6

\* Only the first unit of a message is the word.
LEMMA WordIsFirst ==
  ASSUME NEW m \in Messages, NEW k \in 1..Len(Spelled(m)), Spelled(m)[k] = "clockiot"
  PROVE  k = 1
<1>1. "clockiot" \notin Names /\ "clockiot" # "/"
  BY MessageAssumption
<1>2. k # 2 /\ k # 3
  BY <1>1, SpelledIs
<1>3. ASSUME k > 3
      PROVE  FALSE
  <2>1. k - 3 \in 1..Len(m.rest) /\ k = 3 + (k - 3)
    BY <1>3, SpelledIs
  <2>2. Spelled(m)[k] = m.rest[k - 3]
    BY <2>1, SpelledIs
  <2>3. QED
    BY <2>1, <2>2, SpelledIs
<1>4. QED
  BY <1>2, <1>3, SpelledIs

-----------------------------------------------------------------------------
(* The line and the stream. *)

Stream == rx \o wire

\* The parts of TypeOK the stream is about.
LEMMA Buffers ==
  ASSUME TypeOK
  PROVE  /\ rx \in Seq(Units) /\ wire \in Seq(Units) /\ sent \in Seq(Messages)
         /\ Len(rx) \in Nat /\ Len(wire) \in Nat /\ Len(sent) \in Nat
         /\ \A k \in 1..Len(rx) : rx[k] \in Units
         /\ \A k \in 1..Len(wire) : wire[k] \in Units
         /\ \A k \in 1..Len(sent) : sent[k] \in Messages
BY LenProperties DEF TypeOK

\* The stream is the receive buffer and what comes behind it.
LEMMA StreamIs ==
  ASSUME TypeOK
  PROVE  /\ Stream \in Seq(Units) /\ Len(Stream) \in Nat /\ Len(Stream) = Len(rx) + Len(wire)
         /\ \A k \in 1..Len(rx) : Stream[k] = rx[k]
         /\ \A k \in 1..Len(wire) : Stream[Len(rx) + k] = wire[k]
         /\ \A k \in 1..Len(Stream) : Stream[k] \in Units
<1>1. /\ Stream \in Seq(Units) /\ Len(Stream) = Len(rx) + Len(wire)
      /\ \A i \in 1..(Len(rx) + Len(wire)) :
           Stream[i] = IF i <= Len(rx) THEN rx[i] ELSE wire[i - Len(rx)]
  BY Buffers, ConcatProperties DEF Stream
<1>2. \A k \in 1..Len(rx) : Stream[k] = rx[k]
  BY <1>1, Buffers
<1>3. ASSUME NEW k \in 1..Len(wire)
      PROVE  Stream[Len(rx) + k] = wire[k]
  <2>1. Len(rx) + k \in 1..(Len(rx) + Len(wire)) /\ ~(Len(rx) + k <= Len(rx))
        /\ (Len(rx) + k) - Len(rx) = k
    BY <1>3, Buffers
  <2>2. QED
    BY <1>1, <2>1
<1>4. QED
  BY <1>1, <1>2, <1>3, Buffers, LenProperties

\* The line is the first part of the stream.
LEMMA LineIs ==
  ASSUME TypeOK, rx # <<>>
  PROVE  /\ Line \in Seq(Units) /\ Len(Line) \in 1..Len(rx)
         /\ \A k \in 1..Len(Line) : Line[k] = Stream[k] /\ Line[k] \in Units
<1> DEFINE n == IF Len(rx) <= MaxLine THEN Len(rx) ELSE MaxLine
<1>1. Len(rx) > 0
  BY Buffers, EmptySeq
<1>2. n \in 1..Len(rx)
  BY <1>1, Buffers, SizeAssumption
<1>3. Line = SubSeq(rx, 1, n)
  BY DEF Line
<1> HIDE DEF n
<1>4. n \in Int /\ 1 <= n /\ n - 1 + 1 = n
  BY <1>2
<1>5. \A k \in 1..n : rx[k] \in Units
  BY <1>2, Buffers
<1>6. /\ SubSeq(rx, 1, n) \in Seq(Units)
      /\ Len(SubSeq(rx, 1, n)) = IF 1 <= n THEN n - 1 + 1 ELSE 0
      /\ \A i \in 1..(n - 1 + 1) : SubSeq(rx, 1, n)[i] = rx[1 + i - 1]
  BY <1>4, <1>5, SubSeqProperties
<1>7. Line \in Seq(Units) /\ Len(Line) = n
  BY <1>3, <1>4, <1>6
<1>8. ASSUME NEW k \in 1..n
      PROVE  Line[k] = Stream[k] /\ Line[k] \in Units
  <2>1. Line[k] = rx[k]
    BY <1>3, <1>4, <1>6, <1>8
  <2>2. k \in 1..Len(rx)
    BY <1>2, <1>8
  <2>3. QED
    BY <2>1, <2>2, Buffers, StreamIs
<1>9. QED
  BY <1>2, <1>7, <1>8

\* s is t without its first n elements.
Suffix(s, t, n) ==
  /\ n \in 0..Len(t) /\ Len(s) = Len(t) - n
  /\ \A k \in 1..Len(s) : s[k] = t[k + n]

\* SubSeq cuts a suffix.
LEMMA SuffixIs ==
  ASSUME NEW S, NEW t \in Seq(S), NEW n \in 0..Len(t)
  PROVE  SubSeq(t, n + 1, Len(t)) \in Seq(S) /\ Suffix(SubSeq(t, n + 1, Len(t)), t, n)
<1> DEFINE s == SubSeq(t, n + 1, Len(t))
<1>1. Len(t) \in Nat /\ \A i \in 1..Len(t) : t[i] \in S
  BY LenProperties
<1>2. \A i \in (n + 1)..Len(t) : t[i] \in S
  BY <1>1
<1>3. /\ s \in Seq(S)
      /\ Len(s) = IF n + 1 <= Len(t) THEN Len(t) - (n + 1) + 1 ELSE 0
      /\ \A i \in 1..(Len(t) - (n + 1) + 1) : s[i] = t[(n + 1) + i - 1]
  BY <1>1, <1>2, SubSeqProperties
<1> HIDE DEF s
<1>4. Len(s) = Len(t) - n
  BY <1>1, <1>3
<1>5. ASSUME NEW k \in 1..Len(s)
      PROVE  s[k] = t[k + n]
  <2>1. k \in 1..(Len(t) - (n + 1) + 1) /\ (n + 1) + k - 1 = k + n
    BY <1>1, <1>4, <1>5
  <2>2. QED
    BY <1>3, <2>1
<1>6. QED
  BY <1>3, <1>4, <1>5 DEF Suffix, s

\* A poll takes the line off the stream.
LEMMA TakeIs ==
  ASSUME TypeOK, Take
  PROVE  /\ rx # <<>> /\ rx' \in Seq(Units) /\ Len(rx') <= Len(rx) /\ Len(rx') \in Nat
         /\ Suffix(Stream', Stream, Len(Line)) /\ Stream' \in Seq(Units)
<1>1. /\ rx # <<>> /\ rx' = SubSeq(rx, Len(Line) + 1, Len(rx))
      /\ UNCHANGED <<sent, wire, overrun>>
  BY DEF Take
<1>2. PICK n \in 1..Len(rx) : n = Len(Line)
  BY <1>1, LineIs
<1>3. n \in 0..Len(rx) /\ Len(rx) \in Nat
  BY Buffers
<1>4. rx' \in Seq(Units) /\ Suffix(rx', rx, n)
  BY <1>1, <1>2, <1>3, Buffers, SuffixIs
<1>5. Len(rx') \in Nat /\ Len(rx') = Len(rx) - n
  BY <1>3, <1>4, LenProperties DEF Suffix
<1>6. wire' \in Seq(Units) /\ wire' = wire
  BY <1>1, Buffers
<1>7. /\ Stream' \in Seq(Units) /\ Len(Stream') = Len(rx') + Len(wire)
      /\ \A i \in 1..(Len(rx') + Len(wire)) :
           Stream'[i] = IF i <= Len(rx') THEN rx'[i] ELSE wire[i - Len(rx')]
  BY <1>4, <1>6, ConcatProperties DEF Stream
<1>8. ASSUME NEW k \in 1..(Len(rx') + Len(wire))
      PROVE  Stream'[k] = Stream[k + n]
  <2>1. CASE k <= Len(rx')
    <3>1. Stream'[k] = rx'[k] /\ k \in 1..Len(rx')
      BY <1>5, <1>7, <1>8, <2>1
    <3>2. rx'[k] = rx[k + n] /\ k + n \in 1..Len(rx)
      BY <1>3, <1>4, <1>5, <3>1 DEF Suffix
    <3>3. QED
      BY <3>1, <3>2, StreamIs
  <2>2. CASE ~(k <= Len(rx'))
    <3>1. Stream'[k] = wire[k - Len(rx')]
      BY <1>7, <1>8, <2>2
    <3>2. k - Len(rx') \in 1..Len(wire) /\ Len(rx) + (k - Len(rx')) = k + n
      BY <1>3, <1>5, <1>8, <2>2, Buffers
    <3>3. QED
      BY <3>1, <3>2, StreamIs
  <2>3. QED
    BY <2>1, <2>2
<1>9. Suffix(Stream', Stream, n)
  BY <1>3, <1>5, <1>7, <1>8, StreamIs, Buffers DEF Suffix
<1>10. Suffix(Stream', Stream, Len(Line))
  BY <1>2, <1>9
<1>11. QED
  BY <1>1, <1>3, <1>4, <1>5, <1>7, <1>10

-----------------------------------------------------------------------------
(* What is true of every stream s, of the messages sn. *)

\* Every unit is one of a message that was sent, in its place.
Placed(s, sn) ==
  \A k \in 1..Len(s) :
    /\ s[k].of \in 1..Len(sn)
    /\ s[k].at \in 1..Len(Spelled(sn[s[k].of]))
    /\ s[k].byte = Spelled(sn[s[k].of])[s[k].at]

Before(u, v) == u.of < v.of \/ (u.of = v.of /\ u.at < v.at)

Ordered(s) == \A j, k \in 1..Len(s) : j < k => Before(s[j], s[k])

\* All units stand behind the name of message l.
Late(s, l) == \A k \in 1..Len(s) : s[k].of > l \/ (s[k].of = l /\ s[k].at > 3)

AtEnd(u, sn) == u.at = Len(Spelled(sn[u.of]))

\* Messages follow one another whole, but the first may be cut.
Unbroken(s, sn) ==
  /\ \A k \in 1..(Len(s) - 1) :
       IF AtEnd(s[k], sn) THEN s[k + 1].at = 1
       ELSE s[k + 1].of = s[k].of /\ s[k + 1].at = s[k].at + 1
  /\ Len(s) > 0 => AtEnd(s[Len(s)], sn)

\* s is what is left of t when some units were taken out.
Embedded(s, t) ==
  \E f \in [1..Len(s) -> 1..Len(t)] :
    /\ \A j, k \in 1..Len(s) : j < k => f[j] < f[k]
    /\ \A k \in 1..Len(s) : s[k] = t[f[k]]

\* Taking units out disturbs neither places nor order.
LEMMA EmbeddedIs ==
  ASSUME NEW s, NEW t, Embedded(s, t), NEW sn, NEW l
  PROVE  /\ Placed(t, sn) => Placed(s, sn)
         /\ Ordered(t) => Ordered(s)
         /\ Late(t, l) => Late(s, l)
<1>1. PICK f \in [1..Len(s) -> 1..Len(t)] :
        /\ \A j, k \in 1..Len(s) : j < k => f[j] < f[k]
        /\ \A k \in 1..Len(s) : s[k] = t[f[k]]
  BY DEF Embedded
<1>2. \A k \in 1..Len(s) : f[k] \in 1..Len(t)
  OBVIOUS
<1>3. Placed(t, sn) => Placed(s, sn)
  BY <1>1, <1>2 DEF Placed
<1>4. Ordered(t) => Ordered(s)
  BY <1>1, <1>2 DEF Ordered
<1>5. Late(t, l) => Late(s, l)
  BY <1>1, <1>2 DEF Late
<1>6. QED
  BY <1>3, <1>4, <1>5

\* A suffix is embedded, and unbroken if the whole was.
LEMMA SuffixKeeps ==
  ASSUME NEW s, NEW t, NEW n, Len(s) \in Nat, Len(t) \in Nat, Suffix(s, t, n)
  PROVE  /\ Embedded(s, t)
         /\ \A sn : Unbroken(t, sn) => Unbroken(s, sn)
<1>1. n \in Nat /\ Len(s) = Len(t) - n /\ \A k \in 1..Len(s) : s[k] = t[k + n]
  BY DEF Suffix
<1>2. Embedded(s, t)
  <2> DEFINE f == [k \in 1..Len(s) |-> k + n]
  <2>1. \A k \in 1..Len(s) : k + n \in 1..Len(t)
    BY <1>1
  <2>2. f \in [1..Len(s) -> 1..Len(t)]
    BY <2>1
  <2>3. \A j, k \in 1..Len(s) : j < k => f[j] < f[k]
    BY <1>1
  <2>4. \A k \in 1..Len(s) : s[k] = t[f[k]]
    BY <1>1
  <2>5. QED
    BY <2>2, <2>3, <2>4 DEF Embedded
<1>3. ASSUME NEW sn, Unbroken(t, sn)
      PROVE  Unbroken(s, sn)
  <2>1. ASSUME NEW k \in 1..(Len(s) - 1)
        PROVE  IF AtEnd(s[k], sn) THEN s[k + 1].at = 1
               ELSE s[k + 1].of = s[k].of /\ s[k + 1].at = s[k].at + 1
    <3>1. /\ k + n \in 1..(Len(t) - 1)
          /\ s[k] = t[k + n] /\ s[k + 1] = t[(k + n) + 1]
      <4>1. k \in 1..Len(s) /\ k + 1 \in 1..Len(s) /\ (k + 1) + n = (k + n) + 1
        BY <1>1, <2>1
      <4>2. s[k] = t[k + n] /\ s[k + 1] = t[(k + 1) + n]
        BY <1>1, <4>1
      <4>3. QED
        BY <1>1, <2>1, <4>1, <4>2
    <3>2. QED
      BY <1>3, <3>1 DEF Unbroken
  <2>2. ASSUME Len(s) > 0
        PROVE  AtEnd(s[Len(s)], sn)
    <3>1. s[Len(s)] = t[Len(s) + n] /\ Len(s) + n = Len(t) /\ Len(t) > 0
      BY <1>1, <2>2
    <3>2. QED
      BY <1>3, <3>1 DEF Unbroken
  <2>3. QED
    BY <2>1, <2>2 DEF Unbroken
<1>4. QED
  BY <1>2, <1>3

\* Taking out one unit.
LEMMA DropKeeps ==
  ASSUME NEW s, NEW t, Len(s) \in Nat, Len(t) = Len(s) + 1, NEW n \in 1..Len(t),
         \A k \in 1..Len(s) : s[k] = IF k < n THEN t[k] ELSE t[k + 1]
  PROVE  Embedded(s, t)
<1> DEFINE f == [k \in 1..Len(s) |-> IF k < n THEN k ELSE k + 1]
<1>1. f \in [1..Len(s) -> 1..Len(t)]
  OBVIOUS
<1>2. \A j, k \in 1..Len(s) : j < k => f[j] < f[k]
  OBVIOUS
<1>3. \A k \in 1..Len(s) : s[k] = t[f[k]]
  OBVIOUS
<1>4. QED
  BY <1>1, <1>2, <1>3 DEF Embedded

\* The stream t of the messages sn, and s of sm, with one more message m: the
\* i-th, of b units behind the first a.
Extends(t, sn, l, m, i, a, b, s, sm) ==
  /\ Len(sn) < MaxSent /\ l <= Len(sn) /\ Placed(t, sn)
  /\ a = Len(t) /\ b = 3 + Len(m.rest)
  /\ i = Len(sn) + 1 /\ sm = Append(sn, m) /\ Len(s) = a + b
  /\ \A k \in 1..a : s[k] = t[k]
  /\ \A k \in 1..b : s[a + k] = Text(m, i)[k]

\* One more message behind the stream.
LEMMA ExtendedIs ==
  ASSUME NEW t \in Seq(Units), NEW sn \in Seq(Messages), NEW m \in Messages, NEW l \in Nat,
         NEW a \in Nat, NEW b \in Nat, NEW i, NEW s, NEW sm,
         Extends(t, sn, l, m, i, a, b, s, sm)
  PROVE  /\ Placed(s, sm)
         /\ Ordered(t) => Ordered(s)
         /\ Late(t, l) => Late(s, l)
         /\ Unbroken(t, sn) => Unbroken(s, sm)
<1> USE DEF Extends
<1> DEFINE u(k) == [byte |-> Spelled(m)[k], of |-> i, at |-> k]
<1>1. /\ Len(sn) \in Nat /\ b > 2
      /\ Len(sm) = i /\ sm[i] = m /\ i \in 1..MaxSent
      /\ \A j \in 1..Len(sn) : sm[j] = sn[j]
      /\ Len(Spelled(m)) = b
  <2>1. Len(sn) \in Nat /\ Len(m.rest) \in Nat /\ Len(Spelled(m)) = 3 + Len(m.rest)
    BY SpelledIs, LenProperties
  <2>2. i \in 1..MaxSent
    BY <2>1, SizeAssumption
  <2>3. Len(sm) = Len(sn) + 1 /\ sm[Len(sn) + 1] = m /\ \A j \in 1..Len(sn) : sm[j] = sn[j]
    BY AppendProperties
  <2>4. QED
    BY <2>1, <2>2, <2>3
<1>2. ASSUME NEW k \in 1..b
      PROVE  /\ s[a + k] = u(k)
             /\ s[a + k].of = i /\ s[a + k].at = k /\ s[a + k].byte = Spelled(m)[k]
  <2>1. i \in 0..MaxSent
    BY <1>1
  <2>2. Text(m, i)[k] = u(k)
    BY <2>1, <1>2, TextIs
  <2>3. s[a + k] = u(k)
    BY <1>2, <2>2
  <2>4. QED
    BY <2>3
<1>3. \A k \in 1..Len(s) : k \in 1..a \/ (k - a \in 1..b /\ k = a + (k - a))
  BY <1>1
<1>4. \A k \in 1..a : s[k].of \in 1..Len(sn) /\ s[k] = t[k] /\ sm[s[k].of] = sn[t[k].of]
  BY <1>1 DEF Placed
<1>5. Placed(s, sm)
  <2> SUFFICES ASSUME NEW k \in 1..Len(s)
               PROVE  /\ s[k].of \in 1..Len(sm)
                      /\ s[k].at \in 1..Len(Spelled(sm[s[k].of]))
                      /\ s[k].byte = Spelled(sm[s[k].of])[s[k].at]
    BY DEF Placed
  <2>1. CASE k \in 1..a
    <3>1. s[k] = t[k] /\ t[k].of \in 1..Len(sn) /\ sm[t[k].of] = sn[t[k].of]
      BY <1>4, <2>1
    <3>2. /\ t[k].at \in 1..Len(Spelled(sn[t[k].of]))
          /\ t[k].byte = Spelled(sn[t[k].of])[t[k].at]
      BY <2>1 DEF Placed
    <3>3. t[k].of \in 1..Len(sm)
      BY <1>1, <3>1
    <3>4. QED
      BY <3>1, <3>2, <3>3
  <2>2. CASE k - a \in 1..b /\ k = a + (k - a)
    <3> DEFINE j == k - a
    <3>1. j \in 1..b /\ k = a + j
      BY <2>2
    <3> HIDE DEF j
    <3>2. s[k].of = i /\ s[k].at = j /\ s[k].byte = Spelled(m)[j]
      BY <1>2, <3>1
    <3>3. sm[s[k].of] = m
      BY <1>1, <3>2
    <3>4. QED
      BY <1>1, <3>1, <3>2, <3>3
  <2>3. QED
    BY <1>3, <2>1, <2>2
<1>6. ASSUME Ordered(t)
      PROVE  Ordered(s)
  <2> SUFFICES ASSUME NEW j \in 1..Len(s), NEW k \in 1..Len(s), j < k
               PROVE  Before(s[j], s[k])
    BY DEF Ordered
  <2>1. CASE k \in 1..a
    <3>1. j \in 1..a
      BY <2>1
    <3>2. QED
      BY <1>6, <2>1, <3>1 DEF Ordered
  <2>2. CASE k - a \in 1..b /\ k = a + (k - a)
    <3>1. s[k] = u(k - a)
      BY <1>2, <2>2
    <3>2. CASE j \in 1..a
      <4>1. s[j].of \in 1..Len(sn)
        BY <1>4, <3>2
      <4>2. s[k].of = i /\ i = Len(sn) + 1 /\ Len(sn) \in Nat
        BY <1>1, <3>1
      <4>3. s[j].of < s[k].of
        BY ONLY <4>1, <4>2
      <4>4. QED
        BY <4>3 DEF Before
    <3>3. CASE j - a \in 1..b /\ j = a + (j - a)
      <4>1. s[j] = u(j - a)
        BY <1>2, <3>3
      <4>2. s[j].of = s[k].of /\ s[j].at < s[k].at
        BY <1>1, <3>1, <4>1
      <4>3. QED
        BY <4>2 DEF Before
    <3>4. QED
      BY <1>3, <3>2, <3>3
  <2>3. QED
    BY <1>3, <2>1, <2>2
<1>7. ASSUME Late(t, l)
      PROVE  Late(s, l)
  <2> SUFFICES ASSUME NEW k \in 1..Len(s)
               PROVE  s[k].of > l \/ (s[k].of = l /\ s[k].at > 3)
    BY DEF Late
  <2>1. CASE k \in 1..a
    BY <1>7, <2>1 DEF Late
  <2>2. CASE k - a \in 1..b /\ k = a + (k - a)
    <3> DEFINE j == k - a
    <3>1. j \in 1..b /\ k = a + j
      BY <2>2
    <3> HIDE DEF j
    <3>2. s[k].of = i
      BY <1>2, <3>1
    <3>3. QED
      BY <1>1, <3>2
  <2>3. QED
    BY <1>3, <2>1, <2>2
<1>8. ASSUME Unbroken(t, sn)
      PROVE  Unbroken(s, sm)
  <2>1. ASSUME NEW k \in 1..a
        PROVE  AtEnd(s[k], sm) <=> AtEnd(t[k], sn)
    BY <1>4, <2>1 DEF AtEnd
  <2>2. ASSUME NEW k \in 1..b
        PROVE  /\ AtEnd(s[a + k], sm) <=> k = b
               /\ s[a + k].of = i /\ s[a + k].at = k
    <3>1. s[a + k].of = i /\ s[a + k].at = k
      BY <1>2, <2>2
    <3>2. sm[s[a + k].of] = m
      BY <1>1, <3>1
    <3>3. QED
      BY <1>1, <3>1, <3>2 DEF AtEnd
  <2>3. ASSUME NEW k \in 1..(Len(s) - 1)
        PROVE  IF AtEnd(s[k], sm) THEN s[k + 1].at = 1
               ELSE s[k + 1].of = s[k].of /\ s[k + 1].at = s[k].at + 1
    <3>1. CASE k \in 1..(a - 1)
      <4>1. k \in 1..a /\ k + 1 \in 1..a
        BY <3>1
      <4>2. s[k] = t[k] /\ s[k + 1] = t[k + 1]
        BY <1>4, <4>1
      <4>3. QED
        BY <1>8, <2>1, <3>1, <4>1, <4>2 DEF Unbroken
    <3>2. CASE k = a
      <4>1. a > 0 /\ k \in 1..a
        BY <2>3, <3>2
      <4>2. AtEnd(s[k], sm)
        BY <1>8, <2>1, <3>2, <4>1 DEF Unbroken
      <4>3. s[k + 1].at = 1
        BY <1>1, <2>2, <3>2
      <4>4. QED
        BY <4>2, <4>3
    <3>3. CASE k \in (a + 1)..(Len(s) - 1)
      <4> DEFINE j == k - a
      <4>0. Len(s) = a + b /\ a \in Nat /\ b \in Nat
        BY <1>1
      <4>1. /\ j \in 1..b /\ j + 1 \in 1..b
            /\ k = a + j /\ k + 1 = a + (j + 1) /\ j # b
        BY ONLY <4>0, <3>3
      <4> HIDE DEF j
      <4>2. /\ ~AtEnd(s[k], sm)
            /\ s[k].of = i /\ s[k].at = j /\ s[k + 1].of = i /\ s[k + 1].at = j + 1
        BY <2>2, <4>1
      <4>3. QED
        BY <4>2
    <3>4. QED
      BY <1>1, <2>3, <3>1, <3>2, <3>3
  <2>4. AtEnd(s[Len(s)], sm)
    <3>1. b \in 1..b /\ Len(s) = a + b
      BY <1>1
    <3>2. QED
      BY <2>2, <3>1
  <2>5. QED
    BY <2>3, <2>4 DEF Unbroken
<1>9. QED
  BY <1>5, <1>6, <1>7, <1>8

-----------------------------------------------------------------------------
(* What a poll makes of a line. *)

\* The topic is the part of the line before the slashes.
LEMMA TopicIs ==
  ASSUME NEW line \in Seq(Units), NEW from \in 1..Len(line)
  PROVE  /\ Len(TopicOf(line, from)) = Stop(line, from) - from
         /\ \A k \in 1..Len(TopicOf(line, from)) :
              /\ TopicOf(line, from)[k] = line[from + k - 1]
              /\ from + k - 1 \in 1..Len(line)
<1> DEFINE n == Stop(line, from) - 1
           t == SubSeq(line, from, n)
<1>1. Len(line) \in Nat /\ \A k \in 1..Len(line) : line[k] \in Units
  BY LenProperties
<1>2. n \in (from - 1)..Len(line) /\ Stop(line, from) = n + 1
  BY <1>1, StopIs
<1>3. TopicOf(line, from) = t
  BY DEF TopicOf
<1> HIDE DEF n
<1>4. \A k \in from..n : line[k] \in Units
  BY <1>1, <1>2
<1>5. /\ Len(t) = IF from <= n THEN n - from + 1 ELSE 0
      /\ \A k \in 1..(n - from + 1) : t[k] = line[from + k - 1]
  BY <1>1, <1>2, <1>4, SubSeqProperties
<1>6. Len(t) = n + 1 - from
  BY <1>1, <1>2, <1>5
<1>7. ASSUME NEW k \in 1..Len(t)
      PROVE  t[k] = line[from + k - 1] /\ from + k - 1 \in 1..Len(line)
  <2>1. k \in 1..(n - from + 1)
    BY <1>1, <1>2, <1>6
  <2>2. QED
    BY <1>1, <1>2, <1>5, <2>1
<1>8. QED
  BY <1>2, <1>3, <1>6, <1>7

\* The payload is the part behind them, if there is any.
LEMMA PayloadIs ==
  ASSUME NEW line \in Seq(Units), NEW from \in 1..Len(line)
  PROVE  /\ Len(PayloadOf(line, from)) \in Nat
         /\ \A k \in 1..Len(PayloadOf(line, from)) :
              /\ PayloadOf(line, from)[k] = line[Stop(line, from) + 1 + k]
              /\ Stop(line, from) + 1 + k \in 1..Len(line)
<1> DEFINE e == Stop(line, from)
           t == SubSeq(line, e + 2, Len(line))
<1>1. Len(line) \in Nat /\ \A k \in 1..Len(line) : line[k] \in Units
  BY LenProperties
<1>2. e \in 1..(Len(line) + 1)
  BY <1>1, StopIs
<1>3. PayloadOf(line, from) = t
  BY DEF PayloadOf
<1> HIDE DEF e
<1>4. \A k \in (e + 2)..Len(line) : line[k] \in Units
  BY <1>1, <1>2
<1>5. /\ Len(t) = IF e + 2 <= Len(line) THEN Len(line) - (e + 2) + 1 ELSE 0
      /\ \A k \in 1..(Len(line) - (e + 2) + 1) : t[k] = line[(e + 2) + k - 1]
  BY <1>1, <1>2, <1>4, SubSeqProperties
<1>6. Len(t) \in Nat
  BY <1>1, <1>2, <1>5
<1>7. ASSUME NEW k \in 1..Len(t)
      PROVE  t[k] = line[e + 1 + k] /\ e + 1 + k \in 1..Len(line)
  <2>1. k \in 1..(Len(line) - (e + 2) + 1) /\ (e + 2) + k - 1 = e + 1 + k
    BY <1>1, <1>2, <1>5, <1>7
  <2>2. QED
    BY <1>1, <1>2, <1>5, <2>1
<1>8. QED
  BY <1>3, <1>6, <1>7 DEF e

\* Two slashes leave all behind them to the payload.
LEMMA PayloadLength ==
  ASSUME NEW line \in Seq(Units), NEW from \in 1..Len(line),
         Stop(line, from) + 1 <= Len(line)
  PROVE  Len(PayloadOf(line, from)) = Len(line) - Stop(line, from) - 1
<1> DEFINE e == Stop(line, from)
           t == SubSeq(line, e + 2, Len(line))
<1>1. Len(line) \in Nat /\ \A k \in 1..Len(line) : line[k] \in Units
  BY LenProperties
<1>2. e \in 1..(Len(line) + 1)
  BY <1>1, StopIs
<1>3. PayloadOf(line, from) = t /\ e + 1 <= Len(line)
  BY DEF PayloadOf
<1> HIDE DEF e
<1>4. \A k \in (e + 2)..Len(line) : line[k] \in Units
  BY <1>1, <1>2
<1>5. Len(t) = IF e + 2 <= Len(line) THEN Len(line) - (e + 2) + 1 ELSE 0
  BY <1>1, <1>2, <1>4, SubSeqProperties
<1>6. Len(t) = Len(line) - e - 1
  BY <1>1, <1>2, <1>3, <1>5
<1>7. QED
  BY <1>3, <1>6 DEF e

\* A topic that handle_msg knows is three units long and ends with its name.
LEMMA TopicFound ==
  ASSUME NEW line \in Seq(Units), Starts(line) # {},
         NEW start, start = First(Starts(line)), Matches(TopicOf(line, start))
  PROVE  /\ start \in 1..Len(line) /\ start + 2 \in 1..Len(line)
         /\ Stop(line, start) = start + 3
         /\ TopicOf(line, start)[3] = line[start + 2]
         /\ line[start + 2].byte \in Names
<1>1. Starts(line) \in SUBSET Nat /\ Starts(line) \in SUBSET (1..Len(line))
  BY LenProperties DEF Starts
<1>2. start \in 1..Len(line)
  BY <1>1, FirstIsLeast
<1>3. /\ Len(TopicOf(line, start)) = 3
      /\ TopicOf(line, start)[3].byte \in Names
  BY DEF Matches
<1>4. Stop(line, start) \in Nat
  <2>1. Stop(line, start) \in start..(Len(line) + 1)
    BY <1>2, StopIs
  <2>2. QED
    BY <1>2, <2>1, LenProperties
<1>5. Stop(line, start) = start + 3
  <2>1. 3 = Stop(line, start) - start
    BY <1>2, <1>3, TopicIs
  <2>2. PICK x \in Nat : x = Stop(line, start)
    BY <1>4
  <2>3. start \in Nat
    BY <1>2
  <2>4. x = start + 3
    BY <2>1, <2>2, <2>3
  <2>5. QED
    BY <2>2, <2>4
<1>6. TopicOf(line, start)[3] = line[start + 3 - 1] /\ start + 3 - 1 \in 1..Len(line)
  <2>1. \A k \in 1..3 : /\ TopicOf(line, start)[k] = line[start + k - 1]
                        /\ start + k - 1 \in 1..Len(line)
    BY <1>2, <1>3, TopicIs
  <2>2. QED
    BY <2>1
<1>7. start + 3 - 1 = start + 2
  BY <1>2
<1>8. QED
  BY <1>2, <1>3, <1>5, <1>6, <1>7

Chained(s, sn) ==
  \A k \in 1..(Len(s) - 1) :
    IF AtEnd(s[k], sn) THEN s[k + 1].at = 1
    ELSE s[k + 1].of = s[k].of /\ s[k + 1].at = s[k].at + 1

\* Behind a unit, a digit or a slash belongs to the same message.
LEMMA SameMessage ==
  ASSUME NEW line \in Seq(Units), NEW sn \in Seq(Messages),
         Placed(line, sn), Chained(line, sn),
         NEW k \in 1..Len(line), k + 1 \in 1..Len(line),
         line[k + 1].byte \in Digits \cup {"/"}
  PROVE  line[k + 1].of = line[k].of /\ line[k + 1].at = line[k].at + 1
<1> DEFINE v == line[k + 1]
<1>1. /\ v.of \in 1..Len(sn) /\ v.at \in 1..Len(Spelled(sn[v.of]))
      /\ v.byte = Spelled(sn[v.of])[v.at]
  BY DEF Placed
<1>2. sn[v.of] \in Messages
  BY <1>1, LenProperties
<1>3. v.at # 1
  BY <1>1, <1>2, NameIsThird
<1>4. k \in 1..(Len(line) - 1)
  BY LenProperties
<1>5. QED
  BY <1>3, <1>4 DEF Chained

\* ValueIsOwn, said of what is handled.
Own(h, sn) ==
  LET m == sn[h.of]
      v == SentValue(m)
  IN  /\ h.name = m.name
      /\ Len(h.value) <= Len(v)
      /\ h.value = SubSeq(v, 1, Len(h.value))

\* The number a message was sent with, as toInt reads it.
LEMMA SentValueIs ==
  ASSUME NEW m \in Messages, NEW k \in Nat,
         \A j \in 1..k : j + 2 \in 1..Len(m.rest) /\ m.rest[j + 2] \in Digits
  PROVE  /\ SentValue(m) \in Seq(Digits) /\ Len(SentValue(m)) \in Nat
         /\ k <= Len(SentValue(m))
         /\ \A j \in 1..k : SentValue(m)[j] = m.rest[j + 2]
<1> DEFINE q == [j \in 1..(Len(m.rest) - 2) |-> [byte |-> m.rest[j + 2], of |-> 0, at |-> j + 5]]
           w == Value(q)
<1>1. Len(m.rest) \in Nat
  BY SpelledIs
<1>2. PICK n \in Nat : n = IF 2 <= Len(m.rest) THEN Len(m.rest) - 2 ELSE 0
  <2>1. CASE 2 <= Len(m.rest)
    <3>1. Len(m.rest) - 2 \in Nat
      BY <1>1, <2>1
    <3>2. QED
      BY <2>1, <3>1
  <2>2. CASE ~(2 <= Len(m.rest))
    BY <2>2
  <2>3. QED
    BY <2>1, <2>2
<1>3. 1..(Len(m.rest) - 2) = 1..n
  BY <1>1, <1>2
<1>4. q = [j \in 1..n |-> [byte |-> m.rest[j + 2], of |-> 0, at |-> j + 5]]
  BY <1>3
<1>5. SentValue(m) = w
  BY DEF SentValue
<1> HIDE DEF q
<1>6. Len(q) = n /\ \A j \in 1..n : q[j].byte = m.rest[j + 2]
  <2>1. q \in [1..n -> {q[j] : j \in 1..n}]
    BY <1>4
  <2>2. Len(q) = n
    BY <2>1
  <2>3. \A j \in 1..n : q[j] = [byte |-> m.rest[j + 2], of |-> 0, at |-> j + 5]
    BY <1>4
  <2>4. QED
    BY <2>2, <2>3
<1>7. /\ w \in Seq(Digits) /\ Len(w) \in Nat /\ Len(w) <= n
      /\ \A j \in 1..Len(w) : w[j] = q[j].byte
      /\ Len(w) < n => q[Len(w) + 1].byte \notin Digits
  BY <1>6, ValueIs
<1> HIDE DEF w
<1>8. k <= n
  <2>1. CASE k = 0
    BY <2>1
  <2>2. CASE k > 0
    <3>1. k + 2 \in 1..Len(m.rest)
      BY <2>2
    <3>2. QED
      BY <1>1, <1>2, <3>1
  <2>3. QED
    BY <2>1, <2>2
<1>9. k <= Len(w)
  <2>1. SUFFICES ASSUME Len(w) < k
                 PROVE  FALSE
    BY <1>7
  <2>2. Len(w) + 1 \in 1..k /\ Len(w) + 1 \in 1..n /\ Len(w) < n
    BY <1>7, <1>8, <2>1
  <2>3. q[Len(w) + 1].byte \in Digits
    BY <1>6, <2>2
  <2>4. QED
    BY <1>7, <2>2, <2>3
<1>10. ASSUME NEW j \in 1..k
       PROVE  w[j] = m.rest[j + 2]
  BY <1>6, <1>7, <1>8, <1>9
<1>11. QED
  BY <1>5, <1>7, <1>9, <1>10

\* Slashes and digits behind a name are those of its message.
LEMMA RunIs ==
  ASSUME NEW line \in Seq(Units), NEW sn \in Seq(Messages),
         Placed(line, sn), Chained(line, sn),
         NEW a \in 1..Len(line), line[a].byte \in Names, NEW n \in Nat, a + n \in 1..Len(line),
         \A j \in 1..n : line[a + j].byte \in Digits \cup {"/"}
  PROVE  /\ sn[line[a].of] \in Messages /\ sn[line[a].of].name = line[a].byte
         /\ \A j \in 1..n : /\ j \in 1..Len(sn[line[a].of].rest)
                            /\ line[a + j].byte = sn[line[a].of].rest[j]
<1> DEFINE Same(j) == line[a + j].of = line[a].of /\ line[a + j].at = 3 + j
           S == {j \in 0..n : ~Same(j)}
<1>1. /\ line[a].of \in 1..Len(sn) /\ line[a].at \in 1..Len(Spelled(sn[line[a].of]))
      /\ line[a].byte = Spelled(sn[line[a].of])[line[a].at]
  BY DEF Placed
<1>2. PICK m \in Messages : m = sn[line[a].of]
  BY <1>1, LenProperties
<1>3. line[a].at = 3
  BY <1>1, <1>2, NameIsThird
<1>4. line[a].byte = m.name
  BY <1>1, <1>2, <1>3, SpelledIs
<1>5. \A j \in 0..n : Same(j)
  <2>1. SUFFICES ASSUME S # {}
                 PROVE  FALSE
    OBVIOUS
  <2>2. S \in SUBSET Nat
    OBVIOUS
  <2>3. PICK f \in S : \A j \in S : f <= j
    BY <2>1, <2>2, FirstIsLeast
  <2>4. f \in 0..n /\ ~Same(f)
    OBVIOUS
  <2>5. Same(0)
    BY <1>3
  <2>6. f \in 1..n /\ f - 1 \in 0..n /\ f - 1 < f
    BY <2>4, <2>5
  <2>7. Same(f - 1)
    <3> HIDE DEF Same
    <3>1. f - 1 \notin S
      <4> HIDE DEF S
      <4>1. ~(f <= f - 1)
        BY <2>6
      <4>2. QED
        BY <2>3, <4>1
    <3>2. QED
      BY <2>6, <3>1
  <2> DEFINE k == a + (f - 1)
  <2>8. k \in 1..Len(line) /\ k + 1 \in 1..Len(line) /\ k + 1 = a + f
    <3>1. Len(line) \in Nat
      BY LenProperties
    <3>2. QED
      BY <2>6, <3>1
  <2>9. line[k].of = line[a].of /\ line[k].at = 3 + (f - 1)
    BY <2>7
  <2> HIDE DEF k
  <2>10. line[k + 1].byte \in Digits \cup {"/"}
    BY <2>6, <2>8
  <2>11. line[k + 1].of = line[k].of /\ line[k + 1].at = line[k].at + 1
    BY <2>8, <2>10, SameMessage
  <2>12. line[a + f].of = line[a].of /\ line[a + f].at = (3 + (f - 1)) + 1
    BY <2>8, <2>9, <2>11
  <2>13. (3 + (f - 1)) + 1 = 3 + f
    BY <2>6
  <2>14. QED
    BY <2>4, <2>12, <2>13
<1>6. ASSUME NEW j \in 1..n
      PROVE  j \in 1..Len(m.rest) /\ line[a + j].byte = m.rest[j]
  <2> DEFINE k == a + j
  <2>1. k \in 1..Len(line)
    <3>1. Len(line) \in Nat
      BY LenProperties
    <3>2. QED
      BY <1>6, <3>1
  <2>2. line[k].of = line[a].of /\ line[k].at = 3 + j
    BY <1>5, <1>6
  <2> HIDE DEF k
  <2>3. 3 + j \in 1..Len(Spelled(m)) /\ line[k].byte = Spelled(m)[3 + j]
    BY <1>2, <2>1, <2>2 DEF Placed
  <2>4. j \in 1..Len(m.rest) /\ Spelled(m)[3 + j] = m.rest[j]
    BY <1>6, <2>3, SpelledIs
  <2>5. QED
    BY <2>3, <2>4 DEF k
<1>7. QED
  BY <1>2, <1>4, <1>6

\* What a poll hands to handle_msg is of one message.
LEMMA OwnValue ==
  ASSUME NEW line \in Seq(Units), NEW sn \in Seq(Messages),
         Placed(line, sn), Chained(line, sn), Starts(line) # {},
         NEW start, start = First(Starts(line)), Matches(TopicOf(line, start)),
         NEW h, h.name = TopicOf(line, start)[3].byte, h.of = TopicOf(line, start)[3].of,
         h.value = Value(PayloadOf(line, start))
  PROVE  Own(h, sn)
<1> DEFINE p == PayloadOf(line, start)
           m == sn[h.of]
           v == SentValue(m)
           w == Value(p)
<1>1. /\ start \in 1..Len(line) /\ start + 2 \in 1..Len(line)
      /\ Stop(line, start) = start + 3
      /\ TopicOf(line, start)[3] = line[start + 2]
      /\ line[start + 2].byte \in Names
  BY TopicFound
<1>2. PICK a \in 1..Len(line) : a = start + 2
  BY <1>1
<1>3. h.name = line[a].byte /\ m = sn[line[a].of] /\ line[a].byte \in Names /\ h.value = w
  BY <1>1, <1>2
<1>4. Len(line) \in Nat
  BY LenProperties
<1>5. /\ Len(p) \in Nat
      /\ \A k \in 1..Len(p) : p[k] = line[a + 2 + k] /\ a + 2 + k \in 1..Len(line)
  <2>1. start + 3 + 1 = a + 2
    BY <1>1, <1>2
  <2>2. /\ Len(p) \in Nat
        /\ \A k \in 1..Len(p) : /\ p[k] = line[Stop(line, start) + 1 + k]
                               /\ Stop(line, start) + 1 + k \in 1..Len(line)
    BY ONLY line \in Seq(Units), <1>1, PayloadIs
  <2> HIDE DEF p
  <2>3. QED
    BY ONLY <1>1, <2>1, <2>2
<1> HIDE DEF p
<1>6. /\ w \in Seq(Digits) /\ Len(w) \in Nat /\ Len(w) <= Len(p)
      /\ \A k \in 1..Len(w) : w[k] = p[k].byte /\ p[k].byte \in Digits
  BY <1>5, ValueIs
<1> HIDE DEF w
<1>7. m \in Messages /\ m.name = h.name
  <2>1. a + 0 \in 1..Len(line)
    BY <1>2
  <2>2. \A j \in 1..0 : line[a + j].byte \in Digits \cup {"/"}
    OBVIOUS
  <2>3. QED
    BY <1>3, <2>1, <2>2, RunIs
<1> HIDE DEF m
<1>8. \A j \in 1..Len(w) : j + 2 \in 1..Len(m.rest) /\ m.rest[j + 2] = w[j]
  <2>1. SUFFICES ASSUME Len(w) > 0
                 PROVE  \A j \in 1..Len(w) : j + 2 \in 1..Len(m.rest) /\ m.rest[j + 2] = w[j]
    BY <1>6
  <2>2. PICK n \in Nat : n = Len(w) + 2
    BY <1>6
  <2>3. a + n \in 1..Len(line)
    <3>1. Len(w) \in 1..Len(p)
      BY <1>5, <1>6, <2>1
    <3>2. a + 2 + Len(w) \in 1..Len(line)
      BY <1>5, <3>1
    <3>3. a + n = a + 2 + Len(w)
      BY <1>6, <2>2
    <3>4. QED
      BY <3>2, <3>3
  <2>4. line[a + 1].byte = "/" /\ line[a + 2].byte = "/"
    <3>1. start + 3 # Len(line) + 1
      <4>1. PICK l \in Nat : l = Len(line)
        BY <1>4
      <4>2. n > 2
        BY <1>6, <2>1, <2>2
      <4>3. start \in Nat /\ start + 2 + n <= l
        BY <1>1, <1>2, <2>3, <4>1
      <4>4. start + 3 # l + 1
        BY <4>2, <4>3
      <4>5. QED
        BY <4>1, <4>4
    <3>2. line[start + 3].byte = "/" /\ line[start + 3 + 1].byte = "/"
      BY <1>1, <1>4, <3>1, StopIs
    <3>3. start + 3 = a + 1 /\ start + 3 + 1 = a + 2
      BY <1>1, <1>2
    <3>4. QED
      BY <3>2, <3>3
  <2>5. \A k \in 1..Len(w) : line[a + 2 + k].byte = w[k] /\ w[k] \in Digits
    BY <1>5, <1>6
  <2>6. ASSUME NEW j \in 1..n
        PROVE  line[a + j].byte \in Digits \cup {"/"}
    <3>1. CASE j > 2
      <4>1. j - 2 \in 1..Len(w) /\ a + 2 + (j - 2) = a + j
        BY <1>6, <2>2, <2>6, <3>1
      <4>2. QED
        BY <2>5, <4>1
    <3>2. CASE ~(j > 2)
      <4>1. j = 1 \/ j = 2
        BY <2>6, <3>2
      <4>2. QED
        BY <2>4, <4>1
    <3>3. QED
      BY <3>1, <3>2
  <2>7. \A j \in 1..n : j \in 1..Len(m.rest) /\ line[a + j].byte = m.rest[j]
    <3>1. \A j \in 1..n : /\ j \in 1..Len(sn[line[a].of].rest)
                          /\ line[a + j].byte = sn[line[a].of].rest[j]
      BY <1>3, <2>3, <2>6, RunIs
    <3>2. QED
      BY <1>3, <3>1
  <2>8. ASSUME NEW j \in 1..Len(w)
        PROVE  j + 2 \in 1..Len(m.rest) /\ m.rest[j + 2] = w[j]
    <3>1. j + 2 \in 1..n /\ a + (j + 2) = a + 2 + j
      BY <1>6, <2>2, <2>8
    <3>2. j + 2 \in 1..Len(m.rest) /\ line[a + (j + 2)].byte = m.rest[j + 2]
      BY <2>7, <3>1
    <3>3. QED
      BY <2>5, <2>8, <3>1, <3>2
  <2>9. QED
    BY <2>8
<1>9. /\ v \in Seq(Digits) /\ Len(v) \in Nat /\ Len(w) <= Len(v)
      /\ \A j \in 1..Len(w) : v[j] = m.rest[j + 2]
  <2>1. \A j \in 1..Len(w) : m.rest[j + 2] \in Digits
    BY <1>6, <1>8
  <2>2. QED
    BY <1>6, <1>7, <1>8, <2>1, SentValueIs
<1> HIDE DEF v
<1>10. w = SubSeq(v, 1, Len(w))
  <2>1. \A i \in 1..Len(w) : v[i] \in Digits
    BY <1>6, <1>8, <1>9
  <2>2. PICK l \in Nat : l = Len(w)
    BY <1>6
  <2>3. l - 1 + 1 = l /\ (IF 1 <= l THEN l - 1 + 1 ELSE 0) = l
    BY <2>2
  <2>4. /\ SubSeq(v, 1, l) \in Seq(Digits) /\ Len(SubSeq(v, 1, l)) = l
        /\ \A i \in 1..l : SubSeq(v, 1, l)[i] = v[1 + i - 1]
    BY <2>1, <2>2, <2>3, SubSeqProperties
  <2>5. ASSUME NEW i \in 1..l
        PROVE  SubSeq(v, 1, l)[i] = w[i]
    <3>1. 1 + i - 1 = i /\ i \in 1..Len(w)
      BY <2>2
    <3>2. QED
      BY <1>8, <1>9, <2>4, <3>1
  <2>6. QED
    BY <1>6, <2>2, <2>4, <2>5, SeqEqual
<1>11. QED
  BY <1>3, <1>7, <1>9, <1>10 DEF Own, m, v

-----------------------------------------------------------------------------
(* The invariant. *)

\* What is true of the stream s, of the messages sn, when l is the last one
\* handled and o says whether units were dropped.
Flow(s, sn, l, o) ==
  /\ Placed(s, sn)
  /\ Ordered(s)
  /\ Late(s, l)
  /\ ~o => Unbroken(s, sn)

\* What was handled is a message that was sent, and its value is its own.
Credited ==
  handled # None =>
    /\ handled.of <= Len(sent)
    /\ (~overrun /\ handled.of # 0) => Own(handled, sent)

IInv == TypeOK /\ Flow(Stream, sent, last, overrun) /\ Credited

\* HandledInOrder, said of one step.
InOrder ==
  (last' # last \/ (handled' # handled /\ handled'.of # 0)) => last' > last

LEMMA Initial == Init => IInv
<1> SUFFICES ASSUME Init
             PROVE  IInv
  OBVIOUS
<1>1. TypeOK
  <2>1. sent \in Seq(Messages) /\ wire \in Seq(Units) /\ rx \in Seq(Units)
    BY EmptySeq DEF Init
  <2>2. Len(sent) = 0 /\ Len(rx) = 0
    BY EmptySeq DEF Init
  <2>3. Len(sent) <= MaxSent /\ Len(rx) <= MaxRx
    BY <2>2, SizeAssumption
  <2>4. last \in 0..Len(sent)
    BY <2>2 DEF Init
  <2>5. topic \in Names \cup {None} /\ handled = None /\ overrun \in BOOLEAN
    BY DEF Init
  <2>6. QED
    BY <2>1, <2>3, <2>4, <2>5 DEF TypeOK
<1>2. Len(Stream) = 0
  BY <1>1, StreamIs, EmptySeq DEF Init
<1>3. Flow(Stream, sent, last, overrun)
  BY <1>2 DEF Flow, Placed, Ordered, Late, Unbroken
<1>4. Credited
  BY DEF Init, Credited
<1>5. QED
  BY <1>1, <1>3, <1>4 DEF IInv

\* What is left of a stream flows as the stream did.
LEMMA SuffixFlows ==
  ASSUME NEW s, NEW t, NEW n, Len(s) \in Nat, Len(t) \in Nat, Suffix(s, t, n),
         NEW sn, NEW l, NEW o, Flow(t, sn, l, o)
  PROVE  Flow(s, sn, l, o)
<1>1. Embedded(s, t) /\ (Unbroken(t, sn) => Unbroken(s, sn))
  BY SuffixKeeps
<1>2. Placed(s, sn) /\ Ordered(s) /\ Late(s, l)
  BY <1>1, EmbeddedIs DEF Flow
<1>3. QED
  BY <1>1, <1>2 DEF Flow

\* What a poll does to the buffers and the stream.
LEMMA TakeFlows ==
  ASSUME IInv, Take
  PROVE  /\ rx # <<>>
         /\ rx' \in Seq(Units) /\ Len(rx') <= MaxRx
         /\ sent' = sent /\ wire' = wire /\ overrun' = overrun
         /\ Flow(Stream', sent, last, overrun)
<1>1. TypeOK /\ Flow(Stream, sent, last, overrun)
  BY DEF IInv
<1>2. /\ rx # <<>> /\ rx' \in Seq(Units) /\ Len(rx') <= Len(rx) /\ Len(rx') \in Nat
      /\ Suffix(Stream', Stream, Len(Line)) /\ Stream' \in Seq(Units)
  BY <1>1, TakeIs
<1>3. Len(Stream') \in Nat /\ Len(Stream) \in Nat
  BY <1>1, <1>2, StreamIs, LenProperties
<1>4. Flow(Stream', sent, last, overrun)
  BY <1>1, <1>2, <1>3, SuffixFlows
<1>5. Len(rx') <= MaxRx
  <2>1. Len(rx) \in Nat /\ Len(rx) <= MaxRx
    BY <1>1, Buffers DEF TypeOK
  <2>2. QED
    BY <1>2, <2>1, SizeAssumption
<1>6. QED
  BY <1>2, <1>4, <1>5 DEF Take

\* The line is whole messages, but for its ends.
LEMMA LineFlows ==
  ASSUME IInv, rx # <<>>
  PROVE  Placed(Line, sent) /\ (~overrun => Chained(Line, sent))
<1>1. TypeOK /\ Flow(Stream, sent, last, overrun)
  BY DEF IInv
<1>2. /\ Len(Line) \in 1..Len(rx) /\ Len(rx) <= Len(Stream)
      /\ Len(rx) \in Nat /\ Len(Stream) \in Nat
  BY <1>1, LineIs, StreamIs, Buffers
<1>3. \A k \in 1..Len(Line) : Line[k] = Stream[k] /\ k \in 1..Len(Stream)
  BY <1>1, <1>2, LineIs
<1>4. Placed(Line, sent)
  BY <1>1, <1>3 DEF Flow, Placed
<1>5. ASSUME ~overrun
      PROVE  Chained(Line, sent)
  <2> SUFFICES ASSUME NEW k \in 1..(Len(Line) - 1)
               PROVE  IF AtEnd(Line[k], sent) THEN Line[k + 1].at = 1
                      ELSE Line[k + 1].of = Line[k].of /\ Line[k + 1].at = Line[k].at + 1
    BY DEF Chained
  <2>1. k \in 1..Len(Line) /\ k + 1 \in 1..Len(Line) /\ k \in 1..(Len(Stream) - 1)
    BY <1>2
  <2>2. Line[k] = Stream[k] /\ Line[k + 1] = Stream[k + 1]
    BY <1>3, <2>1
  <2>3. Unbroken(Stream, sent)
    BY <1>1, <1>5 DEF Flow
  <2>4. QED
    BY <2>1, <2>2, <2>3 DEF Unbroken
<1>6. QED
  BY <1>4, <1>5

\* handle_msg leaves what was handled or puts a new value there.
LEMMA Handles ==
  ASSUME TypeOK, NEW n \in Names, NEW p, Len(p) \in Nat, NEW i \in 0..Len(sent),
         HandleMsg(n, p, i)
  PROVE  /\ \/ handled' = handled
            \/ handled' = [name |-> n, value |-> Value(p), of |-> i]
         /\ \/ handled' = None
            \/ handled' \in [name : Names, value : Seq(Digits), of : 0..MaxSent]
<1>1. i \in 0..MaxSent
  <2>1. Len(sent) \in Nat /\ Len(sent) <= MaxSent
    BY Buffers DEF TypeOK
  <2>2. QED
    BY <2>1, SizeAssumption
<1>2. Value(p) \in Seq(Digits)
  BY ValueIs
<1>3. [name |-> n, value |-> Value(p), of |-> i]
        \in [name : Names, value : Seq(Digits), of : 0..MaxSent]
  BY <1>1, <1>2
<1>4. QED
  BY <1>3 DEF HandleMsg, TypeOK

\* What handle_msg did without a number of a message.
LEMMA HandlesAnonymous ==
  ASSUME IInv, NEW n \in Names, NEW p, Len(p) \in Nat, HandleMsg(n, p, 0),
         UNCHANGED <<sent, overrun, last>>
  PROVE  /\ \/ handled' = None
            \/ handled' \in [name : Names, value : Seq(Digits), of : 0..MaxSent]
         /\ Credited' /\ InOrder
<1>1. TypeOK /\ Len(sent) \in Nat
  BY Buffers DEF IInv
<1>2. 0 \in 0..Len(sent)
  BY <1>1
<1>3. /\ \/ handled' = handled
         \/ handled' = [name |-> n, value |-> Value(p), of |-> 0]
      /\ \/ handled' = None
         \/ handled' \in [name : Names, value : Seq(Digits), of : 0..MaxSent]
  BY <1>1, <1>2, Handles
<1>4. CASE handled' = handled
  BY <1>3, <1>4 DEF IInv, Credited, InOrder
<1>5. CASE handled' = [name |-> n, value |-> Value(p), of |-> 0]
  <2>1. handled'.of = 0
    BY <1>5
  <2>2. Credited' /\ InOrder
    BY <1>1, <2>1 DEF Credited, InOrder
  <2>3. QED
    BY <1>3, <2>2
<1>6. QED
  BY <1>3, <1>4, <1>5

-----------------------------------------------------------------------------
(* The actions. *)

LEMMA SendStep ==
  ASSUME IInv, NEW m \in Messages, Send(m)
  PROVE  IInv' /\ InOrder
<1> DEFINE i == Len(sent) + 1
           text == Text(m, i)
<1>1. /\ Len(sent) < MaxSent /\ sent' = Append(sent, m) /\ wire' = wire \o text
      /\ UNCHANGED <<rx, topic, handled, last, overrun>>
  BY DEF Send
<1>2. TypeOK /\ Flow(Stream, sent, last, overrun) /\ Credited
  BY DEF IInv
<1>3. /\ sent \in Seq(Messages) /\ Len(sent) \in Nat /\ Len(rx) \in Nat /\ Len(wire) \in Nat
      /\ rx \in Seq(Units) /\ wire \in Seq(Units) /\ last \in 0..Len(sent)
      /\ i \in 0..MaxSent
  BY <1>1, <1>2, Buffers, SizeAssumption DEF TypeOK
<1>4. PICK b \in Nat : b = 3 + Len(m.rest)
  BY SpelledIs
<1>5. /\ text \in Seq(Units) /\ Len(text) = b
  BY <1>3, <1>4, TextIs
<1> HIDE DEF text
<1>6. /\ sent' \in Seq(Messages) /\ Len(sent') = i
      /\ \A k \in 1..Len(sent) : sent'[k] = sent[k]
  BY <1>1, <1>3, AppendProperties
<1>7. /\ wire' \in Seq(Units) /\ Len(wire') = Len(wire) + b
      /\ \A k \in 1..(Len(wire) + b) :
           wire'[k] = IF k <= Len(wire) THEN wire[k] ELSE text[k - Len(wire)]
  BY <1>1, <1>3, <1>5, ConcatProperties
<1>8. Stream' = Stream \o text
  <2>1. (rx \o wire) \o text = rx \o (wire \o text)
    <3>1. rx \in Seq(Units) /\ wire \in Seq(Units) /\ text \in Seq(Units)
      BY <1>3, <1>5
    <3>2. QED
      BY <3>1, ConcatAssociative
  <2>2. rx' = rx /\ wire' = wire \o text
    BY <1>1
  <2>3. Stream' = rx' \o wire' /\ Stream = rx \o wire
    BY DEF Stream
  <2>4. QED
    BY <2>1, <2>2, <2>3, Zenon
<1>9. Stream \in Seq(Units) /\ Len(Stream) \in Nat
  BY <1>2, StreamIs
<1>10. PICK a \in Nat : a = Len(Stream)
  BY <1>9
<1>11. /\ Len(Stream') = a + b
       /\ \A k \in 1..(a + b) : Stream'[k] = IF k <= a THEN Stream[k] ELSE text[k - a]
  BY <1>5, <1>8, <1>9, <1>10, ConcatProperties
<1>12. \A k \in 1..a : Stream'[k] = Stream[k]
  BY <1>11
<1>13. ASSUME NEW k \in 1..b
       PROVE  Stream'[a + k] = text[k]
  <2>1. a + k \in 1..(a + b) /\ ~(a + k <= a) /\ (a + k) - a = k
    OBVIOUS
  <2>2. QED
    BY <1>11, <2>1
<1>14. Flow(Stream', sent', last, overrun)
  <2>1. last \in Nat /\ last <= Len(sent)
    BY <1>3
  <2>2. /\ Placed(Stream', sent')
        /\ Ordered(Stream) => Ordered(Stream')
        /\ Late(Stream, last) => Late(Stream', last)
        /\ Unbroken(Stream, sent) => Unbroken(Stream', sent')
    <3>1. PICK j : j = i
      OBVIOUS
    <3>2. \A k \in 1..b : Stream'[a + k] = Text(m, j)[k]
      BY <1>13, <3>1 DEF text
    <3>3. Placed(Stream, sent)
      BY <1>2 DEF Flow
    <3>4. j = Len(sent) + 1
      BY <3>1
    <3>5. Len(sent) < MaxSent /\ sent' = Append(sent, m) /\ sent \in Seq(Messages)
      BY <1>1, <1>3
    <3>6. Len(Stream') = a + b
      BY <1>11
    <3>7. PICK s : s = Stream'
      OBVIOUS
    <3>8. PICK sm : sm = sent'
      OBVIOUS
    <3>9. PICK sn \in Seq(Messages) : sn = sent
      BY <1>3
    <3>10. PICK t \in Seq(Units) : t = Stream
      BY <1>9
    <3>11. PICK l \in Nat : l = last
      BY <2>1
    <3>12. Extends(t, sn, l, m, j, a, b, s, sm)
      BY <1>4, <1>10, <1>12, <2>1, <3>2, <3>3, <3>4, <3>5, <3>6, <3>7, <3>8, <3>9, <3>10, <3>11
         DEF Extends
    <3>13. /\ Placed(s, sm)
           /\ Ordered(t) => Ordered(s)
           /\ Late(t, l) => Late(s, l)
           /\ Unbroken(t, sn) => Unbroken(s, sm)
      BY <3>12, ExtendedIs
    <3>14. QED
      BY <3>7, <3>8, <3>9, <3>10, <3>11, <3>13
  <2>3. QED
    BY <1>2, <2>2 DEF Flow
<1>15. TypeOK'
  <2>1. Len(sent') <= MaxSent /\ last \in 0..Len(sent')
    BY <1>1, <1>3, <1>6, SizeAssumption
  <2>2. QED
    BY <1>1, <1>2, <1>6, <1>7, <2>1 DEF TypeOK
<1>16. Credited'
  <2> SUFFICES ASSUME handled # None
               PROVE  /\ handled.of <= Len(sent')
                      /\ (~overrun /\ handled.of # 0) => Own(handled, sent')
    BY <1>1 DEF Credited
  <2>1. handled.of \in 0..MaxSent /\ handled.of <= Len(sent)
    BY <1>2 DEF TypeOK, Credited
  <2>2. handled.of <= Len(sent')
    BY <1>3, <1>6, <2>1
  <2>3. ASSUME ~overrun, handled.of # 0
        PROVE  Own(handled, sent')
    <3>1. handled.of \in 1..Len(sent)
      BY <1>3, <2>1, <2>3
    <3>2. sent'[handled.of] = sent[handled.of]
      BY <1>6, <3>1
    <3>3. Own(handled, sent)
      BY <1>2, <2>3 DEF Credited
    <3>4. QED
      BY <3>2, <3>3 DEF Own
  <2>4. QED
    BY <2>2, <2>3
<1>17. QED
  BY <1>1, <1>14, <1>15, <1>16 DEF IInv, InOrder

LEMMA ArriveStep ==
  ASSUME IInv, Arrive
  PROVE  IInv' /\ InOrder
<1>1. /\ wire # <<>> /\ wire' = Tail(wire)
      /\ UNCHANGED <<sent, topic, handled, last>>
  BY DEF Arrive
<1>2. TypeOK /\ Flow(Stream, sent, last, overrun) /\ Credited
  BY DEF IInv
<1>3. /\ rx \in Seq(Units) /\ wire \in Seq(Units) /\ Len(rx) \in Nat /\ Len(rx) <= MaxRx
      /\ Len(wire) \in Nat /\ Len(wire) > 0
  BY <1>1, <1>2, Buffers, EmptySeq DEF TypeOK
<1>4. /\ Stream \in Seq(Units) /\ Len(Stream) \in Nat /\ Len(Stream) = Len(rx) + Len(wire)
      /\ \A k \in 1..Len(rx) : Stream[k] = rx[k]
      /\ \A k \in 1..Len(wire) : Stream[Len(rx) + k] = wire[k]
  BY <1>2, StreamIs
<1>5. /\ Head(wire) \in Units /\ Head(wire) = wire[1]
      /\ wire' \in Seq(Units) /\ Len(wire') = Len(wire) - 1 /\ Len(wire') \in Nat
      /\ \A k \in 1..Len(wire') : wire'[k] = wire[k + 1]
  BY <1>1, <1>3, HeadTailProperties
<1>6. CASE Len(rx) < MaxRx
  <2>1. rx' = Append(rx, Head(wire)) /\ overrun' = overrun
    BY <1>6 DEF Arrive
  <2>2. /\ rx' \in Seq(Units) /\ Len(rx') = Len(rx) + 1
        /\ \A k \in 1..Len(rx) : rx'[k] = rx[k]
        /\ rx'[Len(rx) + 1] = wire[1]
    BY <1>3, <1>5, <2>1, AppendProperties
  <2>3. /\ Stream' \in Seq(Units) /\ Len(Stream') = Len(rx') + Len(wire')
        /\ \A k \in 1..(Len(rx') + Len(wire')) :
             Stream'[k] = IF k <= Len(rx') THEN rx'[k] ELSE wire'[k - Len(rx')]
    BY <1>5, <2>2, ConcatProperties DEF Stream
  <2>4. Len(Stream') = Len(Stream)
    BY <1>3, <1>4, <1>5, <2>2, <2>3
  <2>5. ASSUME NEW k \in 1..Len(Stream)
        PROVE  Stream'[k] = Stream[k]
    <3>1. CASE k <= Len(rx)
      <4>1. k \in 1..Len(rx) /\ k \in 1..(Len(rx') + Len(wire')) /\ k <= Len(rx')
        BY <1>3, <1>4, <1>5, <2>2, <2>5, <3>1
      <4>2. QED
        BY <1>4, <2>2, <2>3, <4>1
    <3>2. CASE k = Len(rx) + 1
      <4>1. 1 \in 1..Len(wire) /\ k \in 1..(Len(rx') + Len(wire')) /\ k <= Len(rx')
        BY <1>3, <1>4, <1>5, <2>2, <2>5, <3>2
      <4>2. QED
        BY <1>4, <2>2, <2>3, <3>2, <4>1
    <3>3. CASE k > Len(rx) + 1
      <4>1. /\ k \in 1..(Len(rx') + Len(wire')) /\ ~(k <= Len(rx'))
            /\ k - Len(rx') \in 1..Len(wire')
            /\ (k - Len(rx')) + 1 \in 1..Len(wire)
            /\ Len(rx) + ((k - Len(rx')) + 1) = k
        BY <1>3, <1>4, <1>5, <2>2, <2>5, <3>3
      <4>2. Stream'[k] = wire[(k - Len(rx')) + 1]
        BY <1>5, <2>3, <4>1
      <4>3. QED
        BY <1>4, <4>1, <4>2
    <3>4. QED
      BY <1>3, <2>5, <3>1, <3>2, <3>3
  <2>6. Stream' = Stream
    BY <1>4, <2>3, <2>4, <2>5, SeqEqual
  <2>7. TypeOK'
    <3>1. Len(rx') <= MaxRx
      BY <1>3, <1>6, <2>2, SizeAssumption
    <3>2. QED
      BY <1>1, <1>2, <1>5, <2>1, <2>2, <3>1 DEF TypeOK
  <2>8. Credited'
    BY <1>1, <1>2, <2>1 DEF Credited
  <2>9. QED
    BY <1>1, <1>2, <2>1, <2>6, <2>7, <2>8 DEF IInv, InOrder
<1>7. CASE ~(Len(rx) < MaxRx)
  <2>1. rx' = rx /\ overrun' = TRUE
    BY <1>7 DEF Arrive
  <2>2. /\ Stream' \in Seq(Units) /\ Len(Stream') = Len(rx) + Len(wire')
        /\ \A k \in 1..(Len(rx) + Len(wire')) :
             Stream'[k] = IF k <= Len(rx) THEN rx[k] ELSE wire'[k - Len(rx)]
    BY <1>3, <1>5, <2>1, ConcatProperties DEF Stream
  <2>3. /\ Len(Stream') \in Nat /\ Len(Stream) = Len(Stream') + 1
        /\ Len(rx) + 1 \in 1..Len(Stream)
    BY <1>3, <1>4, <1>5, <2>2
  <2>4. ASSUME NEW k \in 1..Len(Stream')
        PROVE  Stream'[k] = IF k < Len(rx) + 1 THEN Stream[k] ELSE Stream[k + 1]
    <3>1. CASE k <= Len(rx)
      <4>1. k \in 1..Len(rx) /\ k < Len(rx) + 1
        BY <1>3, <2>4, <3>1
      <4>2. QED
        BY <1>4, <2>2, <2>4, <4>1
    <3>2. CASE ~(k <= Len(rx))
      <4>1. /\ k - Len(rx) \in 1..Len(wire') /\ ~(k < Len(rx) + 1)
            /\ (k - Len(rx)) + 1 \in 1..Len(wire)
            /\ Len(rx) + ((k - Len(rx)) + 1) = k + 1
        BY <1>3, <1>5, <2>2, <2>4, <3>2
      <4>2. Stream'[k] = wire[(k - Len(rx)) + 1]
        BY <1>5, <2>2, <2>4, <3>2, <4>1
      <4>3. QED
        BY <1>4, <4>1, <4>2
    <3>3. QED
      BY <3>1, <3>2
  <2>5. Embedded(Stream', Stream)
    BY <2>3, <2>4, DropKeeps
  <2>6. Flow(Stream', sent, last, TRUE)
    BY <1>2, <2>5, EmbeddedIs DEF Flow
  <2>7. TypeOK'
    BY <1>1, <1>2, <1>5, <2>1 DEF TypeOK
  <2>8. Credited'
    BY <1>1, <1>2, <2>1 DEF Credited
  <2>9. QED
    BY <1>1, <2>1, <2>6, <2>7, <2>8 DEF IInv, InOrder
<1>8. QED
  BY <1>6, <1>7

LEMMA PollTopicStep ==
  ASSUME IInv, PollTopic
  PROVE  IInv' /\ InOrder
<1> DEFINE start == First(Starts(Line))
           t == TopicOf(Line, start)
           p == PayloadOf(Line, start)
<1>1. /\ Take /\ Starts(Line) # {} /\ Matches(t)
      /\ HandleMsg(t[3].byte, p, t[3].of) /\ topic' = t[3].byte /\ last' = t[3].of
  BY DEF PollTopic
<1>2. TypeOK /\ Flow(Stream, sent, last, overrun) /\ Credited
  BY DEF IInv
<1>3. /\ rx # <<>> /\ rx' \in Seq(Units) /\ Len(rx') <= MaxRx
      /\ sent' = sent /\ wire' = wire /\ overrun' = overrun
      /\ Flow(Stream', sent, last, overrun)
  BY <1>1, TakeFlows
<1>4. /\ Line \in Seq(Units) /\ Len(Line) \in 1..Len(rx) /\ sent \in Seq(Messages)
      /\ \A k \in 1..Len(Line) : Line[k] = Stream[k]
      /\ Len(sent) \in Nat /\ Len(rx) \in Nat /\ Len(Stream) = Len(rx) + Len(wire)
      /\ Len(wire) \in Nat
  BY <1>2, <1>3, LineIs, Buffers, StreamIs
<1>5. Placed(Line, sent) /\ (~overrun => Chained(Line, sent))
  BY <1>3, LineFlows
<1>6. /\ start \in 1..Len(Line) /\ start + 2 \in 1..Len(Line)
      /\ t[3] = Line[start + 2] /\ t[3].byte \in Names
  BY <1>1, <1>4, TopicFound
<1>7. Len(p) \in Nat
  BY <1>4, <1>6, PayloadIs
<1> HIDE DEF t, p
<1>8. PICK a \in 1..Len(Line) : a = start + 2
  BY <1>6
<1> HIDE DEF start
<1>9. t[3] = Stream[a] /\ t[3] = Line[a]
  BY <1>4, <1>6, <1>8
<1>10. t[3].of \in 1..Len(sent) /\ t[3].at = 3
  <2>1. /\ Line[a].of \in 1..Len(sent)
        /\ Line[a].at \in 1..Len(Spelled(sent[Line[a].of]))
        /\ Line[a].byte = Spelled(sent[Line[a].of])[Line[a].at]
    BY <1>5 DEF Placed
  <2>2. sent[Line[a].of] \in Messages
    BY <1>4, <2>1, LenProperties
  <2>3. QED
    BY <1>6, <1>9, <2>1, <2>2, NameIsThird
<1>11. a \in 1..Len(Stream)
  BY <1>4
<1>12. last' > last
  <2>1. t[3].of > last \/ (t[3].of = last /\ t[3].at > 3)
    BY <1>2, <1>9, <1>11 DEF Flow, Late
  <2>2. QED
    BY <1>1, <1>10, <2>1
<1>13. Late(Stream', last')
  <2>1. Suffix(Stream', Stream, Len(Line))
    BY <1>1, <1>2, TakeIs
  <2> SUFFICES ASSUME NEW k \in 1..Len(Stream')
               PROVE  Stream'[k].of > last' \/ (Stream'[k].of = last' /\ Stream'[k].at > 3)
    BY DEF Late
  <2>2. PICK l \in Nat : l = Len(Line)
    BY <1>4
  <2>3. /\ Stream'[k] = Stream[k + l] /\ Len(Stream') = Len(Stream) - l
    BY <2>1, <2>2 DEF Suffix
  <2>4. k + l \in 1..Len(Stream) /\ a < k + l
    BY <1>4, <2>2, <2>3
  <2>5. Before(Stream[a], Stream[k + l])
    BY <1>2, <1>11, <2>4 DEF Flow, Ordered
  <2>6. Stream[a].of = last' /\ Stream[a].at = 3
    BY <1>1, <1>9, <1>10
  <2>7. PICK u : u = Stream[k + l]
    OBVIOUS
  <2>8. last' < u.of \/ (last' = u.of /\ 3 < u.at)
    BY <2>5, <2>6, <2>7 DEF Before
  <2>9. u.of \in Nat /\ u.at \in Nat
    <3>1. u \in Units
      BY <1>2, <2>4, <2>7, StreamIs
    <3>2. QED
      BY <3>1, SizeAssumption DEF Units
  <2>10. last' \in Nat
    BY <1>1, <1>10
  <2>11. u.of > last' \/ (u.of = last' /\ u.at > 3)
    BY <2>8, <2>9, <2>10
  <2>12. QED
    BY <2>3, <2>7, <2>11
<1>14. Flow(Stream', sent', last', overrun')
  BY <1>3, <1>13 DEF Flow
<1>15. t[3].of \in 0..Len(sent)
  BY <1>4, <1>10
<1>16. /\ \/ handled' = handled
          \/ handled' = [name |-> t[3].byte, value |-> Value(p), of |-> t[3].of]
       /\ \/ handled' = None
          \/ handled' \in [name : Names, value : Seq(Digits), of : 0..MaxSent]
  BY <1>1, <1>2, <1>6, <1>7, <1>15, Handles
<1>17. Credited'
  <2>1. CASE handled' = handled
    BY <1>2, <1>3, <2>1 DEF Credited
  <2>2. CASE handled' = [name |-> t[3].byte, value |-> Value(p), of |-> t[3].of]
    <3>1. PICK h : h = handled'
      OBVIOUS
    <3>2. h.name = t[3].byte /\ h.value = Value(p) /\ h.of = t[3].of
      BY <2>2, <3>1
    <3>3. h.of <= Len(sent)
      BY <1>4, <1>15, <3>2
    <3>4. ASSUME ~overrun
          PROVE  Own(h, sent)
      <4>1. Placed(Line, sent) /\ Chained(Line, sent) /\ Starts(Line) # {} /\ Matches(t)
        BY <1>1, <1>5, <3>4
      <4>2. QED
        BY <1>4, <3>2, <4>1, OwnValue DEF t, p, start
    <3>5. QED
      BY <1>3, <3>1, <3>3, <3>4 DEF Credited
  <2>3. QED
    BY <1>16, <2>1, <2>2
<1>18. TypeOK'
  <2>1. last' \in 0..Len(sent')
    BY <1>1, <1>3, <1>15
  <2>2. topic' \in Names \cup {None}
    BY <1>1, <1>6
  <2>3. QED
    BY <1>2, <1>3, <1>16, <2>1, <2>2 DEF TypeOK
<1>19. QED
  BY <1>12, <1>14, <1>17, <1>18 DEF IInv, InOrder

\* The other polls handle nothing that has a number.
LEMMA PollOtherStep ==
  ASSUME IInv, PollNothing \/ PollUnknown \/ PollStale
  PROVE  IInv' /\ InOrder
<1>1. Take /\ last' = last
  BY DEF PollNothing, PollUnknown, PollStale
<1>2. TypeOK /\ Flow(Stream, sent, last, overrun) /\ Credited
  BY DEF IInv
<1>3. /\ rx # <<>> /\ rx' \in Seq(Units) /\ Len(rx') <= MaxRx
      /\ sent' = sent /\ wire' = wire /\ overrun' = overrun
      /\ Flow(Stream', sent, last, overrun)
  BY <1>1, TakeFlows
<1>4. Flow(Stream', sent', last', overrun')
  BY <1>1, <1>3
<1>5. /\ topic' \in Names \cup {None}
      /\ \/ handled' = None
         \/ handled' \in [name : Names, value : Seq(Digits), of : 0..MaxSent]
      /\ Credited' /\ InOrder
  <2>1. CASE handled' = handled /\ topic' \in {topic, None}
    BY <1>1, <1>2, <1>3, <2>1 DEF TypeOK, Credited, InOrder
  <2>2. CASE PollStale /\ topic # None
    <3> DEFINE start == First(Starts(Line))
               p == PayloadOf(Line, start)
    <3>1. CASE handled' = handled /\ topic' \in {topic, None}
      BY <2>1, <3>1
    <3>2. CASE HandleMsg(topic, p, 0) /\ topic' = topic
      <4>1. Starts(Line) # {}
        BY <2>2 DEF PollStale
      <4>2. Line \in Seq(Units)
        BY <1>2, <1>3, LineIs
      <4>3. start \in 1..Len(Line)
        <5>1. Starts(Line) \in SUBSET Nat /\ Starts(Line) \in SUBSET (1..Len(Line))
          BY <4>2, LenProperties DEF Starts
        <5>2. QED
          BY <4>1, <5>1, FirstIsLeast
      <4>4. Len(p) \in Nat
        BY <4>2, <4>3, PayloadIs
      <4>5. topic \in Names
        BY <1>2, <2>2 DEF TypeOK
      <4> HIDE DEF p
      <4>6. /\ \/ handled' = None
               \/ handled' \in [name : Names, value : Seq(Digits), of : 0..MaxSent]
            /\ Credited' /\ InOrder
        BY <1>1, <1>3, <3>2, <4>4, <4>5, HandlesAnonymous
      <4>7. QED
        BY <3>2, <4>5, <4>6
    <3>3. QED
      BY <2>2, <3>1, <3>2 DEF PollStale
  <2>3. QED
    BY <2>1, <2>2 DEF PollNothing, PollUnknown, PollStale
<1>6. TypeOK'
  BY <1>1, <1>2, <1>3, <1>5 DEF TypeOK
<1>7. QED
  BY <1>4, <1>5, <1>6 DEF IInv

LEMMA WebSocketTextStep ==
  ASSUME IInv, NEW m \in Messages, WebSocketText(m)
  PROVE  IInv' /\ InOrder
<1> DEFINE text == Text(m, 0)
           p == PayloadOf(text, 1)
           n == TopicOf(text, 1)[3].byte
<1>1. /\ Matches(TopicOf(text, 1)) /\ HandleMsg(n, p, 0)
      /\ UNCHANGED <<sent, wire, rx, topic, last, overrun>>
  BY DEF WebSocketText
<1>2. n \in Names
  BY <1>1 DEF Matches
<1>3. text \in Seq(Units) /\ 1 \in 1..Len(text)
  <2>1. 0 \in 0..MaxSent
    BY SizeAssumption
  <2>2. text \in Seq(Units) /\ Len(text) = 3 + Len(m.rest)
    BY <2>1, TextIs
  <2>3. Len(m.rest) \in Nat
    BY SpelledIs
  <2>4. QED
    BY <2>2, <2>3
<1> HIDE DEF text
<1>4. Len(p) \in Nat
  BY <1>3, PayloadIs
<1> HIDE DEF n, p
<1>5. /\ \/ handled' = None
         \/ handled' \in [name : Names, value : Seq(Digits), of : 0..MaxSent]
      /\ Credited' /\ InOrder
  BY <1>1, <1>2, <1>4, HandlesAnonymous
<1>6. TypeOK'
  BY <1>1, <1>5 DEF IInv, TypeOK
<1>7. Flow(Stream', sent', last', overrun')
  BY <1>1 DEF IInv, Stream
<1>8. QED
  BY <1>5, <1>6, <1>7 DEF IInv

LEMMA RestartStep ==
  ASSUME IInv, Restart
  PROVE  IInv' /\ InOrder
<1>1. /\ rx' = <<>> /\ topic' = None
      /\ UNCHANGED <<sent, handled, last, overrun>>
  BY DEF Restart
<1>2. PICK n \in 0..Len(wire) : wire' = SubSeq(wire, n + 1, Len(wire))
  BY DEF Restart
<1>3. TypeOK /\ Flow(Stream, sent, last, overrun) /\ Credited
  BY DEF IInv
<1>4. /\ rx \in Seq(Units) /\ wire \in Seq(Units) /\ Len(rx) \in Nat /\ Len(wire) \in Nat
      /\ Len(Stream) = Len(rx) + Len(wire)
      /\ \A k \in 1..Len(wire) : Stream[Len(rx) + k] = wire[k]
  BY <1>3, Buffers, StreamIs
<1>5. wire' \in Seq(Units) /\ Suffix(wire', wire, n)
  BY <1>2, <1>4, SuffixIs
<1>6. Stream' = wire'
  <2>1. <<>> \o wire' = wire'
    BY <1>5, ConcatEmptySeq
  <2>2. QED
    BY <1>1, <2>1 DEF Stream
<1>7. PICK c \in Nat : c = Len(rx) + n
  BY <1>4
<1>8. Suffix(Stream', Stream, c)
  <2>1. Len(wire') = Len(wire) - n /\ \A k \in 1..Len(wire') : wire'[k] = wire[k + n]
    BY <1>5 DEF Suffix
  <2>2. c \in 0..Len(Stream) /\ Len(Stream') = Len(Stream) - c
    BY <1>4, <1>6, <1>7, <2>1
  <2>3. ASSUME NEW k \in 1..Len(Stream')
        PROVE  Stream'[k] = Stream[k + c]
    <3>1. k + n \in 1..Len(wire) /\ Len(rx) + (k + n) = k + c
      BY <1>4, <1>6, <1>7, <2>1, <2>3
    <3>2. QED
      BY <1>4, <1>6, <2>1, <2>3, <3>1
  <2>4. QED
    BY <2>2, <2>3 DEF Suffix
<1>9. Len(Stream') \in Nat /\ Len(Stream) \in Nat
  BY <1>4, <1>5, <1>6, LenProperties
<1>10. Flow(Stream', sent, last, overrun)
  BY <1>3, <1>8, <1>9, SuffixFlows
<1>11. TypeOK'
  <2>1. rx' \in Seq(Units) /\ Len(rx') <= MaxRx
    BY <1>1, EmptySeq, SizeAssumption
  <2>2. QED
    BY <1>1, <1>3, <1>5, <2>1 DEF TypeOK
<1>12. Credited' /\ InOrder
  BY <1>1, <1>3 DEF Credited, InOrder
<1>13. QED
  BY <1>1, <1>10, <1>11, <1>12 DEF IInv

\* Every step keeps the invariant and the order.
LEMMA Step ==
  ASSUME IInv, [Next]_vars
  PROVE  IInv' /\ InOrder
<1>1. CASE \E m \in Messages : Send(m) \/ WebSocketText(m)
  BY <1>1, SendStep, WebSocketTextStep
<1>2. CASE Arrive
  BY <1>2, ArriveStep
<1>3. CASE Poll
  BY <1>3, PollTopicStep, PollOtherStep DEF Poll
<1>4. CASE Restart
  BY <1>4, RestartStep
<1>5. CASE UNCHANGED vars
  <2>1. TypeOK' /\ Stream' = Stream
    BY <1>5 DEF vars, IInv, TypeOK, Stream
  <2>2. Credited' /\ InOrder
    BY <1>5 DEF vars, IInv, Credited, InOrder
  <2>3. Flow(Stream', sent', last', overrun')
    BY <1>5, <2>1 DEF vars, IInv
  <2>4. QED
    BY <2>1, <2>2, <2>3 DEF IInv
<1>6. QED
  BY <1>1, <1>2, <1>3, <1>4, <1>5 DEF Next

LEMMA Invariance == Spec => []IInv
<1>1. IInv /\ [Next]_vars => IInv'
  BY Step
<1>2. QED
  BY <1>1, Initial, PTL DEF Spec

-----------------------------------------------------------------------------
(* A whole message. *)

\* The line begins with the text of m, the i-th message, in the documented
\* format and with a payload that handle_msg takes.
Begins(line, m, i) ==
  /\ Len(m.rest) >= 2 + Need[m.name]
  /\ m.rest[1] = "/" /\ m.rest[2] = "/"
  /\ Len(Text(m, i)) <= Len(line)
  /\ SubSeq(line, 1, Len(Text(m, i))) = Text(m, i)

\* The units of the line that are the message.
LEMMA BeginsIs ==
  ASSUME NEW line \in Seq(Units), NEW m \in Messages, NEW i \in 0..MaxSent, Begins(line, m, i)
  PROVE  /\ Len(m.rest) \in Nat /\ Len(line) \in Nat
         /\ 2 <= Len(m.rest) /\ 3 + Len(m.rest) <= Len(line)
         /\ \A k \in 1..(3 + Len(m.rest)) :
              /\ line[k].byte = Spelled(m)[k] /\ line[k].of = i /\ line[k].at = k
<1>1. /\ Len(m.rest) \in Nat /\ m.name \in Names /\ Len(line) \in Nat
      /\ \A k \in 1..Len(line) : line[k] \in Units
  BY SpelledIs, LenProperties
<1>2. Need[m.name] \in Nat
  BY <1>1, MessageAssumption
<1>3. 2 <= Len(m.rest)
  BY <1>1, <1>2 DEF Begins
<1>4. PICK n \in Nat : n = 3 + Len(m.rest)
  BY <1>1
<1>5. /\ Len(Text(m, i)) = n
      /\ \A k \in 1..n : Text(m, i)[k] = [byte |-> Spelled(m)[k], of |-> i, at |-> k]
  BY <1>4, TextIs
<1>6. n <= Len(line) /\ SubSeq(line, 1, n) = Text(m, i)
  BY <1>5 DEF Begins
<1>7. n - 1 + 1 = n /\ \A k \in 1..n : line[k] \in Units
  BY <1>1, <1>6
<1>8. \A k \in 1..n : SubSeq(line, 1, n)[k] = line[1 + k - 1]
  BY <1>7, SubSeqProperties
<1>9. ASSUME NEW k \in 1..n
      PROVE  line[k].byte = Spelled(m)[k] /\ line[k].of = i /\ line[k].at = k
  <2>1. 1 + k - 1 = k
    OBVIOUS
  <2>2. line[k] = [byte |-> Spelled(m)[k], of |-> i, at |-> k]
    BY <1>5, <1>6, <1>8, <2>1
  <2>3. QED
    BY <2>2
<1>10. QED
  BY <1>1, <1>3, <1>4, <1>6, <1>9

\* What serial_loop finds in such a line: the topic of the message, and a
\* payload that begins with the one it was sent with.
LEMMA BeginsFound ==
  ASSUME NEW line \in Seq(Units), NEW m \in Messages, NEW i \in 0..MaxSent, Begins(line, m, i)
  PROVE  /\ Starts(line) # {} /\ First(Starts(line)) = 1
         /\ Len(TopicOf(line, 1)) = 3 /\ Matches(TopicOf(line, 1))
         /\ TopicOf(line, 1)[3].byte = m.name /\ TopicOf(line, 1)[3].of = i
         /\ Stop(line, 1) = 4
<1>1. /\ Len(m.rest) \in Nat /\ Len(line) \in Nat
      /\ 2 <= Len(m.rest) /\ 3 + Len(m.rest) <= Len(line)
      /\ \A k \in 1..(3 + Len(m.rest)) :
           /\ line[k].byte = Spelled(m)[k] /\ line[k].of = i /\ line[k].at = k
  BY BeginsIs
<1>2. 1 \in 1..Len(line) /\ \A k \in 1..5 : k \in 1..(3 + Len(m.rest)) /\ k \in 1..Len(line)
  BY <1>1
<1>3. /\ line[1].byte = "clockiot" /\ line[2].byte = "/" /\ line[3].byte = m.name
      /\ line[3].of = i
  BY <1>1, <1>2, SpelledIs
<1>4. line[4].byte = "/" /\ line[5].byte = "/"
  <2>1. Spelled(m)[3 + 1] = m.rest[1] /\ Spelled(m)[3 + 2] = m.rest[2]
    BY <1>1, SpelledIs
  <2>2. QED
    BY <1>1, <1>2, <2>1 DEF Begins
<1>5. m.name \in Names /\ "/" \notin Names /\ "clockiot" \notin Names
  BY SpelledIs, MessageAssumption
<1>6. Starts(line) # {} /\ First(Starts(line)) = 1
  <2>1. Starts(line) \in SUBSET (1..Len(line)) /\ 1 \in Starts(line)
    BY <1>2, <1>3, LenProperties DEF Starts
  <2>2. Starts(line) \in SUBSET Nat /\ Starts(line) # {}
    BY <2>1
  <2>3. First(Starts(line)) \in Starts(line) /\ First(Starts(line)) <= 1
    BY <2>1, <2>2, FirstIsLeast
  <2>4. First(Starts(line)) \in 1..Len(line)
    BY <2>1, <2>3
  <2>5. QED
    BY <1>1, <2>2, <2>3, <2>4
<1>7. Stop(line, 1) = 4
  <2>1. PICK e \in 1..(Len(line) + 1) : e = Stop(line, 1)
    BY <1>1, <1>2, StopIs
  <2>2. e <= 4
    <3>1. 4 \in 1..(Len(line) - 1)
      BY <1>1
    <3>2. line[4].byte = "/" /\ line[4 + 1].byte = "/"
      BY <1>4
    <3>3. QED
      BY <1>1, <1>2, <2>1, <3>1, <3>2, StopIsLeast
  <2>3. e # Len(line) + 1
    BY <1>1, <2>2
  <2>4. line[e].byte = "/" /\ line[e + 1].byte = "/"
    BY <1>1, <1>2, <2>1, <2>3, StopIs
  <2>5. e # 1
    BY <1>3, <2>4
  <2>6. e # 2
    BY <1>3, <1>5, <2>4
  <2>7. e # 3
    BY <1>3, <1>5, <2>4
  <2>8. QED
    BY <2>1, <2>2, <2>5, <2>6, <2>7
<1> DEFINE t == TopicOf(line, 1)
<1>8. Len(t) = 3 /\ t[2] = line[2] /\ t[3] = line[3]
  <2>1. /\ Len(t) = Stop(line, 1) - 1
        /\ \A k \in 1..Len(t) : t[k] = line[1 + k - 1]
    BY <1>2, TopicIs
  <2> HIDE DEF t
  <2>2. Len(t) = 3
    BY <1>7, <2>1
  <2>3. ASSUME NEW k \in 1..3
        PROVE  t[k] = line[k]
    <3>1. k \in 1..Len(t) /\ 1 + k - 1 = k
      BY <2>2
    <3>2. QED
      BY <2>1, <3>1
  <2>4. QED
    BY <2>2, <2>3
<1> HIDE DEF t
<1>9. Matches(t)
  BY <1>3, <1>5, <1>8 DEF Matches
<1>10. QED
  BY <1>3, <1>6, <1>7, <1>8, <1>9 DEF t

\* Its value is the one the message was sent with: what follows the message in
\* the line begins with the word clockiot, which is no digit.
LEMMA BeginsValue ==
  ASSUME NEW line \in Seq(Units), NEW sn \in Seq(Messages), Placed(line, sn), Chained(line, sn),
         NEW i \in 1..Len(sn), i \in 0..MaxSent, Begins(line, sn[i], i)
  PROVE  /\ Len(PayloadOf(line, 1)) >= Need[sn[i].name]
         /\ Value(PayloadOf(line, 1)) = SentValue(sn[i])
<1> DEFINE p == PayloadOf(line, 1)
<1>1. PICK m \in Messages : m = sn[i] /\ Begins(line, m, i)
  BY LenProperties
<1>2. /\ Len(m.rest) \in Nat /\ Len(line) \in Nat
      /\ 2 <= Len(m.rest) /\ 3 + Len(m.rest) <= Len(line)
      /\ \A k \in 1..(3 + Len(m.rest)) :
           /\ line[k].byte = Spelled(m)[k] /\ line[k].of = i /\ line[k].at = k
  BY <1>1, BeginsIs
<1>3. Stop(line, 1) = 4 /\ 1 \in 1..Len(line)
  BY <1>1, <1>2, BeginsFound
<1>4. PICK n \in Nat : n = Len(m.rest) - 2
  <2>1. PICK l \in Nat : l = Len(m.rest)
    BY <1>2
  <2>2. l - 2 \in Nat
    BY <1>2, <2>1
  <2>3. QED
    BY <2>1, <2>2
<1>5. Len(p) = Len(line) - 4 - 1
  BY <1>2, <1>3, PayloadLength
<1>6. \A k \in 1..Len(p) : p[k] = line[4 + 1 + k]
  BY <1>3, PayloadIs
<1> HIDE DEF p
<1>7. Len(p) \in Nat /\ n <= Len(p)
  BY <1>2, <1>4, <1>5
<1>8. Len(p) >= Need[m.name]
  <2>1. Need[m.name] \in Nat
    BY SpelledIs, MessageAssumption
  <2>2. Len(m.rest) >= 2 + Need[m.name]
    BY <1>1 DEF Begins
  <2>3. QED
    BY <1>2, <1>4, <1>7, <2>1, <2>2
<1> DEFINE q == [j \in 1..(Len(m.rest) - 2) |-> [byte |-> m.rest[j + 2], of |-> 0, at |-> j + 5]]
<1>9. SentValue(m) = Value(q)
  BY DEF SentValue
<1>10. Len(q) = n /\ \A j \in 1..n : q[j].byte = m.rest[j + 2]
  <2>1. q = [j \in 1..n |-> [byte |-> m.rest[j + 2], of |-> 0, at |-> j + 5]]
    BY <1>4
  <2> HIDE DEF q
  <2>2. q \in [1..n -> {q[j] : j \in 1..n}]
    BY <2>1
  <2>3. Len(q) = n
    BY <2>2
  <2>4. \A j \in 1..n : q[j] = [byte |-> m.rest[j + 2], of |-> 0, at |-> j + 5]
    BY <2>1
  <2>5. QED
    BY <2>3, <2>4
<1> HIDE DEF q
<1>11. ASSUME NEW k \in 1..n
       PROVE  p[k].byte = q[k].byte
  <2>1. /\ k + 2 \in 1..Len(m.rest) /\ 3 + (k + 2) = 4 + 1 + k
        /\ 4 + 1 + k \in 1..(3 + Len(m.rest)) /\ k \in 1..Len(p)
    BY <1>2, <1>4, <1>7
  <2>2. line[4 + 1 + k].byte = m.rest[k + 2]
    BY <1>2, <2>1, SpelledIs
  <2>3. QED
    BY <1>6, <1>10, <2>1, <2>2
<1>12. ASSUME n < Len(p)
       PROVE  p[n + 1].byte \notin Digits
  <2>1. PICK l \in Nat : l = 3 + Len(m.rest)
    BY <1>2
  <2>2. /\ l \in 1..(3 + Len(m.rest)) /\ l \in 1..(Len(line) - 1) /\ l + 1 \in 1..Len(line)
        /\ 4 + 1 + (n + 1) = l + 1 /\ n + 1 \in 1..Len(p)
    BY <1>2, <1>4, <1>5, <1>12, <2>1
  <2>3. line[l].of = i /\ line[l].at = l
    BY <1>2, <2>2
  <2>4. AtEnd(line[l], sn)
    BY <1>1, <2>1, <2>3, SpelledIs DEF AtEnd
  <2>5. line[l + 1].at = 1
    BY <2>2, <2>4 DEF Chained
  <2>6. /\ line[l + 1].of \in 1..Len(sn)
        /\ line[l + 1].byte = Spelled(sn[line[l + 1].of])[1]
    BY <2>2, <2>5 DEF Placed
  <2>7. sn[line[l + 1].of] \in Messages
    BY <2>6, LenProperties
  <2>8. line[l + 1].byte = "clockiot"
    BY <2>6, <2>7, SpelledIs
  <2>9. p[n + 1] = line[l + 1]
    BY <1>6, <2>2
  <2>10. QED
    BY <2>8, <2>9, MessageAssumption
<1>13. Value(p) = Value(q)
  BY <1>7, <1>10, <1>11, <1>12, ValueOfPrefix
<1>14. QED
  BY <1>1, <1>8, <1>9, <1>13 DEF p

\* A poll of such a line handles the message.
LEMMA PollBegun ==
  ASSUME IInv, Poll, ~overrun, NEW i \in DOMAIN sent, Begins(Line, sent[i], i)
  PROVE  handled' = [name |-> sent[i].name, value |-> SentValue(sent[i]), of |-> i]
<1>1. Take
  BY DEF Poll, PollNothing, PollTopic, PollUnknown, PollStale
<1>2. TypeOK /\ rx # <<>>
  BY <1>1 DEF IInv, Take
<1>3. Placed(Line, sent) /\ Chained(Line, sent)
  BY <1>2, LineFlows
<1>4. Line \in Seq(Units)
  BY <1>2, LineIs
<1>5. /\ sent \in Seq(Messages) /\ i \in 1..Len(sent) /\ i \in 0..MaxSent
      /\ sent[i] \in Messages
  <2>1. sent \in Seq(Messages) /\ Len(sent) \in Nat /\ Len(sent) <= MaxSent
    BY <1>2, Buffers DEF TypeOK
  <2>2. i \in 1..Len(sent)
    BY <2>1, LenProperties
  <2>3. QED
    BY <2>1, <2>2, SizeAssumption, LenProperties
<1> DEFINE t == TopicOf(Line, 1)
           p == PayloadOf(Line, 1)
<1>6. /\ Starts(Line) # {} /\ First(Starts(Line)) = 1
      /\ Len(t) = 3 /\ Matches(t) /\ t[3].byte = sent[i].name /\ t[3].of = i
  BY <1>4, <1>5, BeginsFound
<1>7. Len(p) >= Need[sent[i].name] /\ Value(p) = SentValue(sent[i])
  BY <1>3, <1>4, <1>5, BeginsValue
<1>8. PollTopic
  BY <1>6 DEF Poll, PollNothing, PollUnknown, PollStale
<1>9. HandleMsg(t[3].byte, p, t[3].of)
  BY <1>6, <1>8 DEF PollTopic
<1>10. HandleMsg(sent[i].name, p, i)
  BY <1>6, <1>9
<1> HIDE DEF t, p
<1>11. QED
  BY <1>7, <1>10 DEF HandleMsg

-----------------------------------------------------------------------------
(* The channel that the line implements. *)

\* What the host meant with the messages s.
MeantBy(s) == [i \in DOMAIN s |-> Meaning[s[i]]]

LEMMA MeantByIs ==
  ASSUME NEW s \in Seq(Messages)
  PROVE  /\ Len(MeantBy(s)) = Len(s) /\ Len(s) \in Nat
         /\ \A i \in 1..Len(s) :
              /\ s[i] \in Messages /\ s[i].name \in Names
              /\ MeantBy(s)[i] = [name |-> s[i].name, value |-> SentValue(s[i])]
              /\ MeantBy(s)[i] \in [name : Names, value : Seq(Digits)]
<1> DEFINE M == MeantBy(s)
<1>1. /\ Len(s) \in Nat /\ DOMAIN s = 1..Len(s)
      /\ \A i \in 1..Len(s) : s[i] \in Messages
  BY LenProperties
<1>2. \A m \in Messages : /\ Meaning[m] = [name |-> m.name, value |-> SentValue(m)]
                          /\ m.name \in Names
  BY SpelledIs DEF Meaning
<1>3. \A m \in Messages : SentValue(m) \in Seq(Digits)
  <2>1. \A j \in 1..0 : FALSE
    OBVIOUS
  <2>2. QED
    BY <2>1, SentValueIs
<1>4. M = [i \in 1..Len(s) |-> Meaning[s[i]]]
  BY <1>1 DEF MeantBy
<1> HIDE DEF M
<1>5. ASSUME NEW i \in 1..Len(s)
      PROVE  /\ s[i] \in Messages /\ s[i].name \in Names
             /\ M[i] = [name |-> s[i].name, value |-> SentValue(s[i])]
             /\ M[i] \in [name : Names, value : Seq(Digits)]
  <2>1. s[i] \in Messages /\ M[i] = Meaning[s[i]]
    BY <1>1, <1>4
  <2>2. M[i] = [name |-> s[i].name, value |-> SentValue(s[i])]
    BY <1>2, <2>1
  <2>3. s[i].name \in Names /\ SentValue(s[i]) \in Seq(Digits)
    BY <1>2, <1>3, <2>1
  <2>4. QED
    BY <2>1, <2>2, <2>3
<1>6. M \in [1..Len(s) -> [name : Names, value : Seq(Digits)]]
  BY <1>4, <1>5
<1>7. Len(M) = Len(s)
  BY <1>1, <1>6
<1>8. QED
  BY <1>1, <1>5, <1>7 DEF M

\* The messages as the host meant them, one for each that was sent.
LEMMA MeantIs ==
  ASSUME TypeOK
  PROVE  /\ Len(Meant) = Len(sent) /\ Len(sent) \in Nat
         /\ \A i \in 1..Len(sent) :
              /\ sent[i] \in Messages /\ sent[i].name \in Names
              /\ Meant[i] = [name |-> sent[i].name, value |-> SentValue(sent[i])]
              /\ Meant[i] \in [name : Names, value : Seq(Digits)]
<1>1. Meant = MeantBy(sent) /\ sent \in Seq(Messages)
  BY Buffers DEF Meant, MeantBy
<1>2. QED
  BY <1>1, MeantByIs

\* handle_msg with the name n of message i changes nothing or handles it.
LEMMA HandlesOf ==
  ASSUME NEW n, NEW p, Len(p) \in Nat, NEW i, HandleMsg(n, p, i)
  PROVE  \/ handled' = handled
         \/ handled' \in [name : {n}, value : Seq(Digits), of : {i}]
<1>1. Value(p) \in Seq(Digits)
  BY ValueIs
<1>2. QED
  BY <1>1 DEF HandleMsg

\* A poll that finds a topic takes the message whose name it found.
LEMMA PollTopicTakes ==
  ASSUME IInv, PollTopic
  PROVE  \E i \in 1..Len(sent) :
           /\ last' = i
           /\ \/ handled' = handled
              \/ handled' \in [name : {sent[i].name}, value : Seq(Digits), of : {i}]
<1> DEFINE start == First(Starts(Line))
           t == TopicOf(Line, start)
           p == PayloadOf(Line, start)
<1>1. /\ Take /\ Starts(Line) # {} /\ Matches(t)
      /\ HandleMsg(t[3].byte, p, t[3].of) /\ last' = t[3].of
  BY DEF PollTopic
<1>2. TypeOK /\ rx # <<>>
  BY <1>1 DEF IInv, Take
<1>3. Line \in Seq(Units) /\ Placed(Line, sent)
  BY <1>2, LineIs, LineFlows
<1>4. /\ start \in 1..Len(Line) /\ start + 2 \in 1..Len(Line)
      /\ t[3] = Line[start + 2] /\ t[3].byte \in Names
  BY <1>1, <1>3, TopicFound
<1>5. Len(p) \in Nat
  BY <1>3, <1>4, PayloadIs
<1> HIDE DEF t, p
<1>6. PICK a \in 1..Len(Line) : a = start + 2
  BY <1>4
<1> HIDE DEF start
<1>7. PICK u : u = Line[a] /\ u = t[3]
  BY <1>4, <1>6
<1>8. /\ u.of \in 1..Len(sent)
      /\ u.at \in 1..Len(Spelled(sent[u.of]))
      /\ u.byte = Spelled(sent[u.of])[u.at]
  BY <1>3, <1>7 DEF Placed
<1>9. sent[u.of] \in Messages
  BY <1>2, <1>8, MeantIs
<1>10. u.byte = sent[u.of].name
  <2>1. u.at = 3
    BY <1>4, <1>7, <1>8, <1>9, NameIsThird
  <2>2. QED
    BY <1>8, <1>9, <2>1, SpelledIs
<1>11. HandleMsg(sent[u.of].name, p, u.of) /\ last' = u.of
  BY <1>1, <1>7, <1>10
<1>12. \/ handled' = handled
       \/ handled' \in [name : {sent[u.of].name}, value : Seq(Digits), of : {u.of}]
  BY <1>5, <1>11, HandlesOf
<1>13. QED
  BY <1>8, <1>11, <1>12

\* The other calls of handle_msg have no message of the line.
LEMMA OthersAside ==
  ASSUME IInv,
         \/ PollNothing \/ PollUnknown \/ PollStale
         \/ \E m \in Messages : WebSocketText(m)
  PROVE  /\ UNCHANGED <<sent, last, overrun>>
         /\ \/ handled' = handled
            \/ handled' \in [name : Names, value : Seq(Digits), of : {0}]
<1>1. UNCHANGED <<sent, last, overrun>>
  BY DEF PollNothing, PollUnknown, PollStale, WebSocketText, Take
<1>2. CASE PollNothing \/ PollUnknown
  BY <1>1, <1>2 DEF PollNothing, PollUnknown
<1>3. CASE PollStale
  <2> DEFINE start == First(Starts(Line))
             p == PayloadOf(Line, start)
  <2>1. /\ Take /\ Starts(Line) # {}
        /\ \/ handled' = handled
           \/ topic # None /\ HandleMsg(topic, p, 0)
    BY <1>3 DEF PollStale
  <2>2. TypeOK /\ rx # <<>>
    BY <2>1 DEF IInv, Take
  <2>3. Line \in Seq(Units)
    BY <2>2, LineIs
  <2>4. start \in 1..Len(Line)
    <3>1. Starts(Line) \in SUBSET Nat /\ Starts(Line) \in SUBSET (1..Len(Line))
      BY <2>3, LenProperties DEF Starts
    <3>2. QED
      BY <2>1, <3>1, FirstIsLeast
  <2>5. Len(p) \in Nat
    BY <2>3, <2>4, PayloadIs
  <2> HIDE DEF p
  <2>6. topic # None => topic \in Names
    BY <2>2 DEF TypeOK
  <2>7. \/ handled' = handled
        \/ topic \in Names /\ handled' \in [name : {topic}, value : Seq(Digits), of : {0}]
    BY <2>1, <2>5, <2>6, HandlesOf
  <2>8. QED
    BY <1>1, <2>7
<1>4. CASE \E m \in Messages : WebSocketText(m)
  <2>1. PICK m \in Messages : WebSocketText(m)
    BY <1>4
  <2> DEFINE text == Text(m, 0)
             p == PayloadOf(text, 1)
             n == TopicOf(text, 1)[3].byte
  <2>2. Matches(TopicOf(text, 1)) /\ HandleMsg(n, p, 0)
    BY <2>1 DEF WebSocketText
  <2>3. n \in Names
    BY <2>2 DEF Matches
  <2>4. text \in Seq(Units) /\ 1 \in 1..Len(text)
    <3>1. 0 \in 0..MaxSent
      BY SizeAssumption
    <3>2. text \in Seq(Units) /\ Len(text) = 3 + Len(m.rest)
      BY <3>1, TextIs
    <3>3. Len(m.rest) \in Nat
      BY SpelledIs
    <3>4. QED
      BY <3>2, <3>3
  <2> HIDE DEF text
  <2>5. Len(p) \in Nat
    BY <2>4, PayloadIs
  <2> HIDE DEF n, p
  <2>6. \/ handled' = handled
        \/ handled' \in [name : {n}, value : Seq(Digits), of : {0}]
    BY <2>2, <2>5, HandlesOf
  <2>7. QED
    BY <1>1, <2>3, <2>6
<1>5. QED
  BY <1>2, <1>3, <1>4

\* Steps that leave what was sent leave what was meant.
LEMMA MeantStays ==
  ASSUME sent' = sent
  PROVE  Meant' = Meant
BY DEF Meant

\* One more message sent is one more message meant.
LEMMA MeantGrows ==
  ASSUME TypeOK, NEW m \in Messages, sent' = Append(sent, m)
  PROVE  /\ Len(Meant') = Len(Meant) + 1
         /\ \A i \in 1..Len(Meant) : Meant'[i] = Meant[i]
         /\ Meant'[Len(Meant')] \in [name : Names, value : Seq(Digits)]
<1>1. /\ sent \in Seq(Messages) /\ sent' \in Seq(Messages) /\ Len(sent) \in Nat
      /\ Len(sent') = Len(sent) + 1 /\ \A i \in 1..Len(sent) : sent'[i] = sent[i]
  BY Buffers, AppendProperties
<1>2. PICK s \in Seq(Messages) : s = sent'
  BY <1>1
<1>3. PICK l \in Nat : l = Len(sent)
  BY <1>1
<1>4. Meant = MeantBy(sent) /\ Meant' = MeantBy(s)
  BY <1>2 DEF Meant, MeantBy
<1>5. /\ Len(Meant) = l
      /\ \A i \in 1..l : Meant[i] = [name |-> sent[i].name, value |-> SentValue(sent[i])]
  BY <1>1, <1>3, <1>4, MeantByIs
<1>6. /\ Len(Meant') = l + 1
      /\ \A i \in 1..(l + 1) :
           /\ Meant'[i] = [name |-> s[i].name, value |-> SentValue(s[i])]
           /\ Meant'[i] \in [name : Names, value : Seq(Digits)]
  BY <1>1, <1>2, <1>3, <1>4, MeantByIs
<1>7. \A i \in 1..l : i \in 1..(l + 1) /\ s[i] = sent[i]
  BY <1>1, <1>2, <1>3
<1>8. l + 1 \in 1..(l + 1)
  OBVIOUS
<1>9. QED
  BY <1>5, <1>6, <1>7, <1>8

\* Every step of the line is a step of the channel.
LEMMA ChannelStep ==
  ASSUME IInv, [Next]_vars
  PROVE  [Channel!Next]_(Channel!vars)
<1>1. IInv' /\ InOrder
  BY Step
<1>2. TypeOK /\ TypeOK' /\ Credited'
  BY <1>1 DEF IInv
<1>3. CASE \E m \in Messages : Send(m)
  <2>1. PICK m \in Messages : Send(m)
    BY <1>3
  <2>2. sent' = Append(sent, m) /\ UNCHANGED <<last, handled, overrun>>
    BY <2>1 DEF Send
  <2>3. Channel!Submit
    BY <1>2, <2>2, MeantGrows DEF Channel!Submit
  <2>4. QED
    BY <2>3 DEF Channel!Next
<1>4. CASE Arrive
  <2>1. UNCHANGED <<sent, last, handled>> /\ (overrun' = overrun \/ overrun' = TRUE)
    BY <1>4 DEF Arrive
  <2>2. Meant' = Meant
    BY <2>1, MeantStays
  <2>3. QED
    BY <2>1, <2>2 DEF Channel!Next, Channel!Damage, Channel!vars
<1>5. CASE PollTopic
  <2>1. UNCHANGED <<sent, overrun>>
    BY <1>5 DEF PollTopic, Take
  <2>2. Meant' = Meant
    BY <2>1, MeantStays
  <2>3. PICK i \in 1..Len(sent) :
          /\ last' = i
          /\ \/ handled' = handled
             \/ handled' \in [name : {sent[i].name}, value : Seq(Digits), of : {i}]
    BY <1>5, PollTopicTakes
  <2>4. CASE last' = last /\ handled' = handled
    BY <2>1, <2>2, <2>4 DEF Channel!vars
  <2>5. CASE ~(last' = last /\ handled' = handled)
    <3>1. Len(Meant) = Len(sent) /\ Meant[i] = [name |-> sent[i].name, value |-> SentValue(sent[i])]
      BY <1>2, MeantIs
    <3>2. i > last
      <4>1. CASE last' # last
        BY <1>1, <2>3, <4>1 DEF InOrder
      <4>2. CASE handled' # handled
        <5>1. handled'.of = i /\ i # 0
          BY <1>2, <2>3, <4>2, MeantIs
        <5>2. QED
          BY <1>1, <2>3, <4>2, <5>1 DEF InOrder
      <4>3. QED
        BY <2>5, <4>1, <4>2
    <3>3. handled' = handled \/ Channel!Serves(handled', i)
      <4> SUFFICES ASSUME handled' # handled
                   PROVE  Channel!Serves(handled', i)
        OBVIOUS
      <4>1. PICK h : h = handled'
        OBVIOUS
      <4>2. h \in [name : {sent[i].name}, value : Seq(Digits), of : {i}]
        BY <2>3, <4>1
      <4>3. overrun \/ h.value = SubSeq(SentValue(sent[i]), 1, Len(h.value))
        <5> SUFFICES ASSUME ~overrun
                     PROVE  h.value = SubSeq(SentValue(sent[i]), 1, Len(h.value))
          OBVIOUS
        <5>1. h.of = i /\ i # 0
          BY <1>2, <4>2, MeantIs
        <5>2. Own(h, sent) \/ h = None
          BY <1>2, <2>1, <4>1, <5>1 DEF Credited
        <5>3. h # None
          <6>1. i \in Nat /\ i \in 1..Len(sent)
            OBVIOUS
          <6>2. \A j \in 1..Len(sent) : sent[j].name \in Names
            BY <1>2, MeantIs
          <6>3. sent[i].name \in Names
            BY ONLY <6>1, <6>2
          <6>4. h \in [name : Names, value : Seq(Digits), of : Nat]
            BY <4>2, <6>1, <6>3
          <6>5. QED
            BY <6>4, MessageAssumption
        <5>4. QED
          BY <5>1, <5>2, <5>3 DEF Own
      <4>4. QED
        BY <3>1, <4>1, <4>2, <4>3 DEF Channel!Serves
    <3>4. Channel!Take(i)
      BY <2>1, <2>2, <2>3, <3>2, <3>3 DEF Channel!Take
    <3>5. QED
      BY <3>1, <3>4 DEF Channel!Next
  <2>6. QED
    BY <2>4, <2>5
<1>6. CASE \/ PollNothing \/ PollUnknown \/ PollStale
           \/ \E m \in Messages : WebSocketText(m)
  <2>1. /\ UNCHANGED <<sent, last, overrun>>
        /\ \/ handled' = handled
           \/ handled' \in [name : Names, value : Seq(Digits), of : {0}]
    BY <1>6, OthersAside
  <2>2. Meant' = Meant
    BY <2>1, MeantStays
  <2>3. QED
    BY <2>1, <2>2 DEF Channel!Next, Channel!Aside, Channel!vars
<1>7. CASE Restart
  <2>1. UNCHANGED <<sent, handled, last, overrun>>
    BY <1>7 DEF Restart
  <2>2. QED
    BY <2>1, MeantStays DEF Channel!vars
<1>8. CASE UNCHANGED vars
  <2>1. UNCHANGED <<sent, handled, last, overrun>>
    BY <1>8 DEF vars
  <2>2. QED
    BY <2>1, MeantStays DEF Channel!vars
<1>9. QED
  BY <1>3, <1>4, <1>5, <1>6, <1>7, <1>8 DEF Next, Poll

-----------------------------------------------------------------------------
(* A topic cut short. *)

\* What topic_c_str holds is the name that was handled last.
TopicInv == topic # None => last \in 1..Len(sent) /\ topic = sent[last].name

\* A unit with a name is the third of its message.
LEMMA NameOfUnit ==
  ASSUME NEW sn \in Seq(Messages), NEW u,
         u.of \in 1..Len(sn), u.at \in 1..Len(Spelled(sn[u.of])),
         u.byte = Spelled(sn[u.of])[u.at], u.byte \in Names
  PROVE  u.byte = sn[u.of].name
<1>1. sn[u.of] \in Messages
  BY LenProperties
<1>2. u.at = 3
  BY <1>1, NameIsThird
<1>3. QED
  BY <1>1, <1>2, SpelledIs

\* Every step keeps it: a topic comes with the message it is the name of.
LEMMA TopicStep == IInv /\ TopicInv /\ [Next]_vars => TopicInv'
<1> SUFFICES ASSUME IInv, TopicInv, [Next]_vars
             PROVE  TopicInv'
  OBVIOUS
<1>1. TypeOK
  BY DEF IInv
<1>2. CASE \E m \in Messages : Send(m)
  <2>1. PICK m \in Messages : Send(m)
    BY <1>2
  <2>2. sent' = Append(sent, m) /\ UNCHANGED <<topic, last>>
    BY <2>1 DEF Send
  <2>3. /\ Len(sent) \in Nat /\ Len(sent') = Len(sent) + 1
        /\ \A i \in 1..Len(sent) : sent'[i] = sent[i]
    BY <1>1, <2>2, Buffers, AppendProperties
  <2>4. QED
    BY <2>2, <2>3 DEF TopicInv
<1>3. CASE \/ Arrive \/ PollNothing
           \/ \E m \in Messages : WebSocketText(m)
  BY <1>3 DEF Arrive, PollNothing, WebSocketText, Take, TopicInv
<1>4. CASE PollUnknown \/ PollStale \/ Restart
  BY <1>4 DEF PollUnknown, PollStale, Restart, Take, TopicInv
<1>5. CASE PollTopic
  <2> DEFINE start == First(Starts(Line))
             t == TopicOf(Line, start)
  <2>1. /\ Take /\ Starts(Line) # {} /\ Matches(t)
        /\ topic' = t[3].byte /\ last' = t[3].of /\ sent' = sent
    BY <1>5 DEF PollTopic, Take
  <2>2. Line \in Seq(Units) /\ Placed(Line, sent) /\ sent \in Seq(Messages)
    BY <1>1, <2>1, LineIs, LineFlows, Buffers DEF Take
  <2>3. start + 2 \in 1..Len(Line) /\ t[3] = Line[start + 2] /\ t[3].byte \in Names
    BY <2>1, <2>2, TopicFound
  <2> HIDE DEF t
  <2>4. PICK a \in 1..Len(Line) : a = start + 2
    BY <2>3
  <2> HIDE DEF start
  <2>5. PICK u : u = Line[a] /\ u = t[3]
    BY <2>3, <2>4
  <2>6. /\ u.of \in 1..Len(sent)
        /\ u.at \in 1..Len(Spelled(sent[u.of]))
        /\ u.byte = Spelled(sent[u.of])[u.at]
    BY <2>2, <2>5 DEF Placed
  <2>7. u.byte = sent[u.of].name
    BY <2>2, <2>3, <2>5, <2>6, NameOfUnit
  <2>8. QED
    BY <2>1, <2>5, <2>6, <2>7 DEF TopicInv
<1>6. CASE UNCHANGED vars
  BY <1>6 DEF vars, TopicInv
<1>7. QED
  BY <1>2, <1>3, <1>4, <1>5, <1>6 DEF Next, Poll

\* While nothing is dropped, a topic that is the word alone ends with the line:
\* what follows the word in a message is a slash and a name.
LEMMA WordAlone ==
  ASSUME NEW line \in Seq(Units), NEW sn \in Seq(Messages),
         Placed(line, sn), Chained(line, sn), Starts(line) # {},
         NEW start, start = First(Starts(line)), Len(TopicOf(line, start)) = 1
  PROVE  /\ start \in 1..Len(line)
         /\ Len(PayloadOf(line, start)) = 0
<1>1. Starts(line) \in SUBSET Nat /\ Starts(line) \in SUBSET (1..Len(line))
  BY LenProperties DEF Starts
<1>2. start \in Starts(line) /\ start \in 1..Len(line)
  BY <1>1, FirstIsLeast
<1>3. line[start].byte = "clockiot" /\ Len(line) \in Nat
  BY <1>2, LenProperties DEF Starts
<1>4. PICK e : e = Stop(line, start)
  OBVIOUS
<1>5. /\ e \in start..(Len(line) + 1)
      /\ e # Len(line) + 1 => /\ e + 1 <= Len(line)
                              /\ line[e].byte = "/" /\ line[e + 1].byte = "/"
  BY <1>2, <1>3, <1>4, StopIs
<1>6. e = start + 1
  <2>1. 1 = e - start
    BY <1>2, <1>4, TopicIs
  <2>2. e \in Int /\ start \in Int
    BY <1>2, <1>5
  <2>3. QED
    BY <2>1, <2>2
<1>7. e = Len(line) + 1
  <2> SUFFICES ASSUME e # Len(line) + 1
               PROVE  FALSE
    OBVIOUS
  <2>1. /\ start + 1 \in 1..Len(line) /\ line[start + 1].byte = "/"
        /\ start + 2 \in 1..Len(line) /\ line[start + 2].byte = "/"
        /\ (start + 1) + 1 = start + 2
    BY <1>2, <1>3, <1>5, <1>6
  <2>2. PICK u, v, w : u = line[start] /\ v = line[start + 1] /\ w = line[start + 2]
    OBVIOUS
  <2>3. v.of = u.of /\ v.at = u.at + 1
    BY <1>2, <2>1, <2>2, SameMessage
  <2>4. w.of = v.of /\ w.at = v.at + 1
    BY <2>1, <2>2, SameMessage
  <2>5. /\ u.of \in 1..Len(sn) /\ u.at \in 1..Len(Spelled(sn[u.of]))
        /\ u.byte = Spelled(sn[u.of])[u.at]
        /\ w.byte = Spelled(sn[w.of])[w.at]
    BY <1>2, <2>1, <2>2 DEF Placed
  <2>6. sn[u.of] \in Messages
    BY <2>5, LenProperties
  <2>7. u.at = 1
    BY <1>3, <2>2, <2>5, <2>6, WordIsFirst
  <2>8. w.byte = sn[u.of].name /\ sn[u.of].name \in Names
    BY <2>3, <2>4, <2>5, <2>6, <2>7, SpelledIs
  <2>9. w.byte = "/"
    BY <2>1, <2>2
  <2>10. QED
    BY <2>8, <2>9, MessageAssumption
<1>8. Len(PayloadOf(line, start)) \in Nat
      /\ \A k \in 1..Len(PayloadOf(line, start)) :
           Stop(line, start) + 1 + k \in 1..Len(line)
  BY <1>2, PayloadIs
<1>9. PICK n \in Nat : n = Len(PayloadOf(line, start))
  BY <1>8
<1>10. \A k \in 1..n : e + 1 + k \in 1..Len(line)
  BY <1>4, <1>8, <1>9
<1>11. n = 0
  <2>1. n > 0 => e + 1 + 1 \in 1..Len(line)
    BY <1>10
  <2>2. QED
    BY <1>3, <1>7, <2>1
<1>12. QED
  BY <1>2, <1>9, <1>11

\* What a poll on a stale topic can do.
Repeats ==
  (Poll /\ handled' # handled /\ handled'.of = 0)
    => /\ last # 0
       /\ handled'.name = sent[last].name
       /\ ~overrun => handled'.value = <<>>

\* A poll that handles no message repeats the last one, or nothing.
LEMMA PollRepeats == IInv /\ TopicInv => Repeats
<1> SUFFICES ASSUME IInv, TopicInv, Poll, handled' # handled, handled'.of = 0
             PROVE  /\ last # 0
                    /\ handled'.name = sent[last].name
                    /\ ~overrun => handled'.value = <<>>
  BY DEF Repeats
<1>1. TypeOK
  BY DEF IInv
<1>2. ~PollTopic
  <2> SUFFICES ASSUME PollTopic
               PROVE  FALSE
    OBVIOUS
  <2>1. PICK i \in 1..Len(sent) :
          handled' \in [name : {sent[i].name}, value : Seq(Digits), of : {i}]
    BY PollTopicTakes
  <2>2. i # 0
    BY <1>1, Buffers
  <2>3. QED
    BY <2>1, <2>2
<1>3. PollStale
  BY <1>2 DEF Poll, PollNothing, PollUnknown
<1> DEFINE start == First(Starts(Line))
           t == TopicOf(Line, start)
           p == PayloadOf(Line, start)
<1>4. /\ rx # <<>> /\ Starts(Line) # {} /\ Len(t) = 1
      /\ topic # None /\ HandleMsg(topic, p, 0)
  BY <1>3 DEF PollStale, Take
<1>5. handled' = [name |-> topic, value |-> Value(p), of |-> 0]
  BY <1>4 DEF HandleMsg
<1>6. last # 0 /\ topic = sent[last].name
  <2>1. 0 \notin 1..Len(sent)
    BY <1>1, Buffers
  <2>2. QED
    BY <1>4, <2>1 DEF TopicInv
<1>7. ASSUME ~overrun
      PROVE  Value(p) = <<>>
  <2>1. /\ Line \in Seq(Units) /\ sent \in Seq(Messages)
        /\ Placed(Line, sent) /\ Chained(Line, sent)
    BY <1>1, <1>4, <1>7, LineIs, LineFlows, Buffers
  <2>2. Len(p) = 0
    BY <1>4, <2>1, WordAlone
  <2>3. Value(p) \in Seq(Digits) /\ Len(Value(p)) \in Nat /\ Len(Value(p)) <= Len(p)
    <3> HIDE DEF p
    <3>1. QED
      BY <2>2, ValueIs
  <2> HIDE DEF p
  <2>4. QED
    BY <2>2, <2>3, EmptySeq
<1>8. QED
  BY <1>5, <1>6, <1>7

-----------------------------------------------------------------------------
(* The theorems. *)

\* Type correctness; no buffer outgrows its size.
THEOREM TypeCorrect == Spec => []TypeOK
<1>1. IInv => TypeOK
  BY DEF IInv
<1>2. QED
  BY <1>1, Invariance, PTL

\* However the stream is cut and joined, a message is handled with its own name
\* and digits of its own payload, as long as the driver drops nothing.
THEOREM ValueIsOwnCorrect == Spec => []ValueIsOwn
<1>1. IInv => ValueIsOwn
  BY DEF IInv, Credited, Own, ValueIsOwn
<1>2. QED
  BY <1>1, Invariance, PTL

\* No message is handled twice, and none after a later one, whatever is dropped
\* and however often the board restarts.
THEOREM HandledInOrderCorrect == Spec => HandledInOrder
<1>1. IInv /\ [Next]_vars =>
        [(last' # last \/ (handled' # handled /\ handled'.of # 0)) => last' > last]_vars
  BY Step DEF InOrder
<1>2. QED
  BY <1>1, Invariance, PTL DEF Spec, HandledInOrder

\* A whole message at the beginning of the line is handled with its name and
\* the whole number it was sent with, whatever has arrived behind it.
THEOREM WholeMessageIsHandledCorrect == Spec => WholeMessageIsHandled
<1> DEFINE Whole ==
      \A i \in DOMAIN sent :
        LET m == sent[i]
            text == Text(m, i)
        IN  (/\ Poll
             /\ ~overrun
             /\ Len(m.rest) >= 2 + Need[m.name]
             /\ m.rest[1] = "/" /\ m.rest[2] = "/"
             /\ Len(text) <= Len(Line)
             /\ SubSeq(Line, 1, Len(text)) = text)
            => handled' = [name |-> m.name, value |-> SentValue(m), of |-> i]
<1>1. IInv => Whole
  BY PollBegun DEF Begins
<1>2. IInv /\ [Next]_vars => [Whole]_vars
  BY <1>1
<1>3. QED
  BY <1>2, Invariance, PTL DEF Spec, WholeMessageIsHandled

\* A poll on a topic cut short repeats the name that was handled last at most,
\* and with no number as long as the driver drops nothing.
THEOREM StaleRepeatsNameCorrect == Spec => StaleRepeatsName
<1>1. Init => TopicInv
  BY DEF Init, TopicInv
<1>2. IInv /\ TopicInv => Repeats
  BY PollRepeats
<1>3. IInv /\ TopicInv /\ [Next]_vars => [Repeats]_vars
  BY <1>2
<1>4. QED
  BY <1>1, <1>3, TopicStep, Invariance, PTL DEF Spec, StaleRepeatsName, Repeats

\* The line implements the channel: polls that cut and join what arrives,
\* overruns and restarts lose messages, but take none twice, none out of order,
\* and none with a name or, while nothing is dropped, with digits of another.
THEOREM MessagesAreDeliveredCorrect == Spec => MessagesAreDelivered
<1>1. Init => Channel!Init
  <2> SUFFICES ASSUME Init
               PROVE  Channel!Init
    OBVIOUS
  <2>1. Meant = <<>>
    <3>1. Meant = [i \in {} |-> Meaning[sent[i]]]
      BY DEF Init, Meant
    <3>2. QED
      BY <3>1
  <2>2. QED
    BY <2>1 DEF Init, Channel!Init
<1>2. IInv /\ [Next]_vars => [Channel!Next]_(Channel!vars)
  BY ChannelStep
<1>3. QED
  BY <1>1, <1>2, Invariance, PTL DEF Spec, MessagesAreDelivered, Channel!Spec
=============================================================================
