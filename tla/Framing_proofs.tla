---------------------------- MODULE Framing_proofs ----------------------------
(***************************************************************************)
(* Why what comes out of a stream is the messages that were sent, wherever *)
(* it is cut: for any messages shorter than 256 bytes and any chunks.      *)
(***************************************************************************)
EXTENDS Framing, SequenceTheorems, WellFoundedInduction, TLAPS

-----------------------------------------------------------------------------
(* The inductive invariant. *)

\* The bytes that have not been handed on yet.
Rest == partial \o wire

\* Bytes of message n, header and payload.
Size(n) == HeaderSize + Length[n]

\* Each byte is followed by the next one.
Chained(s) == \A i \in 1..(Len(s) - 1) : s[i + 1] = NextByte(s[i])

\* While the stream is good, whole messages were handed on and nothing else.
AllWhole == good => \A i \in 1..Len(handed) : handed[i] = Payload(i)

\* Every byte is one of a message that was sent.
OnlySent == good => \A i \in 1..Len(Rest) : Rest[i][1] <= sent

\* The inductive invariant.
FramingInv == TypeOK /\ WholeAndInOrder /\ NoByteLost /\ AllWhole /\ OnlySent

-----------------------------------------------------------------------------
(* Numbers and bytes. *)

\* The smaller and the greater of two numbers.
Below == {p \in Nat \X Nat : p[1] < p[2]}

\* There is no endless way down in the natural numbers.
LEMMA BelowWellFounded == IsWellFoundedOn(Below, Nat)
<1>1. IsWellFoundedOn(OpToRel(<, Nat), Nat)
  BY NatLessThanWellFounded
<1>2. OpToRel(<, Nat) = Below
  BY DEF OpToRel, Below
<1>. QED
  BY <1>1, <1>2

\* A set of numbers that is not empty has a least one.
LEMMA LeastNumber ==
  ASSUME NEW T \in SUBSET Nat, T # {}
  PROVE  \E x \in T : \A y \in T : x <= y
<1>1. \E x \in T : \A y \in T : ~(<<y, x>> \in Below)
  BY BelowWellFounded, WFMin
<1>2. PICK x \in T : \A y \in T : ~(<<y, x>> \in Below)
  BY <1>1
<1>3. \A y \in T : x \in Nat /\ y \in Nat /\ ~(y < x)
  BY <1>2 DEF Below
<1>4. \A y \in T : x <= y
  BY <1>3
<1>. QED
  BY <1>4

\* The sizes of messages.
LEMMA Sizes ==
  /\ N \in Nat /\ HeaderSize = 4
  /\ \A n \in Messages : /\ n \in Nat /\ n >= 1 /\ n <= N
                         /\ Length[n] \in Nat /\ Length[n] >= 1 /\ Length[n] <= MaxLength
                         /\ Size(n) \in Nat /\ Size(n) = 4 + Length[n]
<1>1. N \in Nat /\ HeaderSize = 4
  BY FramingAssumption DEF HeaderSize
<1>2. ASSUME NEW n \in Messages
      PROVE  /\ n \in Nat /\ n >= 1 /\ n <= N
             /\ Length[n] \in Nat /\ Length[n] >= 1 /\ Length[n] <= MaxLength
             /\ Size(n) \in Nat /\ Size(n) = 4 + Length[n]
  <2>1. n \in Nat /\ n >= 1 /\ n <= N
    BY <1>1 DEF Messages
  <2>2. Length[n] \in 1..MaxLength
    BY FramingAssumption
  <2>3. Length[n] \in Nat /\ Length[n] >= 1 /\ Length[n] <= MaxLength
    BY <2>2 DEF MaxLength
  <2> QED
    BY <1>1, <2>1, <2>3 DEF Size
<1>. QED
  BY <1>1, <1>2

\* A message is its bytes from the first to the last.
LEMMA MessageBytes ==
  ASSUME NEW n \in Messages
  PROVE  /\ Message(n) \in Seq(Bytes) /\ Len(Message(n)) = Size(n)
         /\ \A i \in 1..Size(n) : Message(n)[i] = <<n, i>> /\ Message(n)[i] \in Bytes
         /\ Payload(n) # <<>> /\ Payload(n) \in Seq(Bytes)
<1>1. \A i \in 1..Size(n) : <<n, i>> \in Bytes
  BY Sizes DEF Bytes, HeaderSize, MaxLength
<1>2. Message(n) = [i \in 1..Size(n) |-> <<n, i>>]
  BY DEF Message, Size
<1>3. Message(n) \in Seq(Bytes) /\ Len(Message(n)) = Size(n)
  BY <1>1, <1>2, Sizes
<1>4. /\ Payload(n) \in Seq(Bytes)
      /\ Len(Payload(n)) = Length[n]
  <2>1. /\ HeaderSize + 1 \in Int /\ HeaderSize + Length[n] \in Int
        /\ \A i \in (HeaderSize + 1)..(HeaderSize + Length[n]) : Message(n)[i] \in Bytes
    BY <1>1, <1>2, Sizes
  <2> QED
    BY <2>1, Sizes, SubSeqProperties DEF Payload
<1>5. Payload(n) # <<>>
  BY <1>4, Sizes
<1>6. \A i \in 1..Size(n) : Message(n)[i] = <<n, i>>
  BY <1>2
<1>. QED
  BY <1>1, <1>3, <1>4, <1>5, <1>6

\* As long as each byte is followed by the next one, a message that begins goes on
\* to its end.
LEMMA MessageFollows ==
  ASSUME NEW n \in Messages, NEW s \in Seq(Bytes), s # <<>>, s[1] = <<n, 1>>, Chained(s)
  PROVE  \A i \in 1..Size(n) : i <= Len(s) => s[i] = <<n, i>>
<1> DEFINE wrong == {i \in 1..Size(n) : i <= Len(s) /\ s[i] # <<n, i>>}
<1> SUFFICES ASSUME wrong # {}
             PROVE  FALSE
  OBVIOUS
<1>1. Len(s) \in Nat /\ Size(n) \in Nat
  BY Sizes
<1>2. wrong \in SUBSET Nat
  BY <1>1
<1>3. PICK x \in wrong : \A y \in wrong : x <= y
  BY <1>2, LeastNumber
<1>4. x \in 1..Size(n) /\ x <= Len(s) /\ s[x] # <<n, x>> /\ x # 1
  BY <1>3
<1>5. s[x - 1] = <<n, x - 1>>
  <2>1. x - 1 \in 1..Size(n) /\ x - 1 <= Len(s) /\ ~(x <= x - 1)
    BY <1>1, <1>4
  <2> QED
    BY <1>3, <2>1
<1>6. s[x] = NextByte(<<n, x - 1>>)
  <2>1. x - 1 \in 1..(Len(s) - 1) /\ (x - 1) + 1 = x
    BY <1>1, <1>4
  <2> QED
    BY <1>5, <2>1 DEF Chained
<1>7. x - 1 < HeaderSize + Length[n] /\ (x - 1) + 1 = x
  BY <1>1, <1>4 DEF Size
<1>8. NextByte(<<n, x - 1>>) = <<n, x>>
  BY <1>7 DEF NextByte
<1>. QED
  BY <1>4, <1>6, <1>8

\* After the last byte of a message comes the first one of the next message.
LEMMA LastByte ==
  ASSUME NEW n \in Messages
  PROVE  NextByte(<<n, Size(n)>>) = <<n + 1, 1>>
<1>1. ~(Size(n) < HeaderSize + Length[n])
  BY Sizes DEF Size
<1>. QED
  BY <1>1 DEF NextByte

\* The header of a message tells its length.
LEMMA HeaderTells ==
  ASSUME NEW n \in Messages, NEW data \in Seq(Bytes), Len(data) >= HeaderSize,
         \A i \in 1..HeaderSize : data[i] = <<n, i>>
  PROVE  DataSize(data) = {Length[n]}
<1>1. /\ HeaderSize \in Int /\ 1 \in Int /\ HeaderSize = 4 /\ Len(data) \in Nat
  BY Sizes
<1>2. \A i \in 1..HeaderSize : data[i] \in Bytes
  BY <1>1
<1> DEFINE head == SubSeq(data, 1, HeaderSize)
<1>3. /\ head \in Seq(Bytes) /\ Len(head) = HeaderSize
      /\ \A i \in 1..HeaderSize : head[i] = <<n, i>>
  BY <1>1, <1>2, SubSeqProperties
<1>4. ASSUME NEW m \in Messages
      PROVE  /\ Header(m) \in Seq(Bytes) /\ Len(Header(m)) = HeaderSize
             /\ \A i \in 1..HeaderSize : Header(m)[i] = <<m, i>>
  <2>1. \A i \in 1..HeaderSize : i \in 1..Size(m)
    BY <1>1, Sizes
  <2>2. \A i \in 1..HeaderSize : i \in 1..Size(m) /\ Message(m)[i] \in Bytes
    BY <2>1, MessageBytes
  <2>3. \A i \in 1..HeaderSize : Message(m)[i] = <<m, i>>
    BY <2>2, MessageBytes
  <2> QED
    BY <1>1, <2>2, <2>3, SubSeqProperties DEF Header
<1>5. head = Header(n)
  BY <1>3, <1>4, SeqEqual
<1>6. ASSUME NEW m \in Messages, head = Header(m)
      PROVE  m = n
  BY <1>1, <1>3, <1>4, <1>6
<1>7. {m \in Messages : head = Header(m)} = {n}
  BY <1>5, <1>6
<1>8. {Length[m] : m \in {n}} = {Length[n]}
  OBVIOUS
<1>. QED
  BY <1>7, <1>8 DEF DataSize

\* What follows the header is the payload.
LEMMA PayloadFollows ==
  ASSUME NEW n \in Messages, NEW data \in Seq(Bytes), Len(data) >= Size(n),
         \A i \in 1..Size(n) : data[i] = <<n, i>>
  PROVE  SubSeq(data, HeaderSize + 1, HeaderSize + Length[n]) = Payload(n)
<1>1. /\ HeaderSize + 1 \in Int /\ HeaderSize + Length[n] \in Int /\ HeaderSize = 4
      /\ Length[n] \in Nat /\ Size(n) = HeaderSize + Length[n] /\ Length[n] >= 1
  BY Sizes
<1>2. \A i \in (HeaderSize + 1)..(HeaderSize + Length[n]) : i \in 1..Size(n)
  BY <1>1
<1>3. \A i \in (HeaderSize + 1)..(HeaderSize + Length[n]) :
        data[i] = Message(n)[i] /\ Message(n)[i] \in Bytes
  BY <1>2, MessageBytes
<1> DEFINE part == SubSeq(data, HeaderSize + 1, HeaderSize + Length[n])
<1>4. /\ part \in Seq(Bytes) /\ Len(part) = Length[n]
      /\ \A i \in 1..Length[n] : part[i] = data[HeaderSize + i]
  <2>1. \A i \in (HeaderSize + 1)..(HeaderSize + Length[n]) : data[i] \in Bytes
    BY <1>3
  <2> QED
    BY <1>1, <2>1, SubSeqProperties
<1>5. /\ Payload(n) \in Seq(Bytes) /\ Len(Payload(n)) = Length[n]
      /\ \A i \in 1..Length[n] : Payload(n)[i] = Message(n)[HeaderSize + i]
  <2>1. \A i \in (HeaderSize + 1)..(HeaderSize + Length[n]) : Message(n)[i] \in Bytes
    BY <1>3
  <2> QED
    BY <1>1, <2>1, SubSeqProperties DEF Payload
<1>6. \A i \in 1..Length[n] : part[i] = Payload(n)[i]
  <2>1. \A i \in 1..Length[n] : HeaderSize + i \in (HeaderSize + 1)..(HeaderSize + Length[n])
    BY <1>1
  <2>2. \A i \in 1..Length[n] : data[HeaderSize + i] = Message(n)[HeaderSize + i]
    BY <1>3, <2>1
  <2> QED
    BY <1>4, <1>5, <2>2
<1>. QED
  BY <1>4, <1>5, <1>6, SeqEqual

-----------------------------------------------------------------------------
(* Streams of messages. *)

\* The bytes s go on from the beginning of message h + 1 to the end of message n.
GoesOn(s, h, n) ==
  /\ IF s = <<>> THEN h = n
     ELSE s[1] = <<h + 1, 1>> /\ Chained(s) /\ s[Len(s)] = <<n, Size(n)>>
  /\ \A i \in 1..Len(s) : s[i][1] <= n

\* What is cut off in front leaves the rest where it is.
LEMMA CutOff ==
  ASSUME NEW s \in Seq(Bytes), NEW t \in Seq(Bytes), NEW a \in 0..Len(s)
  PROVE  LET rest == SubSeq(s, a + 1, Len(s)) \o t
         IN  /\ SubSeq(s, a + 1, Len(s)) \in Seq(Bytes) /\ rest \in Seq(Bytes)
             /\ Len(rest) = Len(s \o t) - a
             /\ \A i \in 1..Len(rest) : rest[i] = (s \o t)[a + i]
<1> DEFINE kept == SubSeq(s, a + 1, Len(s))
<1>1. /\ a \in Nat /\ Len(s) \in Nat /\ Len(t) \in Nat /\ a + 1 \in Int /\ Len(s) \in Int
      /\ a <= Len(s) /\ \A i \in (a + 1)..Len(s) : s[i] \in Bytes
  OBVIOUS
<1>2. /\ kept \in Seq(Bytes)
      /\ Len(kept) = Len(s) - a
      /\ \A i \in 1..(Len(s) - a) : kept[i] = s[a + i]
  BY <1>1, SubSeqProperties
<1> HIDE DEF kept
<1>3. /\ kept \o t \in Seq(Bytes)
      /\ Len(kept \o t) = (Len(s) - a) + Len(t)
      /\ \A i \in 1..((Len(s) - a) + Len(t)) :
           (kept \o t)[i] = IF i <= Len(s) - a THEN kept[i] ELSE t[i - (Len(s) - a)]
  <2>1. /\ kept \o t \in Seq(Bytes)
        /\ Len(kept \o t) = Len(kept) + Len(t)
        /\ \A i \in 1..(Len(kept) + Len(t)) :
             (kept \o t)[i] = IF i <= Len(kept) THEN kept[i] ELSE t[i - Len(kept)]
    BY <1>2, ConcatProperties
  <2>2. Len(kept) = Len(s) - a
    BY <1>2
  <2> QED
    BY <2>1, <2>2
<1>4. /\ Len(s \o t) = Len(s) + Len(t)
      /\ \A i \in 1..(Len(s) + Len(t)) : (s \o t)[i] = IF i <= Len(s) THEN s[i] ELSE t[i - Len(s)]
  BY ConcatProperties
<1>5. ASSUME NEW i \in 1..((Len(s) - a) + Len(t))
      PROVE  (kept \o t)[i] = (s \o t)[a + i]
  <2>1. CASE i <= Len(s) - a
    <3>1. (kept \o t)[i] = s[a + i]
      BY <1>1, <1>2, <1>3, <2>1
    <3>2. a + i \in 1..(Len(s) + Len(t)) /\ a + i <= Len(s)
      BY <1>1, <2>1
    <3> QED
      BY <1>4, <3>1, <3>2
  <2>2. CASE i > Len(s) - a
    <3>1. (kept \o t)[i] = t[i - (Len(s) - a)]
      BY <1>1, <1>3, <2>2
    <3>2. a + i \in 1..(Len(s) + Len(t)) /\ ~(a + i <= Len(s)) /\ a + i - Len(s) = i - (Len(s) - a)
      BY <1>1, <2>2
    <3> QED
      BY <1>4, <3>1, <3>2
  <2>3. i <= Len(s) - a \/ i > Len(s) - a
    BY <1>1
  <2> QED
    BY <2>1, <2>2, <2>3
<1>. QED
  BY <1>1, <1>2, <1>3, <1>4, <1>5 DEF kept

\* Three parts of a stream, one after the other.
LEMMA Regrouped ==
  \A s, t, u \in Seq(Bytes) : (s \o t) \o u = s \o (t \o u)
<1>1. \A S : \A a, b, c \in Seq(S) : (a \o b) \o c = a \o (b \o c)
  BY ConcatAssociative
<1>. QED
  BY <1>1

\* A stream that is cut into two is the two, one after the other.
LEMMA CutInTwo ==
  ASSUME NEW s \in Seq(Bytes), NEW k \in 0..Len(s)
  PROVE  /\ SubSeq(s, 1, k) \in Seq(Bytes) /\ SubSeq(s, k + 1, Len(s)) \in Seq(Bytes)
         /\ SubSeq(s, 1, k) \o SubSeq(s, k + 1, Len(s)) = s
<1> DEFINE first == SubSeq(s, 1, k)
           second == SubSeq(s, k + 1, Len(s))
<1>1. /\ k \in Nat /\ Len(s) \in Nat /\ k + 1 \in Int /\ Len(s) \in Int /\ 1 \in Int /\ k \in Int
      /\ k <= Len(s) /\ \A i \in 1..Len(s) : s[i] \in Bytes
  OBVIOUS
<1>2. /\ first \in Seq(Bytes) /\ Len(first) = k
      /\ \A i \in 1..k : first[i] = s[i]
  BY <1>1, SubSeqProperties
<1>3. /\ second \in Seq(Bytes) /\ Len(second) = Len(s) - k
      /\ \A i \in 1..(Len(s) - k) : second[i] = s[k + i]
  BY <1>1, SubSeqProperties
<1> HIDE DEF first, second
<1>4. /\ first \o second \in Seq(Bytes) /\ Len(first \o second) = Len(s)
      /\ \A i \in 1..Len(s) : (first \o second)[i] = IF i <= k THEN first[i] ELSE second[i - k]
  BY <1>1, <1>2, <1>3, ConcatProperties
<1>5. ASSUME NEW i \in 1..Len(s)
      PROVE  (first \o second)[i] = s[i]
  <2>1. CASE i <= k
    BY <1>1, <1>2, <1>4, <2>1
  <2>2. CASE i > k
    <3>1. i - k \in 1..(Len(s) - k) /\ k + (i - k) = i
      BY <1>1, <2>2
    <3> QED
      BY <1>1, <1>3, <1>4, <2>2, <3>1
  <2>3. i <= k \/ i > k
    BY <1>1
  <2> QED
    BY <2>1, <2>2, <2>3
<1>6. first \o second = s
  BY <1>4, <1>5, SeqEqual
<1>. QED
  BY <1>2, <1>3, <1>6 DEF first, second

\* A message that is sent continues the stream.
LEMMA MessageAdded ==
  ASSUME NEW s \in Seq(Bytes), NEW h \in Nat, NEW n \in 0..(N - 1), GoesOn(s, h, n)
  PROVE  /\ s \o Message(n + 1) \in Seq(Bytes)
         /\ GoesOn(s \o Message(n + 1), h, n + 1)
<1> DEFINE new == Message(n + 1)
           both == s \o new
<1>1. n + 1 \in Messages /\ n \in Nat /\ Len(s) \in Nat
  BY Sizes DEF Messages
<1>2. /\ new \in Seq(Bytes) /\ Len(new) = Size(n + 1) /\ Size(n + 1) \in Nat /\ Size(n + 1) >= 5
      /\ \A i \in 1..Size(n + 1) : new[i] = <<n + 1, i>>
  BY <1>1, MessageBytes, Sizes
<1> HIDE DEF new
<1>3. /\ both \in Seq(Bytes) /\ Len(both) = Len(s) + Size(n + 1)
      /\ \A i \in 1..(Len(s) + Size(n + 1)) : both[i] = IF i <= Len(s) THEN s[i] ELSE new[i - Len(s)]
  BY <1>2, ConcatProperties
<1>4. \A i \in 1..Len(s) : both[i] = s[i]
  BY <1>1, <1>2, <1>3
<1>5. \A j \in 1..Size(n + 1) : both[Len(s) + j] = <<n + 1, j>>
  <2> SUFFICES ASSUME NEW j \in 1..Size(n + 1)
               PROVE  both[Len(s) + j] = <<n + 1, j>>
    OBVIOUS
  <2>1. Len(s) + j \in 1..(Len(s) + Size(n + 1)) /\ ~(Len(s) + j <= Len(s)) /\ (Len(s) + j) - Len(s) = j
    BY <1>1, <1>2
  <2> QED
    BY <1>2, <1>3, <2>1
<1> HIDE DEF both
<1>6. both[1] = <<h + 1, 1>>
  <2>1. CASE s = <<>>
    <3>1. h = n /\ Len(s) = 0
      BY <2>1 DEF GoesOn
    <3> QED
      BY <1>2, <1>5, <3>1
  <2>2. CASE s # <<>>
    BY <1>1, <1>4, <2>2 DEF GoesOn
  <2> QED
    BY <2>1, <2>2
<1>7. ASSUME NEW i \in 1..(Len(both) - 1)
      PROVE  both[i + 1] = NextByte(both[i])
  <2>1. CASE i < Len(s)
    <3>1. i \in 1..(Len(s) - 1) /\ i \in 1..Len(s) /\ i + 1 \in 1..Len(s) /\ s # <<>>
      BY <1>1, <2>1
    <3> QED
      BY <1>4, <3>1 DEF GoesOn, Chained
  <2>2. CASE i = Len(s)
    <3>1. s # <<>> /\ i \in 1..Len(s) /\ i + 1 = Len(s) + 1 /\ 1 \in 1..Size(n + 1)
      BY <1>1, <1>2, <2>2
    <3>2. both[i] = <<n, Size(n)>> /\ both[i + 1] = <<n + 1, 1>>
      BY <1>4, <1>5, <2>2, <3>1 DEF GoesOn
    <3>3. s[i] \in Messages \X (1..(HeaderSize + MaxLength))
      BY <3>1 DEF Bytes
    <3>4. s[i] = <<n, Size(n)>>
      BY <2>2, <3>1 DEF GoesOn
    <3>5. n \in Messages
      BY <3>3, <3>4
    <3> QED
      BY <3>2, <3>5, LastByte
  <2>3. CASE i > Len(s)
    <3> DEFINE j == i - Len(s)
    <3>1. j \in 1..Size(n + 1) /\ j + 1 \in 1..Size(n + 1) /\ j < Size(n + 1)
          /\ i = Len(s) + j /\ i + 1 = Len(s) + (j + 1)
      BY <1>1, <1>2, <1>3, <2>3
    <3>2. both[i] = <<n + 1, j>> /\ both[i + 1] = <<n + 1, j + 1>>
      BY <1>5, <3>1
    <3> QED
      BY <3>1, <3>2 DEF NextByte, Size
  <2> QED
    BY <1>1, <1>3, <2>1, <2>2, <2>3
<1>8. both[Len(both)] = <<n + 1, Size(n + 1)>> /\ both # <<>>
  BY <1>1, <1>2, <1>3, <1>5
<1>9. ASSUME NEW i \in 1..Len(both)
      PROVE  both[i][1] <= n + 1
  <2>1. CASE i <= Len(s)
    <3>1. i \in 1..Len(s)
      BY <1>1, <1>3, <2>1
    <3>2. s[i] \in Messages \X (1..(HeaderSize + MaxLength)) /\ s[i][1] <= n
      BY <3>1 DEF GoesOn, Bytes
    <3>3. s[i][1] \in Nat
      BY <3>2, Sizes
    <3> QED
      BY <1>1, <1>4, <3>1, <3>2, <3>3
  <2>2. CASE i > Len(s)
    <3>1. i - Len(s) \in 1..Size(n + 1) /\ Len(s) + (i - Len(s)) = i
      BY <1>1, <1>2, <1>3, <2>2
    <3>2. both[i] = <<n + 1, i - Len(s)>>
      BY <1>5, <3>1
    <3> QED
      BY <1>1, <3>2
  <2> QED
    BY <1>1, <1>3, <2>1, <2>2
<1>. QED
  BY <1>3, <1>6, <1>7, <1>8, <1>9 DEF GoesOn, Chained, both, new

\* A message that is handed on leaves the rest of the stream.
LEMMA MessageTaken ==
  ASSUME NEW s \in Seq(Bytes), NEW rest \in Seq(Bytes), NEW h \in Nat, NEW n \in Nat,
         h + 1 \in Messages, s # <<>>, GoesOn(s, h, n), Size(h + 1) <= Len(s),
         Len(rest) = Len(s) - Size(h + 1),
         \A i \in 1..Len(rest) : rest[i] = s[Size(h + 1) + i]
  PROVE  GoesOn(rest, h + 1, n)
<1> DEFINE z == Size(h + 1)
<1>1. z \in Nat /\ z >= 5 /\ Len(s) \in Nat /\ Len(rest) \in Nat /\ z + Len(rest) = Len(s)
  BY Sizes
<1>2. s[1] = <<h + 1, 1>> /\ Chained(s) /\ s[Len(s)] = <<n, Size(n)>>
  BY DEF GoesOn
<1>3. s[z] = <<h + 1, z>>
  <2>1. z \in 1..z /\ z <= Len(s)
    BY <1>1
  <2> QED
    BY <1>2, <2>1, MessageFollows
<1> HIDE DEF z
<1>4. rest = <<>> => h + 1 = n
  <2>1. rest = <<>> => z = Len(s)
    BY <1>1
  <2> QED
    BY <1>2, <1>3, <2>1
<1>5. ASSUME rest # <<>>
      PROVE  /\ rest[1] = <<h + 2, 1>> /\ Chained(rest)
             /\ rest[Len(rest)] = <<n, Size(n)>>
  <2>1. 1 \in 1..Len(rest) /\ Len(rest) \in 1..Len(rest) /\ z \in 1..(Len(s) - 1)
    BY <1>1, <1>5
  <2>2. rest[1] = s[z + 1] /\ rest[Len(rest)] = s[Len(s)]
    BY <1>1, <2>1 DEF z
  <2>3. s[z + 1] = NextByte(<<h + 1, z>>)
    BY <1>2, <1>3, <2>1 DEF Chained
  <2>4. NextByte(<<h + 1, z>>) = <<h + 2, 1>>
    BY <1>1, LastByte DEF z
  <2>5. ASSUME NEW i \in 1..(Len(rest) - 1)
        PROVE  rest[i + 1] = NextByte(rest[i])
    <3>1. i \in 1..Len(rest) /\ i + 1 \in 1..Len(rest) /\ z + i \in 1..(Len(s) - 1)
          /\ z + (i + 1) = (z + i) + 1
      BY <1>1
    <3>2. rest[i] = s[z + i] /\ rest[i + 1] = s[(z + i) + 1]
      BY <3>1 DEF z
    <3> QED
      BY <1>2, <3>1, <3>2 DEF Chained
  <2> QED
    BY <1>2, <2>2, <2>3, <2>4, <2>5 DEF Chained
<1>6. \A i \in 1..Len(rest) : z + i \in 1..Len(s) /\ rest[i] = s[z + i]
  BY <1>1 DEF z
<1>7. \A i \in 1..Len(rest) : rest[i][1] <= n
  BY <1>6 DEF GoesOn
<1>. QED
  BY <1>4, <1>5, <1>7 DEF GoesOn

-----------------------------------------------------------------------------
(* The steps. *)

\* The invariant, with the stream as one sequence.
LEMMA Goes ==
  /\ NoByteLost /\ OnlySent <=> (good => GoesOn(Rest, Len(handed), sent))
  /\ (NoByteLost /\ OnlySent <=> (good => GoesOn(Rest, Len(handed), sent)))'
<1>1. NoByteLost /\ OnlySent <=> (good => GoesOn(Rest, Len(handed), sent))
  BY DEF NoByteLost, OnlySent, GoesOn, Rest, Chained, Size
<1>2. (NoByteLost /\ OnlySent)' <=> (good' => GoesOn(Rest', Len(handed'), sent'))
  BY DEF NoByteLost, OnlySent, GoesOn, Rest, Chained, Size
<1>. QED
  BY <1>1, <1>2

\* Sending.
LEMMA SendStep ==
  ASSUME FramingInv, Send
  PROVE  FramingInv'
<1>1. /\ partial \in Seq(Bytes) /\ wire \in Seq(Bytes) /\ sent \in 0..(N - 1) /\ handed \in Seq(Seq(Bytes))
      /\ sent' = sent + 1 /\ wire' = wire \o Message(sent + 1)
      /\ UNCHANGED <<whole, window, partial, good, handed>>
  BY Sizes DEF FramingInv, TypeOK, Send
<1>2. sent + 1 \in Messages /\ sent \in Nat /\ sent + 1 \in 0..N /\ Len(handed) \in Nat
  BY <1>1, Sizes DEF Messages
<1>3. Message(sent + 1) \in Seq(Bytes)
  BY <1>2, MessageBytes
<1>4. TypeOK'
  <2>1. wire' \in Seq(Bytes)
    BY <1>1, <1>3, ConcatProperties
  <2>2. /\ whole \in BOOLEAN /\ good \in BOOLEAN /\ window \in 1..Window /\ (whole => good)
    BY DEF FramingInv, TypeOK
  <2> QED
    BY <1>1, <1>2, <2>1, <2>2 DEF TypeOK
<1>5. WholeAndInOrder'
  <2>1. PICK n \in 0..sent : /\ n <= Len(handed)
                             /\ \A i \in 1..Len(handed) : handed[i] = IF i <= n THEN Payload(i) ELSE <<>>
    BY DEF FramingInv, WholeAndInOrder
  <2>2. n \in 0..sent'
    BY <1>1, <1>2
  <2> QED
    BY <1>1, <2>1, <2>2 DEF WholeAndInOrder
<1>6. AllWhole'
  BY <1>1 DEF FramingInv, AllWhole
<1>7. (NoByteLost /\ OnlySent)'
  <2>1. Rest' = Rest \o Message(sent + 1) /\ Rest \in Seq(Bytes)
    <3>1. partial \o (wire \o Message(sent + 1)) = (partial \o wire) \o Message(sent + 1)
      BY <1>1, <1>3, Regrouped
    <3>2. partial \o wire \in Seq(Bytes)
      BY <1>1, ConcatProperties
    <3> QED
      BY <1>1, <1>3, <3>1, <3>2 DEF Rest
  <2>2. good => GoesOn(Rest, Len(handed), sent)
    BY Goes DEF FramingInv
  <2>3. good => GoesOn(Rest \o Message(sent + 1), Len(handed), sent + 1)
    BY <1>1, <1>2, <2>1, <2>2, MessageAdded
  <2>4. good' => GoesOn(Rest', Len(handed'), sent')
    BY <1>1, <2>1, <2>3
  <2> QED
    BY <2>4, Goes
<1>. QED
  BY <1>4, <1>5, <1>6, <1>7 DEF FramingInv

\* When the read fails, nothing is handed on any more.
LEMMA FailedStep ==
  ASSUME FramingInv, NEW data \in Seq(Bytes), ReadFails(data), wire' \in Seq(Bytes),
         UNCHANGED <<whole, window, sent>>, ~whole
  PROVE  FramingInv'
<1>1. /\ handed \in Seq(Seq(Bytes)) /\ Len(handed) \in Nat /\ <<>> \in Seq(Bytes)
      /\ handed' = Append(handed, <<>>) /\ partial' = data /\ good' = FALSE
  BY DEF FramingInv, TypeOK, ReadFails
<1>2. /\ handed' \in Seq(Seq(Bytes)) /\ Len(handed') = Len(handed) + 1
      /\ \A i \in 1..Len(handed) : handed'[i] = handed[i]
      /\ handed'[Len(handed) + 1] = <<>>
  BY <1>1, AppendProperties
<1>3. TypeOK'
  BY <1>1, <1>2 DEF FramingInv, TypeOK
<1>4. WholeAndInOrder'
  <2>1. PICK n \in 0..sent : /\ n <= Len(handed)
                             /\ \A i \in 1..Len(handed) : handed[i] = IF i <= n THEN Payload(i) ELSE <<>>
    BY DEF FramingInv, WholeAndInOrder
  <2>2. n \in Nat /\ n <= Len(handed')
    BY <1>1, <1>2, <2>1 DEF FramingInv, TypeOK
  <2>3. ASSUME NEW i \in 1..Len(handed')
        PROVE  handed'[i] = IF i <= n THEN Payload(i) ELSE <<>>
    <3>1. CASE i <= Len(handed)
      BY <1>1, <1>2, <2>1, <3>1
    <3>2. CASE i = Len(handed) + 1
      <4>1. ~(i <= n)
        BY <1>1, <2>1, <2>2, <3>2
      <4> QED
        BY <1>2, <3>2, <4>1
    <3>3. i <= Len(handed) \/ i = Len(handed) + 1
      BY <1>1, <1>2
    <3> QED
      BY <3>1, <3>2, <3>3
  <2> QED
    BY <2>1, <2>2, <2>3 DEF WholeAndInOrder
<1>5. AllWhole' /\ NoByteLost' /\ OnlySent'
  BY <1>1 DEF AllWhole, NoByteLost, OnlySent
<1>. QED
  BY <1>3, <1>4, <1>5 DEF FramingInv

\* While the stream is good the message that comes next begins with it, and its
\* header tells its length.
LEMMA NextMessage ==
  ASSUME FramingInv, good, NEW data \in Seq(Bytes), NEW later \in Seq(Bytes), data \o later = Rest,
         HeaderArrived(data)
  PROVE  /\ Len(handed) + 1 \in Messages /\ Len(handed) + 1 <= sent
         /\ DataSize(data) = {Length[Len(handed) + 1]}
         /\ \A i \in 1..Size(Len(handed) + 1) : i <= Len(data) => data[i] = <<Len(handed) + 1, i>>
<1> DEFINE n == Len(handed) + 1
<1>1. GoesOn(Rest, Len(handed), sent)
  BY Goes DEF FramingInv
<1>2. /\ Rest \in Seq(Bytes) /\ Len(Rest) = Len(data) + Len(later) /\ Len(data) \in Nat /\ Len(later) \in Nat
      /\ \A i \in 1..(Len(data) + Len(later)) :
           Rest[i] = IF i <= Len(data) THEN data[i] ELSE later[i - Len(data)]
  <2>1. /\ data \o later \in Seq(Bytes) /\ Len(data \o later) = Len(data) + Len(later)
        /\ \A i \in 1..(Len(data) + Len(later)) :
             (data \o later)[i] = IF i <= Len(data) THEN data[i] ELSE later[i - Len(data)]
    BY ConcatProperties
  <2> QED
    BY <2>1
<1>3. Len(data) >= 4
  BY Sizes DEF HeaderArrived
<1>4. Rest # <<>> /\ 1 \in 1..Len(Rest)
  BY <1>2, <1>3
<1>5. Rest[1] = <<n, 1>> /\ Chained(Rest) /\ Rest[1][1] <= sent
  BY <1>1, <1>4 DEF GoesOn
<1>6. Rest[1] \in Messages \X (1..(HeaderSize + MaxLength))
  BY <1>2, <1>4 DEF Bytes
<1>7. n \in Messages /\ n <= sent
  BY <1>5, <1>6
<1> HIDE DEF n
<1>8. \A i \in 1..Size(n) : i <= Len(Rest) => Rest[i] = <<n, i>>
  BY <1>2, <1>4, <1>5, <1>7, MessageFollows
<1>9. \A i \in 1..Size(n) : i <= Len(data) => data[i] = <<n, i>>
  <2> SUFFICES ASSUME NEW i \in 1..Size(n), i <= Len(data)
               PROVE  data[i] = <<n, i>>
    OBVIOUS
  <2>1. i \in 1..(Len(data) + Len(later)) /\ i <= Len(Rest)
    BY <1>2, <1>7, Sizes
  <2> QED
    BY <1>2, <1>8, <2>1
<1>10. \A i \in 1..HeaderSize : data[i] = <<n, i>>
  <2>1. HeaderSize = 4 /\ Size(n) \in Nat /\ Size(n) >= 5
    BY <1>7, Sizes
  <2>2. \A i \in 1..HeaderSize : i \in 1..Size(n) /\ i <= Len(data)
    BY <1>2, <1>3, <2>1
  <2> QED
    BY <1>9, <2>2
<1>11. DataSize(data) = {Length[n]}
  BY <1>3, <1>7, <1>10, HeaderTells, Sizes
<1>. QED
  BY <1>7, <1>9, <1>11 DEF n

\* While the stream is good, what is handed on is the next message; or it is not
\* complete and stays.
LEMMA GoodStep ==
  ASSUME FramingInv, good, NEW data \in Seq(Bytes), NEW later \in Seq(Bytes), data \o later = Rest,
         wire' = later, HeaderArrived(data), ReceivedString(data),
         UNCHANGED <<whole, window, sent, good>>
  PROVE  FramingInv'
<1> DEFINE h == Len(handed)
           n == h + 1
<1>1. /\ n \in Messages /\ n <= sent /\ h \in Nat /\ n \in Nat /\ sent \in Nat
      /\ handed \in Seq(Seq(Bytes)) /\ Len(data) \in Nat
      /\ DataSize(data) = {Length[n]}
      /\ \A i \in 1..Size(n) : i <= Len(data) => data[i] = <<n, i>>
  <2>1. handed \in Seq(Seq(Bytes)) /\ sent \in 0..N
    BY DEF FramingInv, TypeOK
  <2>2. /\ n \in Messages /\ n <= sent
        /\ DataSize(data) = {Length[n]}
        /\ \A i \in 1..Size(n) : i <= Len(data) => data[i] = <<n, i>>
    BY NextMessage
  <2>3. h \in Nat /\ n \in Nat /\ sent \in Nat /\ Len(data) \in Nat
    BY <2>1, Sizes
  <2> QED
    BY <2>1, <2>2, <2>3
<1>2. /\ Size(n) \in Nat /\ Size(n) = HeaderSize + Length[n] /\ Length[n] \in Nat
      /\ Payload(n) \in Seq(Bytes)
  BY <1>1, MessageBytes, Sizes DEF Size
<1>3. /\ GoesOn(Rest, h, sent)
      /\ \A i \in 1..h : handed[i] = Payload(i)
  BY Goes DEF FramingInv, AllWhole
<1>4. /\ whole \in BOOLEAN /\ good \in BOOLEAN /\ window \in 1..Window /\ sent \in 0..N
      /\ whole => good
  BY DEF FramingInv, TypeOK
<1>5. ReceivedString(data) /\ HasCompleteData(data, Length[n]) =>
        /\ handed' = Append(handed, SubSeq(data, HeaderSize + 1, HeaderSize + Length[n]))
        /\ partial' = Remaining(data, Length[n])
  BY <1>1 DEF ReceivedString
<1>6. ReceivedString(data) /\ ~HasCompleteData(data, Length[n]) => partial' = data /\ handed' = handed
  BY <1>1 DEF ReceivedString
<1>7. HasCompleteData(data, Length[n]) <=> Size(n) <= Len(data)
  BY <1>1, <1>2, Sizes DEF HasCompleteData
<1> HIDE DEF n
<1>8. CASE Size(n) <= Len(data)
  <2>1. SubSeq(data, HeaderSize + 1, HeaderSize + Length[n]) = Payload(n)
    <3>1. \A i \in 1..Size(n) : i <= Len(data)
      BY <1>1, <1>2, <1>8
    <3>2. \A i \in 1..Size(n) : data[i] = <<n, i>>
      BY <1>1, <3>1
    <3> QED
      BY <1>1, <1>2, <1>8, <3>2, PayloadFollows
  <2>2. /\ handed' = Append(handed, Payload(n))
        /\ partial' = SubSeq(data, Size(n) + 1, Len(data))
    <3>1. HeaderSize + Length[n] + 1 = Size(n) + 1
      BY <1>2
    <3> QED
      BY <1>2, <1>5, <1>7, <1>8, <2>1, <3>1 DEF Remaining
  <2>3. /\ handed' \in Seq(Seq(Bytes)) /\ Len(handed') = n
        /\ \A i \in 1..h : handed'[i] = handed[i]
        /\ handed'[n] = Payload(n)
    BY <1>1, <1>2, <2>2, AppendProperties DEF n
  <2>4. \A i \in 1..n : handed'[i] = Payload(i)
    <3>1. \A i \in 1..n : i \in 1..h \/ i = n
      BY <1>1 DEF n
    <3> QED
      BY <1>3, <2>3, <3>1
  <2>5. /\ partial' \in Seq(Bytes) /\ Rest' \in Seq(Bytes)
        /\ Len(Rest') = Len(Rest) - Size(n)
        /\ \A i \in 1..Len(Rest') : Rest'[i] = Rest[Size(n) + i]
    <3>1. Size(n) \in 0..Len(data)
      BY <1>1, <1>2, <1>8
    <3>2. Rest' = SubSeq(data, Size(n) + 1, Len(data)) \o later
      BY <2>2 DEF Rest
    <3> QED
      BY <2>2, <3>1, <3>2, CutOff
  <2>6. Rest \in Seq(Bytes) /\ Rest # <<>> /\ Size(n) <= Len(Rest)
    <3>1. data \o later \in Seq(Bytes) /\ Len(data \o later) = Len(data) + Len(later)
      BY ConcatProperties
    <3>2. Len(later) \in Nat /\ Size(n) >= 5
      <4>1. Length[n] >= 1 /\ Size(n) = 4 + Length[n]
        BY <1>1, Sizes
      <4> QED
        BY <1>2, <4>1
    <3>3. Rest \in Seq(Bytes) /\ Len(Rest) >= 5 /\ Size(n) <= Len(Rest)
      BY <1>1, <1>2, <1>8, <3>1, <3>2
    <3> QED
      BY <3>3
  <2>7. GoesOn(Rest', n, sent)
    <3> PICK rest \in Seq(Bytes) : rest = Rest'
      BY <2>5
    <3> PICK s \in Seq(Bytes) : s = Rest
      BY <2>6
    <3>1. GoesOn(rest, h + 1, sent)
      BY <1>1, <1>3, <2>5, <2>6, MessageTaken DEF n
    <3> QED
      BY <3>1 DEF n
  <2>8. TypeOK'
    BY <1>4, <2>3, <2>5 DEF TypeOK
  <2>9. WholeAndInOrder' /\ AllWhole'
    <3>1. n \in 0..sent' /\ n <= Len(handed')
      BY <1>1, <2>3
    <3>2. \A i \in 1..Len(handed') : handed'[i] = IF i <= n THEN Payload(i) ELSE <<>>
      BY <1>1, <2>3, <2>4
    <3> QED
      BY <2>3, <2>4, <3>1, <3>2 DEF WholeAndInOrder, AllWhole
  <2>10. (NoByteLost /\ OnlySent)'
    BY <2>3, <2>7, Goes
  <2> QED
    BY <2>8, <2>9, <2>10 DEF FramingInv
<1>9. CASE ~(Size(n) <= Len(data))
  <2>1. partial' = data /\ handed' = handed
    BY <1>6, <1>7, <1>9
  <2>2. Rest' = Rest
    BY <2>1 DEF Rest
  <2>3. TypeOK'
    BY <1>1, <1>4, <2>1 DEF TypeOK
  <2>4. WholeAndInOrder' /\ AllWhole'
    BY <2>1 DEF FramingInv, WholeAndInOrder, AllWhole
  <2>5. (NoByteLost /\ OnlySent)'
    BY <1>3, <2>1, <2>2, Goes
  <2> QED
    BY <2>3, <2>4, <2>5 DEF FramingInv
<1>. QED
  BY <1>8, <1>9

\* A chunk arrives.
LEMMA ReceiveStep ==
  ASSUME FramingInv, NEW k \in Chunks, Receive(k)
  PROVE  FramingInv'
<1>1. /\ partial \in Seq(Bytes) /\ wire \in Seq(Bytes) /\ (whole => good)
      /\ k <= Len(wire) /\ k \in Nat
  BY FramingAssumption DEF FramingInv, TypeOK, Receive, Chunks, HeaderSize, MaxLength
<1>2. k \in 0..Len(wire)
  BY <1>1
<1>3. /\ SubSeq(wire, 1, k) \in Seq(Bytes) /\ SubSeq(wire, k + 1, Len(wire)) \in Seq(Bytes)
      /\ SubSeq(wire, 1, k) \o SubSeq(wire, k + 1, Len(wire)) = wire
  BY <1>1, <1>2, CutInTwo
<1>4. PICK later \in Seq(Bytes) : later = SubSeq(wire, k + 1, Len(wire))
  BY <1>3
<1>5. PICK data \in Seq(Bytes) : data = partial \o SubSeq(wire, 1, k)
  BY <1>1, <1>3, ConcatProperties
<1>6. data \o later = Rest
  <2>1. PICK chunk \in Seq(Bytes) : chunk = SubSeq(wire, 1, k)
    BY <1>3
  <2>2. wire = chunk \o later /\ data = partial \o chunk
    BY <1>3, <1>4, <1>5, <2>1
  <2>3. partial \o (chunk \o later) = (partial \o chunk) \o later
    <3>1. partial \in Seq(Bytes)
      BY <1>1
    <3> QED
      BY <3>1, Regrouped
  <2> QED
    BY <2>2, <2>3 DEF Rest
<1>7. wire' = later /\ UNCHANGED <<whole, window, sent>>
  BY <1>4 DEF Receive
<1>8. /\ whole => Len(data) >= HeaderSize
      /\ IF ~good THEN ReadFails(partial)
         ELSE IF ~HeaderArrived(data) THEN ReadFails(data)
         ELSE ReceivedString(data) /\ UNCHANGED good
  BY <1>5 DEF Receive
<1>9. CASE ~good
  <2>1. PICK p \in Seq(Bytes) : p = partial
    BY <1>1
  <2> QED
    BY <1>1, <1>7, <1>8, <1>9, <2>1, FailedStep
<1>10. CASE good /\ ~HeaderArrived(data)
  <2>1. ~whole
    BY <1>8, <1>10 DEF HeaderArrived
  <2> QED
    BY <1>7, <1>8, <1>10, <2>1, FailedStep
<1>11. CASE good /\ HeaderArrived(data)
  BY <1>6, <1>7, <1>8, <1>11, GoodStep
<1>. QED
  BY <1>9, <1>10, <1>11

-----------------------------------------------------------------------------
(* The theorems. *)

\* What was handed on is whole, what was not goes on from there: for any messages
\* and any cuts.
THEOREM FramingKept == Spec => []FramingInv
<1>1. ASSUME Init
      PROVE  FramingInv
  <2>1. /\ whole \in BOOLEAN /\ window \in 1..Window /\ sent = 0 /\ wire = <<>> /\ partial = <<>>
        /\ good = TRUE /\ handed = <<>>
    BY <1>1 DEF Init
  <2>2. partial \in Seq(Bytes) /\ wire \in Seq(Bytes) /\ handed \in Seq(Seq(Bytes)) /\ sent \in 0..N
    BY <2>1, Sizes
  <2>3. Rest = <<>> /\ Len(Rest) = 0 /\ Len(handed) = 0
    BY <2>1 DEF Rest
  <2>4. TypeOK
    BY <2>1, <2>2 DEF TypeOK
  <2>5. WholeAndInOrder /\ AllWhole
    BY <2>1, <2>3 DEF WholeAndInOrder, AllWhole
  <2>6. GoesOn(Rest, Len(handed), sent)
    BY <2>1, <2>3 DEF GoesOn
  <2> QED
    BY <2>4, <2>5, <2>6, Goes DEF FramingInv
<1>2. ASSUME FramingInv, [Next]_vars
      PROVE  FramingInv'
  <2>1. CASE UNCHANGED vars
    BY <1>2, <2>1 DEF vars, FramingInv, TypeOK, WholeAndInOrder, NoByteLost, AllWhole, OnlySent, Rest
  <2> QED
    BY <1>2, <2>1, SendStep, ReceiveStep DEF Next
<1>. QED
  BY <1>1, <1>2, PTL DEF Spec

\* StringListener::nextString() gets the messages given to TCPConnection::send(),
\* in order, or nothing.
THEOREM HandedOnWhole == Spec => []WholeAndInOrder
<1>1. FramingInv => WholeAndInOrder
  BY DEF FramingInv
<1>. QED
  BY <1>1, FramingKept, PTL

\* m_partialData keeps what follows a message.
THEOREM StreamGoesOn == Spec => []NoByteLost
<1>1. FramingInv => NoByteLost
  BY DEF FramingInv
<1>. QED
  BY <1>1, FramingKept, PTL

\* The stream, the buffer and what was handed on have their types.
THEOREM FramingTyped == Spec => []TypeOK
<1>1. FramingInv => TypeOK
  BY DEF FramingInv
<1>. QED
  BY <1>1, FramingKept, PTL
================================================================================
