-------------------------- MODULE JitterStreamProofs --------------------------
(***************************************************************************)
(* JitterStream for any number space, stream, network and sizes: audio is  *)
(* played in the order it was sent and none of it twice, as long as        *)
(* nothing that is compared with a packet is half the number space away    *)
(* from it (NothingStale).  A short stream gives no occasion for that.     *)
(***************************************************************************)
EXTENDS JitterStream, SequenceTheorems, FiniteSetTheorems, WellFoundedInduction, TLAPS

-------------------------------------------------------------------------------
(* Sequence numbers: seq_before orders wrapped packet numbers as their packets were sent, as
   long as the two packets are less than half the number space apart. *)

\* What % gives, for one wrap in either direction.
LEMMA ModOfDifference ==
    ASSUME NEW a \in SeqNum, NEW b \in SeqNum
    PROVE  (b - a) % NumSpace = IF a <= b THEN b - a ELSE b - a + NumSpace
  BY NumSpaceAssumption DEF SeqNum

\* The distance between two numbers is a number.
LEMMA DiffInRange ==
    ASSUME NEW a \in SeqNum, NEW b \in SeqNum
    PROVE  (b - a) % NumSpace \in SeqNum
  BY NumSpaceAssumption DEF SeqNum

\* Quotient and remainder.
LEMMA Division ==
    ASSUME NEW i \in Nat
    PROVE  \E q \in Nat : i = (i % NumSpace) + q * NumSpace
<1>1. i \div NumSpace \in Nat /\ i = (i % NumSpace) + (i \div NumSpace) * NumSpace
  BY NumSpaceAssumption
<1> QED  BY <1>1

\* Less than half of the numbers lie ahead of each.
LEMMA HalfRangeBound == HalfRange \in Nat /\ 2 * HalfRange <= NumSpace - 1
  BY NumSpaceAssumption DEF HalfRange

\* No number is before itself and no two are before each other, so the buffer's
\* order is never ambiguous (jitter_buffer.rs:204-208).
THEOREM BeforeIsAsymmetric ==
    ASSUME NEW a \in SeqNum, NEW b \in SeqNum, SeqBefore(a, b)
    PROVE  a # b /\ ~SeqBefore(b, a)
<1>1. (b - a) % NumSpace = IF a <= b THEN b - a ELSE b - a + NumSpace
  BY ModOfDifference
<1>2. (a - b) % NumSpace = IF b <= a THEN a - b ELSE a - b + NumSpace
  BY ModOfDifference
<1> QED  BY <1>1, <1>2, HalfRangeBound, NumSpaceAssumption DEF SeqBefore, SeqNum

\* Packets i and j of a stream, counted without wrapping: if j was sent later by
\* less than half the number space, its number comes after (jitter_buffer.rs:203).
THEOREM BeforeIsSendOrder ==
    ASSUME NEW i \in Nat, NEW j \in Nat, i < j, j - i < HalfRange
    PROVE  SeqBefore(i % NumSpace, j % NumSpace)
<1> DEFINE a == i % NumSpace
           b == j % NumSpace
<1>1. a \in SeqNum /\ b \in SeqNum
  BY NumSpaceAssumption DEF SeqNum
<1>2. PICK m \in Nat : i = a + m * NumSpace
  BY Division
<1>3. PICK n \in Nat : j = b + n * NumSpace
  BY Division
<1> HIDE DEF a, b
<1>4. n = m \/ n = m + 1
  BY <1>1, <1>2, <1>3, HalfRangeBound, NumSpaceAssumption DEF SeqNum
<1>5. b - a = j - i \/ b - a + NumSpace = j - i
  BY <1>1, <1>2, <1>3, <1>4, NumSpaceAssumption DEF SeqNum
<1>6. (b - a) % NumSpace = j - i
  BY <1>1, <1>5, ModOfDifference, HalfRangeBound, NumSpaceAssumption DEF SeqNum
<1> QED  BY <1>6 DEF SeqBefore, a, b

\* The numbers of packets i and j tell how many were sent between them, if it was less
\* than the number space.
LEMMA Distance ==
    ASSUME NEW i \in Nat, NEW j \in Nat, i <= j, j - i < NumSpace
    PROVE  ((j % NumSpace) - (i % NumSpace)) % NumSpace = j - i
<1> DEFINE a == i % NumSpace
           b == j % NumSpace
<1>1. a \in SeqNum /\ b \in SeqNum
  BY NumSpaceAssumption DEF SeqNum
<1>2. PICK m \in Nat : i = a + m * NumSpace
  BY Division
<1>3. PICK n \in Nat : j = b + n * NumSpace
  BY Division
<1> HIDE DEF a, b
<1>4. n = m \/ n = m + 1
  BY <1>1, <1>2, <1>3, NumSpaceAssumption DEF SeqNum
<1>5. b - a = j - i \/ b - a + NumSpace = j - i
  BY <1>1, <1>2, <1>3, <1>4, NumSpaceAssumption DEF SeqNum
<1>6. (b - a) % NumSpace = j - i
  BY <1>1, <1>5, ModOfDifference, NumSpaceAssumption DEF SeqNum
<1> QED  BY <1>6 DEF a, b

\* A packet's successor is numbered after it, at the wrap too (packetizer.rs:75).
THEOREM NextIsAfter ==
    ASSUME NEW s \in SeqNum, NumSpace > 4
    PROVE  SeqNext(s) \in SeqNum /\ SeqBefore(s, SeqNext(s))
<1>1. SeqNext(s) = IF s = NumSpace - 1 THEN 0 ELSE s + 1
  BY NumSpaceAssumption DEF SeqNext, SeqNum
<1>2. (SeqNext(s) - s) % NumSpace = 1
  BY <1>1, ModOfDifference, NumSpaceAssumption DEF SeqNum
<1>3. HalfRange > 1
  BY NumSpaceAssumption DEF HalfRange
<1> QED  BY <1>1, <1>2, <1>3, NumSpaceAssumption DEF SeqBefore, SeqNum
-------------------------------------------------------------------------------
Buffered == {buf[i] : i \in 1 .. Len(buf)}
Waiting == inFlight \cup Buffered

\* Nothing is held back, by the network, in the buffer or by the cursor, while half
\* the number space is sent: with numbers of 32 bits and a packet every 5 ms, for
\* 124 days (jitter_buffer.rs:207).
NothingStale ==
    restarts = 0 =>
        /\ \A e \in Waiting : sent + 1 - e.id < HalfRange
        /\ next # NoSeq => (sendSeq - next) % NumSpace < HalfRange

\* What TypeOK leaves out.
BoundsOK ==
    /\ sent \in 0 .. MaxPackets /\ newest \in 0 .. sent /\ restarts \in Nat /\ pushes \in Nat
    /\ uneven \in BOOLEAN
    /\ last \in [id : Nat, left : Nat]
    /\ \A e \in Waiting : e.id <= sent /\ e.left > 0
    /\ \A e \in Buffered : e.id <= newest
    /\ jstate = "Playing" => next # NoSeq

TInv == TypeOK /\ BoundsOK
-------------------------------------------------------------------------------
(* The buffer as a sequence. *)

\* A finite set is not needed: numbers have a least one.
LEMMA LeastIndex ==
    ASSUME NEW I \in SUBSET Nat, I # {}
    PROVE  Min(I) \in I /\ \A y \in I : Min(I) <= y
<1>1. \E x \in I : \A y \in I : ~(<<y, x>> \in OpToRel(<, Nat))
  BY NatLessThanWellFounded, WFMin
<1>2. \E x \in I : \A y \in I : x <= y
  <2>1. PICK x \in I : \A y \in I : ~(<<y, x>> \in OpToRel(<, Nat))
    BY <1>1
  <2>2. \A y \in I : <<y, x>> \in Nat \X Nat
    OBVIOUS
  <2>3. \A y \in I : ~(y < x)
    BY <2>1, <2>2 DEF OpToRel
  <2>4. QED  BY <2>3
<1>3. QED  BY <1>2 DEF Min

\* c is b with p put in as its k-th entry: after all that p does not come before, and
\* before one that it comes before, unless there is none.
InsertedAt(k, p, b, c) ==
    /\ c[k] = p
    /\ \A j \in 1 .. Len(b) : j < k => c[j] = b[j] /\ ~SeqBefore(p.seq, b[j].seq)
    /\ \A j \in k .. Len(b) : c[j + 1] = b[j]
    /\ k <= Len(b) => SeqBefore(p.seq, b[k].seq)

\* The second of two joined sequences starts where the first ends.
LEMMA SecondPart ==
    ASSUME NEW s \in Seq(Entry), NEW t \in Seq(Entry)
    PROVE  \A n \in 1 .. Len(t) : (s \o t)[Len(s) + n] = t[n]
<1> SUFFICES ASSUME NEW n \in 1 .. Len(t) PROVE (s \o t)[Len(s) + n] = t[n]
  OBVIOUS
<1>1. /\ Len(s) \in Nat /\ Len(t) \in Nat
      /\ \A j \in 1 .. Len(s) + Len(t) : (s \o t)[j] = IF j <= Len(s) THEN s[j] ELSE t[j - Len(s)]
  BY ConcatProperties, LenProperties
<1>2. Len(s) + n \in 1 .. Len(s) + Len(t) /\ ~(Len(s) + n <= Len(s)) /\ Len(s) + n - Len(s) = n
  BY <1>1
<1> QED  BY <1>1, <1>2

\* Where push() puts a packet.
LEMMA InsertedProperties ==
    ASSUME NEW b \in Seq(Entry), NEW p \in Entry
    PROVE  /\ Inserted(p, b) \in Seq(Entry) /\ Len(Inserted(p, b)) = Len(b) + 1
           /\ \E k \in 1 .. Len(b) + 1 : InsertedAt(k, p, b, Inserted(p, b))
<1> DEFINE I == {j \in 1 .. Len(b) : SeqBefore(p.seq, b[j].seq)}
           i == Position(p.seq, b)
<1>1. Len(b) \in Nat /\ i = IF I # {} THEN Min(I) ELSE 0
  BY LenProperties DEF Position, SelectInSeq
<1>2. CASE I = {}
  <2>1. Inserted(p, b) = Append(b, p)
    BY <1>1, <1>2 DEF Inserted
  <2>2. /\ Inserted(p, b) \in Seq(Entry) /\ Len(Inserted(p, b)) = Len(b) + 1
        /\ InsertedAt(Len(b) + 1, p, b, Inserted(p, b))
    BY <1>1, <1>2, <2>1, AppendProperties DEF InsertedAt
  <2>3. QED  BY <1>1, <2>2
<1>3. CASE I # {}
  <2> HIDE DEF i
  <2>1. i \in 1 .. Len(b) /\ SeqBefore(p.seq, b[i].seq)
        /\ \A j \in 1 .. Len(b) : j < i => ~SeqBefore(p.seq, b[j].seq)
    <3>1. i = Min(I) /\ I \in SUBSET Nat
      BY <1>1, <1>3
    <3>2. i \in I /\ \A y \in I : i <= y
      BY <1>3, <3>1, LeastIndex
    <3>3. i \in 1 .. Len(b) /\ SeqBefore(p.seq, b[i].seq)
      BY <3>2
    <3>4. ASSUME NEW j \in 1 .. Len(b), j < i, SeqBefore(p.seq, b[j].seq) PROVE FALSE
      <4>1. j \in I
        BY <3>4
      <4>2. i <= j
        BY <3>2, <4>1
      <4>3. QED  BY <1>1, <3>3, <3>4, <4>2
    <3>5. QED  BY <3>3, <3>4
  <2> HIDE DEF I
  <2> DEFINE front == SubSeq(b, 1, i - 1)
             back == SubSeq(b, i, Len(b))
  <2>2. \A j \in 1 .. Len(b) : b[j] \in Entry
    BY ElementOfSeq
  <2>3. front \in Seq(Entry) /\ Len(front) = i - 1 /\ \A j \in 1 .. i - 1 : front[j] = b[j]
    <3>1. i - 1 \in Int /\ (\A j \in 1 .. i - 1 : b[j] \in Entry) /\ i - 1 - 1 + 1 = i - 1
      BY <1>1, <2>1, <2>2
    <3>2. front \in Seq(Entry) /\ Len(front) = (IF 1 <= i - 1 THEN i - 1 - 1 + 1 ELSE 0)
          /\ \A j \in 1 .. i - 1 - 1 + 1 : front[j] = b[1 + j - 1]
      BY <3>1, SubSeqProperties
    <3>3. QED  BY <1>1, <2>1, <3>2
  <2>4. back \in Seq(Entry) /\ Len(back) = Len(b) - i + 1
        /\ \A j \in 1 .. Len(b) - i + 1 : back[j] = b[i + j - 1]
    <3>1. i \in Int /\ Len(b) \in Int /\ \A j \in i .. Len(b) : b[j] \in Entry
      BY <1>1, <2>1, <2>2
    <3>2. back \in Seq(Entry) /\ Len(back) = (IF i <= Len(b) THEN Len(b) - i + 1 ELSE 0)
          /\ \A j \in 1 .. Len(b) - i + 1 : back[j] = b[i + j - 1]
      BY <3>1, SubSeqProperties
    <3>3. QED  BY <1>1, <2>1, <3>2
  <2> DEFINE one == <<p>>
  <2>5. Inserted(p, b) = (front \o one) \o back
    <3>1. i # 0 /\ i = Position(p.seq, b)
      BY <1>1, <2>1 DEF i
    <3>2. Inserted(p, b) = InsertAt(b, i, p)
      BY <3>1 DEF Inserted
    <3>3. QED  BY <3>2 DEF InsertAt
  <2>6. one \in Seq(Entry) /\ Len(one) = 1 /\ one[1] = p
    OBVIOUS
  <2> HIDE DEF front, back, one
  <2>7. front \o one \in Seq(Entry) /\ Len(front \o one) = i
        /\ (\A j \in 1 .. i - 1 : (front \o one)[j] = b[j]) /\ (front \o one)[i] = p
    <3>1. /\ front \o one \in Seq(Entry) /\ Len(front \o one) = Len(front) + Len(one)
          /\ \A j \in 1 .. Len(front) + Len(one) :
                (front \o one)[j] = IF j <= Len(front) THEN front[j] ELSE one[j - Len(front)]
      BY <2>3, <2>6, ConcatProperties
    <3>2. Len(front) = i - 1 /\ Len(one) = 1 /\ i \in Nat /\ i >= 1
      BY <1>1, <2>1, <2>3, <2>6
    <3>3. Len(front \o one) = i
      BY <3>1, <3>2
    <3>4. (front \o one)[i] = one[1]
      BY <3>1, <3>2
    <3>5. \A j \in 1 .. i - 1 : (front \o one)[j] = front[j]
      BY <3>1, <3>2
    <3>6. QED  BY <2>3, <2>6, <3>1, <3>3, <3>4, <3>5
  <2>8. /\ Inserted(p, b) \in Seq(Entry) /\ Len(Inserted(p, b)) = Len(b) + 1
        /\ \A j \in 1 .. i - 1 : Inserted(p, b)[j] = b[j]
        /\ Inserted(p, b)[i] = p
        /\ \A j \in i .. Len(b) : Inserted(p, b)[j + 1] = b[j]
    <3> DEFINE head == front \o one
    <3>0. head \in Seq(Entry) /\ Len(head) = i
      BY <2>7
    <3>1. /\ head \o back \in Seq(Entry) /\ Len(head \o back) = i + (Len(b) - i + 1)
          /\ \A j \in 1 .. i + (Len(b) - i + 1) :
                (head \o back)[j] = IF j <= i THEN head[j] ELSE back[j - i]
      <4>1. /\ head \o back \in Seq(Entry) /\ Len(head \o back) = Len(head) + Len(back)
            /\ \A j \in 1 .. Len(head) + Len(back) :
                (head \o back)[j] = IF j <= Len(head) THEN head[j] ELSE back[j - Len(head)]
        <5> HIDE DEF head
        <5>1. QED  BY <2>4, <3>0, ConcatProperties
      <4>2. Len(head) = i /\ Len(back) = Len(b) - i + 1
        BY <2>4, <3>0
      <4>3. QED  BY <4>1, <4>2
    <3> HIDE DEF head
    <3>2. head[i] = p /\ \A j \in 1 .. i - 1 : head[j] = b[j]
      BY <2>7 DEF head
    <3>3. \A j \in i .. Len(b) : (head \o back)[j + 1] = b[j]
      <4>1. SUFFICES ASSUME NEW j \in i .. Len(b) PROVE (head \o back)[j + 1] = b[j]
        OBVIOUS
      <4>2. (head \o back)[j + 1] = back[j + 1 - i] /\ j + 1 - i \in 1 .. Len(b) - i + 1
        <5>1. j \in Nat /\ i \in Nat /\ i <= j /\ j <= Len(b) /\ Len(b) \in Nat
          BY <1>1, <2>1, <4>1
        <5>2. j + 1 - i \in 1 .. Len(b) - i + 1 /\ i + (j + 1 - i) = j + 1
          BY <5>1
        <5>3. \A n \in 1 .. Len(b) - i + 1 : (head \o back)[i + n] = back[n]
          BY <2>4, <3>0, SecondPart
        <5>4. (head \o back)[i + (j + 1 - i)] = back[j + 1 - i]
          BY <5>2, <5>3
        <5>5. QED  BY <5>2, <5>4
      <4>3. back[j + 1 - i] = b[i + (j + 1 - i) - 1]
        BY <2>4, <4>2
      <4>4. QED  BY <1>1, <2>1, <4>2, <4>3
    <3>4. i + (Len(b) - i + 1) = Len(b) + 1 /\ i \in 1 .. Len(b) + 1 /\ i \in Nat
          /\ \A j \in 1 .. i - 1 : j \in 1 .. Len(b) + 1 /\ j <= i
      BY <1>1, <2>1
    <3>5. (head \o back)[i] = p /\ \A j \in 1 .. i - 1 : (head \o back)[j] = b[j]
      BY <3>1, <3>2, <3>4
    <3>6. Inserted(p, b) = head \o back
      BY <2>5 DEF head
    <3>7. QED  BY <3>1, <3>3, <3>4, <3>5, <3>6
  <2>9. QED
    <3>1. i \in 1 .. Len(b) + 1 /\ \A j \in 1 .. Len(b) : j < i => j \in 1 .. i - 1
      BY <1>1, <2>1
    <3>2. InsertedAt(i, p, b, Inserted(p, b))
      BY <2>1, <2>8, <3>1 DEF InsertedAt
    <3>3. QED  BY <2>8, <3>1, <3>2
<1>4. QED  BY <1>2, <1>3

\* A packet joins the buffer.
LEMMA BufferGrows ==
    ASSUME TypeOK, NEW p \in Entry, PushInTime(p)
    PROVE  /\ buf' \in Seq(Entry) /\ Len(buf') = Len(buf) + 1 /\ Len(buf) \in Nat
           /\ \E k \in 1 .. Len(buf) + 1 : InsertedAt(k, p, buf, buf')
           /\ Buffered' \subseteq Buffered \cup {p}
           /\ next' \in {next, buf'[1].seq} /\ buf'[1] \in Buffered'
           /\ next' \in SeqNum \cup {NoSeq}
<1>1. buf \in Seq(Entry) /\ Len(buf) \in Nat /\ buf' = Inserted(p, buf)
  BY LenProperties DEF TypeOK, PushInTime
<1>2. buf' \in Seq(Entry) /\ Len(buf') = Len(buf) + 1
  BY <1>1, InsertedProperties
<1>3. PICK k \in 1 .. Len(buf) + 1 : InsertedAt(k, p, buf, buf')
  BY <1>1, InsertedProperties
<1>4. ASSUME NEW i \in 1 .. Len(buf) + 1 PROVE buf'[i] \in Buffered \cup {p}
  <2>1. CASE i < k
    BY <1>1, <1>3, <2>1 DEF Buffered, InsertedAt
  <2>2. CASE i > k
    <3>1. i - 1 \in k .. Len(buf) /\ i = (i - 1) + 1 /\ i - 1 \in 1 .. Len(buf)
      BY <1>1, <2>2
    <3>2. buf'[i] = buf[i - 1]
      BY <1>3, <3>1 DEF InsertedAt
    <3>3. QED  BY <3>1, <3>2 DEF Buffered
  <2>3. QED  BY <1>1, <1>3, <2>1, <2>2 DEF InsertedAt
<1>5. Buffered' \subseteq Buffered \cup {p}
  BY <1>2, <1>4 DEF Buffered
<1>6. buf'[1] \in Buffered' /\ buf'[1] \in Entry
  BY <1>1, <1>2, ElementOfSeq DEF Buffered
<1>7. next' \in {next, buf'[1].seq}
  BY DEF PushInTime
<1>8. next' \in SeqNum \cup {NoSeq}
  BY <1>6, <1>7 DEF TypeOK, Entry
<1>9. QED  BY <1>1, <1>2, <1>3, <1>5, <1>6, <1>7, <1>8

\* What waits is packets.
LEMMA BufferedType ==
    ASSUME NEW b \in Seq(Entry)
    PROVE  /\ \A i \in 1 .. Len(b) : b[i] \in Entry
           /\ \A e \in {b[i] : i \in 1 .. Len(b)} :
                e \in Entry /\ e.id \in Nat /\ e.id \in 1 .. MaxPackets /\ e.seq \in SeqNum /\ e.left \in Nat
<1>1. \A i \in 1 .. Len(b) : b[i] \in Entry
  BY ElementOfSeq
<1>2. \A e \in Entry : e.id \in Nat /\ e.id \in 1 .. MaxPackets /\ e.seq \in SeqNum /\ e.left \in Nat
  BY StreamAssumption DEF Entry
<1>3. QED  BY <1>1, <1>2

\* What is in front of the buffer is one of its entries.
LEMMA OldestType ==
    ASSUME TypeOK, buf # <<>>
    PROVE  Len(buf) \in Nat \ {0} /\ Oldest \in Entry /\ Oldest \in Buffered
<1>1. buf \in Seq(Entry) /\ Len(buf) \in Nat \ {0}
  BY EmptySeq DEF TypeOK
<1>2. QED  BY <1>1, ElementOfSeq DEF Oldest, Buffered

\* A packet leaves the buffer.
LEMMA BufferShrinks ==
    ASSUME TypeOK, buf # <<>>, buf' = Tail(buf)
    PROVE  /\ buf' \in Seq(Entry) /\ Len(buf') = Len(buf) - 1
           /\ \A i \in 1 .. Len(buf') : buf'[i] = buf[i + 1]
           /\ Buffered' \subseteq Buffered
<1>1. buf \in Seq(Entry) /\ Len(buf) \in Nat \ {0}
  BY OldestType DEF TypeOK
<1>2. /\ buf' \in Seq(Entry) /\ Len(buf') = Len(buf) - 1
      /\ \A i \in 1 .. Len(buf') : buf'[i] = buf[i + 1]
  BY <1>1, HeadTailProperties
<1>3. \A i \in 1 .. Len(buf') : i + 1 \in 1 .. Len(buf)
  BY <1>1, <1>2
<1>4. QED  BY <1>2, <1>3 DEF Buffered

\* Some of the oldest packet's frames are taken.
LEMMA BufferCut ==
    ASSUME TypeOK, buf # <<>>, NEW n \in Nat, n < Oldest.left, buf' = [buf EXCEPT ![1].left = @ - n]
    PROVE  /\ buf' \in Seq(Entry) /\ Len(buf') = Len(buf)
           /\ buf'[1] = [Oldest EXCEPT !.left = @ - n]
           /\ \A i \in 2 .. Len(buf) : buf'[i] = buf[i]
           /\ Buffered' \subseteq Buffered \cup {[Oldest EXCEPT !.left = @ - n]}
<1> DEFINE rest == [Oldest EXCEPT !.left = @ - n]
<1>1. buf \in Seq(Entry) /\ Len(buf) \in Nat \ {0} /\ Oldest \in Entry /\ Oldest = buf[1]
  BY OldestType DEF TypeOK, Oldest
<1>2. rest \in Entry
  <2>1. Oldest.left \in Nat /\ Oldest.left - n \in Nat
    BY <1>1 DEF Entry
  <2>2. QED  BY <1>1, <2>1 DEF Entry
<1>3. buf' = [buf EXCEPT ![1] = rest]
  BY <1>1
<1> HIDE DEF rest
<1>4. /\ buf' \in Seq(Entry) /\ Len(buf') = Len(buf)
      /\ \A j \in 1 .. Len(buf) : buf'[j] = IF j = 1 THEN rest ELSE buf[j]
  <2>1. buf \in Seq(Entry) /\ 1 \in 1 .. Len(buf)
    BY <1>1
  <2>2. QED  BY <1>2, <1>3, <2>1, ExceptSeq
<1>5. buf'[1] = rest /\ \A i \in 2 .. Len(buf) : buf'[i] = buf[i]
  BY <1>1, <1>4
<1>6. Buffered' \subseteq Buffered \cup {rest}
  BY <1>1, <1>4 DEF Buffered
<1>7. QED  BY <1>4, <1>5, <1>6 DEF rest
-------------------------------------------------------------------------------
(* Types. *)

\* A number's successor is a number.
LEMMA SeqNextType ==
    ASSUME NEW n \in SeqNum
    PROVE  SeqNext(n) \in SeqNum
BY NumSpaceAssumption DEF SeqNum, SeqNext

\* Nothing is sent or buffered at first.
LEMMA TInvInit == Init => TInv
<1> SUFFICES ASSUME Init PROVE TInv
  OBVIOUS
<1> USE StreamAssumption, JitterAssumption DEF Init, JitterInit
<1>1. buf \in Seq(Entry) /\ Buffered = {} /\ inFlight = {}
  BY EmptySeq DEF Buffered
<1>2. TypeOK
  BY <1>1 DEF TypeOK
<1>3. BoundsOK
  <2>1. sent \in 0 .. MaxPackets /\ newest \in 0 .. sent /\ restarts \in Nat /\ pushes \in Nat
    OBVIOUS
  <2>2. uneven \in BOOLEAN /\ jstate # "Playing" /\ last \in [id : Nat, left : Nat]
    OBVIOUS
  <2>3. QED  BY <1>1, <2>1, <2>2, Zenon DEF BoundsOK, Waiting
<1>4. QED  BY <1>2, <1>3 DEF TInv

\* The sender.
LEMMA TInvSender ==
    ASSUME TInv, Restart \/ \E n \in PacketSizes : Send(n)
    PROVE  TInv'
<1> USE StreamAssumption DEF TInv
<1>1. CASE Restart
  <2>1. 0 \in SeqNum
    BY NumSpaceAssumption DEF SeqNum
  <2>2. QED  BY <1>1, <2>1 DEF Restart, TypeOK, BoundsOK, Waiting, Buffered, jitterVars, threadVars,
                               networkVars, playedVars
<1>2. ASSUME NEW n \in PacketSizes, Send(n) PROVE TInv'
  <2> DEFINE e == [id |-> sent + 1, seq |-> sendSeq, left |-> n]
  <2>1. sent' = sent + 1 /\ sent' \in 1 .. MaxPackets /\ sent \in 0 .. MaxPackets
    BY <1>2 DEF Send, BoundsOK
  <2>2. e \in Entry /\ e.id = sent' /\ e.left > 0
    BY <2>1 DEF Entry, TypeOK
  <2>3. inFlight' = inFlight \cup {e} /\ Buffered' = Buffered /\ sendSeq' \in SeqNum
    BY <1>2, SeqNextType DEF Send, Buffered, jitterVars, TypeOK
  <2> HIDE DEF e
  <2>4. TypeOK'
    BY <1>2, <2>2, <2>3 DEF Send, TypeOK, jitterVars, threadVars, playedVars
  <2>5. \A g \in Waiting' : g.id <= sent' /\ g.left > 0
    <3>1. \A g \in Waiting : g \in Entry /\ g.id <= sent /\ g.left > 0
      BY ElementOfSeq DEF TypeOK, BoundsOK, Waiting, Buffered
    <3>2. QED  BY <2>1, <2>2, <2>3, <3>1 DEF Waiting, Entry
  <2>6. BoundsOK'
    BY <1>2, <2>1, <2>3, <2>5 DEF Send, BoundsOK, jitterVars, playedVars
  <2>7. QED  BY <2>4, <2>6
<1>3. QED  BY <1>1, <1>2

\* A delivery.  It changes the buffer only when the packet is not cut off.
LEMMA TInvReceive ==
    ASSUME TInv, NEW p \in inFlight, NEW copyKept \in BOOLEAN, Receive(p, copyKept)
    PROVE  TInv'
<1> USE StreamAssumption DEF TInv
<1>1. p \in Entry /\ p \in Waiting /\ p.id <= sent /\ p.left > 0 /\ p.id \in Nat \ {0}
  BY DEF TypeOK, BoundsOK, Waiting, Entry
<1>2. inFlight' \subseteq inFlight /\ pushes' \in Nat /\ UNCHANGED <<threadVars, senderVars, playedVars>>
  BY DEF Receive, BoundsOK
<1>3. CASE Push(p) /\ newest' = (IF p.id > newest THEN p.id ELSE newest)
  <2>1. newest' \in 0 .. sent /\ newest' >= p.id /\ newest' >= newest
    BY <1>1, <1>3 DEF BoundsOK
  <2>2. CASE PushLate(p)
    <3>1. TypeOK'
      BY <1>2, <2>2 DEF PushLate, TypeOK, threadVars, senderVars, playedVars
    <3>2. Buffered' = Buffered /\ Waiting' \subseteq Waiting
      BY <1>2, <2>2 DEF PushLate, Buffered, Waiting
    <3>3. \A e \in Buffered : e.id \in Nat
      BY BufferedType DEF Buffered, TypeOK
    <3>4. BoundsOK'
      BY <1>2, <2>1, <2>2, <3>2, <3>3 DEF PushLate, BoundsOK, senderVars, playedVars
    <3>5. QED  BY <3>1, <3>4
  <2>3. CASE PushInTime(p)
    <3>1. /\ buf' \in Seq(Entry) /\ Buffered' \subseteq Buffered \cup {p}
          /\ next' \in SeqNum \cup {NoSeq} /\ buf'[1] \in Buffered' /\ next' \in {next, buf'[1].seq}
      BY <1>1, <2>3, BufferGrows
    <3>2. /\ jstate' \in {"Filling", "Playing", "Underrun"} /\ received' \in Nat
          /\ UNCHANGED <<remaining, lost>>
      BY <2>3 DEF PushInTime, TypeOK
    <3>3. TypeOK'
      BY <1>2, <3>1, <3>2 DEF TypeOK, threadVars, senderVars, playedVars
    <3>4. \A e \in Buffered : e.id \in Nat /\ e.id <= newest
      BY BufferedType DEF Buffered, TypeOK, BoundsOK
    <3>5. \A e \in Buffered' : e.id <= newest'
      BY <1>1, <2>1, <3>1, <3>4 DEF BoundsOK
    <3>6. \A e \in Waiting' : e.id <= sent /\ e.left > 0
      BY <1>1, <1>2, <3>1 DEF BoundsOK, Waiting
    <3>7. jstate' = "Playing" => next' # NoSeq
      <4>1. buf'[1].seq \in SeqNum
        BY <3>1, BufferedType DEF Buffered
      <4>2. QED  BY <2>3, <4>1, JitterAssumption DEF PushInTime, BoundsOK
    <3>8. BoundsOK'
      BY <1>2, <2>1, <3>5, <3>6, <3>7 DEF BoundsOK, senderVars, playedVars
    <3>9. QED  BY <3>3, <3>8
  <2>4. QED  BY <1>3, <2>2, <2>3 DEF Push
<1>4. CASE UNCHANGED <<jitterVars, newest>>
  <2>1. TypeOK'
    BY <1>2, <1>4 DEF TypeOK, jitterVars, threadVars, senderVars, playedVars
  <2>2. Buffered' = Buffered /\ Waiting' \subseteq Waiting
    BY <1>2, <1>4 DEF Buffered, Waiting, jitterVars
  <2>3. QED  BY <1>2, <1>4, <2>1, <2>2 DEF BoundsOK, jitterVars, senderVars, playedVars
<1>5. QED  BY <1>3, <1>4 DEF Receive

\* What a turn of pop_frames takes from the oldest packet.
LEMMA TakeType ==
    ASSUME TInv, Popping, buf # <<>>
    PROVE  /\ Oldest \in Entry /\ Oldest \in Buffered /\ Oldest.left > 0 /\ Oldest.id <= newest
           /\ Take \in Nat /\ 0 < Take /\ Take <= Oldest.left /\ Take <= remaining
           /\ next # NoSeq /\ Cursor = next /\ next \in SeqNum
           /\ remaining \in Nat
<1>1. Oldest \in Entry /\ Oldest \in Buffered
  BY OldestType DEF TInv
<1>2. Oldest.left \in Nat /\ Oldest.left > 0 /\ Oldest.id <= newest
  BY <1>1 DEF Entry, TInv, BoundsOK, Waiting
<1>3. remaining \in Nat /\ remaining > 0 /\ next # NoSeq /\ next \in SeqNum
  BY JitterAssumption DEF TInv, TypeOK, BoundsOK, Popping
<1>4. QED  BY <1>1, <1>2, <1>3 DEF Take, Cursor

\* A packet is played.
LEMMA TInvPlay == TInv /\ Play => TInv'
<1> SUFFICES ASSUME TInv, Play PROVE TInv'
  OBVIOUS
<1> USE StreamAssumption DEF TInv
<1>1. /\ Popping /\ buf # <<>>
      /\ UNCHANGED <<threadVars, senderVars, networkVars, jstate, received, lost>>
  BY DEF Play, PopExpected
<1> DEFINE o == Oldest
           n == Take
<1>2. /\ o \in Entry /\ o \in Buffered /\ o.left > 0 /\ o.id <= newest /\ o.id <= sent
      /\ n \in Nat /\ 0 < n /\ n <= o.left /\ n <= remaining
      /\ next # NoSeq /\ Cursor = next /\ next \in SeqNum
      /\ remaining \in Nat /\ o.id \in 1 .. MaxPackets /\ o.left \in Nat
  BY <1>1, TakeType DEF BoundsOK, Waiting, Entry
<1>3. /\ last' = [id |-> o.id, left |-> o.left - n] /\ heard' \subseteq heard \cup {o.id}
      /\ remaining' = remaining - n
  BY DEF Play, PopExpected
<1>4. /\ remaining' \in 0 .. PopFrames /\ last' \in [id : Nat, left : Nat]
      /\ heard' \subseteq 1 .. MaxPackets
  <2>1. remaining' \in 0 .. PopFrames
    BY <1>2, <1>3, JitterAssumption DEF TypeOK
  <2>2. o.id \in Nat /\ o.left - n \in Nat
    BY <1>2
  <2> HIDE DEF o, n
  <2>3. last' \in [id : Nat, left : Nat]
    BY <1>3, <2>2
  <2>4. QED  BY <1>2, <1>3, <2>1, <2>3 DEF TypeOK
<1>5. /\ buf' \in Seq(Entry) /\ next' \in SeqNum
      /\ \A e \in Buffered' : e \in Buffered \/ (e.id = o.id /\ e.left > 0)
  <2>1. CASE n < o.left
    <3>1. buf' = [buf EXCEPT ![1].left = @ - n] /\ next' = next
      BY <2>1 DEF Play, PopExpected
    <3>2. n \in Nat /\ n < Oldest.left
      BY <1>2, <2>1
    <3>3. buf' \in Seq(Entry) /\ Buffered' \subseteq Buffered \cup {[Oldest EXCEPT !.left = @ - n]}
      <4> HIDE DEF n
      <4>1. QED  BY <1>1, <3>1, <3>2, BufferCut
    <3>4. [o EXCEPT !.left = @ - n].id = o.id /\ [o EXCEPT !.left = @ - n].left > 0
      BY <1>2, <2>1 DEF Entry
    <3>5. QED  BY <1>2, <3>1, <3>3, <3>4
  <2>2. CASE ~(n < o.left)
    <3>1. buf' = Tail(buf) /\ next' = SeqNext(Cursor)
      BY <2>2 DEF Play, PopExpected
    <3>2. QED  BY <1>1, <1>2, <3>1, BufferShrinks, SeqNextType
  <2>3. QED  BY <2>1, <2>2
<1> HIDE DEF o, n
<1>6. TypeOK'
  BY <1>1, <1>4, <1>5 DEF TypeOK, threadVars, senderVars, networkVars
<1>7. \A e \in Waiting' : e.id <= sent /\ e.left > 0
  BY <1>1, <1>2, <1>5 DEF BoundsOK, Waiting, networkVars
<1>8. \A e \in Buffered' : e.id <= newest
  BY <1>2, <1>5 DEF BoundsOK
<1>9. next' # NoSeq
  BY <1>5, JitterAssumption
<1>10. BoundsOK'
  BY <1>1, <1>4, <1>7, <1>8, <1>9 DEF BoundsOK, senderVars, networkVars
<1>11. QED  BY <1>6, <1>10

\* A gap is filled, a packet skipped, or the buffer is empty.
LEMMA TInvPlayNothing == TInv /\ PlayNothing => TInv'
<1> SUFFICES ASSUME TInv, PlayNothing PROVE TInv'
  OBVIOUS
<1> USE StreamAssumption DEF TInv
<1>1. UNCHANGED <<threadVars, senderVars, networkVars, playedVars>> /\ UNCHANGED received
  BY DEF PlayNothing, PopGap, PopBehind, PopUnderrun
<1>2. buf' \in Seq(Entry) /\ Buffered' \subseteq Buffered /\ lost' \in Nat
      /\ next' \in SeqNum \cup {NoSeq} /\ remaining' \in 0 .. PopFrames
      /\ jstate' \in {"Filling", "Playing", "Underrun"} /\ (jstate' = "Playing" => next' # NoSeq)
  <2>1. CASE PopGap
    <3>1. Cursor \in SeqNum /\ remaining \in Nat
      BY <2>1, TakeType DEF PopGap
    <3>2. next' \in SeqNum /\ remaining' \in 0 .. PopFrames
      BY <2>1, <3>1, SeqNextType, JitterAssumption DEF PopGap, TypeOK
    <3>3. QED  BY <2>1, <3>2, JitterAssumption DEF PopGap, TypeOK, Buffered
  <2>2. CASE PopBehind
    <3>1. buf # <<>> /\ buf' = Tail(buf)
      BY <2>2 DEF PopBehind
    <3>2. buf' \in Seq(Entry) /\ Buffered' \subseteq Buffered
      BY <3>1, BufferShrinks
    <3>3. QED  BY <2>2, <3>2 DEF PopBehind, TypeOK, BoundsOK
  <2>3. CASE PopUnderrun
    BY <2>3, JitterAssumption DEF PopUnderrun, TypeOK, Buffered
  <2>4. QED  BY <2>1, <2>2, <2>3 DEF PlayNothing
<1>3. TypeOK'
  BY <1>1, <1>2 DEF TypeOK, threadVars, senderVars, networkVars, playedVars
<1>4. Waiting' \subseteq Waiting
  BY <1>1, <1>2 DEF Waiting, networkVars
<1>5. BoundsOK'
  BY <1>1, <1>2, <1>4 DEF BoundsOK, senderVars, networkVars, playedVars
<1>6. QED  BY <1>3, <1>5

\* Every other step leaves the stream as it is, but for what dies with the socket.
QuietStep ==
    \/ RecvFails \/ PlayBegins \/ Quit \/ Stops \/ UNCHANGED vars

\* Only pop_frames' beginning changes what is owed.
LEMMA QuietStepIsQuiet ==
    ASSUME QuietStep
    PROVE  /\ UNCHANGED <<buf, jstate, next, received, lost, senderVars, pushes, newest, playedVars>>
           /\ inFlight' \in {inFlight, {}}
           /\ remaining' = remaining \/ (remaining = 0 /\ remaining' = PopFrames)
BY DEF QuietStep, RecvFails, PlayBegins, PopBegin, Quit, Stops, RecvStops, PlayStops, JoinRecv,
       JoinPlay, vars, jitterVars, threadVars, senderVars, networkVars, playedVars

\* Threads that begin, fail or end, and the user.
LEMMA TInvQuiet == TInv /\ QuietStep => TInv'
<1> SUFFICES ASSUME TInv, QuietStep PROVE TInv'
  OBVIOUS
<1> USE StreamAssumption DEF TInv
<1>1. running' \in BOOLEAN /\ main' \in {"joinRecv", "joinPlay", "gone"}
      /\ {recv', play'} \subseteq {"loop", "ended", "panicked"}
  BY DEF QuietStep, RecvFails, PlayBegins, Quit, Stops, RecvStops, PlayStops, JoinRecv,
         JoinPlay, vars, threadVars, TypeOK
<1>2. remaining' \in 0 .. PopFrames /\ inFlight' \subseteq inFlight
  BY QuietStepIsQuiet, JitterAssumption DEF TypeOK
<1>3. TypeOK'
  BY <1>1, <1>2, QuietStepIsQuiet DEF TypeOK, senderVars, playedVars
<1>4. Buffered' = Buffered /\ Waiting' \subseteq Waiting
  BY <1>2, QuietStepIsQuiet DEF Buffered, Waiting
<1>5. BoundsOK'
  BY <1>4, QuietStepIsQuiet DEF BoundsOK, senderVars, playedVars
<1>6. QED  BY <1>3, <1>5

\* The steps of the program, as the lemmas take them.
LEMMA Steps ==
    ASSUME [Next]_vars
    PROVE  \/ Restart \/ \E n \in PacketSizes : Send(n)
           \/ \E p \in inFlight, copyKept \in BOOLEAN : Receive(p, copyKept)
           \/ Play \/ PlayNothing \/ QuietStep
BY Zenon DEF Next, QuietStep

\* All steps keep the types.
LEMMA TInvStep == TInv /\ [Next]_vars => TInv'
BY Steps, TInvSender, TInvReceive, TInvPlay, TInvPlayNothing, TInvQuiet

\* The invariant the other proofs start from.
LEMMA TInvHolds == Spec => []TInv
<1>1. QED  BY TInvInit, TInvStep, PTL DEF Spec

\* Types: among them, no sequence number or id outside its range, and no more frames
\* owed than the playback loop asked for.
THEOREM TypeCorrect == Spec => []TypeOK
<1>1. TInv => TypeOK
  BY DEF TInv
<1>2. QED  BY <1>1, TInvHolds, PTL
-------------------------------------------------------------------------------
(* Time is kept. *)

\* While all packets have the default size, whole packets wait and a call owes the
\* time of whole packets.
EvenOK ==
    ~uneven => /\ \A e \in Waiting : e.left = GapFrames
               /\ \E k \in Nat : remaining = k * GapFrames

\* What is owed is nothing, or the time of a packet and more of them.
LEMMA OnePacketLess ==
    ASSUME NEW k \in Nat, k * GapFrames > 0
    PROVE  k * GapFrames >= GapFrames /\ \E i \in Nat : k * GapFrames - GapFrames = i * GapFrames
<1>1. GapFrames \in Nat \ {0}
  BY JitterAssumption
<1>2. k # 0
  BY <1>1
<1>3. PICK i \in Nat : k = i + 1
  <2>1. k - 1 \in Nat /\ k = (k - 1) + 1
    BY <1>2
  <2>2. QED  BY <2>1
<1>4. k * GapFrames = i * GapFrames + GapFrames /\ i * GapFrames \in Nat
  BY <1>1, <1>3
<1>5. QED  BY <1>1, <1>4

\* A turn that plays or fills a gap takes the time of one packet.
LEMMA TurnTakesOnePacket ==
    ASSUME TInv, EvenOK, ~uneven, Play \/ PopGap
    PROVE  /\ next # NoSeq /\ next' = SeqNext(next) /\ remaining - remaining' = GapFrames
           /\ Buffered' \subseteq Buffered /\ \E i \in Nat : remaining' = i * GapFrames
<1>1. Popping /\ buf # <<>>
  BY DEF Play, PopExpected, PopGap
<1>2. /\ Oldest \in Buffered /\ next # NoSeq /\ Cursor = next /\ next \in SeqNum /\ remaining \in Nat
      /\ GapFrames \in Nat
  BY <1>1, TakeType, JitterAssumption
<1>3. PICK k \in Nat : remaining = k * GapFrames
  BY DEF EvenOK
<1>4. /\ remaining >= GapFrames
      /\ \E i \in Nat : remaining - GapFrames = i * GapFrames
  BY <1>1, <1>3, OnePacketLess DEF Popping
<1>5. CASE Play
  <2>1. Take = Oldest.left /\ Take = GapFrames
    <3>1. Oldest.left = GapFrames
      BY <1>2 DEF EvenOK, Waiting
    <3>2. QED  BY <1>2, <1>4, <3>1 DEF Take
  <2>2. buf' = Tail(buf) /\ next' = SeqNext(next) /\ remaining' = remaining - GapFrames
    BY <1>2, <1>5, <2>1 DEF Play, PopExpected
  <2>3. QED  BY <1>1, <1>2, <1>4, <2>2, BufferShrinks DEF TInv
<1>6. CASE PopGap
  <2>1. next' = SeqNext(next) /\ remaining' = remaining - GapFrames
    BY <1>2, <1>4, <1>6 DEF PopGap
  <2>2. Buffered' = Buffered
    BY <1>6 DEF PopGap, Buffered
  <2>3. QED  BY <1>2, <1>4, <2>1, <2>2
<1>7. QED  BY <1>5, <1>6

\* All steps keep packets and what is owed whole.
LEMMA EvenStep ==
    ASSUME NEW m \in Nat, PopFrames = m * GapFrames, TInv, EvenOK, [Next]_vars
    PROVE  EvenOK'
<1> SUFFICES ASSUME ~uneven' PROVE (\A e \in Waiting' : e.left = GapFrames)
                                   /\ \E k \in Nat : remaining' = k * GapFrames
  BY DEF EvenOK
<1>1. CASE Restart
  BY <1>1 DEF Restart, EvenOK, Waiting, Buffered, jitterVars, networkVars
<1>2. ASSUME NEW n \in PacketSizes, Send(n)
      PROVE  (\A e \in Waiting' : e.left = GapFrames) /\ \E k \in Nat : remaining' = k * GapFrames
  <2>1. ~uneven /\ n = GapFrames
    BY <1>2 DEF Send
  <2>2. QED  BY <1>2, <2>1 DEF Send, EvenOK, Waiting, Buffered, jitterVars
<1>3. ASSUME NEW p \in inFlight, NEW copyKept \in BOOLEAN, Receive(p, copyKept)
      PROVE  (\A e \in Waiting' : e.left = GapFrames) /\ \E k \in Nat : remaining' = k * GapFrames
  <2>1. inFlight' \subseteq inFlight /\ ~uneven
    BY <1>3 DEF Receive, senderVars
  <2>2. UNCHANGED remaining
    BY <1>3 DEF Receive, Push, PushLate, PushInTime, jitterVars
  <2>3. Buffered' \subseteq Buffered \cup {p}
    <3>1. CASE PushInTime(p)
      BY <3>1, BufferGrows DEF TInv, TypeOK
    <3>2. CASE UNCHANGED buf
      BY <3>2 DEF Buffered
    <3>3. QED  BY <1>3, <3>1, <3>2 DEF Receive, Push, PushLate, jitterVars
  <2>4. QED  BY <2>1, <2>2, <2>3 DEF EvenOK, Waiting
<1>4. CASE Play \/ (PopGap /\ UNCHANGED <<senderVars, networkVars>>)
  <2>1. ~uneven /\ inFlight' = inFlight
    BY <1>4 DEF Play, senderVars, networkVars
  <2>2. QED  BY <1>4, <2>1, TurnTakesOnePacket DEF EvenOK, Waiting
<1>5. CASE (PopBehind \/ PopUnderrun) /\ UNCHANGED <<senderVars, networkVars>>
  <2>1. Buffered' \subseteq Buffered /\ inFlight' = inFlight /\ ~uneven
    <3>1. PopBehind => buf # <<>> /\ buf' = Tail(buf)
      BY DEF PopBehind
    <3>2. PopUnderrun => UNCHANGED buf
      BY DEF PopUnderrun
    <3>3. QED  BY <1>5, <3>1, <3>2, BufferShrinks DEF Buffered, senderVars, networkVars, TInv
  <2>2. remaining' = remaining \/ remaining' = 0 * GapFrames
    BY <1>5, JitterAssumption DEF PopBehind, PopUnderrun
  <2>3. QED  BY <2>1, <2>2 DEF EvenOK, Waiting
<1>6. CASE QuietStep
  <2>1. Waiting' \subseteq Waiting /\ ~uneven
    BY <1>6, QuietStepIsQuiet DEF Waiting, Buffered, senderVars
  <2>2. remaining' = remaining \/ remaining' = m * GapFrames
    BY <1>6, QuietStepIsQuiet
  <2>3. QED  BY <2>1, <2>2 DEF EvenOK
<1>7. QED  BY Steps, <1>1, <1>2, <1>3, <1>4, <1>5, <1>6 DEF PlayNothing

\* Losses do not shift the audio that follows: if playback asks for whole packets'
\* time, as it does (receiver/src/main.rs:111), each number the cursor passes takes the
\* time of one packet.
THEOREM TimeKept ==
    ASSUME NEW m \in Nat, PopFrames = m * GapFrames
    PROVE  Spec => KeepsTime
<1>1. Init => EvenOK
  <2>1. SUFFICES ASSUME Init PROVE EvenOK
    OBVIOUS
  <2>2. Waiting = {} /\ remaining = 0 * GapFrames
    BY <2>1, JitterAssumption DEF Init, JitterInit, Waiting, Buffered
  <2>3. QED  BY <2>2 DEF EvenOK
<1>2. TInv /\ EvenOK /\ [Next]_vars => EvenOK'
  BY EvenStep
<1>3. TInv /\ EvenOK /\ [Next]_vars =>
        [~uneven /\ next # NoSeq /\ next' # next =>
            remaining - remaining' = GapFrames /\ next' = SeqNext(next)]_vars
  <2>1. SUFFICES ASSUME TInv, EvenOK, [Next]_vars, ~uneven, next # NoSeq, next' # next
                 PROVE  remaining - remaining' = GapFrames /\ next' = SeqNext(next)
    OBVIOUS
  <2>2. Play \/ PopGap
    <3>1. \A n : ~Send(n)
      BY <2>1 DEF Send, jitterVars
    <3>2. ~Restart /\ ~QuietStep
      BY <2>1, QuietStepIsQuiet DEF Restart, jitterVars
    <3>3. \A p, copyKept : ~Receive(p, copyKept)
      BY <2>1 DEF Receive, Push, PushLate, PushInTime, jitterVars
    <3>4. ~PopBehind /\ ~PopUnderrun
      BY <2>1 DEF PopBehind, PopUnderrun
    <3>5. QED  BY <2>1, <3>1, <3>2, <3>3, <3>4, Steps DEF PlayNothing
  <2>3. QED  BY <2>1, <2>2, TurnTakesOnePacket
<1>4. QED  BY <1>1, <1>2, <1>3, TInvHolds, PTL DEF Spec, KeepsTime
-------------------------------------------------------------------------------
(* What QuitEnds rests on: pop_frames, which holds the mutex, never gets stuck and *)
(* does not turn for ever.  That a thread which can go on does so is fairness.     *)

\* While frames are owed, a packet, a gap, a repeat or an empty buffer is at hand, and
\* the cursor is there to tell which.
PopCanGoOn == remaining > 0 => jstate = "Playing" /\ next # NoSeq

\* Every turn takes a frame off what is owed, or a packet off the buffer.
TurnsEnd == [][Play \/ PlayNothing => remaining' + Len(buf') < remaining + Len(buf)]_vars

\* One turn.
LEMMA TurnProgress ==
    ASSUME TInv, Play \/ PlayNothing
    PROVE  remaining' + Len(buf') < remaining + Len(buf)
<1>1. Len(buf) \in Nat /\ remaining \in Nat
  BY JitterAssumption, LenProperties DEF TInv, TypeOK
<1>2. CASE Play
  <2> DEFINE n == Take
  <2>1. /\ Popping /\ buf # <<>> /\ remaining' = remaining - n
        /\ n \in Nat /\ 0 < n /\ n <= remaining
    BY <1>2, TakeType DEF Play, PopExpected
  <2>2. Len(buf') \in Nat /\ Len(buf') <= Len(buf)
    <3>1. CASE n < Oldest.left
      <4>1. buf' = [buf EXCEPT ![1].left = @ - n]
        BY <1>2, <3>1 DEF Play, PopExpected
      <4> HIDE DEF n
      <4>2. Len(buf') = Len(buf)
        BY <2>1, <3>1, <4>1, BufferCut DEF TInv
      <4>3. QED  BY <1>1, <4>2
    <3>2. CASE ~(n < Oldest.left)
      <4>1. buf' = Tail(buf)
        BY <1>2, <3>2 DEF Play, PopExpected
      <4>2. Len(buf') = Len(buf) - 1 /\ Len(buf) # 0
        BY <2>1, <4>1, BufferShrinks, OldestType DEF TInv
      <4>3. QED  BY <1>1, <4>2
    <3>3. QED  BY <3>1, <3>2
  <2> HIDE DEF n
  <2>3. \A x, y, k, l \in Nat : 0 < k /\ l <= y => (x - k) + l < x + y
    OBVIOUS
  <2>4. QED  BY <1>1, <2>1, <2>2, <2>3
<1>3. CASE PopGap
  <2> DEFINE n == IF GapFrames < remaining THEN GapFrames ELSE remaining
  <2>1. remaining' = remaining - n /\ buf' = buf /\ n \in Nat /\ 0 < n
    BY <1>1, <1>3, JitterAssumption DEF PopGap, Popping
  <2> HIDE DEF n
  <2>2. QED  BY <1>1, <2>1
<1>4. CASE PopBehind
  <2>1. remaining' = remaining /\ Len(buf') = Len(buf) - 1
    BY <1>4, BufferShrinks DEF PopBehind, TInv
  <2>2. QED  BY <1>1, <2>1
<1>5. CASE PopUnderrun
  BY <1>1, <1>5 DEF PopUnderrun, Popping
<1>6. QED  BY <1>2, <1>3, <1>4, <1>5 DEF PlayNothing

\* pop_frames is never stuck: whoever waits for the mutex, a packet to push or "q" to
\* be seen, waits for as many turns as frames and packets are there, and no longer.
THEOREM PopFinishes == Spec => []PopCanGoOn /\ TurnsEnd
<1>1. Init => PopCanGoOn
  BY DEF Init, JitterInit, PopCanGoOn
<1>2. TInv /\ PopCanGoOn /\ [Next]_vars => PopCanGoOn'
  <2>1. SUFFICES ASSUME TInv, PopCanGoOn, [Next]_vars, remaining' > 0 PROVE jstate' = "Playing"
    BY TInvStep DEF PopCanGoOn, TInv, BoundsOK
  <2>2. ASSUME NEW p \in inFlight, NEW copyKept \in BOOLEAN, Receive(p, copyKept) PROVE FALSE
    BY <2>1, <2>2 DEF Receive, Push, PushLate, PushInTime, jitterVars
  <2>3. CASE Play \/ PopGap \/ PopBehind
    BY <2>1, <2>3 DEF Play, PopExpected, PopGap, PopBehind, Popping
  <2>4. CASE PopUnderrun
    BY <2>1, <2>4 DEF PopUnderrun
  <2>5. CASE QuietStep
    <3>1. CASE PlayBegins
      BY <3>1 DEF PlayBegins, PopBegin
    <3>2. CASE ~PlayBegins
      <4>1. remaining' = remaining /\ jstate' = jstate
        BY <2>5, <3>2 DEF QuietStep, RecvFails, Quit, Stops, RecvStops, PlayStops, JoinRecv,
                          JoinPlay, vars, jitterVars
      <4>2. QED  BY <2>1, <4>1 DEF PopCanGoOn
    <3>3. QED  BY <3>1, <3>2
  <2>6. CASE Restart \/ \E n \in PacketSizes : Send(n)
    BY <2>1, <2>6 DEF Restart, Send, jitterVars, PopCanGoOn
  <2>7. QED  BY <2>1, <2>2, <2>3, <2>4, <2>5, <2>6, Steps DEF PlayNothing
<1>3. TInv /\ [Next]_vars =>
        [Play \/ PlayNothing => remaining' + Len(buf') < remaining + Len(buf)]_vars
  BY TurnProgress
<1>4. QED  BY <1>1, <1>2, <1>3, TInvHolds, PTL DEF Spec, TurnsEnd
-------------------------------------------------------------------------------
(* Numbers of one sender that numbered its first packet f. *)

Number(f, i) == (f + i - 1) % NumSpace

\* Counting on from f, across the wrap.
LEMMA NumberType ==
    ASSUME NEW f \in SeqNum, NEW i \in Nat \ {0}
    PROVE  /\ Number(f, i) \in SeqNum /\ f + i - 1 \in Nat
           /\ Number(f, 1) = f /\ SeqNext(Number(f, i)) = Number(f, i + 1)
<1>1. f \in Nat /\ f + i - 1 \in Nat /\ f < NumSpace /\ f + 1 - 1 = f /\ f + (i + 1) - 1 = f + i
  BY NumSpaceAssumption DEF SeqNum
<1>2. Number(f, i) \in SeqNum /\ Number(f, 1) = f
  BY <1>1, NumSpaceAssumption DEF Number, SeqNum
<1>3. \A x \in Nat : ((x % NumSpace) + 1) % NumSpace = (x + 1) % NumSpace
  <2>1. SUFFICES ASSUME NEW x \in Nat PROVE ((x % NumSpace) + 1) % NumSpace = (x + 1) % NumSpace
    OBVIOUS
  <2>2. PICK q \in Nat : x = (x % NumSpace) + q * NumSpace
    BY Division
  <2>3. x % NumSpace \in SeqNum /\ (x + 1) % NumSpace \in SeqNum
    BY NumSpaceAssumption DEF SeqNum
  <2>4. PICK r \in Nat : x + 1 = ((x + 1) % NumSpace) + r * NumSpace
    BY Division
  <2>5. CASE (x % NumSpace) + 1 < NumSpace
    <3>1. r = q
      BY <2>2, <2>3, <2>4, <2>5, NumSpaceAssumption DEF SeqNum
    <3>2. (x + 1) % NumSpace = (x % NumSpace) + 1
      BY <2>2, <2>3, <2>4, <3>1, NumSpaceAssumption DEF SeqNum
    <3>3. QED  BY <2>3, <2>5, <3>2, NumSpaceAssumption DEF SeqNum
  <2>6. CASE (x % NumSpace) + 1 = NumSpace
    <3>1. r = q + 1
      BY <2>2, <2>3, <2>4, <2>6, NumSpaceAssumption DEF SeqNum
    <3>2. (x + 1) % NumSpace = 0
      BY <2>2, <2>3, <2>4, <2>6, <3>1, NumSpaceAssumption DEF SeqNum
    <3>3. QED  BY <2>6, <3>2, NumSpaceAssumption
  <2>7. QED  BY <2>3, <2>5, <2>6, NumSpaceAssumption DEF SeqNum
<1>4. SeqNext(Number(f, i)) = Number(f, i + 1)
  BY <1>1, <1>3 DEF Number, SeqNext
<1>5. QED  BY <1>1, <1>2, <1>4

\* Two packets of which one was sent less than half the number space after the other.
LEMMA NumberOrder ==
    ASSUME NEW f \in SeqNum, NEW i \in Nat \ {0}, NEW j \in Nat \ {0},
           i - j < HalfRange, j - i < HalfRange
    PROVE  /\ SeqBefore(Number(f, i), Number(f, j)) <=> i < j
           /\ Number(f, i) = Number(f, j) <=> i = j
<1> DEFINE x == f + i - 1
           y == f + j - 1
<1>1. x \in Nat /\ y \in Nat /\ Number(f, i) \in SeqNum /\ Number(f, j) \in SeqNum
      /\ y - x = j - i /\ x - y = i - j /\ f \in Nat
  BY NumberType, NumSpaceAssumption DEF SeqNum
<1>2. ASSUME i < j PROVE SeqBefore(Number(f, i), Number(f, j))
  <2>1. x < y /\ y - x < HalfRange
    BY <1>1, <1>2
  <2>2. QED  BY <1>1, <2>1, BeforeIsSendOrder DEF Number
<1>3. ASSUME j < i PROVE SeqBefore(Number(f, j), Number(f, i))
  <2>1. y < x /\ x - y < HalfRange
    BY <1>1, <1>3
  <2>2. QED  BY <1>1, <2>1, BeforeIsSendOrder DEF Number
<1> HIDE DEF x, y
<1> DEFINE a == Number(f, i)
           b == Number(f, j)
<1>4. (SeqBefore(a, b) => a # b /\ ~SeqBefore(b, a)) /\ (SeqBefore(b, a) => b # a /\ ~SeqBefore(a, b))
  BY <1>1, BeforeIsAsymmetric
<1>5. i < j => SeqBefore(a, b)
  BY <1>2
<1>6. j < i => SeqBefore(b, a)
  BY <1>3
<1>7. i = j => a = b
  OBVIOUS
<1> HIDE DEF a, b
<1>8. (SeqBefore(a, b) <=> i < j) /\ (a = b <=> i = j)
  BY <1>4, <1>5, <1>6, <1>7
<1>9. QED  BY <1>8 DEF a, b
-------------------------------------------------------------------------------
(* The order of the stream.  f is the number of packet 1, c the id of the packet the *)
(* cursor is at, or 0 while there is no cursor.                                      *)

\* The number of a packet is that of its place in the stream.
Numbered(f) ==
    /\ sendSeq = Number(f, sent + 1)
    /\ \A e \in Waiting : e.seq = Number(f, e.id)

\* The cursor is at a packet that was pushed, or at the one after the newest.
CursorAt(f, c) ==
    \/ next = NoSeq /\ c = 0
    \/ next = Number(f, c) /\ c \in 1 .. newest + 1 /\ sent + 1 - c < NumSpace

Sorted == \A i, j \in 1 .. Len(buf) : i < j => buf[i].id <= buf[j].id

\* What was heard is behind the cursor, and what is behind the cursor and still in the
\* buffer was heard.
HeardBehind(c) ==
    /\ \A e \in Buffered : e.id >= c \/ e.id \in heard
    /\ \A i \in heard : i < c

\* The packet last played is behind the cursor, or the rest of it is in front.
LastBehind(c) ==
    \/ last.id < c
    \/ last.id = c /\ c = 0
    \/ last.id = c /\ buf # <<>> /\ Oldest.id = c /\ Oldest.left = last.left

\* Every packet counted as received is in the buffer, was heard, or is lost.
AllCounted == received = lost + Len(buf) + Cardinality(heard)

StreamOK(f, c) ==
    Numbered(f) /\ CursorAt(f, c) /\ Sorted /\ HeardBehind(c) /\ LastBehind(c) /\ AllCounted

OrderOK == restarts = 0 => \E f \in SeqNum, c \in Nat : StreamOK(f, c)

\* What is compared is compared in the order of the stream.
LEMMA Near ==
    ASSUME TInv, restarts = 0, NothingStale,
           NEW f \in SeqNum, NEW c \in Nat, Numbered(f), CursorAt(f, c)
    PROVE  /\ \A e \in Waiting : e.id \in Nat \ {0} /\ e.id <= sent /\ sent + 1 - e.id < HalfRange
           /\ \A e, g \in Waiting : SeqBefore(e.seq, g.seq) <=> e.id < g.id
           /\ next # NoSeq =>
                /\ c > 0 /\ c <= newest + 1 /\ sent + 1 - c < HalfRange /\ next = Number(f, c)
                /\ \A e \in Waiting : /\ SeqBefore(e.seq, next) <=> e.id < c
                                      /\ SeqBefore(next, e.seq) <=> c < e.id
                                      /\ e.seq = next <=> e.id = c
<1>1. sent \in Nat /\ newest \in Nat /\ newest <= sent
  BY StreamAssumption DEF TInv, BoundsOK
<1>2. \A e \in Waiting : /\ e.id \in Nat \ {0} /\ e.id <= sent /\ sent + 1 - e.id < HalfRange
                         /\ e.seq = Number(f, e.id)
  <2>1. \A e \in Waiting : e.id \in 1 .. MaxPackets
    BY BufferedType DEF TInv, TypeOK, Waiting, Buffered, Entry
  <2>2. QED  BY <2>1, StreamAssumption DEF TInv, BoundsOK, NothingStale, Numbered
<1>3. ASSUME NEW e \in Waiting, NEW g \in Waiting
      PROVE  SeqBefore(e.seq, g.seq) <=> e.id < g.id
  <2>1. e.id - g.id < HalfRange /\ g.id - e.id < HalfRange
    BY <1>1, <1>2, HalfRangeBound
  <2>2. QED  BY <1>2, <2>1, NumberOrder
<1>4. ASSUME next # NoSeq
      PROVE  c > 0 /\ c <= newest + 1 /\ sent + 1 - c < HalfRange /\ next = Number(f, c)
  <2>1. next = Number(f, c) /\ c > 0 /\ c <= newest + 1 /\ sent + 1 - c < NumSpace
    BY <1>1, <1>4 DEF CursorAt
  <2>2. (sendSeq - next) % NumSpace = sent + 1 - c
    <3> DEFINE x == f + c - 1
               y == f + (sent + 1) - 1
    <3>1. x \in Nat /\ y \in Nat /\ y - x = sent + 1 - c /\ x <= y
      BY <1>1, <2>1, NumSpaceAssumption DEF SeqNum
    <3>2. sendSeq = y % NumSpace /\ next = x % NumSpace
      BY <2>1 DEF Numbered, Number
    <3> HIDE DEF x, y
    <3>3. QED  BY <2>1, <3>1, <3>2, Distance
  <2>3. QED  BY <1>4, <2>1, <2>2 DEF NothingStale
<1>5. ASSUME next # NoSeq, NEW e \in Waiting
      PROVE  /\ SeqBefore(e.seq, next) <=> e.id < c
             /\ SeqBefore(next, e.seq) <=> c < e.id
             /\ e.seq = next <=> e.id = c
  <2>1. c \in Nat \ {0} /\ e.id - c < HalfRange /\ c - e.id < HalfRange
    BY <1>1, <1>2, <1>4, <1>5, HalfRangeBound
  <2>2. QED  BY <1>2, <1>4, <1>5, <2>1, NumberOrder
<1>6. QED  BY <1>2, <1>3, <1>4, <1>5

\* At first packet 1 is the next to be sent.
LEMMA OrderInit == Init => OrderOK
<1> SUFFICES ASSUME Init PROVE OrderOK
  OBVIOUS
<1> USE DEF Init, JitterInit
<1>1. sendSeq \in SeqNum /\ sendSeq = Number(sendSeq, sent + 1)
  BY StreamAssumption, NumberType
<1>2. buf = <<>> /\ Len(buf) = 0 /\ Waiting = {} /\ Buffered = {}
  BY EmptySeq DEF Waiting, Buffered
<1>3. AllCounted
  BY <1>2, FS_EmptySet DEF AllCounted
<1>4. StreamOK(sendSeq, 0)
  BY <1>1, <1>2, <1>3 DEF StreamOK, Numbered, CursorAt, Sorted, HeardBehind, LastBehind
<1>5. QED  BY <1>1, <1>4 DEF OrderOK

\* What the steps have in common: ids stay what they were.
LEMMA StillNumbered ==
    ASSUME TInv, NEW f \in SeqNum, Numbered(f), UNCHANGED senderVars,
           \A e \in Waiting' : \E g \in Waiting : e.id = g.id /\ e.seq = g.seq
    PROVE  Numbered(f)'
BY DEF Numbered, senderVars

\* The packet sent is the next of the stream, and still near the cursor.
LEMMA OrderSend ==
    ASSUME TInv, NothingStale, restarts = 0, NEW f \in SeqNum, NEW c \in Nat, StreamOK(f, c),
           NEW n \in PacketSizes, Send(n)
    PROVE  StreamOK(f, c)'
<1> DEFINE p == [id |-> sent + 1, seq |-> sendSeq, left |-> n]
<1>1. /\ UNCHANGED <<buf, next, newest, received, lost, playedVars>>
      /\ inFlight' = inFlight \cup {p} /\ sent' = sent + 1 /\ sendSeq' = SeqNext(sendSeq)
  BY DEF Send, jitterVars
<1>2. sent \in Nat /\ newest \in Nat /\ newest <= sent
  BY StreamAssumption DEF TInv, BoundsOK
<1>3. Numbered(f) /\ CursorAt(f, c)
  BY DEF StreamOK
<1>4. Numbered(f)'
  <2>1. p.seq = Number(f, p.id) /\ SeqNext(sendSeq) = Number(f, (sent + 1) + 1)
    BY <1>2, <1>3, NumberType DEF Numbered
  <2>2. Waiting' = Waiting \cup {p}
    BY <1>1 DEF Waiting, Buffered
  <2> HIDE DEF p
  <2>3. QED  BY <1>1, <1>3, <2>1, <2>2 DEF Numbered
<1>5. CursorAt(f, c)'
  <2>1. next # NoSeq => sent + 1 - c < HalfRange
    BY <1>3, Near
  <2>2. next # NoSeq => sent' + 1 - c < NumSpace
    BY <1>1, <1>2, <2>1, HalfRangeBound, NumSpaceAssumption
  <2>3. next' = next /\ newest' = newest
    BY <1>1
  <2>4. CASE next = NoSeq
    <3>1. c \in Nat \ {0} => Number(f, c) # NoSeq
      BY NumberType, JitterAssumption
    <3>2. c = 0
      BY <1>2, <1>3, <2>4, <3>1 DEF CursorAt
    <3>3. QED  BY <2>3, <2>4, <3>2 DEF CursorAt
  <2>5. CASE next # NoSeq
    BY <1>3, <2>2, <2>3, <2>5 DEF CursorAt
  <2>6. QED  BY <2>4, <2>5
<1>6. (Sorted /\ HeardBehind(c) /\ LastBehind(c) /\ AllCounted)'
  BY <1>1 DEF StreamOK, Sorted, HeardBehind, LastBehind, AllCounted, Oldest, Buffered, playedVars
<1>7. QED  BY <1>4, <1>5, <1>6 DEF StreamOK

\* The threads' comings and goings leave the stream as it is.
LEMMA OrderQuiet ==
    ASSUME TInv, NEW f \in SeqNum, NEW c \in Nat, StreamOK(f, c), QuietStep
    PROVE  StreamOK(f, c)'
<1>1. /\ UNCHANGED <<buf, jstate, next, received, lost, senderVars, pushes, newest, playedVars>>
      /\ inFlight' \subseteq inFlight
  BY QuietStepIsQuiet
<1>2. Waiting' \subseteq Waiting /\ Buffered' = Buffered
  BY <1>1 DEF Waiting, Buffered
<1>3. Numbered(f)' /\ CursorAt(f, c)'
  BY <1>1, <1>2 DEF StreamOK, Numbered, CursorAt, senderVars
<1>4. (Sorted /\ HeardBehind(c) /\ LastBehind(c) /\ AllCounted)'
  BY <1>1, <1>2 DEF StreamOK, Sorted, HeardBehind, LastBehind, AllCounted, Oldest, playedVars
<1>5. QED  BY <1>3, <1>4 DEF StreamOK

\* The packet in front was sent before the others in the buffer.
LEMMA FrontIsLeast ==
    ASSUME TInv, Sorted, buf # <<>>
    PROVE  \A e \in Buffered : Oldest.id <= e.id
<1>1. Len(buf) \in Nat \ {0} /\ \A i \in 1 .. Len(buf) : buf[i].id \in Nat
  BY OldestType, BufferedType DEF TInv, TypeOK
<1>2. ASSUME NEW e \in Buffered PROVE Oldest.id <= e.id
  <2>1. PICK i \in 1 .. Len(buf) : e = buf[i]
    BY DEF Buffered
  <2>2. CASE i = 1
    BY <1>1, <2>1, <2>2 DEF Oldest
  <2>3. CASE 1 < i
    <3>1. 1 \in 1 .. Len(buf)
      BY <1>1
    <3>2. buf[1].id <= buf[i].id
      BY <2>3, <3>1 DEF Sorted
    <3>3. QED  BY <2>1, <3>2 DEF Oldest
  <2>4. QED  BY <2>1, <2>2, <2>3
<1>3. QED  BY <1>2

\* The buffer without its oldest packet is still in order.
LEMMA TailSorted ==
    ASSUME TInv, Sorted, buf # <<>>, buf' = Tail(buf)
    PROVE  Sorted' /\ Buffered' \subseteq Buffered /\ Len(buf') = Len(buf) - 1 /\ Len(buf) \in Nat
<1>1. buf' \in Seq(Entry) /\ Len(buf') = Len(buf) - 1 /\ Buffered' \subseteq Buffered
      /\ \A i \in 1 .. Len(buf') : buf'[i] = buf[i + 1]
  BY BufferShrinks DEF TInv
<1>2. Len(buf) \in Nat \ {0} /\ \A i \in 1 .. Len(buf) : buf[i].id \in Nat
  BY OldestType, BufferedType DEF TInv, TypeOK
<1>3. Sorted'
  <2>1. SUFFICES ASSUME NEW i \in 1 .. Len(buf'), NEW j \in 1 .. Len(buf'), i < j
                 PROVE  buf'[i].id <= buf'[j].id
    BY DEF Sorted
  <2>2. i + 1 \in 1 .. Len(buf) /\ j + 1 \in 1 .. Len(buf) /\ i + 1 < j + 1
    BY <1>1, <1>2, <2>1
  <2>3. buf[i + 1].id <= buf[j + 1].id
    BY <2>2 DEF Sorted
  <2>4. QED  BY <1>1, <2>3
<1>4. QED  BY <1>1, <1>2, <1>3

\* No more packets are heard than are sent.
LEMMA HeardFinite ==
    ASSUME TInv
    PROVE  IsFiniteSet(heard)
<1>1. IsFiniteSet(1 .. MaxPackets)
  BY FS_Interval, StreamAssumption
<1>2. QED  BY <1>1, FS_Subset DEF TInv, TypeOK

\* A packet is played: it is the one the cursor is at.
LEMMA OrderPlay ==
    ASSUME TInv, NothingStale, restarts = 0, NEW f \in SeqNum, NEW c \in Nat, StreamOK(f, c), Play
    PROVE  /\ \E d \in Nat : StreamOK(f, d)'
           /\ last'.id > last.id \/ (last'.id = last.id /\ last'.left < last.left)
<1>1. /\ Popping /\ buf # <<>>
      /\ UNCHANGED <<threadVars, senderVars, networkVars, jstate, received, lost>>
  BY DEF Play, PopExpected
<1>2. /\ Oldest \in Entry /\ Oldest \in Buffered /\ Oldest \in Waiting /\ Oldest.id <= newest
      /\ Take \in Nat /\ 0 < Take /\ Take <= Oldest.left
      /\ next # NoSeq /\ Cursor = next /\ next \in SeqNum
      /\ Oldest.left \in Nat /\ last.id \in Nat /\ last.left \in Nat
  BY <1>1, TakeType DEF Waiting, TInv, BoundsOK, Entry
<1>3. sent \in Nat /\ newest \in Nat
  BY StreamAssumption DEF TInv, BoundsOK
<1>4. Numbered(f) /\ CursorAt(f, c) /\ Sorted /\ HeardBehind(c) /\ LastBehind(c) /\ AllCounted
  BY DEF StreamOK
<1>5. Oldest.id = c /\ c > 0 /\ sent + 1 - c < HalfRange /\ next = Number(f, c)
  <2>1. Oldest.seq = next
    BY <1>2 DEF Play, PopExpected
  <2>2. QED  BY <1>2, <1>4, <2>1, Near
<1>6. last' = [id |-> c, left |-> Oldest.left - Take]
  BY <1>5 DEF Play
<1>7. last'.id > last.id \/ (last'.id = last.id /\ last'.left < last.left)
  BY <1>2, <1>4, <1>5, <1>6 DEF LastBehind
<1>8. CASE Take < Oldest.left
  <2> DEFINE n == Take
             rest == [Oldest EXCEPT !.left = @ - n]
  <2>1. buf' = [buf EXCEPT ![1].left = @ - n] /\ next' = next /\ heard' = heard
    BY <1>2, <1>8 DEF Play, PopExpected
  <2>2. n \in Nat /\ n < Oldest.left
    BY <1>2, <1>8
  <2>3. rest.id = c /\ rest.seq = Oldest.seq /\ rest.left = Oldest.left - Take
    BY <1>2, <1>5 DEF Entry
  <2> HIDE DEF n
  <2>4. /\ buf' \in Seq(Entry) /\ Len(buf') = Len(buf) /\ buf'[1] = rest
        /\ \A i \in 2 .. Len(buf) : buf'[i] = buf[i]
        /\ Buffered' \subseteq Buffered \cup {rest}
    BY <1>1, <2>1, <2>2, BufferCut DEF TInv
  <2> HIDE DEF rest
  <2>5. Len(buf) \in Nat \ {0} /\ \A i \in 1 .. Len(buf) : buf'[i].id = buf[i].id
    <3>1. Len(buf) \in Nat \ {0}
      BY <1>1, OldestType DEF TInv
    <3>2. QED  BY <1>5, <2>3, <2>4, <3>1 DEF Oldest
  <2>6. Numbered(f)'
    <3>1. inFlight' = inFlight
      BY <1>1 DEF networkVars
    <3>2. \A e \in Waiting' : \E g \in Waiting : e.id = g.id /\ e.seq = g.seq
      BY <1>2, <1>5, <2>3, <2>4, <3>1 DEF Waiting
    <3>3. QED  BY <1>1, <1>4, <3>2, StillNumbered
  <2>7. CursorAt(f, c)'
    BY <1>1, <1>4, <2>1 DEF CursorAt, senderVars, networkVars
  <2>8. Sorted'
    BY <1>4, <2>4, <2>5 DEF Sorted
  <2>9. HeardBehind(c)'
    BY <1>4, <2>1, <2>3, <2>4 DEF HeardBehind
  <2>10. LastBehind(c)'
    <3>1. buf' # <<>>
      BY <2>4, <2>5, EmptySeq
    <3>2. QED  BY <1>6, <2>3, <2>4, <3>1 DEF LastBehind, Oldest
  <2>11. AllCounted'
    BY <1>1, <1>4, <2>1, <2>4 DEF AllCounted
  <2>12. QED  BY <1>7, <2>6, <2>7, <2>8, <2>9, <2>10, <2>11 DEF StreamOK
<1>9. CASE ~(Take < Oldest.left)
  <2>1. buf' = Tail(buf) /\ next' = SeqNext(next) /\ heard' = heard \cup {c}
    BY <1>2, <1>5, <1>9 DEF Play, PopExpected
  <2>2. /\ Sorted' /\ Buffered' \subseteq Buffered /\ Len(buf') = Len(buf) - 1 /\ Len(buf) \in Nat
    BY <1>1, <1>4, <2>1, TailSorted
  <2>3. Numbered(f)'
    BY <1>1, <1>4, <2>2, StillNumbered DEF Waiting, networkVars
  <2>4. CursorAt(f, c + 1)'
    <3>1. next' = Number(f, c + 1)
      BY <1>5, <2>1, NumberType
    <3>2. c + 1 \in 1 .. newest + 1 /\ sent + 1 - (c + 1) < NumSpace
      BY <1>2, <1>3, <1>5, HalfRangeBound, NumSpaceAssumption
    <3>3. QED  BY <1>1, <3>1, <3>2 DEF CursorAt, senderVars, networkVars
  <2>5. HeardBehind(c + 1)'
    <3>1. \A e \in Buffered : e.id \in Nat
      BY BufferedType DEF Buffered, TInv, TypeOK
    <3>2. \A i \in heard : i \in Nat
      BY StreamAssumption DEF TInv, TypeOK
    <3>3. QED  BY <1>4, <2>1, <2>2, <3>1, <3>2 DEF HeardBehind
  <2>6. LastBehind(c + 1)'
    BY <1>6 DEF LastBehind
  <2>7. AllCounted'
    <3>1. IsFiniteSet(heard)
      BY HeardFinite
    <3>2. c \notin heard
      BY <1>4 DEF HeardBehind
    <3>3. Cardinality(heard \cup {c}) = Cardinality(heard) + 1 /\ Cardinality(heard) \in Nat
      BY <3>1, <3>2, FS_AddElement, FS_CardinalityType
    <3>4. QED  BY <1>1, <1>4, <2>1, <2>2, <3>3 DEF AllCounted, TInv, TypeOK
  <2>8. QED  BY <1>7, <2>2, <2>3, <2>4, <2>5, <2>6, <2>7 DEF StreamOK
<1>10. QED  BY <1>8, <1>9

\* A gap is filled, a packet skipped, or the buffer is empty: only a packet that was
\* heard is skipped.
LEMMA OrderPlayNothing ==
    ASSUME TInv, NothingStale, restarts = 0, NEW f \in SeqNum, NEW c \in Nat, StreamOK(f, c),
           PlayNothing
    PROVE  /\ \E d \in Nat : StreamOK(f, d)'
           /\ buf # <<>> /\ lost' # lost => Oldest.id \in heard
<1>1. UNCHANGED <<threadVars, senderVars, networkVars, playedVars>> /\ UNCHANGED received
  BY DEF PlayNothing, PopGap, PopBehind, PopUnderrun
<1>2. Numbered(f) /\ CursorAt(f, c) /\ Sorted /\ HeardBehind(c) /\ LastBehind(c) /\ AllCounted
  BY DEF StreamOK
<1>3. /\ sent \in Nat /\ newest \in Nat /\ last.id \in Nat /\ lost \in Nat
      /\ \A i \in heard : i \in Nat
  BY StreamAssumption DEF TInv, BoundsOK, TypeOK
<1>4. ASSUME Popping, buf # <<>>
      PROVE  /\ Oldest \in Buffered /\ Oldest.id <= newest /\ Oldest.id \in Nat
             /\ next # NoSeq /\ Cursor = next
             /\ c > 0 /\ sent + 1 - c < HalfRange /\ next = Number(f, c)
             /\ SeqBefore(next, Oldest.seq) <=> c < Oldest.id
             /\ Oldest.seq = next <=> Oldest.id = c
  <2>1. /\ Oldest \in Waiting /\ Oldest \in Buffered /\ Oldest.id <= newest
        /\ next # NoSeq /\ Cursor = next
    BY <1>4, TakeType DEF Waiting
  <2>2. QED  BY <1>2, <2>1, Near
<1>5. CASE PopGap
  <2>1. Popping /\ buf # <<>> /\ UNCHANGED <<buf, lost>> /\ next' = SeqNext(Cursor)
        /\ SeqBefore(Cursor, Oldest.seq)
    BY <1>5 DEF PopGap
  <2>2. /\ c < Oldest.id /\ Oldest.id <= newest /\ Oldest.id \in Nat /\ c > 0
        /\ sent + 1 - c < HalfRange /\ next' = Number(f, c + 1)
    <3>1. next' = SeqNext(Number(f, c)) /\ c > 0
      BY <1>4, <2>1
    <3>2. next' = Number(f, c + 1)
      BY <3>1, NumberType
    <3>3. QED  BY <1>4, <2>1, <3>2
  <2>3. Numbered(f)'
    BY <1>1, <1>2, <2>1, StillNumbered DEF Waiting, Buffered, networkVars
  <2>4. CursorAt(f, c + 1)'
    <3>1. c + 1 \in 1 .. newest + 1 /\ sent + 1 - (c + 1) < NumSpace
      BY <1>3, <2>2, HalfRangeBound, NumSpaceAssumption
    <3>2. QED  BY <1>1, <2>2, <3>1 DEF CursorAt, senderVars, networkVars
  <2>5. HeardBehind(c + 1)'
    <3>1. \A e \in Buffered : e.id \in Nat /\ Oldest.id <= e.id
      BY <1>2, <2>1, FrontIsLeast, BufferedType DEF Buffered, TInv, TypeOK
    <3>2. Buffered' = Buffered /\ heard' = heard
      BY <1>1, <2>1 DEF Buffered, playedVars
    <3>3. QED  BY <1>2, <1>3, <2>2, <3>1, <3>2 DEF HeardBehind
  <2>6. LastBehind(c + 1)'
    BY <1>1, <1>2, <1>3, <2>2 DEF LastBehind, playedVars
  <2>7. Sorted' /\ AllCounted'
    BY <1>1, <1>2, <2>1 DEF Sorted, AllCounted, playedVars
  <2>8. QED  BY <2>1, <2>3, <2>4, <2>5, <2>6, <2>7 DEF StreamOK
<1>6. CASE PopBehind
  <2>1. Popping /\ buf # <<>> /\ buf' = Tail(buf) /\ lost' = lost + 1 /\ next' = next
        /\ Oldest.seq # Cursor /\ ~SeqBefore(Cursor, Oldest.seq)
    BY <1>6 DEF PopBehind
  <2>2. Oldest.id < c /\ Oldest \in Buffered /\ Oldest.id \in Nat
    BY <1>4, <2>1
  <2>3. Oldest.id \in heard
    BY <1>2, <2>2 DEF HeardBehind
  <2>4. Sorted' /\ Buffered' \subseteq Buffered /\ Len(buf') = Len(buf) - 1 /\ Len(buf) \in Nat
    BY <1>2, <2>1, TailSorted
  <2>5. Numbered(f)'
    BY <1>1, <1>2, <2>4, StillNumbered DEF Waiting, networkVars
  <2>6. CursorAt(f, c)'
    BY <1>1, <1>2, <2>1 DEF CursorAt, senderVars, networkVars
  <2>7. HeardBehind(c)' /\ LastBehind(c)'
    BY <1>1, <1>2, <1>3, <2>2, <2>4 DEF HeardBehind, LastBehind, playedVars
  <2>8. AllCounted'
    <3>1. IsFiniteSet(heard)
      BY HeardFinite
    <3>2. Cardinality(heard) \in Nat
      BY <3>1, FS_CardinalityType
    <3>3. QED  BY <1>1, <1>2, <1>3, <2>1, <2>4, <3>2 DEF AllCounted, playedVars
  <2>9. QED  BY <2>3, <2>4, <2>5, <2>6, <2>7, <2>8 DEF StreamOK
<1>7. CASE PopUnderrun
  <2>1. UNCHANGED <<buf, next, lost>>
    BY <1>7 DEF PopUnderrun
  <2>2. Numbered(f)'
    BY <1>1, <1>2, <2>1, StillNumbered DEF Waiting, Buffered, networkVars
  <2>3. CursorAt(f, c)'
    BY <1>1, <1>2, <2>1 DEF CursorAt, senderVars, networkVars
  <2>4. (Sorted /\ HeardBehind(c) /\ LastBehind(c) /\ AllCounted)'
    BY <1>1, <1>2, <2>1 DEF Sorted, HeardBehind, LastBehind, AllCounted, Oldest, Buffered, playedVars
  <2>5. QED  BY <2>1, <2>2, <2>3, <2>4 DEF StreamOK
<1>8. QED  BY <1>5, <1>6, <1>7 DEF PlayNothing

\* A packet joins a buffer in the order of the stream where the order says.
LEMMA SortedWith ==
    ASSUME TInv, Sorted, NEW p \in Waiting, NEW k \in 1 .. Len(buf) + 1, InsertedAt(k, p, buf, buf'),
           Len(buf') = Len(buf) + 1,
           \A e, g \in Waiting : SeqBefore(e.seq, g.seq) <=> e.id < g.id
    PROVE  Sorted'
<1>1. Len(buf) \in Nat /\ p.id \in Nat
      /\ \A i \in 1 .. Len(buf) : buf[i] \in Waiting /\ buf[i].id \in Nat
  <2>1. Len(buf) \in Nat /\ \A i \in 1 .. Len(buf) : buf[i].id \in Nat
    BY LenProperties, BufferedType DEF TInv, TypeOK
  <2>2. \A i \in 1 .. Len(buf) : buf[i] \in Waiting
    BY DEF Waiting, Buffered
  <2>3. p.id \in Nat
    <3>1. p.id \in 1 .. MaxPackets
      BY BufferedType DEF TInv, TypeOK, Waiting, Buffered, Entry
    <3>2. QED  BY <3>1, StreamAssumption
  <2>4. QED  BY <2>1, <2>2, <2>3
<1>2. \A i \in 1 .. Len(buf) : i < k => buf'[i].id = buf[i].id /\ buf[i].id <= p.id
  BY <1>1 DEF InsertedAt
<1>3. \A i \in 1 .. Len(buf) : i >= k => buf'[i + 1].id = buf[i].id /\ p.id < buf[i].id
  <2>1. k <= Len(buf) => p.id < buf[k].id
    BY <1>1 DEF InsertedAt
  <2>2. SUFFICES ASSUME NEW i \in 1 .. Len(buf), i >= k
                 PROVE  buf'[i + 1].id = buf[i].id /\ p.id < buf[i].id
    OBVIOUS
  <2>3. buf'[i + 1] = buf[i]
    BY <1>1, <2>2 DEF InsertedAt
  <2>4. k \in 1 .. Len(buf) /\ buf[k].id <= buf[i].id
    BY <1>1, <2>2 DEF Sorted
  <2>5. QED  BY <1>1, <2>1, <2>3, <2>4
<1>4. buf'[k].id = p.id
  BY DEF InsertedAt
<1>5. SUFFICES ASSUME NEW i \in 1 .. Len(buf) + 1, NEW j \in 1 .. Len(buf) + 1, i < j
               PROVE  buf'[i].id <= buf'[j].id
  BY <1>1 DEF Sorted
<1>6. CASE j < k
  <2>1. i \in 1 .. Len(buf) /\ j \in 1 .. Len(buf) /\ i < k
    BY <1>1, <1>5, <1>6
  <2>2. QED  BY <1>2, <1>5, <1>6, <2>1 DEF Sorted
<1>7. CASE j = k
  <2>1. i \in 1 .. Len(buf) /\ i < k
    BY <1>1, <1>5, <1>7
  <2>2. QED  BY <1>2, <1>4, <1>7, <2>1
<1>8. CASE j > k
  <2>1. j - 1 \in 1 .. Len(buf) /\ j - 1 >= k /\ (j - 1) + 1 = j
    BY <1>1, <1>8
  <2>2. buf'[j].id = buf[j - 1].id /\ p.id < buf[j - 1].id
    BY <1>3, <2>1
  <2>3. CASE i < k
    <3>1. i \in 1 .. Len(buf)
      BY <1>1, <2>3
    <3>2. buf'[i].id = buf[i].id /\ buf[i].id <= p.id
      BY <1>2, <2>3, <3>1
    <3>3. QED  BY <1>1, <2>1, <2>2, <3>1, <3>2
  <2>4. CASE i = k
    BY <1>1, <1>4, <2>1, <2>2, <2>4
  <2>5. CASE i > k
    <3>1. i - 1 \in 1 .. Len(buf) /\ i - 1 >= k /\ (i - 1) + 1 = i /\ i - 1 < j - 1
      BY <1>1, <1>5, <2>5
    <3>2. buf'[i].id = buf[i - 1].id /\ buf[i - 1].id <= buf[j - 1].id
      BY <1>3, <2>1, <3>1 DEF Sorted
    <3>3. QED  BY <2>2, <3>2
  <2>6. QED  BY <1>1, <2>3, <2>4, <2>5
<1>9. QED  BY <1>1, <1>6, <1>7, <1>8

\* A delivery: a packet newer than all before is not late.
LEMMA OrderReceive ==
    ASSUME TInv, NothingStale, restarts = 0, NEW f \in SeqNum, NEW c \in Nat, StreamOK(f, c),
           NEW p \in inFlight, NEW copyKept \in BOOLEAN, Receive(p, copyKept)
    PROVE  /\ \E d \in Nat : StreamOK(f, d)'
           /\ newest' # newest => lost' = lost
<1>1. UNCHANGED <<threadVars, senderVars, playedVars>> /\ inFlight' \subseteq inFlight
  BY DEF Receive
<1>2. Numbered(f) /\ CursorAt(f, c) /\ Sorted /\ HeardBehind(c) /\ LastBehind(c) /\ AllCounted
  BY DEF StreamOK
<1>3. /\ sent \in Nat /\ newest \in Nat /\ newest <= sent /\ last.id \in Nat /\ lost \in Nat
      /\ received \in Nat /\ \A i \in heard : i \in Nat
  BY StreamAssumption DEF TInv, BoundsOK, TypeOK
<1>4. p \in Entry /\ p \in Waiting /\ p.id \in Nat \ {0} /\ p.id <= sent
  BY <1>2, Near DEF TInv, TypeOK, Waiting
<1>5. TooOld(p.seq) <=> next # NoSeq /\ p.id < c
  BY <1>2, <1>4, Near DEF TooOld
<1>6. IsFiniteSet(heard) /\ Cardinality(heard) \in Nat /\ Len(buf) \in Nat
  BY HeardFinite, FS_CardinalityType, LenProperties DEF TInv, TypeOK
<1>7. CASE PushLate(p) /\ newest' = (IF p.id > newest THEN p.id ELSE newest)
  <2>1. UNCHANGED <<buf, next>> /\ lost' = lost + 1 /\ received' = received + 1 /\ Buffered' = Buffered
    BY <1>7 DEF PushLate, Buffered
  <2>2. newest' = newest
    <3>1. p.id < c /\ c <= newest + 1
      BY <1>2, <1>3, <1>5, <1>7, Near DEF PushLate
    <3>2. QED  BY <1>3, <1>4, <1>7, <3>1
  <2>3. Numbered(f)'
    BY <1>1, <1>2, <2>1, StillNumbered DEF Waiting
  <2>4. CursorAt(f, c)' /\ Sorted' /\ HeardBehind(c)' /\ LastBehind(c)'
    BY <1>1, <1>2, <2>1, <2>2
    DEF CursorAt, Sorted, HeardBehind, LastBehind, Oldest, senderVars, playedVars
  <2>5. AllCounted'
    BY <1>1, <1>2, <1>3, <1>6, <2>1 DEF AllCounted, playedVars
  <2>6. QED  BY <2>2, <2>3, <2>4, <2>5 DEF StreamOK
<1>8. CASE PushInTime(p) /\ newest' = (IF p.id > newest THEN p.id ELSE newest)
  <2>1. /\ buf' \in Seq(Entry) /\ Len(buf') = Len(buf) + 1
        /\ Buffered' \subseteq Buffered \cup {p}
        /\ next' \in {next, buf'[1].seq} /\ buf'[1] \in Buffered'
    BY <1>4, <1>8, BufferGrows DEF TInv
  <2>2. PICK k \in 1 .. Len(buf) + 1 : InsertedAt(k, p, buf, buf')
    BY <1>4, <1>8, BufferGrows DEF TInv
  <2>3. Sorted'
    BY <1>2, <1>4, <2>1, <2>2, Near, SortedWith
  <2>4. /\ lost' = lost /\ received' = received + 1 /\ (next # NoSeq => next' = next /\ p.id >= c)
    BY <1>3, <1>4, <1>5, <1>8 DEF PushInTime
  <2>5. newest' \in Nat /\ newest' >= newest /\ newest' >= p.id
    BY <1>3, <1>4, <1>8
  <2>6. Numbered(f)'
    BY <1>1, <1>2, <1>4, <2>1, StillNumbered DEF Waiting
  <2>7. AllCounted'
    BY <1>1, <1>2, <1>3, <1>6, <2>1, <2>4 DEF AllCounted, playedVars
  <2>8. CASE next # NoSeq
    <3>1. CursorAt(f, c)'
      <4>1. next' = Number(f, c) /\ c \in 1 .. newest + 1 /\ sent' + 1 - c < NumSpace
        BY <1>1, <1>2, <2>4, <2>8 DEF CursorAt, senderVars
      <4>2. c \in 1 .. newest' + 1
        <5>1. \A x, y \in Nat : x <= y => 1 .. x + 1 \subseteq 1 .. y + 1
          OBVIOUS
        <5>2. QED  BY <1>3, <2>5, <4>1, <5>1
      <4>3. QED  BY <4>1, <4>2 DEF CursorAt
    <3>2. HeardBehind(c)'
      BY <1>1, <1>2, <2>1, <2>4, <2>8 DEF HeardBehind, playedVars
    <3>3. LastBehind(c)'
      <4>1. CASE buf # <<>> /\ Oldest.id = c
        <5>1. Len(buf) \in Nat \ {0} /\ Oldest \in Waiting /\ Oldest = buf[1]
          BY <4>1, OldestType DEF TInv, Waiting, Oldest
        <5>2. ~SeqBefore(p.seq, buf[1].seq)
          <6>1. ~(p.id < buf[1].id)
            BY <1>4, <2>4, <2>8, <4>1, <5>1
          <6>2. QED  BY <1>2, <1>4, <5>1, <6>1, Near
        <5>3. buf'[1] = buf[1]
          <6>1. k # 1
            BY <2>2, <5>1, <5>2 DEF InsertedAt
          <6>2. 1 < k /\ 1 \in 1 .. Len(buf)
            BY <5>1, <6>1
          <6>3. QED  BY <2>2, <6>2 DEF InsertedAt
        <5>4. buf' # <<>>
          BY <2>1, <5>1, EmptySeq
        <5>5. QED  BY <1>1, <1>2, <5>1, <5>3, <5>4 DEF LastBehind, Oldest, playedVars
      <4>2. CASE ~(buf # <<>> /\ Oldest.id = c)
        BY <1>1, <1>2, <4>2 DEF LastBehind, playedVars
      <4>3. QED  BY <4>1, <4>2
    <3>4. QED  BY <2>3, <2>4, <2>6, <2>7, <3>1, <3>2, <3>3 DEF StreamOK
  <2>9. CASE next = NoSeq
    <3>1. c = 0 /\ heard = {} /\ last.id = 0
      <4>1. c \in Nat \ {0} => Number(f, c) # NoSeq
        BY NumberType, JitterAssumption
      <4>2. c = 0
        BY <1>2, <1>3, <2>9, <4>1 DEF CursorAt
      <4>3. QED  BY <1>2, <1>3, <4>2 DEF HeardBehind, LastBehind
    <3>2. \A e \in Buffered' : /\ e.id \in Nat \ {0} /\ e.id <= newest' /\ e.seq = Number(f, e.id)
                               /\ sent + 1 - e.id < HalfRange
      <4>1. \A e \in Waiting : /\ e.id \in Nat \ {0} /\ sent + 1 - e.id < HalfRange
                               /\ e.seq = Number(f, e.id)
        BY <1>2, Near DEF Numbered
      <4>2. \A e \in Buffered : e \in Waiting /\ e.id <= newest
        BY DEF Waiting, TInv, BoundsOK
      <4>3. SUFFICES ASSUME NEW e \in Buffered'
                     PROVE  /\ e.id \in Nat \ {0} /\ e.id <= newest' /\ e.seq = Number(f, e.id)
                            /\ sent + 1 - e.id < HalfRange
        OBVIOUS
      <4>4. e \in Waiting /\ (e.id <= newest \/ e = p)
        BY <1>4, <2>1, <4>2, <4>3
      <4>5. QED  BY <1>3, <2>5, <4>1, <4>4
    <3>3. buf'[1].id \in Nat \ {0}
      BY <2>1, <3>2
    <3>4. PICK d \in Nat : d = IF next' = NoSeq THEN 0 ELSE buf'[1].id
      BY <3>3
    <3>5. CursorAt(f, d)'
      <4>1. CASE next' = NoSeq
        BY <3>4, <4>1 DEF CursorAt
      <4>2. CASE next' # NoSeq
        <5>1. next' = Number(f, d) /\ d \in Nat \ {0} /\ d <= newest' /\ sent + 1 - d < NumSpace
          BY <1>3, <2>1, <2>9, <3>2, <3>4, <4>2, HalfRangeBound, NumSpaceAssumption
        <5>2. sent' = sent
          BY <1>1 DEF senderVars
        <5>3. newest' \in Nat /\ d \in Nat \ {0} /\ d <= newest'
          BY <2>5, <5>1
        <5>4. d \in 1 .. newest' + 1
          <6>1. \A x \in Nat \ {0}, y \in Nat : x <= y => x \in 1 .. y + 1
            OBVIOUS
          <6>2. QED  BY <5>3, <6>1
        <5>5. QED  BY <5>1, <5>2, <5>4 DEF CursorAt
      <4>3. QED  BY <4>1, <4>2
    <3>6. HeardBehind(d)'
      <4>1. \A e \in Buffered' : buf'[1].id <= e.id
        <5>1. SUFFICES ASSUME NEW i \in 1 .. Len(buf') PROVE buf'[1].id <= buf'[i].id
          BY DEF Buffered
        <5>2. 1 \in 1 .. Len(buf') /\ buf'[1].id \in Nat
          BY <1>6, <2>1, <3>2
        <5>3. i = 1 \/ 1 < i
          OBVIOUS
        <5>4. QED  BY <2>3, <5>2, <5>3 DEF Sorted
      <4>2. heard' = {}
        BY <1>1, <3>1 DEF playedVars
      <4>3. \A e \in Buffered' : e.id >= d
        BY <3>2, <3>4, <4>1
      <4>4. QED  BY <4>2, <4>3 DEF HeardBehind
    <3>7. LastBehind(d)'
      <4>1. last' = last /\ (d = 0 \/ 0 < d)
        BY <1>1 DEF playedVars
      <4>2. QED  BY <3>1, <4>1 DEF LastBehind
    <3>8. QED  BY <2>3, <2>4, <2>6, <2>7, <3>5, <3>6, <3>7 DEF StreamOK
  <2>10. QED  BY <2>8, <2>9
<1>9. CASE UNCHANGED <<jitterVars, newest>>
  <2>1. UNCHANGED <<buf, next, lost, received, newest>> /\ Buffered' = Buffered
    BY <1>9 DEF jitterVars, Buffered
  <2>2. Numbered(f)'
    BY <1>1, <1>2, <2>1, StillNumbered DEF Waiting
  <2>3. (CursorAt(f, c) /\ Sorted /\ HeardBehind(c) /\ LastBehind(c) /\ AllCounted)'
    BY <1>1, <1>2, <2>1
    DEF CursorAt, Sorted, HeardBehind, LastBehind, AllCounted, Oldest, senderVars, playedVars
  <2>4. QED  BY <2>1, <2>2, <2>3 DEF StreamOK
<1>10. QED  BY <1>7, <1>8, <1>9 DEF Receive, Push

\* All steps keep the order, and what they do to it is what the properties allow.
LEMMA OrderStep ==
    ASSUME TInv, OrderOK, NothingStale, [Next]_vars
    PROVE  /\ OrderOK'
           /\ restarts = 0 =>
                /\ last' # last => last'.id > last.id \/ (last'.id = last.id /\ last'.left < last.left)
                /\ newest' # newest => lost' = lost
                /\ buf # <<>> /\ remaining > 0 /\ lost' # lost => Oldest.id \in heard
<1>1. restarts \in Nat
  BY DEF TInv, BoundsOK
<1>2. CASE Restart
  <2>1. restarts' # 0
    BY <1>1, <1>2 DEF Restart
  <2>2. UNCHANGED <<last, newest, lost>>
    BY <1>2 DEF Restart, jitterVars, networkVars, playedVars
  <2>3. QED  BY <2>1, <2>2 DEF OrderOK
<1>3. CASE ~Restart
  <2>1. restarts' = restarts
    <3>1. \/ \E n \in PacketSizes : Send(n)
          \/ \E p \in inFlight, copyKept \in BOOLEAN : Receive(p, copyKept)
          \/ Play \/ PlayNothing \/ QuietStep
      BY <1>3, Steps
    <3>2. QuietStep => restarts' = restarts
      BY QuietStepIsQuiet DEF senderVars
    <3>3. QED  BY <3>1, <3>2 DEF Send, Receive, Play, PlayNothing, senderVars
  <2>2. CASE restarts # 0
    BY <2>1, <2>2 DEF OrderOK
  <2>3. CASE restarts = 0
    <3>1. PICK f \in SeqNum, c \in Nat : StreamOK(f, c)
      BY <2>3 DEF OrderOK
    <3>2. ASSUME NEW n \in PacketSizes, Send(n)
          PROVE  StreamOK(f, c)' /\ UNCHANGED <<last, newest, lost>>
      BY <2>3, <3>1, <3>2, OrderSend DEF Send, jitterVars, playedVars
    <3>3. ASSUME NEW p \in inFlight, NEW copyKept \in BOOLEAN, Receive(p, copyKept)
          PROVE  /\ \E d \in Nat : StreamOK(f, d)'
                 /\ newest' # newest => lost' = lost
                 /\ last' = last /\ (remaining > 0 => lost' = lost)
      <4>1. \E d \in Nat : StreamOK(f, d)' /\ (newest' # newest => lost' = lost)
        BY <2>3, <3>1, <3>3, OrderReceive
      <4>2. last' = last /\ remaining = 0
        BY <3>3 DEF Receive, Push, PushLate, PushInTime, playedVars
      <4>3. QED  BY <4>1, <4>2
    <3>4. ASSUME Play
          PROVE  /\ \E d \in Nat : StreamOK(f, d)'
                 /\ last'.id > last.id \/ (last'.id = last.id /\ last'.left < last.left)
                 /\ UNCHANGED <<newest, lost>>
      BY <2>3, <3>1, <3>4, OrderPlay DEF Play, PopExpected, networkVars
    <3>5. ASSUME PlayNothing
          PROVE  /\ \E d \in Nat : StreamOK(f, d)'
                 /\ buf # <<>> /\ lost' # lost => Oldest.id \in heard
                 /\ UNCHANGED <<last, newest>>
      BY <2>3, <3>1, <3>5, OrderPlayNothing DEF PlayNothing, networkVars, playedVars
    <3>6. QuietStep => StreamOK(f, c)' /\ UNCHANGED <<last, newest, lost>>
      BY <3>1, OrderQuiet, QuietStepIsQuiet DEF playedVars
    <3>7. (\E d \in Nat : StreamOK(f, d)') => OrderOK'
      BY DEF OrderOK
    <3>8. CASE \E n \in PacketSizes : Send(n)
      BY <3>1, <3>2, <3>7, <3>8
    <3>9. CASE \E p \in inFlight, copyKept \in BOOLEAN : Receive(p, copyKept)
      BY <3>3, <3>7, <3>9
    <3>10. CASE Play
      BY <3>4, <3>7, <3>10
    <3>11. CASE PlayNothing
      BY <3>5, <3>7, <3>11
    <3>12. CASE QuietStep
      BY <3>1, <3>6, <3>7, <3>12
    <3>13. QED  BY <1>3, <3>8, <3>9, <3>10, <3>11, <3>12, Steps
  <2>4. QED  BY <2>2, <2>3
<1>4. QED  BY <1>2, <1>3

\* The order of the stream, as long as nothing is held back too long.
LEMMA OrderHolds == Spec /\ []NothingStale => []OrderOK
<1>1. TInv /\ OrderOK /\ NothingStale /\ [Next]_vars => OrderOK'
  BY OrderStep
<1>2. QED  BY <1>1, OrderInit, TInvHolds, PTL DEF Spec

\* Frames are played in the order they were sent and at most once, for any size of
\* number space, stream and packets, whatever the network does, as long as nothing it
\* holds back is half the number space old.
THEOREM PlayedInOrder == Spec /\ []NothingStale => PlaysForward
<1>1. TInv /\ OrderOK /\ NothingStale /\ [Next]_vars =>
        [last' # last /\ restarts = 0 =>
            \/ last'.id > last.id
            \/ last'.id = last.id /\ last'.left < last.left]_vars
  BY OrderStep
<1>2. QED  BY <1>1, TInvHolds, OrderHolds, PTL DEF Spec, PlaysForward

\* What is skipped in the buffer had been played before.
THEOREM OnlyRepeatsSkipped == Spec /\ []NothingStale => SkipsOnlyRepeats
<1>1. TInv /\ OrderOK /\ NothingStale /\ [Next]_vars =>
        [\A p \in 1..MaxPackets :
            (restarts = 0 /\ buf # <<>> /\ Oldest.id = p /\ remaining > 0 /\ lost' # lost)
                => p \in heard]_vars
  BY OrderStep
<1>2. QED  BY <1>1, TInvHolds, OrderHolds, PTL DEF Spec, SkipsOnlyRepeats

\* A packet newer than all that came before is buffered, across the wrap too.
THEOREM NewestKept == Spec /\ []NothingStale => NewestIsKept
<1>1. TInv /\ OrderOK /\ NothingStale /\ [Next]_vars =>
        [newest' # newest /\ restarts = 0 => lost' = lost]_vars
  BY OrderStep
<1>2. QED  BY <1>1, TInvHolds, OrderHolds, PTL DEF Spec, NewestIsKept

\* Every packet counted as received is in the buffer, was played once, or is counted
\* as dropped.
THEOREM StatisticsAddUp == Spec /\ []NothingStale => []StatsAddUp
<1>1. OrderOK => StatsAddUp
  BY DEF OrderOK, StreamOK, AllCounted, StatsAddUp
<1>2. QED  BY <1>1, OrderHolds, PTL

\* A stream shorter than half the number space leaves nothing that far behind: of the
\* first 2^31 packets, sent in 124 days, all that was said holds.
THEOREM ShortStream ==
    ASSUME MaxPackets < HalfRange
    PROVE  Spec => /\ []NothingStale
                   /\ PlaysForward /\ SkipsOnlyRepeats /\ NewestIsKept /\ []StatsAddUp
<1>1. TInv /\ OrderOK => NothingStale
  <2>1. SUFFICES ASSUME TInv, OrderOK, restarts = 0
                 PROVE  /\ \A e \in Waiting : sent + 1 - e.id < HalfRange
                        /\ next # NoSeq => (sendSeq - next) % NumSpace < HalfRange
    BY DEF NothingStale
  <2>2. PICK f \in SeqNum, c \in Nat : StreamOK(f, c)
    BY <2>1 DEF OrderOK
  <2>3. sent \in Nat /\ sent <= MaxPackets /\ newest \in Nat /\ newest <= sent
    BY <2>1, StreamAssumption DEF TInv, BoundsOK
  <2>4. \A e \in Waiting : sent + 1 - e.id < HalfRange
    <3>1. \A e \in Waiting : e.id \in 1 .. MaxPackets
      BY <2>1, BufferedType DEF TInv, TypeOK, Waiting, Buffered, Entry
    <3>2. QED  BY <2>3, <3>1, HalfRangeBound, StreamAssumption
  <2>5. ASSUME next # NoSeq PROVE (sendSeq - next) % NumSpace < HalfRange
    <3> DEFINE x == f + c - 1
               y == f + (sent + 1) - 1
    <3>1. next = Number(f, c) /\ c > 0 /\ c <= newest + 1 /\ sent + 1 - c < NumSpace
      BY <2>2, <2>3, <2>5 DEF StreamOK, CursorAt
    <3>2. x \in Nat /\ y \in Nat /\ y - x = sent + 1 - c /\ x <= y
      BY <2>3, <3>1, NumSpaceAssumption DEF SeqNum
    <3>3. sendSeq = y % NumSpace /\ next = x % NumSpace
      BY <2>2, <3>1 DEF StreamOK, Numbered, Number
    <3> HIDE DEF x, y
    <3>4. (sendSeq - next) % NumSpace = sent + 1 - c
      BY <3>1, <3>2, <3>3, Distance
    <3>5. QED  BY <2>3, <3>1, <3>4, HalfRangeBound, StreamAssumption
  <2>6. QED  BY <2>4, <2>5
<1>2. TInv /\ OrderOK /\ [Next]_vars => OrderOK'
  BY <1>1, OrderStep
<1>3. Spec => []NothingStale
  BY <1>1, <1>2, OrderInit, TInvHolds, PTL DEF Spec
<1>4. QED  BY <1>3, PlayedInOrder, OnlyRepeatsSkipped, NewestKept, StatisticsAddUp, PTL
===============================================================================
