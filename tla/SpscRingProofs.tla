---------------------------- MODULE SpscRingProofs ----------------------------
(***************************************************************************)
(* The frame ring of zinkos_rx.c is correct for every ring size, packet    *)
(* size and period: its indices stay in range, the two threads never touch *)
(* the same slot, no unread frame is overwritten, and it implements the    *)
(* bounded FIFO of BoundedFifo.                                            *)
(***************************************************************************)
EXTENDS SpscRing, SequenceTheorems, TLAPS

\* A number below twice the modulus is reduced by at most one subtraction.
LEMMA ModOnce ==
    ASSUME NEW m \in Nat, m > 0, NEW a \in Nat, a < 2 * m
    PROVE  a % m = IF a < m THEN a ELSE a - m
OBVIOUS

\* Advancing an index wraps it to the head of the ring at most once.
LEMMA AdvanceWraps ==
    ASSUME NEW b \in Index, NEW n \in 0 .. N - 1
    PROVE  /\ Advance(b, n) = IF n < N - b THEN b + n ELSE n - (N - b)
           /\ Advance(b, n) \in Index
<1> DEFINE a == b + n
<1>1. /\ N \in Nat /\ N > 0
      /\ a \in Nat /\ a < 2 * N
    BY RingAssumption DEF Index
<1>2. a % N = IF a < N THEN a ELSE a - N
    <2> HIDE DEF a
    <2>1. QED
        BY <1>1, ModOnce
<1>3. QED
    BY <1>1, <1>2 DEF Advance, Index

\* The number of frames between two indices is at most N - 1.
LEMMA UsedType ==
    ASSUME NEW w \in Index, NEW r \in Index
    PROVE  Used(w, r) \in 0 .. N - 1
BY RingAssumption DEF Used, Index

\* The slots of a copy of fewer than N frames are slots of the ring, all different.
LEMMA SlotInjective ==
    ASSUME NEW b \in Index, NEW i \in 0 .. N - 1
    PROVE  /\ Slot(b, i) \in Index
           /\ \A j \in 0 .. N - 1 : Slot(b, i) = Slot(b, j) => i = j
BY RingAssumption DEF Slot, Index

\* What follows the published frames begins at the write index: the writer's
\* i-th slot is the reader's (Used + i)-th.
LEMMA SlotPastUsed ==
    ASSUME NEW w \in Index, NEW r \in Index, NEW i \in Nat,
           Used(w, r) + i <= N - 1
    PROVE  Slot(w, i) = Slot(r, Used(w, r) + i)
BY RingAssumption DEF Slot, Used, Index

\* Publishing n frames that fit makes n more frames used.
LEMMA UsedAfterWrite ==
    ASSUME NEW w \in Index, NEW r \in Index, NEW n \in Nat,
           Used(w, r) + n <= N - 1
    PROVE  Used(Advance(w, n), r) = Used(w, r) + n
<1>1. n \in 0 .. N - 1
    BY UsedType, RingAssumption
<1> DEFINE q == Advance(w, n)
<1>2. q \in Index /\ q = IF n < N - w THEN w + n ELSE n - (N - w)
    BY <1>1, AdvanceWraps
<1> HIDE DEF q
<1>3. Used(q, r) = Used(w, r) + n
    BY <1>1, <1>2, RingAssumption DEF Used, Index
<1>4. QED
    BY <1>3 DEF q

\* Releasing n used frames leaves the others, each n places nearer.
LEMMA UsedAfterRead ==
    ASSUME NEW w \in Index, NEW r \in Index, NEW n \in Nat,
           n <= Used(w, r)
    PROVE  /\ Used(w, Advance(r, n)) = Used(w, r) - n
           /\ \A i \in 0 .. N - 1 :
                 n + i <= N - 1 => Slot(Advance(r, n), i) = Slot(r, n + i)
<1>1. n \in 0 .. N - 1
    BY UsedType, RingAssumption
<1> DEFINE q == Advance(r, n)
<1>2. q \in Index /\ q = IF n < N - r THEN r + n ELSE n - (N - r)
    BY <1>1, AdvanceWraps
<1>3. Used(w, q) = Used(w, r) - n
    <2> HIDE DEF q
    <2>1. QED
        BY <1>1, <1>2, RingAssumption DEF Used, Index
<1>4. \A i \in 0 .. N - 1 : n + i <= N - 1 => Slot(q, i) = Slot(r, n + i)
    <2> HIDE DEF q
    <2>1. QED
        BY <1>1, <1>2, RingAssumption DEF Slot, Index
<1>5. QED
    BY <1>3, <1>4
-------------------------------------------------------------------------------
\* The ring is empty at first.
LEMMA InitIInv == Init => IInv
<1> SUFFICES ASSUME Init PROVE IInv
    OBVIOUS
<1>1. TypeOK
    BY RingAssumption DEF Init, TypeOK, Index
<1>2. NoWrapOntoReader
    BY RingAssumption DEF Init, NoWrapOntoReader, Used
<1>3. FetchedInOrder
    BY RingAssumption DEF Init, FetchedInOrder, Used
<1>4. StoredInOrder /\ IdleHoldsNothing
    BY DEF Init, StoredInOrder, IdleHoldsNothing
<1>5. QED
    BY <1>1, <1>2, <1>3, <1>4 DEF IInv

\* Every packet is a non-empty sequence of at most MaxPacket frames.
LEMMA PacketType ==
    ASSUME NEW p \in Packets
    PROVE  p \in Seq(Frame) /\ Len(p) \in 1 .. MaxPacket
<1>1. PICK n \in 1 .. MaxPacket : p \in [1 .. n -> Frame]
    BY DEF Packets
<1>2. QED
    BY <1>1, RingAssumption

\* The six steps that change something keep the inductive invariant.
LEMMA NextIInv == IInv /\ [Next]_vars => IInv'
<1> SUFFICES ASSUME IInv, [Next]_vars PROVE IInv'
    OBVIOUS
<1> USE RingAssumption DEF IInv
<1>u. Used(wpos, rpos) \in 0 .. N - 1 /\ wpos \in Index /\ rpos \in Index
    BY UsedType DEF TypeOK
<1>1. ASSUME NEW p \in Packets, RbWriteBegin(p) PROVE IInv'
    <2>1. p \in Seq(Frame) /\ Len(p) \in 1 .. MaxPacket
        BY PacketType
    <2>2. TypeOK'
        BY <1>1, <2>1 DEF RbWriteBegin, TypeOK, readerVars
    <2>3. NoWrapOntoReader'
        BY <1>1, <1>u, <2>1 DEF RbWriteBegin, NoWrapOntoReader, Free, readerVars
    <2>4. FetchedInOrder'
        BY <1>1 DEF RbWriteBegin, FetchedInOrder, readerVars
    <2>5. StoredInOrder' /\ IdleHoldsNothing'
        BY <1>1, <2>1 DEF RbWriteBegin, StoredInOrder, IdleHoldsNothing, readerVars
    <2>6. QED
        BY <2>2, <2>3, <2>4, <2>5
<1>2. ASSUME NEW p \in Packets, RbWriteDrop(p) PROVE IInv'
    BY <1>2 DEF RbWriteDrop, vars, readerVars, writerVars, TypeOK, NoWrapOntoReader,
                FetchedInOrder, StoredInOrder, IdleHoldsNothing
<1>3. ASSUME RbWriteCopy PROVE IInv'
    <2> DEFINE s == Slot(wpos, copied)
    <2>1. copied \in 0 .. N - 1 /\ s \in Index /\ src \in Seq(Frame)
          /\ copied < Len(src) /\ Len(src) \in Nat
        BY <1>3, <1>u, SlotInjective DEF RbWriteCopy, TypeOK, NoWrapOntoReader
    <2>2. TypeOK'
        BY <1>3, <2>1 DEF RbWriteCopy, TypeOK, readerVars
    <2>3. NoWrapOntoReader'
        BY <1>3 DEF RbWriteCopy, NoWrapOntoReader, readerVars
    <2>4. FetchedInOrder'
        <3>1. want <= Used(wpos, rpos) /\ Len(dst) <= want /\ Len(dst) \in Nat /\ want \in Nat
            BY DEF FetchedInOrder, TypeOK
        <3>2. s = Slot(rpos, Used(wpos, rpos) + copied)
            BY <1>u, <2>1, SlotPastUsed DEF NoWrapOntoReader
        <3>3. ASSUME NEW i \in 1 .. Len(dst) PROVE Slot(rpos, i - 1) # s
            <4>1. /\ i - 1 \in 0 .. N - 1
                  /\ Used(wpos, rpos) + copied \in 0 .. N - 1
                  /\ i - 1 # Used(wpos, rpos) + copied
                BY <1>u, <2>1, <3>1 DEF NoWrapOntoReader
            <4>2. QED
                BY <1>u, <3>2, <4>1, SlotInjective
        <3>4. QED
            BY <1>3, <2>1, <3>3 DEF RbWriteCopy, FetchedInOrder, TypeOK, readerVars
    <2>5. StoredInOrder'
        <3>1. ASSUME NEW i \in 1 .. copied PROVE Slot(wpos, i - 1) # s
            BY <1>u, <2>1, SlotInjective
        <3>2. QED
            BY <1>3, <2>1, <3>1 DEF RbWriteCopy, StoredInOrder, TypeOK, readerVars
    <2>6. IdleHoldsNothing'
        BY <1>3 DEF RbWriteCopy, IdleHoldsNothing, readerVars
    <2>7. QED
        BY <2>2, <2>3, <2>4, <2>5, <2>6
<1>4. ASSUME RbWritePublish PROVE IInv'
    <2>1. Len(src) \in 0 .. N - 1 /\ Used(wpos, rpos) + Len(src) <= N - 1
        BY <1>u DEF NoWrapOntoReader, TypeOK
    <2>2. wpos' \in Index /\ wpos' = Advance(wpos, Len(src))
        BY <1>4, <1>u, <2>1, AdvanceWraps DEF RbWritePublish
    <2>3. Used(wpos', rpos') = Used(wpos, rpos) + Len(src)
        BY <1>4, <1>u, <2>1, <2>2, UsedAfterWrite DEF RbWritePublish, readerVars
    <2>4. TypeOK'
        BY <1>4, <2>2 DEF RbWritePublish, TypeOK, readerVars
    <2>5. NoWrapOntoReader'
        BY <1>4, <1>u, <2>1, <2>3 DEF RbWritePublish, NoWrapOntoReader
    <2>6. FetchedInOrder'
        BY <1>4, <1>u, <2>1, <2>3 DEF RbWritePublish, FetchedInOrder, TypeOK, readerVars
    <2>7. StoredInOrder' /\ IdleHoldsNothing'
        BY <1>4 DEF RbWritePublish, StoredInOrder, IdleHoldsNothing, readerVars
    <2>8. QED
        BY <2>4, <2>5, <2>6, <2>7
<1>5. ASSUME NEW k \in 1 .. MaxRead, RbReadBegin(k) PROVE IInv'
    <2>1. want' \in 0 .. MaxRead /\ want' <= Used(wpos, rpos)
        BY <1>5, <1>u DEF RbReadBegin
    <2>2. TypeOK'
        BY <1>5, <2>1 DEF RbReadBegin, TypeOK, IdleHoldsNothing, writerVars
    <2>3. FetchedInOrder'
        BY <1>5, <2>1 DEF RbReadBegin, FetchedInOrder, IdleHoldsNothing, writerVars
    <2>4. NoWrapOntoReader' /\ StoredInOrder' /\ IdleHoldsNothing'
        BY <1>5 DEF RbReadBegin, NoWrapOntoReader, StoredInOrder, IdleHoldsNothing, writerVars
    <2>5. QED
        BY <2>2, <2>3, <2>4
<1>6. ASSUME RbReadCopy PROVE IInv'
    <2> DEFINE f == ring[Slot(rpos, Len(dst))]
    <2>1. Len(dst) \in 0 .. N - 1 /\ dst \in Seq(Frame) /\ Len(dst) < want /\ want \in Nat
        BY <1>6, <1>u DEF RbReadCopy, TypeOK, FetchedInOrder
    <2>2. f \in Frame
        BY <1>u, <2>1, SlotInjective DEF TypeOK
    <2>3. /\ dst' = Append(dst, f)
          /\ dst' \in Seq(Frame)
          /\ Len(dst') = Len(dst) + 1
          /\ \A i \in 1 .. Len(dst) : dst'[i] = dst[i]
          /\ dst'[Len(dst) + 1] = f
        BY <1>6, <2>1, <2>2 DEF RbReadCopy
    <2>4. TypeOK'
        BY <1>6, <2>1, <2>3 DEF RbReadCopy, TypeOK, writerVars
    <2>5. FetchedInOrder'
        BY <1>6, <2>1, <2>3 DEF RbReadCopy, FetchedInOrder, writerVars
    <2>6. NoWrapOntoReader' /\ StoredInOrder' /\ IdleHoldsNothing'
        BY <1>6 DEF RbReadCopy, NoWrapOntoReader, StoredInOrder, IdleHoldsNothing, writerVars
    <2>7. QED
        BY <2>4, <2>5, <2>6
<1>7. ASSUME RbReadPublish PROVE IInv'
    <2>1. want \in 0 .. N - 1 /\ want <= Used(wpos, rpos) /\ Len(dst) = want
        BY <1>7, <1>u DEF RbReadPublish, FetchedInOrder, TypeOK
    <2>2. rpos' \in Index
        BY <1>7, <1>u, <2>1, AdvanceWraps DEF RbReadPublish
    <2>3. Used(wpos', rpos') = Used(wpos, rpos) - want
        BY <1>7, <1>u, <2>1, UsedAfterRead DEF RbReadPublish, writerVars
    <2>4. TypeOK'
        BY <1>7, <2>2 DEF RbReadPublish, TypeOK, writerVars
    <2>5. NoWrapOntoReader'
        BY <1>7, <1>u, <2>1, <2>3 DEF RbReadPublish, NoWrapOntoReader, TypeOK, writerVars
    <2>6. FetchedInOrder'
        BY <1>7, <1>u, <2>1, <2>3 DEF RbReadPublish, FetchedInOrder
    <2>7. StoredInOrder' /\ IdleHoldsNothing'
        BY <1>7 DEF RbReadPublish, StoredInOrder, IdleHoldsNothing, writerVars
    <2>8. QED
        BY <2>4, <2>5, <2>6, <2>7
<1>8. ASSUME UNCHANGED vars PROVE IInv'
    BY <1>8 DEF vars, readerVars, writerVars, TypeOK, NoWrapOntoReader,
                FetchedInOrder, StoredInOrder, IdleHoldsNothing
<1>9. QED
    BY <1>1, <1>2, <1>3, <1>4, <1>5, <1>6, <1>7, <1>8 DEF Next, Writer, Reader
-------------------------------------------------------------------------------
\* The invariant the theorems follow from.
LEMMA Inductive == Spec => []IInv
BY InitIInv, NextIInv, PTL DEF Spec

\* Indices, copy counts and buffers stay in range in every reachable state.
THEOREM TypeCorrect == Spec => []TypeOK
<1>1. IInv => TypeOK
    BY DEF IInv
<1>2. QED
    BY <1>1, Inductive, PTL

\* A packet never closes the gap between wpos and rpos, so a full ring is
\* never read as an empty one.
THEOREM NeverFullToEmpty == Spec => []NoWrapOntoReader
<1>1. IInv => NoWrapOntoReader
    BY DEF IInv
<1>2. QED
    BY <1>1, Inductive, PTL

\* What playback fetches is the oldest published audio, in order, although the
\* indices it loaded are stale by the time it copies.
THEOREM ReadsAreFifo == Spec => []FetchedInOrder
<1>1. IInv => FetchedInOrder
    BY DEF IInv
<1>2. QED
    BY <1>1, Inductive, PTL

\* What the writer has still to copy goes beyond all that is unread.
LEMMA IInvNoOverwrite == IInv => NoOverwrite
<1> SUFFICES ASSUME IInv,
                    NEW i \in copied .. Len(src) - 1,
                    NEW j \in 0 .. Used(wpos, rpos) - 1
             PROVE  Slot(wpos, i) # Slot(rpos, j)
    BY DEF NoOverwrite, Writing, Unread
<1> USE RingAssumption
<1>1. Used(wpos, rpos) \in 0 .. N - 1 /\ wpos \in Index /\ rpos \in Index
    BY UsedType DEF IInv, TypeOK
<1>2. /\ i \in Nat
      /\ Used(wpos, rpos) + i \in 0 .. N - 1
    BY <1>1 DEF IInv, TypeOK, NoWrapOntoReader
<1>3. Slot(wpos, i) = Slot(rpos, Used(wpos, rpos) + i)
    BY <1>1, <1>2, SlotPastUsed
<1>4. j \in 0 .. N - 1 /\ j # Used(wpos, rpos) + i
    BY <1>1, <1>2
<1>5. QED
    BY <1>1, <1>2, <1>3, <1>4, SlotInjective

\* No store of recv_thread hits a frame that playback has not released.
THEOREM UnreadIsKept == Spec => []NoOverwrite
BY IInvNoOverwrite, Inductive, PTL

\* recv_thread and playback never access the same slot at the same time.
THEOREM NoDataRace == Spec => []NoOverlap
<1>1. IInv => NoOverlap
    <2> SUFFICES ASSUME IInv PROVE NoOverlap
        OBVIOUS
    <2>1. Reading \subseteq Unread
        <3>1. /\ Len(dst) \in Nat /\ want \in Nat
              /\ want <= Used(wpos, rpos) /\ Used(wpos, rpos) \in Nat
            BY UsedType, RingAssumption DEF IInv, TypeOK, FetchedInOrder
        <3>2. Len(dst) .. want - 1 \subseteq 0 .. Used(wpos, rpos) - 1
            BY <3>1
        <3>3. QED
            BY <3>2 DEF Reading, Unread
    <2>2. QED
        BY <2>1, IInvNoOverwrite DEF NoOverwrite, NoOverlap
<1>2. QED
    BY <1>1, Inductive, PTL
-------------------------------------------------------------------------------
\* The abstract queue is a sequence of frames, as long as the ring is used.
LEMMA QueueType ==
    ASSUME IInv
    PROVE  /\ Used(wpos, rpos) \in 0 .. N - 1
           /\ Queue \in Seq(Frame)
           /\ Len(Queue) = Used(wpos, rpos)
           /\ \A i \in 1 .. Len(Queue) : Queue[i] = ring[Slot(rpos, i - 1)]
<1> USE RingAssumption
<1>1. Used(wpos, rpos) \in 0 .. N - 1 /\ rpos \in Index
    BY UsedType DEF IInv, TypeOK
<1>2. \A i \in 1 .. Used(wpos, rpos) : ring[Slot(rpos, i - 1)] \in Frame
    BY <1>1, SlotInjective DEF IInv, TypeOK
<1>3. Queue \in [1 .. Used(wpos, rpos) -> Frame]
    BY <1>2 DEF Queue
<1>4. QED
    BY <1>1, <1>3 DEF Queue

\* Only the two publishing stores move frames in or out of the queue.
LEMMA QueueKept ==
    ASSUME IInv,
           wpos' = wpos, rpos' = rpos,
           \A j \in 0 .. Used(wpos, rpos) - 1 : ring'[Slot(rpos, j)] = ring[Slot(rpos, j)]
    PROVE  Queue' = Queue
<1>1. Used(wpos, rpos) \in Nat
    BY QueueType
<1>2. \A i \in 1 .. Used(wpos, rpos) : ring'[Slot(rpos, i - 1)] = ring[Slot(rpos, i - 1)]
    BY <1>1
<1>3. QED
    BY <1>1, <1>2 DEF Queue

\* An empty ring is an empty queue.
LEMMA InitImplements == Init => Fifo!FifoInit
<1> SUFFICES ASSUME Init PROVE Fifo!FifoInit
    OBVIOUS
<1>1. IInv /\ Used(wpos, rpos) = 0
    BY InitIInv, RingAssumption DEF Init, Used
<1>2. Queue \in Seq(Frame) /\ Len(Queue) = 0
    BY <1>1, QueueType
<1>3. QED
    BY <1>2 DEF Init, Fifo!FifoInit

\* Entering rb_write_frames with a packet that fits is Offer.
LEMMA BeginImplements ==
    ASSUME IInv, NEW p \in Packets, RbWriteBegin(p)
    PROVE  Fifo!FifoNext
<1> USE RingAssumption
<1>1. p \in Seq(Frame) /\ Len(p) \in 1 .. MaxPacket
    BY PacketType
<1>2. Queue' = Queue
    BY QueueKept DEF RbWriteBegin, readerVars
<1>3. Len(Queue) = Used(wpos, rpos) /\ Used(wpos, rpos) \in 0 .. N - 1
    BY QueueType
<1>4. /\ Len(p) \in 1 .. N - 1
      /\ Len(Queue) + Len(p) <= N - 1
    BY <1>1, <1>3 DEF RbWriteBegin, Free
<1>5. p # <<>> /\ p \in [1 .. Len(p) -> Frame]
    BY <1>1
<1>6. Fifo!Offer(p)
    BY <1>2, <1>4, <1>5 DEF Fifo!Offer, RbWriteBegin, IInv, IdleHoldsNothing, readerVars
<1>7. QED
    BY <1>4, <1>5, <1>6 DEF Fifo!FifoNext

\* The store of wpos appends the whole packet, as it was received, to the queue.
LEMMA WritePublishImplements ==
    ASSUME IInv, RbWritePublish
    PROVE  Fifo!FifoNext
<1> USE RingAssumption
<1> DEFINE u == Used(wpos, rpos)
           m == Len(src)
<1>1. /\ u \in 0 .. N - 1 /\ wpos \in Index /\ rpos \in Index
      /\ src \in Seq(Frame) /\ m \in Nat /\ u + m <= N - 1
      /\ copied = m
    BY UsedType DEF IInv, TypeOK, NoWrapOntoReader, RbWritePublish
<1>2. /\ ring' = ring /\ rpos' = rpos /\ got' = got /\ src' = <<>>
      /\ wpos' = Advance(wpos, m)
    BY DEF RbWritePublish, readerVars
<1>3. Used(wpos', rpos') = u + m
    BY <1>1, <1>2, UsedAfterWrite
<1>4. /\ Queue \in Seq(Frame) /\ Len(Queue) = u
      /\ \A i \in 1 .. u : Queue[i] = ring[Slot(rpos, i - 1)]
    BY QueueType
<1>5. ASSUME NEW i \in 1 .. m PROVE ring[Slot(rpos, u + i - 1)] = src[i]
    <2>1. i - 1 \in Nat /\ u + (i - 1) <= N - 1
        BY <1>1
    <2>2. Slot(wpos, i - 1) = Slot(rpos, u + (i - 1))
        BY <1>1, <2>1, SlotPastUsed
    <2>3. u + (i - 1) = u + i - 1
        BY <1>1
    <2>4. QED
        BY <1>1, <2>2, <2>3 DEF IInv, StoredInOrder
<1>6. Queue' = [i \in 1 .. u + m |-> ring[Slot(rpos, i - 1)]]
    BY <1>2, <1>3 DEF Queue
<1>7. ASSUME NEW i \in 1 .. u + m
      PROVE  /\ ring[Slot(rpos, i - 1)] = IF i <= u THEN Queue[i] ELSE src[i - u]
             /\ Queue'[i] = (Queue \o src)[i]
             /\ Queue'[i] \in Frame
    <2>1. (Queue \o src)[i] = IF i <= u THEN Queue[i] ELSE src[i - u]
        BY <1>1, <1>4, ConcatProperties
    <2>2. CASE i <= u
        <3>1. i \in 1 .. u
            BY <1>1, <2>2
        <3>2. QED
            BY <1>1, <1>4, <1>6, <2>1, <2>2, <3>1, ElementOfSeq
    <2>3. CASE ~(i <= u)
        <3>1. i - u \in 1 .. m /\ u + (i - u) - 1 = i - 1
            BY <1>1, <2>3
        <3>2. QED
            BY <1>1, <1>5, <1>6, <2>1, <2>3, <3>1, ElementOfSeq
    <2>4. QED
        BY <2>2, <2>3
<1>8. /\ Queue' \in Seq(Frame) /\ Len(Queue') = u + m
      /\ Queue \o src \in Seq(Frame) /\ Len(Queue \o src) = u + m
    <2>1. Queue' \in [1 .. u + m -> Frame]
        BY <1>6, <1>7
    <2>2. u + m \in Nat
        BY <1>1
    <2>3. Queue' \in Seq(Frame) /\ Len(Queue') = u + m
        <3> DEFINE k == u + m
        <3>1. k \in Nat /\ Queue' \in [1 .. k -> Frame]
            BY <2>1, <2>2
        <3> HIDE DEF k
        <3>2. Queue' \in Seq(Frame) /\ Len(Queue') = k
            BY <3>1
        <3>3. QED
            BY <3>2 DEF k
    <2>4. QED
        BY <1>1, <1>4, <2>3, ConcatProperties
<1>9. Queue' = Queue \o src
    BY <1>7, <1>8, SeqEqual
<1>10. src # <<>>
    BY DEF IInv, IdleHoldsNothing, RbWritePublish
<1>11. QED
    BY <1>2, <1>9, <1>10 DEF Fifo!Put, Fifo!FifoNext

\* The store of rpos takes the oldest frames off the queue and returns them.
LEMMA ReadPublishImplements ==
    ASSUME IInv, RbReadPublish
    PROVE  Fifo!FifoNext
<1> USE RingAssumption
<1> DEFINE u == Used(wpos, rpos)
<1>1. /\ u \in 0 .. N - 1 /\ wpos \in Index /\ rpos \in Index
      /\ want \in 0 .. u /\ dst \in Seq(Frame) /\ Len(dst) = want
    BY UsedType DEF IInv, TypeOK, FetchedInOrder, RbReadPublish
<1>2. /\ ring' = ring /\ wpos' = wpos /\ src' = src /\ got' = dst
      /\ rpos' = Advance(rpos, want)
    BY DEF RbReadPublish, writerVars
<1>3. /\ Used(wpos', rpos') = u - want
      /\ \A i \in 0 .. N - 1 :
            want + i <= N - 1 => Slot(rpos', i) = Slot(rpos, want + i)
    BY <1>1, <1>2, UsedAfterRead
<1>4. /\ Queue \in Seq(Frame) /\ Len(Queue) = u
      /\ \A i \in 1 .. u : Queue[i] = ring[Slot(rpos, i - 1)] /\ Queue[i] \in Frame
    BY QueueType, ElementOfSeq
<1>5. dst = SubSeq(Queue, 1, want)
    <2>1. /\ SubSeq(Queue, 1, want) \in Seq(Frame)
          /\ Len(SubSeq(Queue, 1, want)) = want
          /\ \A i \in 1 .. want : SubSeq(Queue, 1, want)[i] = Queue[i]
        <3>1. \A i \in 1 .. want : Queue[i] \in Frame
            BY <1>1, <1>4
        <3>2. QED
            BY <1>1, <3>1, SubSeqProperties
    <2>2. \A i \in 1 .. want : dst[i] = Queue[i]
        BY <1>1, <1>4 DEF IInv, FetchedInOrder
    <2>3. QED
        BY <1>1, <2>1, <2>2, SeqEqual
<1>6. Queue' = SubSeq(Queue, want + 1, Len(Queue))
    <2> DEFINE rest == SubSeq(Queue, want + 1, u)
    <2>1. /\ rest \in Seq(Frame)
          /\ Len(rest) = u - want
          /\ \A i \in 1 .. u - want : rest[i] = Queue[want + i]
        <3>1. \A i \in want + 1 .. u : Queue[i] \in Frame
            BY <1>1, <1>4
        <3>2. \A i \in 1 .. u - want : want + 1 + i - 1 = want + i
            BY <1>1
        <3>3. QED
            BY <1>1, <3>1, <3>2, SubSeqProperties
    <2>2. Queue' = [i \in 1 .. u - want |-> ring[Slot(rpos', i - 1)]]
        BY <1>2, <1>3 DEF Queue
    <2>3. ASSUME NEW i \in 1 .. u - want
          PROVE  Queue'[i] = rest[i] /\ Queue'[i] \in Frame
        <3>1. /\ i - 1 \in 0 .. N - 1 /\ want + (i - 1) <= N - 1
              /\ want + (i - 1) = (want + i) - 1
              /\ want + i \in 1 .. u
            BY <1>1
        <3>2. Slot(rpos', i - 1) = Slot(rpos, (want + i) - 1)
            BY <1>3, <3>1
        <3>3. QED
            BY <1>4, <2>1, <2>2, <3>1, <3>2
    <2>4. Queue' \in [1 .. u - want -> Frame] /\ u - want \in Nat
        BY <1>1, <2>2, <2>3
    <2>5. Queue' \in Seq(Frame) /\ Len(Queue') = u - want
        BY <2>4
    <2> HIDE DEF rest
    <2>6. Queue' = rest
        BY <2>1, <2>3, <2>5, SeqEqual
    <2>7. QED
        BY <1>4, <2>6 DEF rest
<1>7. Fifo!Get(want)
    BY <1>1, <1>2, <1>4, <1>5, <1>6 DEF Fifo!Get
<1>8. want \in 0 .. N - 1
    BY <1>1
<1>9. QED
    BY <1>7, <1>8 DEF Fifo!FifoNext

\* Every other step leaves the queue, the packet offered and the result alone.
LEMMA StepImplements == IInv /\ [Next]_vars => [Fifo!FifoNext]_Fifo!fifoVars
<1> SUFFICES ASSUME IInv, [Next]_vars PROVE [Fifo!FifoNext]_Fifo!fifoVars
    OBVIOUS
<1>1. ASSUME NEW p \in Packets, RbWriteBegin(p) PROVE Fifo!FifoNext
    BY <1>1, BeginImplements
<1>2. CASE RbWritePublish
    BY <1>2, WritePublishImplements
<1>3. CASE RbReadPublish
    BY <1>3, ReadPublishImplements
<1>4. CASE RbWriteCopy
    <2>1. /\ wpos' = wpos /\ rpos' = rpos /\ src' = src /\ got' = got
          /\ ring' = [ring EXCEPT ![Slot(wpos, copied)] = src[copied + 1]]
          /\ copied \in 0 .. Len(src) - 1
        BY <1>4 DEF RbWriteCopy, readerVars, IInv, TypeOK
    <2>2. NoOverwrite /\ ring \in [Index -> Frame]
        BY IInvNoOverwrite DEF IInv, TypeOK
    <2>3. \A j \in 0 .. Used(wpos, rpos) - 1 : Slot(rpos, j) # Slot(wpos, copied)
        BY <2>1, <2>2 DEF NoOverwrite, Writing, Unread
    <2>4. \A j \in 0 .. Used(wpos, rpos) - 1 : Slot(rpos, j) \in Index
        BY UsedType, SlotInjective, RingAssumption DEF IInv, TypeOK
    <2>5. Queue' = Queue
        BY <2>1, <2>2, <2>3, <2>4, QueueKept
    <2>6. QED
        BY <2>1, <2>5 DEF Fifo!fifoVars
<1>5. ASSUME ring' = ring, wpos' = wpos, rpos' = rpos, src' = src, got' = got
      PROVE  UNCHANGED Fifo!fifoVars
    BY <1>5, QueueKept DEF Fifo!fifoVars
<1>6. CASE \/ \E p \in Packets : RbWriteDrop(p)
           \/ \E k \in 1 .. MaxRead : RbReadBegin(k)
           \/ RbReadCopy
           \/ UNCHANGED vars
    BY <1>5, <1>6 DEF RbWriteDrop, RbReadBegin, RbReadCopy, vars, readerVars, writerVars
<1>7. QED
    BY <1>1, <1>2, <1>3, <1>4, <1>6 DEF Next, Writer, Reader

\* The ring of zinkos_rx.c implements the bounded FIFO of frames: no frame is
\* lost, repeated, reordered or invented between rb_write_frames accepting a
\* packet and rb_read_frames returning it.
THEOREM RingImplementsFifo == Spec => ImplementsFifo
BY InitImplements, StepImplements, Inductive, PTL DEF Spec, ImplementsFifo, Fifo!FifoSpec
-------------------------------------------------------------------------------
(* What OldestIsReleased rests on: playback, once it keeps reading, needs a bounded *)
(* number of steps to release a frame, whatever recv_thread does meanwhile.         *)

\* The steps playback has left before it moves rpos.  A read that began while the ring
\* was empty takes nothing and has to be finished first.
StepsToRelease ==
    IF reader = "idle" THEN MaxRead + 2
    ELSE IF want = 0 THEN MaxRead + 3
    ELSE want - Len(dst) + 1

\* While the oldest frame stays where it is, it stays published, each step of playback is
\* a step nearer to its release, and no step of recv_thread leads away from it.
ReleaseGetsNearer ==
    [][rpos # wpos /\ rpos' = rpos =>
        /\ rpos' # wpos'
        /\ Reader => StepsToRelease' < StepsToRelease
        /\ Writer => StepsToRelease' = StepsToRelease]_vars

\* The frames of a release are at least one and fewer than the ring has slots: rpos moves.
LEMMA AdvanceMoves ==
    ASSUME NEW b \in Index, NEW n \in 1 .. N - 1
    PROVE  Advance(b, n) # b
<1>1. Advance(b, n) = IF n < N - b THEN b + n ELSE n - (N - b)
    BY RingAssumption, AdvanceWraps
<1>2. QED
    BY <1>1, RingAssumption DEF Index

\* One step.
LEMMA StepNearer ==
    ASSUME IInv, Next, rpos # wpos, rpos' = rpos
    PROVE  /\ rpos' # wpos'
           /\ Reader => StepsToRelease' < StepsToRelease
           /\ Writer => StepsToRelease' = StepsToRelease
<1> USE RingAssumption
<1>1. /\ Used(wpos, rpos) \in 1 .. N - 1 /\ wpos \in Index /\ rpos \in Index
      /\ want \in 0 .. MaxRead /\ want <= Used(wpos, rpos)
      /\ Len(dst) \in 0 .. want /\ dst \in Seq(Frame) /\ reader \in {"idle", "copy"}
    <2>1. Used(wpos, rpos) # 0
        BY DEF Used, Index, IInv, TypeOK
    <2>2. QED
        BY <2>1, UsedType DEF IInv, TypeOK, FetchedInOrder
<1>2. CASE Writer
    <2>1. UNCHANGED <<reader, want, dst>>
        BY <1>2 DEF Writer, RbWriteBegin, RbWriteDrop, RbWriteCopy, RbWritePublish, readerVars, vars
    <2>2. StepsToRelease' = StepsToRelease
        BY <2>1 DEF StepsToRelease
    <2>3. ~Reader \/ UNCHANGED wpos
        BY <1>2 DEF Reader, RbReadBegin, RbReadCopy, RbReadPublish, writerVars
    <2>4. CASE RbWritePublish
        <3>1. Len(src) \in 0 .. N - 1 /\ Used(wpos, rpos) + Len(src) <= N - 1
            BY <1>1 DEF IInv, NoWrapOntoReader, TypeOK
        <3>2. wpos' \in Index /\ Used(wpos', rpos) = Used(wpos, rpos) + Len(src)
            BY <1>1, <2>4, <3>1, AdvanceWraps, UsedAfterWrite DEF RbWritePublish
        <3>3. wpos' # rpos
            BY <1>1, <3>1, <3>2 DEF Used, Index
        <3>4. src # <<>> /\ src' = <<>>
            BY <2>4 DEF IInv, IdleHoldsNothing, RbWritePublish
        <3>5. ~Reader
            BY <3>4 DEF Reader, RbReadBegin, RbReadCopy, RbReadPublish, writerVars
        <3>6. QED
            BY <2>2, <3>3, <3>5
    <2>5. CASE ~RbWritePublish
        <3>1. wpos' = wpos
            BY <1>2, <2>5 DEF Writer, RbWriteBegin, RbWriteDrop, RbWriteCopy, vars, writerVars
        <3>2. ~Reader
            BY <1>1, <2>1 DEF Reader, RbReadBegin, RbReadCopy, RbReadPublish
        <3>3. QED
            BY <2>2, <3>1, <3>2
    <2>6. QED
        BY <2>4, <2>5
<1>3. ASSUME Reader, ~Writer
      PROVE  rpos' # wpos' /\ StepsToRelease' < StepsToRelease
    <2>1. wpos' = wpos
        BY <1>3 DEF Reader, RbReadBegin, RbReadCopy, RbReadPublish, writerVars
    <2>2. CASE \E k \in 1 .. MaxRead : RbReadBegin(k)
        <3>1. reader = "idle" /\ reader' = "copy" /\ want' \in 1 .. MaxRead /\ dst' = <<>>
            BY <1>1, <2>2 DEF RbReadBegin, IInv, IdleHoldsNothing
        <3>2. StepsToRelease = MaxRead + 2
            BY <3>1 DEF StepsToRelease
        <3>3. Len(dst') = 0
            BY <3>1
        <3>4. \A w \in 1 .. MaxRead : w # 0 /\ w - 0 + 1 < MaxRead + 2
            OBVIOUS
        <3>5. StepsToRelease' = want' - 0 + 1
            BY <3>1, <3>3, <3>4 DEF StepsToRelease
        <3>6. QED
            BY <2>1, <3>1, <3>2, <3>4, <3>5
    <2>3. CASE RbReadCopy
        <3>1. /\ reader = "copy" /\ reader' = "copy" /\ want' = want /\ want # 0
              /\ Len(dst') = Len(dst) + 1
            BY <1>1, <2>3 DEF RbReadCopy
        <3>2. QED
            BY <1>1, <2>1, <3>1 DEF StepsToRelease
    <2>4. CASE RbReadPublish
        <3>1. want = 0
            <4>1. Advance(rpos, want) = rpos
                BY <2>4 DEF RbReadPublish
            <4>2. want # 0 => want \in 1 .. N - 1
                BY <1>1
            <4>3. QED
                BY <1>1, <4>1, <4>2, AdvanceMoves
        <3>2. reader = "copy" /\ reader' = "idle"
            BY <2>4 DEF RbReadPublish
        <3>3. QED
            BY <2>1, <3>1, <3>2 DEF StepsToRelease
    <2>5. QED
        BY <1>3, <2>2, <2>3, <2>4 DEF Reader
<1>4. QED
    BY <1>2, <1>3 DEF Next

\* A published frame is released after at most MaxRead + 3 steps of playback.
THEOREM ReleaseIsNear == Spec => [](StepsToRelease \in 1 .. MaxRead + 3) /\ ReleaseGetsNearer
<1>1. IInv => StepsToRelease \in 1 .. MaxRead + 3
    BY RingAssumption DEF IInv, TypeOK, StepsToRelease
<1>2. IInv /\ [Next]_vars =>
        [rpos # wpos /\ rpos' = rpos =>
            /\ rpos' # wpos'
            /\ Reader => StepsToRelease' < StepsToRelease
            /\ Writer => StepsToRelease' = StepsToRelease]_vars
    BY StepNearer
<1>3. QED
    BY <1>1, <1>2, Inductive, PTL DEF Spec, ReleaseGetsNearer
===============================================================================
