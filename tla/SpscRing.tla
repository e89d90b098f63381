------------------------------- MODULE SpscRing -------------------------------
(***************************************************************************)
(* The frame ring of receiver/c/zinkos_rx.c, shared by recv_thread (the    *)
(* only writer) and the playback loop of main (the only reader).  Each     *)
(* side owns one index; the other side's index is read once, before the    *)
(* copy, and may be stale while the frames are copied.  The steps of the   *)
(* model are the accesses to shared memory: the load that decides, each    *)
(* frame copied by memcpy, and the releasing store that publishes.         *)
(***************************************************************************)
EXTENDS Integers, Sequences

CONSTANTS N,          \* RING_FRAMES: slots of the ring
          Frame,      \* the audio frames
          Silence,    \* the frame of zeros the ring starts filled with
          MaxPacket,  \* bound: frames in a packet
          MaxRead     \* bound: frames playback asks for at once (the period)

ASSUME RingAssumption ==
    /\ N \in Nat /\ N > 1
    /\ Silence \in Frame
    /\ MaxPacket \in Nat \ {0}
    /\ MaxRead \in Nat \ {0}

VARIABLES
    ring,       \* the slots
    wpos,       \* wpos_frames: next slot to write, owned by recv_thread
    rpos,       \* rpos_frames: next slot to read, owned by playback
    writer,     \* recv_thread: "idle" or "copy" (inside rb_write_frames)
    src,        \* the frames of the packet being written
    copied,     \* how many of them memcpy has stored
    reader,     \* playback: "idle" or "copy" (inside rb_read_frames)
    want,       \* how many frames the read in progress takes
    dst,        \* the frames memcpy has fetched so far
    got         \* what the last rb_read_frames returned

writerVars == <<wpos, writer, src, copied>>
readerVars == <<rpos, reader, want, dst, got>>
vars == <<ring, writerVars, readerVars>>

Index == 0 .. N - 1

\* rb_used_frames and rb_free_frames, for a pair of loaded indices.
UsedShort(w, r) == IF w >= r THEN w - r ELSE (N - 1) - (r - w)  \* mutated form
Used(w, r) == IF w >= r THEN w - r ELSE N - (r - w)

FreeNoGap(w, r) == N - Used(w, r)          \* mutated form: no slot kept free
Free(w, r) == (N - 1) - Used(w, r)

\* The slot of the i-th frame (from 0) of a copy that begins at slot base:
\* the first N - base frames go to the tail of the ring, the rest to its head.
Slot(base, i) == IF i < N - base THEN base + i ELSE i - (N - base)

\* The index published after n frames.
AdvanceNoWrap(base, n) == base + n  \* mutated form: never wraps
Advance(base, n) == (base + n) % N

Init ==
    /\ ring = [i \in Index |-> Silence]
    /\ wpos = 0 /\ rpos = 0
    /\ writer = "idle" /\ src = <<>> /\ copied = 0
    /\ reader = "idle" /\ want = 0 /\ dst = <<>> /\ got = <<>>
-------------------------------------------------------------------------------
Packets == UNION {[1..n -> Frame] : n \in 1..MaxPacket}

\* rb_write_frames enters the copy with a packet that fits by the indices it loaded ...
RbWriteBegin(frames) ==
    /\ writer = "idle"
    /\ Len(frames) <= Free(wpos, rpos)
    /\ writer' = "copy"
    /\ src' = frames
    /\ copied' = 0
    /\ UNCHANGED <<ring, wpos, readerVars>>

\* ... or returns at once: the whole packet is dropped.
RbWriteDrop(frames) ==
    /\ writer = "idle"
    /\ Len(frames) > Free(wpos, rpos)
    /\ UNCHANGED vars

RbWriteCopy ==
    /\ writer = "copy"
    /\ copied < Len(src)
    /\ ring' = [ring EXCEPT ![Slot(wpos, copied)] = src[copied + 1]]
    /\ copied' = copied + 1
    /\ UNCHANGED <<wpos, writer, src, readerVars>>

\* Mutated form: the index is stored before memcpy has finished.
RbWritePublishEarly ==
    /\ writer = "copy"
    /\ wpos' = Advance(wpos, Len(src))
    /\ writer' = "idle"
    /\ src' = <<>>
    /\ copied' = 0
    /\ UNCHANGED <<ring, readerVars>>

RbWritePublish ==
    /\ writer = "copy"
    /\ copied = Len(src)
    /\ wpos' = Advance(wpos, Len(src))
    /\ writer' = "idle"
    /\ src' = <<>>
    /\ copied' = 0
    /\ UNCHANGED <<ring, readerVars>>
-------------------------------------------------------------------------------
\* rb_read_frames loads the indices and settles how many frames it will take.
RbReadBegin(frames) ==
    /\ reader = "idle"
    /\ reader' = "copy"
    /\ want' = LET avail == Used(wpos, rpos)
               IN  IF frames > avail THEN avail ELSE frames
    /\ UNCHANGED <<ring, writerVars, rpos, dst, got>>

RbReadCopy ==
    /\ reader = "copy"
    /\ Len(dst) < want
    /\ dst' = Append(dst, ring[Slot(rpos, Len(dst))])
    /\ UNCHANGED <<ring, writerVars, rpos, reader, want, got>>

RbReadPublish ==
    /\ reader = "copy"
    /\ Len(dst) = want
    /\ rpos' = Advance(rpos, want)
    /\ got' = dst
    /\ reader' = "idle"
    /\ want' = 0
    /\ dst' = <<>>
    /\ UNCHANGED <<ring, writerVars>>
-------------------------------------------------------------------------------
Writer == (\E p \in Packets : RbWriteBegin(p) \/ RbWriteDrop(p))
          \/ RbWriteCopy \/ RbWritePublish
Reader == (\E k \in 1..MaxRead : RbReadBegin(k)) \/ RbReadCopy \/ RbReadPublish
Next == Writer \/ Reader

Spec == Init /\ [][Next]_vars

\* Both threads are never blocked inside a copy: a memcpy ends and its index
\* is published, whatever the other thread does.
Fairness == /\ WF_vars(RbWriteCopy) /\ WF_vars(RbWritePublish)
            /\ WF_vars(RbReadCopy) /\ WF_vars(RbReadPublish)
            /\ WF_vars(\E k \in 1..MaxRead : RbReadBegin(k))
FairSpec == Spec /\ Fairness
-------------------------------------------------------------------------------
TypeOK ==
    /\ ring \in [Index -> Frame]
    /\ wpos \in Index /\ rpos \in Index
    /\ writer \in {"idle", "copy"}
    /\ src \in Seq(Frame) /\ Len(src) <= MaxPacket
    /\ copied \in 0..Len(src)
    /\ reader \in {"idle", "copy"}
    /\ want \in 0..MaxRead
    /\ dst \in Seq(Frame) /\ Len(dst) <= want
    /\ got \in Seq(Frame) /\ Len(got) <= MaxRead

\* The slots the writer may still store into, and those the reader may still
\* fetch from, in the calls in progress.
Writing == {Slot(wpos, i) : i \in copied .. Len(src) - 1}
Reading == {Slot(rpos, i) : i \in Len(dst) .. want - 1}

\* The two memcpys never touch the same slot, although each side decided by an
\* index the other may have moved since (zinkos_rx.c:49 and :64).
NoOverlap == Writing \cap Reading = {}

\* No store hits a slot whose frame is published and not yet released by the
\* reader, so no audio is overwritten before it is played.
Unread == {Slot(rpos, i) : i \in 0 .. Used(wpos, rpos) - 1}
NoOverwrite == Writing \cap Unread = {}

\* A full ring is never mistaken for an empty one: a packet being written
\* always leaves a slot free, so publishing it cannot bring wpos onto rpos.
NoWrapOntoReader == Used(wpos, rpos) + Len(src) <= N - 1

\* The frames fetched so far are the oldest published ones, in order: no torn
\* or reordered read while the writer runs ahead.
FetchedInOrder ==
    /\ want <= Used(wpos, rpos)
    /\ \A i \in 1..Len(dst) : dst[i] = ring[Slot(rpos, i - 1)]

\* The frames of a packet stay where they were stored until they are published:
\* nothing the reader does moves the slots past the published ones.
StoredInOrder == \A i \in 1..copied : ring[Slot(wpos, i - 1)] = src[i]

\* A thread holds frames in hand exactly while it is inside its call.
IdleHoldsNothing ==
    /\ writer = "idle" <=> src = <<>>
    /\ writer = "idle" => copied = 0
    /\ reader = "idle" => dst = <<>> /\ want = 0

\* The inductive invariant: what one side decided by a stale index stays true.
IInv == TypeOK /\ NoWrapOntoReader /\ FetchedInOrder /\ StoredInOrder /\ IdleHoldsNothing

\* The ring implements the bounded FIFO: the packet being copied is the one
\* offered, what is published and unread is the queue, publishing is Put,
\* releasing the frames read is Get.
Queue == [i \in 1..Used(wpos, rpos) |-> ring[Slot(rpos, i - 1)]]
Fifo == INSTANCE BoundedFifo
            WITH offered <- src, queue <- Queue, delivered <- got, Capacity <- N - 1
ImplementsFifo == Fifo!FifoSpec

\* Frames published are played: the ring drains unless recv_thread refills it.
\* (The oldest published slot is released, for every slot and every position.)
OldestIsReleased == \A i \in Index : (rpos = i /\ wpos # i) ~> (rpos # i)
===============================================================================
