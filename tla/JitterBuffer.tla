----------------------------- MODULE JitterBuffer -----------------------------
(***************************************************************************)
(* receiver/src/jitter_buffer.rs, and the mutex main.rs guards it with:    *)
(* push() is one step, pop_frames() one step per turn of its loop, during  *)
(* which the mutex is held.  Audio is counted in frames; a packet is its   *)
(* sequence number and how many of its frames are still to be played, and  *)
(* an id, which no code reads, tells apart the packets of equal number.    *)
(***************************************************************************)
EXTENDS SeqArith, SequencesExt

CONSTANTS StartFill,    \* start_fill_frames
          PopFrames,    \* frames_per_write: what the playback loop pops
          GapFrames,    \* DEFAULT_FRAMES_PER_PACKET: silence for one lost packet
          NoSeq         \* next_play_seq = None

ASSUME JitterAssumption ==
    /\ StartFill \in Nat
    /\ PopFrames \in Nat \ {0} /\ GapFrames \in Nat \ {0}
    /\ NoSeq \notin SeqNum

VARIABLES
    buf,        \* the entries, in the order of the VecDeque
    jstate,     \* "Filling", "Playing" or "Underrun"
    next,       \* next_play_seq
    remaining,  \* frames pop_frames still owes; 0: the mutex is free
    received,   \* packets_received
    lost        \* packets_dropped

jitterVars == <<buf, jstate, next, remaining, received, lost>>

JitterInit ==
    /\ buf = <<>> /\ jstate = "Filling" /\ next = NoSeq /\ remaining = 0
    /\ received = 0 /\ lost = 0

BufferedFrames(b) == FoldSeq(LAMBDA e, n : n + e.left, 0, b)

\* The first entry that comes after seq, and the buffer with p put before it.
PositionLast(seq, b) == 0  \* mutated form: always at the back
Position(seq, b) == SelectInSeq(b, LAMBDA e : SeqBefore(seq, e.seq))
Inserted(p, b) ==
    LET i == Position(p.seq, b)
    IN  IF i = 0 THEN Append(b, p) ELSE InsertAt(b, i, p)

\* A packet behind the play cursor is too old.
TooOld(seq) == next # NoSeq /\ SeqBefore(seq, next)
-------------------------------------------------------------------------------
\* push() of a well-formed packet.
PushLate(p) ==
    /\ remaining = 0
    /\ TooOld(p.seq)
    /\ received' = received + 1
    /\ lost' = lost + 1
    /\ UNCHANGED <<buf, jstate, next, remaining>>

\* The state after an insertion: playback starts, or starts again, once enough
\* is buffered; the cursor is set the first time only.
PushInTime(p) ==
    /\ remaining = 0
    /\ ~TooOld(p.seq)
    /\ received' = received + 1
    /\ buf' = Inserted(p, buf)
    /\ IF jstate # "Playing" /\ BufferedFrames(buf') >= StartFill
       THEN /\ jstate' = "Playing"
            /\ next' = IF next = NoSeq THEN buf'[1].seq ELSE next
       ELSE UNCHANGED <<jstate, next>>
    /\ UNCHANGED <<remaining, lost>>

Push(p) == PushLate(p) \/ PushInTime(p)
-------------------------------------------------------------------------------
\* The playback loop takes the mutex and calls pop_frames(PopFrames).
PopBegin ==
    /\ remaining = 0
    /\ jstate = "Playing"
    /\ remaining' = PopFrames
    /\ UNCHANGED <<buf, jstate, next, received, lost>>

Popping == remaining > 0 /\ jstate = "Playing"
Oldest == buf[1]
CursorFront == Oldest.seq  \* mutated form: whatever is in front is due
Cursor == IF next = NoSeq THEN Oldest.seq ELSE next

\* The expected packet: its frames are played, what is left goes back in front.
TakeAll == Oldest.left  \* mutated form: more frames than were asked for
TakeShort == IF Oldest.left < remaining THEN Oldest.left ELSE remaining - 1  \* mutated form
Take == IF Oldest.left < remaining THEN Oldest.left ELSE remaining

PopExpected ==
    /\ Popping /\ buf # <<>>
    /\ Oldest.seq = Cursor
    /\ remaining' = remaining - Take
    /\ IF Take < Oldest.left
       THEN buf' = [buf EXCEPT ![1].left = @ - Take] /\ UNCHANGED next
       ELSE buf' = Tail(buf) /\ next' = SeqNext(Cursor)
    /\ UNCHANGED <<jstate, received, lost>>

\* mutated form: one silence for all the packets missing
PopGapOnce ==
    /\ Popping /\ buf # <<>>
    /\ SeqBefore(Cursor, Oldest.seq)
    /\ remaining' = remaining - (IF GapFrames < remaining THEN GapFrames ELSE remaining)
    /\ next' = Oldest.seq
    /\ UNCHANGED <<buf, jstate, received, lost>>

\* A gap: silence for one missing packet.
PopGap ==
    /\ Popping /\ buf # <<>>
    /\ SeqBefore(Cursor, Oldest.seq)
    /\ remaining' = remaining - (IF GapFrames < remaining THEN GapFrames ELSE remaining)
    /\ next' = SeqNext(Cursor)
    /\ UNCHANGED <<buf, jstate, received, lost>>

\* A packet behind the cursor is skipped.
PopBehind ==
    /\ Popping /\ buf # <<>>
    /\ Oldest.seq # Cursor /\ ~SeqBefore(Cursor, Oldest.seq)
    /\ buf' = Tail(buf)
    /\ lost' = lost + 1
    /\ UNCHANGED <<jstate, next, remaining, received>>

\* Nothing left: the call returns short and the mutex is released.
PopUnderrun ==
    /\ Popping /\ buf = <<>>
    /\ jstate' = "Underrun"
    /\ remaining' = 0
    /\ UNCHANGED <<buf, next, received, lost>>

===============================================================================
