----------------------------- MODULE BoundedFifo -----------------------------
(***************************************************************************)
(* What the receiver's frame ring promises to the two threads around it: a *)
(* bounded FIFO of audio frames.  A packet enters whole or not at all and  *)
(* the playback thread gets frames in the order the packets carried them,  *)
(* none lost, invented or repeated.                                        *)
(***************************************************************************)
EXTENDS Integers, Sequences

CONSTANTS Frame,      \* the audio frames
          Capacity    \* how many frames the queue holds

VARIABLES offered,    \* the frames of the packet being put, <<>> when there is none
          queue,      \* frames accepted and not yet delivered, oldest first
          delivered   \* the frames the last Get handed over

fifoVars == <<offered, queue, delivered>>

FifoInit == offered = <<>> /\ queue = <<>> /\ delivered = <<>>

\* A packet is taken on only if all of its frames fit beside the queued ones.
Offer(frames) ==
    /\ offered = <<>>
    /\ frames # <<>>
    /\ Len(queue) + Len(frames) <= Capacity
    /\ offered' = frames
    /\ UNCHANGED <<queue, delivered>>

\* Its frames are appended together, once.
Put ==
    /\ offered # <<>>
    /\ queue' = queue \o offered
    /\ offered' = <<>>
    /\ UNCHANGED delivered

\* The oldest n frames leave the queue and are handed over in order.
Get(n) ==
    /\ n \in 0..Len(queue)
    /\ delivered' = SubSeq(queue, 1, n)
    /\ queue' = SubSeq(queue, n + 1, Len(queue))
    /\ UNCHANGED offered

FifoNext ==
    \/ \E n \in 1..Capacity : \E frames \in [1..n -> Frame] : Offer(frames)
    \/ Put
    \/ \E n \in 0..Capacity : Get(n)

FifoSpec == FifoInit /\ [][FifoNext]_fifoVars
==============================================================================
