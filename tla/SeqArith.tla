------------------------------- MODULE SeqArith -------------------------------
(***************************************************************************)
(* Packet sequence numbers: the u32 counter of engine/src/packetizer.rs,   *)
(* which wraps, and seq_before of receiver/src/jitter_buffer.rs, which     *)
(* orders two numbers by their distance.                                   *)
(***************************************************************************)
EXTENDS Integers

CONSTANT NumSpace  \* 2^32

ASSUME NumSpaceAssumption == NumSpace \in Nat /\ NumSpace >= 4

SeqNum == 0 .. NumSpace - 1

\* seq.wrapping_add(1).
SeqNext(s) == (s + 1) % NumSpace

\* u32::MAX / 2.
HalfRange == (NumSpace - 1) \div 2

\* "a comes before b in sequence space (handles wrapping)".
SeqBeforeNoWrap(a, b) == a < b  \* mutated form: plain comparison
SeqBefore(a, b) ==
    LET diff == (b - a) % NumSpace
    IN  0 < diff /\ diff < HalfRange
===============================================================================
