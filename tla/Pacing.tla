-------------------------------- MODULE Pacing --------------------------------
(***************************************************************************)
(* When audio comes and when packets leave.  The HAL runs IO cycles by the *)
(* driver's timestamps (driver/ZinkosPlugin.cpp), the network thread sends *)
(* by the pacer's deadlines (engine/src/pacer.rs, ffi.rs), and the sender  *)
(* ring is between them.  Both clocks are derived from host ticks, each    *)
(* with a truncation of its own.  The HAL and the scheduler, which may be  *)
(* late with either thread, are external.                                  *)
(***************************************************************************)
EXTENDS Integers

CONSTANTS PacketSizes,  \* bound: values of frames_per_packet
          FramesPerMs,  \* SAMPLE_RATE / 1000
          HostMs,       \* host ticks in a millisecond
          RingFrames,   \* ring_buffer_frames
          IOFrames,     \* frames in an IO cycle
          MaxIOLate,    \* bound: ticks an IO cycle may be late
          MaxLate       \* bound: ticks the network thread may be late

\* A packet lasts a millisecond at least: LoadConfig takes 48 frames or more.
ASSUME PacingAssumption ==
    /\ FramesPerMs \in Nat \ {0} /\ HostMs \in Nat /\ HostMs >= FramesPerMs
    /\ PacketSizes \subseteq Nat /\ \A n \in PacketSizes : n >= FramesPerMs
    /\ RingFrames \in Nat /\ IOFrames \in Nat \ {0}
    /\ MaxIOLate \in Nat /\ MaxLate \in Nat

VARIABLES
    packet,   \* frames_per_packet
    net,      \* the network thread: "resolving" or "waiting" for its deadline
    due,      \* next_abs - now: ticks to the deadline, negative when it has passed
    fill,     \* frames in the ring
    owed,     \* ticks since the audio of the last IO cycle ended
    backlog   \* history: the ring's fill when the thread became ready

vars == <<packet, net, due, fill, owed, backlog>>

\* ticksPerFrame, as Initialize computes it.
TicksPerFrame == HostMs \div FramesPerMs

\* GetZeroTimeStamp, elapsed ticks after the anchor of StartIO: the last period
\* boundary, as samples since then and as host ticks since then.
TimeStampPeriod == 128
ZeroTimeStamp(elapsed) ==
    LET periods == (elapsed \div TicksPerFrame) \div TimeStampPeriod
    IN  [sample |-> periods * TimeStampPeriod,
         host |-> periods * TimeStampPeriod * TicksPerFrame]

\* From timestamps on one line the HAL learns how long a cycle is.
CycleTicks == IOFrames * TicksPerFrame

\* packet_duration_ms, in whole milliseconds, as ticks.
Duration == (packet \div FramesPerMs) * HostMs

Init ==
    /\ packet \in PacketSizes
    /\ net = "resolving" /\ due = 0 /\ fill = 0 /\ owed = 0
    /\ backlog = 0

Tick ==
    /\ owed < CycleTicks + MaxIOLate
    /\ net = "waiting" => due > -MaxLate
    /\ owed' = owed + 1
    /\ due' = IF net = "waiting" THEN due - 1 ELSE due
    /\ UNCHANGED <<packet, net, fill, backlog>>

\* write_frames, which takes audio from Starting on, drops what does not fit.
IOCycle ==
    /\ owed >= CycleTicks
    /\ owed' = owed - CycleTicks
    /\ fill' = IF fill + IOFrames <= RingFrames THEN fill + IOFrames ELSE RingFrames
    /\ UNCHANGED <<packet, net, due, backlog>>

\* read_frames: up to a packet, and nothing is sent if there is none.
LeftUnchecked == fill - packet  \* mutated form: a packet is always full
Left == IF fill < packet THEN 0 ELSE fill - packet

\* The target is resolved.  The first wait returns at once and sets the deadline.
Ready ==
    /\ net = "resolving"
    /\ net' = "waiting"
    /\ due' = Duration
    /\ fill' = Left /\ backlog' = Left
    /\ UNCHANGED <<packet, owed>>

DueFromNow == Duration  \* mutated form: a relative deadline
DueNext == due + Duration

\* wait returns when the deadline has passed and advances it.
Wake ==
    /\ net = "waiting" /\ due <= 0
    /\ due' = DueNext
    /\ fill' = Left
    /\ UNCHANGED <<packet, net, owed, backlog>>

Next == Tick \/ IOCycle \/ Ready \/ Wake

Spec == Init /\ [][Next]_vars
-------------------------------------------------------------------------------
TypeOK ==
    /\ packet \in PacketSizes
    /\ net \in {"resolving", "waiting"}
    /\ due \in -MaxLate .. Duration
    /\ fill \in 0 .. RingFrames
    /\ owed \in 0 .. CycleTicks + MaxIOLate
    /\ backlog \in 0 .. RingFrames

\* The pacer takes no longer over a packet than the HAL over its frames.  So it is
\* when a millisecond is a whole number of frames' ticks, as on Apple silicon.
KeepsUp == Duration <= packet * TicksPerFrame

\* What audio waits in the ring when the sender is in step: an IO cycle, an
\* interval, and the lateness of both threads.
InStep == CycleTicks + MaxIOLate + Duration + MaxLate

\* "Absolute deadlines prevent drift accumulation over time" (pacer.rs:5): late
\* wake-ups do not add up but are made good by a burst, so the ring never holds
\* more than what it held when the thread became ready and what is in step.
BacklogNeverGrows ==
    KeepsUp /\ net = "waiting" => fill * TicksPerFrame <= backlog * TicksPerFrame + InStep

\* No frame is dropped once the thread is ready, if the ring has room for that
\* ("enough for ~100ms of audio", config.rs:15).
NothingDropped ==
    [][KeepsUp /\ net = "waiting" /\ owed' < owed
       /\ backlog * TicksPerFrame + InStep <= RingFrames * TicksPerFrame
            => fill' = fill + IOFrames]_vars

\* The inductive invariant: what is in the ring or owed, and the time to the
\* deadline, that the backlog accounts for.
IInv ==
    /\ TypeOK
    /\ KeepsUp /\ net = "waiting" =>
        fill * TicksPerFrame + owed + due
            <= backlog * TicksPerFrame + CycleTicks + MaxIOLate + Duration
===============================================================================
