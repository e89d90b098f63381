----------------------------- MODULE PacingProofs -----------------------------
(***************************************************************************)
(* Proofs about Pacing, for all packet sizes, clocks, IO cycles, ring      *)
(* sizes and bounds on lateness.                                           *)
(***************************************************************************)
EXTENDS Pacing, TLAPS

\* A frame lasts a tick at least, and a cycle's length is a number of ticks.
LEMMA ClockBounds ==
    /\ TicksPerFrame \in Nat /\ 0 < TicksPerFrame
    /\ CycleTicks \in Nat
<1>1. TicksPerFrame \in Nat /\ 0 < TicksPerFrame
  BY PacingAssumption DEF TicksPerFrame
<1>2. QED  BY <1>1, PacingAssumption DEF CycleTicks

\* The interval between packets is a positive number of ticks.
LEMMA DurationBounds ==
    ASSUME packet \in PacketSizes
    PROVE  Duration \in Nat /\ 0 < Duration
<1> DEFINE q == packet \div FramesPerMs
<1>1. packet \in Nat /\ packet >= FramesPerMs /\ FramesPerMs \in Nat \ {0}
      /\ HostMs \in Nat \ {0}
  BY PacingAssumption
<1>2. q \in Nat \ {0}
  BY <1>1
<1>3. q * HostMs \in Nat \ {0}
  BY <1>1, <1>2
<1>4. QED  BY <1>3 DEF Duration

\* A stretch of audio lasts a number of ticks.
LEMMA AudioIsNat ==
    ASSUME NEW a \in Nat
    PROVE  a * TicksPerFrame \in Nat
BY ClockBounds

\* Audio lasts as long as its parts.
LEMMA AudioIsAdditive ==
    ASSUME NEW a \in Nat, NEW b \in Nat
    PROVE  /\ (a + b) * TicksPerFrame = a * TicksPerFrame + b * TicksPerFrame
           /\ (a - b) * TicksPerFrame = a * TicksPerFrame - b * TicksPerFrame
BY ClockBounds

\* More audio lasts longer.
LEMMA AudioIsMonotone ==
    ASSUME NEW a \in Nat, NEW b \in Nat
    PROVE  a * TicksPerFrame <= b * TicksPerFrame <=> a <= b
<1>1. a <= b => a * TicksPerFrame <= b * TicksPerFrame
  BY ClockBounds
<1>2. b < a => b * TicksPerFrame < a * TicksPerFrame
  BY ClockBounds
<1>3. a * TicksPerFrame \in Nat /\ b * TicksPerFrame \in Nat
  BY AudioIsNat
<1>4. QED  BY <1>1, <1>2, <1>3

\* The timestamp the HAL reads is the latest there is: it is not in the future, and
\* less than a period old (GetZeroTimeStamp rounds down twice).
THEOREM TimeStampIsLatest ==
    ASSUME NEW elapsed \in Nat
    PROVE  LET stamp == ZeroTimeStamp(elapsed)
           IN  /\ stamp.host <= elapsed
               /\ elapsed < stamp.host + TimeStampPeriod * TicksPerFrame
<1> DEFINE frames == elapsed \div TicksPerFrame
           sample == (frames \div 128) * 128
<1>1. frames \in Nat /\ frames * TicksPerFrame <= elapsed
      /\ elapsed < (frames + 1) * TicksPerFrame
  BY ClockBounds
<1>2. sample \in Nat /\ sample <= frames /\ frames + 1 <= sample + 128
  BY <1>1
<1> HIDE DEF frames, sample
<1>3. sample * TicksPerFrame <= frames * TicksPerFrame
  BY <1>1, <1>2, AudioIsMonotone
<1>4. (frames + 1) * TicksPerFrame <= sample * TicksPerFrame + 128 * TicksPerFrame
  BY <1>1, <1>2, AudioIsMonotone, AudioIsAdditive
<1>5. /\ sample * TicksPerFrame \in Nat /\ 128 * TicksPerFrame \in Nat
      /\ frames * TicksPerFrame \in Nat /\ (frames + 1) * TicksPerFrame \in Nat
  BY <1>1, <1>2, AudioIsNat
<1>6. sample * TicksPerFrame <= elapsed
      /\ elapsed < sample * TicksPerFrame + 128 * TicksPerFrame
  BY <1>1, <1>3, <1>4, <1>5
<1>7. QED  BY <1>6 DEF ZeroTimeStamp, TimeStampPeriod, frames, sample

\* Between two timestamps there is a cycle's time for each cycle of frames, however
\* far apart they were read: what CycleTicks takes the HAL to see, with no drift.
THEOREM TimeStampsAreSteady ==
    ASSUME NEW s \in Nat, NEW t \in Nat, NEW cycles \in Nat,
           ZeroTimeStamp(t).sample - ZeroTimeStamp(s).sample = cycles * IOFrames
    PROVE  ZeroTimeStamp(t).host - ZeroTimeStamp(s).host = cycles * CycleTicks
<1> DEFINE a == ZeroTimeStamp(s).sample
           b == ZeroTimeStamp(t).sample
<1>1. a \in Nat /\ b \in Nat
  BY ClockBounds DEF ZeroTimeStamp, TimeStampPeriod
<1>2. ZeroTimeStamp(s).host = a * TicksPerFrame /\ ZeroTimeStamp(t).host = b * TicksPerFrame
  BY DEF ZeroTimeStamp
<1>3. (b - a) * TicksPerFrame = b * TicksPerFrame - a * TicksPerFrame
  BY <1>1, AudioIsAdditive
<1>4. (cycles * IOFrames) * TicksPerFrame = cycles * CycleTicks
  <2>1. \A i, j, k \in Nat : (i * j) * k = i * (j * k)
    OBVIOUS
  <2>2. cycles \in Nat /\ IOFrames \in Nat /\ TicksPerFrame \in Nat
    BY ClockBounds, PacingAssumption
  <2>3. QED  BY <2>1, <2>2 DEF CycleTicks
<1>5. QED  BY <1>2, <1>3, <1>4

\* What read_frames leaves is at most what there was, less a packet if it was full.
LEMMA LeftBounds ==
    ASSUME fill \in Nat, packet \in Nat
    PROVE  /\ Left \in Nat /\ Left <= fill
           /\ Left = 0 \/ Left = fill - packet
BY DEF Left

\* Before the network thread waits there is nothing to account for.
LEMMA InitHolds == Init => IInv
<1> SUFFICES ASSUME Init PROVE IInv
  OBVIOUS
<1>1. Duration \in Nat
  BY DurationBounds DEF Init
<1>2. QED  BY <1>1, ClockBounds, PacingAssumption DEF Init, IInv, TypeOK

\* An IO cycle moves at most its frames from what is owed to the ring.
LEMMA IOCycleHolds == IInv /\ IOCycle => IInv'
<1> SUFFICES ASSUME IInv, IOCycle PROVE IInv'
  OBVIOUS
<1> USE PacingAssumption DEF IInv, TypeOK
<1>1. Duration \in Nat /\ packet \in Nat
  BY DurationBounds
<1>2. packet' = packet /\ Duration' = Duration /\ (KeepsUp <=> KeepsUp')
  BY DEF IOCycle, Duration, KeepsUp
<1>3. TypeOK'
  BY <1>1, <1>2, ClockBounds DEF IOCycle
<1>4. fill' * TicksPerFrame <= fill * TicksPerFrame + CycleTicks
  <2>1. fill' <= fill + IOFrames /\ fill \in Nat /\ fill' \in Nat
    BY DEF IOCycle
  <2>2. fill' * TicksPerFrame <= (fill + IOFrames) * TicksPerFrame
    BY <2>1, AudioIsMonotone
  <2>3. QED  BY <2>1, <2>2, AudioIsAdditive DEF CycleTicks
<1>5. fill * TicksPerFrame \in Nat /\ fill' * TicksPerFrame \in Nat
      /\ backlog * TicksPerFrame \in Nat /\ CycleTicks \in Nat
  <2>1. fill \in Nat /\ fill' \in Nat /\ backlog \in Nat
    BY DEF IOCycle
  <2>2. QED  BY <2>1, AudioIsNat, ClockBounds
<1>6. QED  BY <1>1, <1>2, <1>3, <1>4, <1>5 DEF IOCycle

\* A thread that becomes ready starts the account with what it leaves in the ring.
LEMMA ReadyHolds == IInv /\ Ready => IInv'
<1> SUFFICES ASSUME IInv, Ready PROVE IInv'
  OBVIOUS
<1> USE PacingAssumption DEF IInv, TypeOK
<1>1. Duration \in Nat /\ packet \in Nat
  BY DurationBounds
<1>2. packet' = packet /\ Duration' = Duration /\ (KeepsUp <=> KeepsUp')
  BY DEF Ready, Duration, KeepsUp
<1>3. TypeOK'
  BY <1>1, <1>2, LeftBounds DEF Ready
<1>4. fill' * TicksPerFrame \in Nat /\ backlog' = fill' /\ CycleTicks \in Nat
  BY <1>3, AudioIsNat, ClockBounds DEF Ready
<1>5. QED  BY <1>1, <1>2, <1>3, <1>4 DEF Ready

\* A wake-up moves the deadline by no more time than the packet it takes lasts.
LEMMA WakeHolds == IInv /\ Wake => IInv'
<1> SUFFICES ASSUME IInv, Wake PROVE IInv'
  OBVIOUS
<1> USE PacingAssumption DEF IInv, TypeOK
<1>1. Duration \in Nat /\ packet \in Nat
  BY DurationBounds
<1>2. packet' = packet /\ Duration' = Duration /\ (KeepsUp <=> KeepsUp')
  BY DEF Wake, Duration, KeepsUp
<1>3. TypeOK'
  BY <1>1, <1>2, LeftBounds DEF Wake, DueNext
<1>4. fill * TicksPerFrame \in Nat /\ packet * TicksPerFrame \in Nat
      /\ backlog * TicksPerFrame \in Nat /\ CycleTicks \in Nat
  BY <1>1, AudioIsNat, ClockBounds
<1>5. CASE fill' = 0
  <2>1. fill' * TicksPerFrame = 0
    BY <1>5, ClockBounds
  <2>2. QED  BY <1>1, <1>2, <1>3, <1>4, <2>1 DEF Wake, DueNext
<1>6. CASE fill' = fill - packet
  <2>1. fill' * TicksPerFrame = fill * TicksPerFrame - packet * TicksPerFrame
    BY <1>1, <1>6, AudioIsAdditive
  <2>2. QED  BY <1>1, <1>2, <1>3, <1>4, <2>1 DEF Wake, DueNext, KeepsUp
<1>7. QED  BY <1>1, <1>5, <1>6, LeftBounds DEF Wake

\* Every step keeps the account: time moves a tick from the deadline to what is owed.
LEMMA StepHolds == IInv /\ [Next]_vars => IInv'
<1> SUFFICES ASSUME IInv, [Next]_vars PROVE IInv'
  OBVIOUS
<1>1. CASE Tick
  <2> USE PacingAssumption DEF IInv, TypeOK
  <2>1. Duration \in Nat /\ CycleTicks \in Nat
    BY DurationBounds, ClockBounds
  <2>2. Duration' = Duration /\ (KeepsUp <=> KeepsUp')
    BY <1>1 DEF Tick, Duration, KeepsUp
  <2>3. fill * TicksPerFrame \in Nat /\ backlog * TicksPerFrame \in Nat
    BY AudioIsNat
  <2>4. QED  BY <1>1, <2>1, <2>2, <2>3 DEF Tick
<1>2. CASE UNCHANGED vars
  BY <1>2 DEF vars, IInv, TypeOK, KeepsUp, Duration
<1>3. QED  BY <1>1, <1>2, IOCycleHolds, ReadyHolds, WakeHolds DEF Next

\* The ring is accounted for at all times.
THEOREM Invariance == Spec => []IInv
<1>1. QED  BY InitHolds, StepHolds, PTL DEF Spec

\* Types; a deadline is never missed by more than the lateness assumed.
THEOREM TypeCorrect == Spec => []TypeOK
<1>1. IInv => TypeOK
  BY DEF IInv
<1>2. QED  BY <1>1, Invariance, PTL

\* The account, read without what is owed.
LEMMA AccountBoundsFill ==
    ASSUME IInv, KeepsUp, net = "waiting"
    PROVE  fill * TicksPerFrame + owed <= backlog * TicksPerFrame + InStep
<1>1. Duration \in Nat /\ CycleTicks \in Nat
  BY DurationBounds, ClockBounds DEF IInv, TypeOK
<1>2. fill * TicksPerFrame \in Nat /\ backlog * TicksPerFrame \in Nat
  BY AudioIsNat, PacingAssumption DEF IInv, TypeOK
<1>3. QED  BY <1>1, <1>2, PacingAssumption DEF IInv, TypeOK, InStep

\* Lateness does not add up in the ring, whatever the sizes (pacer.rs:5).
THEOREM LatenessIsMadeGood == Spec => []BacklogNeverGrows
<1>1. IInv => BacklogNeverGrows
  <2> SUFFICES ASSUME IInv, KeepsUp, net = "waiting"
               PROVE  fill * TicksPerFrame <= backlog * TicksPerFrame + InStep
    BY DEF BacklogNeverGrows
  <2>1. fill * TicksPerFrame \in Nat /\ backlog * TicksPerFrame \in Nat
    BY AudioIsNat, PacingAssumption DEF IInv, TypeOK
  <2>2. InStep \in Nat /\ owed \in Nat
    BY DurationBounds, ClockBounds, PacingAssumption DEF IInv, TypeOK, InStep
  <2>3. QED  BY <2>1, <2>2, AccountBoundsFill
<1>2. QED  BY <1>1, Invariance, PTL

\* A ring with room for the backlog and what is in step never drops a frame.
THEOREM RingSuffices == Spec => NothingDropped
<1> DEFINE Audio(n) == n * TicksPerFrame
           Intact == KeepsUp /\ net = "waiting" /\ owed' < owed
                     /\ Audio(backlog) + InStep <= Audio(RingFrames)
                         => fill' = fill + IOFrames
<1>1. IInv /\ [Next]_vars => [Intact]_vars
  <2> SUFFICES ASSUME IInv, [Next]_vars, KeepsUp, net = "waiting", owed' < owed,
                      Audio(backlog) + InStep <= Audio(RingFrames)
               PROVE  fill' = fill + IOFrames
    OBVIOUS
  <2> USE PacingAssumption DEF IInv, TypeOK
  <2>1. Duration \in Nat /\ CycleTicks \in Nat
    BY DurationBounds, ClockBounds
  <2>2. CASE IOCycle
    <3>1. /\ Audio(fill) \in Nat /\ Audio(backlog) \in Nat /\ Audio(RingFrames) \in Nat
          /\ Audio(fill + IOFrames) = Audio(fill) + CycleTicks
      BY AudioIsNat, AudioIsAdditive DEF CycleTicks
    <3>2. InStep \in Nat /\ CycleTicks <= owed
      BY <2>1, <2>2 DEF InStep, IOCycle
    <3>3. Audio(fill + IOFrames) <= Audio(RingFrames)
      BY <2>1, <3>1, <3>2, AccountBoundsFill
    <3>4. fill + IOFrames <= RingFrames
      BY <3>3, AudioIsMonotone
    <3>5. QED  BY <2>2, <3>4 DEF IOCycle
  <2>3. ~Tick /\ ~Ready /\ ~Wake /\ ~UNCHANGED vars
    BY DEF Tick, Ready, Wake, vars
  <2>4. QED  BY <2>2, <2>3 DEF Next
<1>2. QED  BY <1>1, Invariance, PTL DEF Spec, NothingDropped

\* Where a millisecond is a whole number of frames' ticks, as on a 24 MHz host clock
\* (500 ticks a frame), truncation makes the sender too fast, never too slow.
THEOREM ExactClockKeepsUp ==
    ASSUME HostMs % FramesPerMs = 0, packet \in PacketSizes
    PROVE  KeepsUp
<1> DEFINE q == packet \div FramesPerMs
           r == packet % FramesPerMs
<1>1. packet \in Nat /\ FramesPerMs \in Nat \ {0} /\ HostMs \in Nat
  BY PacingAssumption
<1>2. HostMs = TicksPerFrame * FramesPerMs /\ TicksPerFrame \in Nat
  BY <1>1, ClockBounds DEF TicksPerFrame
<1>3. q \in Nat /\ r \in Nat /\ packet = q * FramesPerMs + r
  BY <1>1
<1>4. Duration = (q * FramesPerMs) * TicksPerFrame
  <2>1. \A a, b, c \in Nat : a * (b * c) = (a * c) * b
    OBVIOUS
  <2>2. q * HostMs = (q * FramesPerMs) * TicksPerFrame
    BY ONLY <1>1, <1>2, <1>3, <2>1
  <2>3. QED  BY <2>2 DEF Duration
<1>5. q * FramesPerMs \in Nat /\ q * FramesPerMs <= packet
  BY <1>1, <1>3
<1>6. QED  BY <1>1, <1>4, <1>5, AudioIsMonotone DEF KeepsUp
===============================================================================
