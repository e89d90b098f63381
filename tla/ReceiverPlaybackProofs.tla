------------------------ MODULE ReceiverPlaybackProofs ------------------------
(***************************************************************************)
(* ReceiverPlayback for any ring, period, buffer and timeout: playback     *)
(* starts with the start-fill behind it, and the receiver is not called    *)
(* idle early.                                                             *)
(***************************************************************************)
EXTENDS ReceiverPlayback, SequenceTheorems, TLAPS

\* ALSA holds whole periods.
WholePeriods == \E k \in Nat : alsa = k * Period

\* The period that the pre-fill has in hand.
InHand == IF main = "prefillWrite" THEN Period ELSE 0

\* The pre-fill gives all it takes, and no more than the buffer holds.
PrefillOK ==
    /\ main \in {"prefill", "prefillWrite"} /\ ~spoiled =>
        prefilled + InHand + Len(ring) >= StartFill
    /\ main = "prefillWrite" => prefilled + Period <= Buffer

\* The age is counted in main's loop only.
AgeOK == main \in {"boot", "setup", "down"} => age = 0

IInv == TypeOK /\ WholePeriods /\ PrefillOK /\ AgeOK /\ StartsFilled
-------------------------------------------------------------------------------
\* What is left of a ring when its first n frames are read.
LEMMA ReadLeaves ==
    ASSUME TypeOK, NEW n \in 0 .. Len(ring)
    PROVE  /\ SubSeq(ring, n + 1, Len(ring)) \in Seq(BOOLEAN)
           /\ Len(SubSeq(ring, n + 1, Len(ring))) = Len(ring) - n
<1>1. ring \in Seq(BOOLEAN) /\ Len(ring) \in Nat /\ Len(ring) <= Capacity
  BY DEF TypeOK
<1>2. CASE n = Len(ring)
  <2>1. SubSeq(ring, n + 1, Len(ring)) = << >>
    BY <1>1, <1>2, SubSeqEmpty
  <2>2. QED  BY <2>1, <1>1, <1>2
<1>3. CASE n < Len(ring)
  BY <1>1, <1>3, SubSeqProperties
<1>4. QED  BY <1>1, <1>2, <1>3

\* A period more or a period less leaves whole periods.
LEMMA Periods ==
    ASSUME TypeOK, WholePeriods
    PROVE  /\ \E k \in Nat : alsa + Period = k * Period
           /\ alsa > 0 => /\ alsa - Period \in Nat
                          /\ \E k \in Nat : alsa - Period = k * Period
           /\ 0 = 0 * Period
<1> PICK k \in Nat : alsa = k * Period
  BY DEF WholePeriods
<1>1. Period \in Nat \ {0}
  BY PlaybackAssumption
<1>2. alsa + Period = (k + 1) * Period /\ k + 1 \in Nat
  BY <1>1
<1>3. ASSUME alsa > 0
      PROVE  alsa - Period = (k - 1) * Period /\ k - 1 \in Nat /\ alsa - Period \in Nat
  <2>1. k # 0
    BY <1>1, <1>3
  <2>2. k - 1 \in Nat
    BY <2>1
  <2>3. alsa - Period = (k - 1) * Period
    BY <1>1
  <2>4. (k - 1) * Period \in Nat
    BY <1>1, <2>2
  <2>5. QED  BY <2>2, <2>3, <2>4
<1>4. QED  BY <1>1, <1>2, <1>3

\* A timeout in ticks.
LEMMA TicksType ==
    ASSUME NEW t \in Nat \ {0}
    PROVE  t * SecondTicks \in Nat \ {0} /\ 0 \in 0 .. t * SecondTicks
<1> DEFINE ticks == t * SecondTicks
<1>1. ticks \in Nat \ {0}
  BY PlaybackAssumption
<1> HIDE DEF ticks
<1>2. 0 \in 0 .. ticks
  BY <1>1
<1>3. QED  BY <1>1, <1>2 DEF ticks

\* The age stays in a known range.
LEMMA TimeoutTicks ==
    ASSUME TypeOK
    PROVE  timeout * SecondTicks \in Nat \ {0} /\ age \in Nat /\ age <= timeout * SecondTicks
<1>1. timeout \in Nat \ {0}
  BY DEF TypeOK
<1>2. timeout * SecondTicks \in Nat \ {0}
  BY <1>1, TicksType
<1>3. QED  BY <1>2 DEF TypeOK
-------------------------------------------------------------------------------
\* The process's start and end.
LEMMA LifeKeeps ==
    ASSUME IInv, Boot \/ SetUp \/ SetUpFails \/ Crash \/ ServiceRestarts \/ Joined \/ WriteFails
    PROVE  IInv'
<1> USE PlaybackAssumption DEF Goto, ringVars, alsaVars, idleVars, clockVars, lifeVars,
                              fileVars, WriteStatus
<1>1. CASE Boot
  <2>1. timeout' \in Nat \ {0}
    <3>1. \A v \in Configured : Parsed(v) \in Nat \ {0}
      BY DEF Parsed
    <3>2. QED  BY <1>1, <3>1 DEF Boot
  <2>2. age' = 0
    BY <1>1 DEF Boot, IInv, AgeOK
  <2>3. age' \in 0 .. timeout' * SecondTicks
    BY <2>1, <2>2, TicksType
  <2>4. TypeOK'
    BY <1>1, <2>1, <2>3 DEF Boot, Goto, IInv, TypeOK
  <2>5. QED  BY <1>1, <2>2, <2>4 DEF Boot, Goto, IInv, WholePeriods, PrefillOK, AgeOK, StartsFilled
<1>2. CASE SetUp \/ SetUpFails \/ ServiceRestarts
  BY <1>2, TimeoutTicks DEF SetUp, SetUpFails, ServiceRestarts, IInv, TypeOK, WholePeriods,
     PrefillOK, AgeOK, StartsFilled
<1>3. CASE Crash
  <2>1. WholePeriods' /\ PrefillOK' /\ AgeOK' /\ StartsFilled'
    BY <1>3, Periods DEF Crash, IInv, WholePeriods, PrefillOK, AgeOK, StartsFilled
  <2>2. TypeOK'
    <3>1. timeout' \in Nat \ {0} /\ age' = 0
      BY <1>3 DEF Crash, IInv, TypeOK
    <3>2. age' \in 0 .. timeout' * SecondTicks
      BY <3>1, TicksType
    <3>3. ring' \in Seq(BOOLEAN) /\ Len(ring') = 0
      BY <1>3, EmptySeq DEF Crash
    <3>4. Len(ring') <= Capacity
      BY <3>3
    <3>5. prefilled' \in 0 .. Buffer /\ alsa' \in 0 .. Buffer /\ crashes' \in 0 .. MaxCrashes
      BY <1>3 DEF Crash, IInv, TypeOK
    <3>6. phase' \in 0 .. SecondTicks - 1 /\ lastPhase' \in 0 .. SecondTicks - 1
      BY <1>3 DEF Crash, IInv, TypeOK
    <3>7. status' \in {"idle", "playing", "other"} /\ failed' \in BOOLEAN
      BY <1>3 DEF Crash, IInv, TypeOK
    <3>8. QED  BY <1>3, <3>1, <3>2, <3>3, <3>4, <3>5, <3>6, <3>7, Zenon DEF Crash, TypeOK
  <2>3. QED  BY <2>1, <2>2 DEF IInv
<1>4. CASE Joined \/ WriteFails
  BY <1>4, TimeoutTicks DEF Joined, WriteFails, IInv, TypeOK, WholePeriods, PrefillOK, AgeOK,
     StartsFilled
<1>5. QED  BY <1>1, <1>2, <1>3, <1>4

\* The receive thread only adds to the ring.
LEMMA RecvKeeps ==
    ASSUME IInv, RecvCheck \/ Arrival
    PROVE  IInv'
<1> USE PlaybackAssumption DEF ringVars, alsaVars, idleVars, fileVars, clockVars, lifeVars
<1>1. ring \in Seq(BOOLEAN) /\ Len(ring) \in Nat /\ prefilled \in Nat /\ InHand \in Nat
  BY DEF IInv, TypeOK, InHand
<1>2. /\ ring' \in Seq(BOOLEAN) /\ Len(ring') <= Capacity /\ Len(ring') >= Len(ring)
      /\ Len(ring') \in Nat /\ recv' \in {"check", "recv", "exited"}
      /\ UNCHANGED <<running, main, prefilled, alsaVars, idleVars, clockVars, spoiled, lifeVars>>
  <2>1. CASE RecvCheck \/ RecvIgnored
    BY <2>1, <1>1 DEF RecvCheck, RecvIgnored, IInv, TypeOK
  <2>2. ASSUME NEW p \in Packets, RecvPacket(p)
        PROVE  /\ ring' \in Seq(BOOLEAN) /\ Len(ring') <= Capacity /\ Len(ring') >= Len(ring)
               /\ Len(ring') \in Nat /\ recv' = "check"
    <3>1. PICK n \in 1 .. MaxPacket : p \in [1 .. n -> BOOLEAN]
      BY DEF Packets
    <3>2. p \in Seq(BOOLEAN) /\ Len(p) = n
      BY <3>1
    <3>3. ring \o p \in Seq(BOOLEAN) /\ Len(ring \o p) = Len(ring) + n
      BY <1>1, <3>2, ConcatProperties
    <3>4. Len(ring) <= Capacity /\ n \in Nat
      BY DEF IInv, TypeOK
    <3>5. CASE Len(ring) + n <= Capacity
      BY <2>2, <1>1, <3>2, <3>3, <3>4, <3>5 DEF RecvPacket
    <3>6. CASE ~(Len(ring) + n <= Capacity)
      BY <2>2, <1>1, <3>2, <3>4, <3>6 DEF RecvPacket
    <3>7. QED  BY <3>5, <3>6
  <2>3. QED  BY <2>1, <2>2 DEF Arrival, RecvPacket
<1>3. TypeOK' /\ WholePeriods'
  BY <1>2, TimeoutTicks DEF IInv, TypeOK, WholePeriods
<1>4. PrefillOK' /\ StartsFilled' /\ AgeOK'
  BY <1>1, <1>2 DEF IInv, PrefillOK, StartsFilled, InHand, AgeOK
<1>5. QED  BY <1>3, <1>4 DEF IInv

\* The device and the clock.
LEMMA OutsideKeeps ==
    ASSUME IInv, DevicePlays \/ Tick
    PROVE  IInv'
<1> USE PlaybackAssumption DEF ringVars, alsaVars, idleVars, fileVars, clockVars, lifeVars
<1>1. CASE DevicePlays
  <2>1. alsa' \in 0 .. Buffer /\ WholePeriods'
    BY <1>1, Periods DEF DevicePlays, IInv, TypeOK, WholePeriods
  <2>2. TypeOK'
    BY <1>1, <2>1, TimeoutTicks DEF DevicePlays, IInv, TypeOK
  <2>3. QED  BY <1>1, <2>1, <2>2 DEF DevicePlays, IInv, PrefillOK, InHand, AgeOK, StartsFilled
<1>2. CASE Tick
  <2>1. phase' \in 0 .. SecondTicks - 1
    BY <1>2 DEF Tick, IInv, TypeOK
  <2>2. age' \in 0 .. timeout * SecondTicks
    BY <1>2, TimeoutTicks DEF Tick, IInv
  <2>3. AgeOK'
    BY <1>2 DEF Tick, IInv, AgeOK, Looping
  <2>4. QED  BY <1>2, <2>1, <2>2, <2>3 DEF Tick, IInv, TypeOK, WholePeriods, PrefillOK, InHand,
                StartsFilled
<1>3. QED  BY <1>1, <1>2

\* The start-fill and the pre-fill.
LEMMA PrefillKeeps ==
    ASSUME IInv, StartFillDone \/ PrefillRead \/ PrefillWrite \/ PrefillFails \/ Start
    PROVE  IInv'
<1> USE PlaybackAssumption DEF Goto, ringVars, alsaVars, idleVars, fileVars, clockVars, lifeVars
<1>0. ring \in Seq(BOOLEAN) /\ Len(ring) \in Nat /\ Len(ring) <= Capacity /\ prefilled \in Nat
  BY DEF IInv, TypeOK
<1>1. CASE StartFillDone
  BY <1>1, <1>0, TimeoutTicks DEF StartFillDone, Filled, IInv, TypeOK, WholePeriods, PrefillOK,
     InHand, AgeOK, StartsFilled
<1>2. CASE PrefillRead
  <2>1. CASE MorePrefill
    <3>0. Period \in 0 .. Len(ring) /\ ring' = SubSeq(ring, Period + 1, Len(ring))
      BY <1>0, <1>2, <2>1 DEF PrefillRead, MorePrefill
    <3>1. ring' \in Seq(BOOLEAN) /\ Len(ring') = Len(ring) - Period /\ Len(ring) >= Period
      BY <1>0, <3>0, ReadLeaves DEF IInv
    <3>2. TypeOK' /\ WholePeriods' /\ AgeOK'
      BY <1>0, <1>2, <2>1, <3>1, TimeoutTicks DEF PrefillRead, IInv, TypeOK, WholePeriods, AgeOK
    <3>3. PrefillOK' /\ StartsFilled'
      BY <1>0, <1>2, <2>1, <3>1 DEF PrefillRead, MorePrefill, IInv, PrefillOK, InHand, StartsFilled
    <3>4. QED  BY <3>2, <3>3 DEF IInv
  <2>2. CASE ~MorePrefill
    BY <1>0, <1>2, <2>2, TimeoutTicks DEF PrefillRead, IInv, TypeOK, WholePeriods, PrefillOK,
       InHand, AgeOK, StartsFilled
  <2>3. QED  BY <2>1, <2>2
<1>3. CASE PrefillWrite
  <2>1. alsa' \in 0 .. Buffer /\ WholePeriods' /\ device' \in {"prepared", "running", "xrun"}
    BY <1>3, Periods DEF PrefillWrite, Queued, Room, IInv, TypeOK, WholePeriods
  <2>2. prefilled' \in 0 .. Buffer
    BY <1>3, <1>0 DEF PrefillWrite, IInv, PrefillOK
  <2>3. TypeOK' /\ AgeOK'
    BY <1>3, <2>1, <2>2, TimeoutTicks DEF PrefillWrite, IInv, TypeOK, AgeOK
  <2>4. PrefillOK' /\ StartsFilled'
    BY <1>3, <1>0 DEF PrefillWrite, IInv, PrefillOK, InHand, StartsFilled
  <2>5. QED  BY <2>1, <2>3, <2>4 DEF IInv
<1>4. CASE PrefillFails
  BY <1>4, TimeoutTicks DEF PrefillFails, IInv, TypeOK, WholePeriods, PrefillOK, AgeOK, StartsFilled
<1>5. CASE Start
  <2>1. /\ main = "start" /\ main' = "read" /\ isPlaying' = TRUE /\ WriteStatus("playing")
        /\ lastPhase' = phase /\ age' = 0 /\ device' \in {"running", device}
        /\ UNCHANGED <<ring, running, recv, prefilled, alsa, phase, spoiled, timeout, crashes>>
    BY <1>5 DEF Start
  <2>2. status' \in {"idle", "playing", "other"} /\ failed' \in BOOLEAN
    BY <2>1 DEF WriteStatus, IInv, TypeOK
  <2>3. age' \in 0 .. timeout' * SecondTicks
    BY <2>1, TimeoutTicks DEF IInv
  <2>4. TypeOK'
    BY <2>1, <2>2, <2>3 DEF IInv, TypeOK
  <2>5. QED  BY <2>1, <2>4 DEF IInv, WholePeriods, PrefillOK, AgeOK, StartsFilled
<1>6. QED  BY <1>1, <1>2, <1>3, <1>4, <1>5

\* The loop.
LEMMA LoopKeeps ==
    ASSUME IInv, Read \/ Write \/ Recover
    PROVE  IInv'
<1> USE PlaybackAssumption DEF Goto, ringVars, alsaVars, idleVars, fileVars, clockVars, lifeVars
<1>1. CASE Read
  <2> DEFINE got == IF Len(ring) < Period THEN Len(ring) ELSE Period
  <2>1. ring \in Seq(BOOLEAN) /\ Len(ring) \in Nat /\ Len(ring) <= Capacity /\ got \in 0 .. Len(ring)
    BY DEF IInv, TypeOK
  <2>2. ring' = SubSeq(ring, got + 1, Len(ring))
    BY <1>1 DEF Read
  <2>3. ring' \in Seq(BOOLEAN) /\ Len(ring') <= Capacity
    <3> HIDE DEF got
    <3>1. ring' \in Seq(BOOLEAN) /\ Len(ring') = Len(ring) - got
      BY <2>1, <2>2, ReadLeaves DEF IInv
    <3>2. QED  BY <2>1, <3>1
  <2>4. /\ isPlaying' \in BOOLEAN /\ status' \in {"idle", "playing", "other"} /\ failed' \in BOOLEAN
        /\ lastPhase' \in 0 .. SecondTicks - 1 /\ age' \in 0 .. timeout * SecondTicks
    <3>1. \/ lastPhase' = phase /\ age' = 0 /\ isPlaying' = TRUE
          \/ UNCHANGED <<lastPhase, age>> /\ isPlaying' \in {isPlaying, FALSE}
      BY <1>1, Zenon DEF Read, TimedOut
    <3>2. UNCHANGED fileVars \/ WriteStatus("playing") \/ WriteStatus("idle")
      BY <1>1, Zenon DEF Read, TimedOut
    <3>3. phase \in 0 .. SecondTicks - 1 /\ lastPhase \in 0 .. SecondTicks - 1 /\ isPlaying \in BOOLEAN
          /\ age \in 0 .. timeout * SecondTicks
      BY DEF IInv, TypeOK
    <3>4. 0 \in 0 .. timeout * SecondTicks
      BY TimeoutTicks DEF IInv
    <3>5. status' \in {"idle", "playing", "other"} /\ failed' \in BOOLEAN
      BY <3>2 DEF WriteStatus, IInv, TypeOK
    <3>6. QED  BY <3>1, <3>3, <3>4, <3>5, Zenon
  <2>5. main' = "write" /\ UNCHANGED <<running, recv, prefilled, alsaVars, phase, spoiled, lifeVars>>
    BY <1>1 DEF Read
  <2>6. QED  BY <2>3, <2>4, <2>5 DEF IInv, TypeOK, WholePeriods, PrefillOK, AgeOK, StartsFilled
<1>2. CASE Write
  <2>1. alsa' \in 0 .. Buffer /\ WholePeriods' /\ device' \in {"prepared", "running", "xrun"}
    BY <1>2, Periods DEF Write, Queued, Room, IInv, TypeOK, WholePeriods
  <2>2. QED  BY <1>2, <2>1, TimeoutTicks DEF Write, IInv, TypeOK, PrefillOK, AgeOK, StartsFilled
<1>3. CASE Recover
  <2>1. WholePeriods' /\ alsa' \in 0 .. Buffer
    BY <1>3, Periods DEF Recover, IInv, WholePeriods
  <2>2. QED  BY <1>3, <2>1, TimeoutTicks DEF Recover, IInv, TypeOK, PrefillOK, AgeOK, StartsFilled
<1>4. QED  BY <1>1, <1>2, <1>3

\* A new service has nothing in hand.
LEMMA InitHolds == Init => IInv
<1> SUFFICES ASSUME Init PROVE IInv
  OBVIOUS
<1> USE PlaybackAssumption DEF Init
<1>1. 0 = 0 * Period
  OBVIOUS
<1>2. age \in 0 .. timeout * SecondTicks
  BY TicksType
<1>3. ring \in Seq(BOOLEAN) /\ Len(ring) = 0
  BY EmptySeq
<1>4. Len(ring) <= Capacity
  BY <1>3
<1>5. TypeOK
  <2>1. prefilled \in 0 .. Buffer /\ alsa \in 0 .. Buffer /\ crashes \in 0 .. MaxCrashes
    OBVIOUS
  <2>2. phase \in 0 .. SecondTicks - 1 /\ lastPhase \in 0 .. SecondTicks - 1
    OBVIOUS
  <2>3. timeout \in Nat \ {0}
    OBVIOUS
  <2>4. QED  BY <2>1, <2>2, <2>3, <1>2, <1>3, <1>4, Zenon DEF TypeOK
<1>6. QED  BY <1>1, <1>5 DEF IInv, WholePeriods, PrefillOK, AgeOK, StartsFilled
-------------------------------------------------------------------------------
\* The strengthened invariant holds in every reachable state.
THEOREM Invariance == Spec => []IInv
<1>1. IInv /\ [Next]_vars => IInv'
  <2> SUFFICES ASSUME IInv, [Next]_vars PROVE IInv'
    OBVIOUS
  <2>1. CASE Next
    BY <2>1, LifeKeeps, RecvKeeps, OutsideKeeps, PrefillKeeps, LoopKeeps DEF Next, MainRuns
  <2>2. CASE UNCHANGED vars
    BY <2>2 DEF vars, ringVars, alsaVars, idleVars, fileVars, clockVars, lifeVars, IInv, TypeOK, WholePeriods,
                PrefillOK, InHand, AgeOK, StartsFilled
  <2>3. QED  BY <2>1, <2>2
<1>2. QED  BY InitHolds, <1>1, PTL DEF Spec

\* Types: neither the ring nor ALSA's buffer is ever given more than it holds.
THEOREM TypeCorrect == Spec => []TypeOK
<1>1. IInv => TypeOK
  BY DEF IInv
<1>2. QED  BY Invariance, <1>1, PTL

\* Playback starts with the start-fill behind it, whatever arrives meanwhile and
\* however many periods the pre-fill can pass on.
THEOREM StartFillIsKept == Spec => []StartsFilled
<1>1. IInv => StartsFilled
  BY DEF IInv
<1>2. QED  BY Invariance, <1>1, PTL

\* Whole seconds of two clock readings make the idle timer at most one second short.
LEMMA ElapsedBound ==
    ASSUME TypeOK, Elapsed >= timeout
    PROVE  age > (timeout - 1) * SecondTicks
<1> DEFINE S == SecondTicks
           sum == lastPhase + age
           q == sum \div S
<1>1. S \in Nat \ {0} /\ timeout \in Nat \ {0} /\ lastPhase \in Nat /\ lastPhase < S /\ age \in Nat
  BY PlaybackAssumption, TimeoutTicks DEF TypeOK
<1>2. q \in Nat /\ q * S <= sum
  BY <1>1
<1>3. q >= timeout
  BY DEF Elapsed
<1> HIDE DEF q, S
<1>4. timeout * S <= q * S
  <2>1. q = timeout + (q - timeout) /\ q - timeout \in Nat
    BY <1>1, <1>2, <1>3
  <2>2. q * S = timeout * S + (q - timeout) * S /\ (q - timeout) * S \in Nat
    BY <1>1, <1>2, <2>1
  <2>3. QED  BY <1>1, <1>2, <2>2
<1>5. timeout * S = (timeout - 1) * S + S /\ (timeout - 1) * S \in Nat
  BY <1>1
<1>6. QED  BY <1>1, <1>2, <1>4, <1>5 DEF S

\* Neither is_playing nor the status file turns idle before all but a second of the
\* timeout passed, whichever of the writes of the file got through.
THEOREM IdleIsNotEarly == Spec => IdleNotEarly
<1> DEFINE TurnsIdle == (isPlaying /\ ~isPlaying') \/ (status = "playing" /\ status' = "idle")
<1>1. IInv /\ [Next]_vars =>
        [Looping /\ main' = "write" /\ TurnsIdle => age > (timeout - 1) * SecondTicks]_vars
  <2> SUFFICES ASSUME IInv, Next, Looping, main' = "write", TurnsIdle
               PROVE  age > (timeout - 1) * SecondTicks
    OBVIOUS
  <2>1. Read
    BY DEF Next, MainRuns, Goto, Looping, Boot, SetUp, StartFillDone, PrefillRead, PrefillWrite,
           PrefillFails, Start, Write, Recover, Joined, WriteFails, RecvCheck, Arrival, RecvIgnored,
           RecvPacket, DevicePlays, Tick, SetUpFails, Crash, ServiceRestarts, idleVars, fileVars
  <2>2. \/ isPlaying' = TRUE /\ (UNCHANGED fileVars \/ WriteStatus("playing"))
        \/ UNCHANGED <<fileVars, isPlaying>>
        \/ Elapsed >= timeout
    BY <2>1, Zenon DEF Read, TimedOut
  <2>3. isPlaying \in BOOLEAN
    BY DEF IInv, TypeOK
  <2>4. Elapsed >= timeout
    BY <2>2, <2>3 DEF WriteStatus, fileVars
  <2>5. QED  BY <2>4, ElapsedBound DEF IInv
<1>2. QED  BY Invariance, <1>1, PTL DEF Spec, IdleNotEarly
-------------------------------------------------------------------------------
(* What WritesReturn rests on.  A write blocks for want of room, nothing but a     *)
(* running device makes room, and nothing but a write or Start makes a device run. *)

\* A device that holds audio runs, and a running device holds audio.
DeviceOK == device = "running" <=> alsa > 0

\* A write, of the pre-fill or of the loop, can be done, has its device recovered, or
\* waits for a device that plays.
NoWriteIsStuck ==
    main \in {"prefillWrite", "write"} =>
        Room \/ device = "xrun" \/ (device = "running" /\ alsa > 0)

\* Every step of the program keeps the device running while it holds audio.
LEMMA DeviceStep ==
    ASSUME IInv, DeviceOK, [Next]_vars
    PROVE  DeviceOK'
<1> USE PlaybackAssumption
<1>1. alsa \in Nat /\ Period \in Nat \ {0}
  BY DEF IInv, TypeOK
<1>2. ASSUME Queued PROVE DeviceOK'
  <2>1. alsa' = alsa + Period /\ alsa' > 0 /\ alsa' >= Period
    BY <1>1, <1>2 DEF Queued
  <2>2. device' = "running"
    BY <1>2, <2>1 DEF Queued, StartThreshold
  <2>3. QED  BY <2>1, <2>2 DEF DeviceOK
<1>3. CASE DevicePlays
  <2>1. alsa' \in Nat
    BY <1>3, Periods DEF DevicePlays, IInv
  <2>2. device' = IF alsa' = 0 THEN "xrun" ELSE "running"
    BY <1>3 DEF DevicePlays
  <2>3. QED  BY <2>1, <2>2 DEF DeviceOK
<1>4. CASE Start
  BY <1>4 DEF Start, DeviceOK
<1>5. CASE Recover \/ Crash
  BY <1>5 DEF Recover, Crash, DeviceOK
<1>6. CASE PrefillWrite \/ Write
  BY <1>2, <1>6 DEF PrefillWrite, Write
<1>7. CASE UNCHANGED alsaVars
  BY <1>7 DEF DeviceOK, alsaVars
<1>8. QED
  BY <1>3, <1>4, <1>5, <1>6, <1>7 DEF Next, MainRuns, Boot, SetUp, StartFillDone, PrefillRead,
     PrefillFails, Read, Joined, WriteFails, RecvCheck, Arrival, RecvIgnored, RecvPacket, Tick,
     SetUpFails, ServiceRestarts, vars

\* No write waits for a device that stands still: the first write after a recovery
\* starts it, though nothing calls snd_pcm_start there, because the start threshold is
\* one period (zinkos_rx.c, setup_alsa) and a period fits the buffer.
THEOREM WritesAreServed == Spec => []NoWriteIsStuck
<1>1. Init => DeviceOK
  BY DEF Init, DeviceOK
<1>2. IInv /\ DeviceOK => NoWriteIsStuck
  <2>1. SUFFICES ASSUME IInv, DeviceOK, ~Room PROVE device = "running" /\ alsa > 0
    BY DEF NoWriteIsStuck
  <2>2. alsa \in Nat /\ alsa # 0
    BY <2>1, PlaybackAssumption DEF IInv, TypeOK, Room
  <2>3. QED  BY <2>1, <2>2 DEF DeviceOK
<1>3. IInv /\ DeviceOK /\ [Next]_vars => DeviceOK'
  BY DeviceStep
<1>4. QED  BY <1>1, <1>2, <1>3, Invariance, PTL DEF Spec
-------------------------------------------------------------------------------
(* What GoesIdle and AudioIsShown rest on.                                       *)

\* Unless the last write of it failed, the status file says what is_playing says while the
\* loop runs and "idle" before and after it; only from a crash to the next start may it
\* be out of date.
FileAgrees ==
    ~failed =>
        /\ Looping => status = IF isPlaying THEN "playing" ELSE "idle"
        /\ ~Looping /\ main \notin {"boot", "down"} => status = "idle"

\* Whoever reads the status file reads what the receiver last decided, although is_playing
\* and the file are changed in five places and the file outlives the process, unless the
\* last write_status failed: nothing but the next change of mind writes it again.
THEOREM StatusFileAgrees == Spec => []FileAgrees
<1>1. Init => FileAgrees
  BY DEF Init, FileAgrees, Looping
<1>2. FileAgrees /\ [Next]_vars => FileAgrees'
  <2> SUFFICES ASSUME FileAgrees, [Next]_vars PROVE FileAgrees'
    OBVIOUS
  <2> USE DEF FileAgrees, Looping, Goto, idleVars, fileVars
  <2>1. CASE Boot \/ SetUp \/ SetUpFails \/ Crash \/ ServiceRestarts
    BY <2>1 DEF Boot, SetUp, SetUpFails, Crash, ServiceRestarts, WriteStatus
  <2>2. CASE StartFillDone \/ PrefillRead \/ PrefillWrite \/ PrefillFails \/ Start
    BY <2>2 DEF StartFillDone, PrefillRead, PrefillWrite, PrefillFails, Start, WriteStatus
  <2>3. CASE Read
    <3>1. /\ main = "read" /\ main' = "write"
          /\ \/ isPlaying' = TRUE /\ IF isPlaying THEN UNCHANGED fileVars
                                                  ELSE WriteStatus("playing")
             \/ isPlaying' = FALSE /\ WriteStatus("idle")
             \/ UNCHANGED <<isPlaying, fileVars>>
      BY <2>3, Zenon DEF Read, TimedOut
    <3>2. QED  BY <3>1 DEF WriteStatus
  <2>4. CASE Write \/ Recover \/ WriteFails \/ Joined
    BY <2>4 DEF Write, Recover, WriteFails, Joined, WriteStatus
  <2>5. CASE RecvCheck \/ Arrival
    BY <2>5 DEF RecvCheck, Arrival, RecvIgnored, RecvPacket
  <2>6. CASE DevicePlays \/ Tick \/ UNCHANGED vars
    BY <2>6 DEF DevicePlays, Tick, vars
  <2>7. QED  BY <2>1, <2>2, <2>3, <2>4, <2>5, <2>6 DEF Next, MainRuns
<1>3. QED  BY <1>1, <1>2, PTL DEF Spec

\* The loop's way from "read" to "write" is Read.
LEMMA OnlyRead ==
    ASSUME Next, main = "read", main' = "write"
    PROVE  Read
  BY DEF Next, MainRuns, Goto, Boot, SetUp, StartFillDone, PrefillRead, PrefillWrite, PrefillFails,
         Start, Write, Recover, Joined, WriteFails, RecvCheck, Arrival, RecvIgnored, RecvPacket,
         DevicePlays, Tick, SetUpFails, Crash, ServiceRestarts

\* A read that finds no audio and leaves is_playing set came before the timeout: with
\* IdleNotEarly, the silence at which the receiver turns idle is known to a second.
IdleNotLate ==
    [][main = "read" /\ main' = "write" /\ isPlaying' =>
        age' < timeout * SecondTicks]_vars

\* Ticks enough for the timeout are seconds enough.
LEMMA ElapsedEnough ==
    ASSUME TypeOK, Elapsed < timeout
    PROVE  age < timeout * SecondTicks
<1> DEFINE S == SecondTicks
           sum == lastPhase + age
           q == sum \div S
<1>1. S \in Nat \ {0} /\ timeout \in Nat \ {0} /\ lastPhase \in Nat /\ age \in Nat
  BY PlaybackAssumption, TimeoutTicks DEF TypeOK
<1>2. q \in Nat /\ sum < q * S + S
  BY <1>1
<1>3. q + 1 <= timeout
  BY <1>1, <1>2 DEF Elapsed
<1> HIDE DEF q, S
<1>4. q * S + S <= timeout * S
  <2>1. timeout = (q + 1) + (timeout - (q + 1)) /\ timeout - (q + 1) \in Nat
    BY <1>1, <1>2, <1>3
  <2>2. timeout * S = (q + 1) * S + (timeout - (q + 1)) * S /\ (timeout - (q + 1)) * S \in Nat
    BY <1>1, <1>2, <2>1
  <2>3. (q + 1) * S = q * S + S /\ q * S \in Nat
    BY <1>1, <1>2
  <2>4. QED  BY <1>1, <2>2, <2>3
<1>5. timeout * S \in Nat /\ q * S \in Nat
  BY <1>1, <1>2
<1>6. QED  BY <1>1, <1>2, <1>4, <1>5 DEF S

\* The receiver turns idle at the first read of silence after the timeout, however the
\* clock stood in its second when the last audio came (zinkos_rx.c:343) and whether or
\* not the status file could be written; StatusFileAgrees says when the file follows.
THEOREM IdleIsNotLate == Spec => IdleNotLate
<1>1. IInv /\ [Next]_vars =>
        [main = "read" /\ main' = "write" /\ isPlaying' =>
            age' < timeout * SecondTicks]_vars
  <2>1. SUFFICES ASSUME IInv, Next, main = "read", main' = "write", isPlaying'
                 PROVE  age' < timeout * SecondTicks
    OBVIOUS
  <2>2. Read
    BY <2>1, OnlyRead
  <2>3. timeout * SecondTicks \in Nat \ {0}
    BY <2>1, TimeoutTicks DEF IInv
  <2>4. CASE age' = 0
    BY <2>3, <2>4
  <2>5. CASE age' # 0
    <3>1. /\ age' = age
          /\ TimedOut \/ (~(isPlaying /\ Elapsed >= timeout) /\ UNCHANGED <<fileVars, isPlaying>>)
      BY <2>2, <2>5 DEF Read
    <3>2. ~TimedOut
      BY <2>1 DEF TimedOut
    <3>3. isPlaying /\ ~(Elapsed >= timeout)
      BY <2>1, <3>1, <3>2
    <3>4. Elapsed < timeout
      <4>1. Elapsed \in Nat /\ timeout \in Nat
        BY <2>1, PlaybackAssumption, TimeoutTicks DEF IInv, TypeOK, Elapsed
      <4>2. QED  BY <3>3, <4>1
    <3>5. age < timeout * SecondTicks
      BY <2>1, <3>4, ElapsedEnough DEF IInv
    <3>6. QED  BY <3>1, <3>5
  <2>6. QED  BY <2>4, <2>5
<1>2. QED  BY <1>1, Invariance, PTL DEF Spec, IdleNotLate

\* The receiver plays and the file shows it, or its last write failed.
ShownPlaying == isPlaying /\ (status = "playing" \/ failed)

\* The read that reaches audio i frames deep in the ring leaves is_playing set, and the
\* file showing it unless the last write of it failed; every read before brings the audio
\* a period nearer, and nothing else moves it, while the loop runs.
AudioMovesUp ==
    [][\A i \in 1 .. Len(ring) : ring[i] /\ Looping /\ Looping' =>
        IF main = "read" /\ main' = "write"
        THEN IF i <= Period THEN ShownPlaying'
                            ELSE i - Period \in 1 .. Len(ring') /\ ring'[i - Period]
        ELSE i \in 1 .. Len(ring') /\ ring'[i]]_vars

\* What Read does to the frames.
LEMMA ReadMovesUp ==
    ASSUME IInv, FileAgrees, Read, NEW i \in 1 .. Len(ring), ring[i]
    PROVE  IF i <= Period THEN ShownPlaying'
                          ELSE i - Period \in 1 .. Len(ring') /\ ring'[i - Period]
<1> DEFINE n == IF Len(ring) < Period THEN Len(ring) ELSE Period
<1>1. /\ ring \in Seq(BOOLEAN) /\ Len(ring) \in Nat /\ Period \in Nat \ {0}
      /\ n \in 0 .. Len(ring) /\ i \in Nat
  BY PlaybackAssumption DEF IInv, TypeOK
<1>2. CASE i <= Period
  <2>1. i \in 1 .. n
    BY <1>1, <1>2
  <2>2. /\ SubSeq(ring, 1, n) \in Seq(BOOLEAN) /\ Len(SubSeq(ring, 1, n)) = n
        /\ SubSeq(ring, 1, n)[i] = ring[i]
    <3> HIDE DEF n
    <3>1. \A k \in 1 .. n : ring[k] \in BOOLEAN
      BY <1>1, ElementOfSeq
    <3>2. n \in Int /\ 1 <= n /\ n - 1 + 1 = n /\ 1 + i - 1 = i
      BY <1>1, <2>1
    <3>3. /\ SubSeq(ring, 1, n) \in Seq(BOOLEAN) /\ Len(SubSeq(ring, 1, n)) = n - 1 + 1
          /\ \A k \in 1 .. n - 1 + 1 : SubSeq(ring, 1, n)[k] = ring[1 + k - 1]
      BY <3>1, <3>2, SubSeqProperties
    <3>4. QED  BY <2>1, <3>2, <3>3
  <2>3. TRUE \in ToSet(SubSeq(ring, 1, n))
    <3> DEFINE front == SubSeq(ring, 1, n)
    <3>1. i \in DOMAIN front /\ front[i] = TRUE
      <4>1. DOMAIN front = 1 .. Len(front)
        BY <2>2, LenProperties
      <4>2. front[i] \in BOOLEAN
        BY <2>1, <2>2, ElementOfSeq
      <4>3. QED  BY <2>1, <2>2, <4>1, <4>2
    <3> HIDE DEF front
    <3>2. QED  BY <3>1, Zenon DEF ToSet, front
  <2>4. isPlaying' = TRUE /\ IF isPlaying THEN UNCHANGED fileVars ELSE WriteStatus("playing")
    BY <2>3 DEF Read
  <2>5. main = "read"
    BY DEF Read, Goto
  <2>6. QED  BY <1>2, <2>4, <2>5 DEF FileAgrees, Looping, ShownPlaying, WriteStatus, fileVars
<1>3. CASE ~(i <= Period)
  <2>1. n = Period /\ Period < Len(ring) /\ i - Period \in 1 .. Len(ring) - Period
    BY <1>1, <1>3
  <2>2. ring' = SubSeq(ring, Period + 1, Len(ring))
    BY <2>1 DEF Read
  <2>3. /\ Len(ring') = Len(ring) - Period
        /\ ring'[i - Period] = ring[Period + 1 + (i - Period) - 1]
    <3> HIDE DEF n
    <3>1. \A k \in Period + 1 .. Len(ring) : ring[k] \in BOOLEAN
      BY <1>1, ElementOfSeq
    <3>2. /\ Period + 1 \in Int /\ Len(ring) \in Int /\ Period + 1 <= Len(ring)
          /\ Len(ring) - (Period + 1) + 1 = Len(ring) - Period
      BY <1>1, <2>1
    <3>3. /\ Len(ring') = Len(ring) - (Period + 1) + 1
          /\ \A k \in 1 .. Len(ring) - (Period + 1) + 1 : ring'[k] = ring[Period + 1 + k - 1]
      BY <2>2, <3>1, <3>2, SubSeqProperties
    <3>4. QED  BY <2>1, <3>2, <3>3
  <2>4. Period + 1 + (i - Period) - 1 = i
    BY <1>1
  <2>5. QED  BY <1>3, <2>1, <2>3, <2>4
<1>4. QED  BY <1>2, <1>3

\* No audio is passed over: after as many reads as there are periods in the ring up to the
\* first audible frame is_playing is set, and the file shows it if it can be written.
THEOREM AudioIsNext == Spec => AudioMovesUp
<1>1. IInv /\ FileAgrees /\ [Next]_vars =>
        [\A i \in 1 .. Len(ring) : ring[i] /\ Looping /\ Looping' =>
            IF main = "read" /\ main' = "write"
            THEN IF i <= Period THEN ShownPlaying'
                                ELSE i - Period \in 1 .. Len(ring') /\ ring'[i - Period]
            ELSE i \in 1 .. Len(ring') /\ ring'[i]]_vars
  <2>1. SUFFICES ASSUME IInv, FileAgrees, Next, NEW i \in 1 .. Len(ring), ring[i], Looping, Looping'
                 PROVE  IF main = "read" /\ main' = "write"
                        THEN IF i <= Period THEN ShownPlaying'
                                            ELSE i - Period \in 1 .. Len(ring') /\ ring'[i - Period]
                        ELSE i \in 1 .. Len(ring') /\ ring'[i]
    OBVIOUS
  <2>2. CASE main = "read" /\ main' = "write"
    BY <2>1, <2>2, OnlyRead, ReadMovesUp
  <2>3. CASE ~(main = "read" /\ main' = "write")
    <3>1. ring' = ring \/ \E p \in Packets : RecvPacket(p)
      BY <2>1, <2>3 DEF Looping, Next, MainRuns, Goto, Boot, SetUp, StartFillDone, PrefillRead,
         PrefillWrite, PrefillFails, Start, Read, Write, Recover, Joined, WriteFails, RecvCheck,
         Arrival, RecvIgnored, DevicePlays, Tick, SetUpFails, Crash, ServiceRestarts, ringVars
    <3>2. ASSUME NEW p \in Packets, ring' = ring \o p
          PROVE  i \in 1 .. Len(ring') /\ ring'[i]
      <4>1. p \in Seq(BOOLEAN) /\ ring \in Seq(BOOLEAN)
        BY <2>1 DEF Packets, IInv, TypeOK
      <4>2. Len(ring \o p) = Len(ring) + Len(p) /\ (ring \o p)[i] = ring[i]
        <5>1. i \in 1 .. Len(ring) + Len(p) /\ i <= Len(ring)
          BY <2>1, <4>1, LenProperties
        <5>2. QED  BY <4>1, <5>1, ConcatProperties
      <4>3. QED  BY <2>1, <3>2, <4>1, <4>2, LenProperties
    <3>3. QED  BY <2>1, <2>3, <3>1, <3>2 DEF RecvPacket
  <2>4. QED  BY <2>2, <2>3
<1>2. QED  BY <1>1, StatusFileAgrees, Invariance, PTL DEF Spec, AudioMovesUp
-------------------------------------------------------------------------------
(* What ExitEndsIfFed rests on.                                                  *)

\* While main waits for recv_thread the thread exists and the flag is down.
JoinIsHeard == main = "join" => ~running /\ recv \in {"check", "recv", "exited"}

\* Until then the flag is up, and the thread is there as soon as the ring is waited for.
ThreadOK ==
    /\ ~running => main \in {"join", "exited"}
    /\ main \in {"startFill", "prefill", "prefillWrite", "start", "read", "write", "join"} =>
        recv # "none"
    /\ main = "join" => ~running

\* While main waits the thread only goes from recv to its test, and from there to its end.
ThreadWindsDown ==
    [][main = "join" /\ main' = "join" /\ recv' # recv =>
        <<recv, recv'>> \in {<<"recv", "check">>, <<"check", "exited">>}]_vars

\* An exit that waits for recv_thread waits for at most one packet: the flag is down before
\* the join and nothing raises it again (zinkos_rx.c:361-363).
THEOREM ExitIsHeard == Spec => []JoinIsHeard /\ ThreadWindsDown
<1>1. Init => ThreadOK
  BY DEF Init, ThreadOK
<1>2. ThreadOK /\ [Next]_vars => ThreadOK'
  <2> SUFFICES ASSUME ThreadOK, [Next]_vars PROVE ThreadOK'
    OBVIOUS
  <2> USE DEF ThreadOK, Goto, ringVars
  <2>1. CASE Boot \/ SetUp \/ SetUpFails \/ Crash \/ ServiceRestarts
    BY <2>1 DEF Boot, SetUp, SetUpFails, Crash, ServiceRestarts
  <2>2. CASE StartFillDone \/ PrefillRead \/ PrefillWrite \/ PrefillFails \/ Start
    BY <2>2 DEF StartFillDone, PrefillRead, PrefillWrite, PrefillFails, Start
  <2>3. CASE Read \/ Write \/ Recover \/ WriteFails \/ Joined
    BY <2>3 DEF Read, Write, Recover, WriteFails, Joined
  <2>4. CASE RecvCheck \/ Arrival
    BY <2>4 DEF RecvCheck, Arrival, RecvIgnored, RecvPacket
  <2>5. CASE DevicePlays \/ Tick \/ UNCHANGED vars
    BY <2>5 DEF DevicePlays, Tick, vars
  <2>6. QED  BY <2>1, <2>2, <2>3, <2>4, <2>5 DEF Next, MainRuns
<1>3. IInv /\ ThreadOK => JoinIsHeard
  BY DEF IInv, TypeOK, ThreadOK, JoinIsHeard
<1>4. ThreadOK /\ [Next]_vars =>
        [main = "join" /\ main' = "join" /\ recv' # recv =>
            <<recv, recv'>> \in {<<"recv", "check">>, <<"check", "exited">>}]_vars
  <2>1. SUFFICES ASSUME ThreadOK, Next, main = "join", main' = "join", recv' # recv
                 PROVE  <<recv, recv'>> \in {<<"recv", "check">>, <<"check", "exited">>}
    OBVIOUS
  <2>2. RecvCheck \/ Arrival
    BY <2>1 DEF Next, MainRuns, Goto, ringVars, Boot, SetUp, StartFillDone, PrefillRead,
       PrefillWrite, PrefillFails, Start, Read, Write, Recover, Joined, WriteFails, DevicePlays,
       Tick, SetUpFails, Crash, ServiceRestarts
  <2>3. QED
    BY <2>1, <2>2 DEF ThreadOK, RecvCheck, MayGoOn, Arrival, RecvIgnored, RecvPacket
<1>5. QED  BY <1>1, <1>2, <1>3, <1>4, Invariance, PTL DEF Spec, ThreadWindsDown
===============================================================================
