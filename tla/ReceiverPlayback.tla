--------------------------- MODULE ReceiverPlayback ---------------------------
(***************************************************************************)
(* main and recv_thread of receiver/c/zinkos_rx.c around the frame ring,   *)
(* from the start of the process to its exit or death.  The ring is the    *)
(* bounded FIFO that SpscRing is shown to implement, its frames told apart *)
(* as audible or silent.  The sender, the clock, the ALSA device and the   *)
(* service manager are external.  Time goes in ticks, of which SecondTicks *)
(* make a second of tv_sec.                                                *)
(***************************************************************************)
EXTENDS Integers, Sequences, SequencesExt

CONSTANTS Capacity,     \* RING_FRAMES - 1
          StartFill,    \* start_fill_frames
          Period,       \* actual_period
          Buffer,       \* actual_buffer
          DefaultTimeout,   \* DEFAULT_IDLE_TIMEOUT
          Configured,   \* bound: what the config file may say of idle_timeout_s
          SecondTicks,  \* ticks in a second
          MaxPacket,    \* bound: frames in a packet
          MaxCrashes    \* bound: times the process is killed

\* argv allows periods of up to 4800 frames; one that does not fit in main's
\* `out`, of 1024, is undefined behaviour and not a Period of the model.
ASSUME PlaybackAssumption ==
    /\ Capacity \in Nat /\ StartFill \in 0 .. Capacity
    /\ Period \in Nat \ {0} /\ Buffer \in Nat /\ Period <= Buffer
    /\ DefaultTimeout \in Nat \ {0} /\ Configured \subseteq Int
    /\ SecondTicks \in Nat \ {0} /\ MaxPacket \in Nat /\ MaxCrashes \in Nat

VARIABLES
    ring,       \* the frames published and not yet read: TRUE for an audible one
    running,    \* the flag both threads look at
    recv,       \* recv_thread: "none" yet, "check", in "recv", or "exited"
    main,       \* where main is; "exited" with 0, "down" otherwise
    timeout,    \* idle_timeout_s
    prefilled,  \* frames the pre-fill gave to ALSA
    alsa,       \* frames ALSA holds
    device,     \* the PCM state: "prepared", "running", "xrun"
    isPlaying,  \* is_playing
    status,     \* the status file: "idle", "playing", or "other", missing or cut short
    failed,     \* history: the last write_status did not get through
    phase,      \* ticks into the current second
    lastPhase,  \* the same at last_data_ts
    age,        \* ticks since last_data_ts, once it is set, up to the timeout
    spoiled,    \* history: a pre-fill write failed
    crashes

ringVars == <<ring, running, recv>>
alsaVars == <<alsa, device>>
fileVars == <<status, failed>>
idleVars == <<isPlaying, fileVars, lastPhase>>
clockVars == <<phase, age>>
lifeVars == <<timeout, crashes>>
vars == <<ringVars, main, prefilled, alsaVars, idleVars, clockVars, spoiled, lifeVars>>

\* The service has just been started for the first time: no status file yet.
Init ==
    /\ ring = <<>> /\ running = TRUE /\ recv = "none"
    /\ main = "boot" /\ prefilled = 0 /\ timeout = DefaultTimeout
    /\ alsa = 0 /\ device = "prepared"
    /\ isPlaying = FALSE /\ status = "other" /\ failed = FALSE
    /\ phase = 0 /\ lastPhase = 0 /\ age = 0 /\ spoiled = FALSE /\ crashes = 0

Goto(from, to) == main = from /\ main' = to
Looping == main \in {"read", "write"}

\* write_status: open, write and rename may each fail, without a word and without
\* a second try; the directory need not exist, ensure_status_dir having failed as
\* quietly.  A short write is renamed into place all the same.
WriteStatus(word) ==
    \/ status' = word /\ failed' = FALSE
    \/ status' \in {status, "other"} /\ failed' = TRUE
-------------------------------------------------------------------------------
(* The start of the process, its death, and the service manager (external). *)

\* parse_config: a timeout that is not positive is ignored.
Parsed(value) == IF value > 0 THEN value ELSE DefaultTimeout

\* mutated form: the status file is left as the last process left it
BootQuietly ==
    /\ Goto("boot", "setup")
    /\ timeout' \in {Parsed(v) : v \in Configured} \cup {DefaultTimeout}
    /\ UNCHANGED <<ringVars, prefilled, alsaVars, idleVars, clockVars, spoiled, crashes>>

\* parse_config, of a file that may be missing, ensure_status_dir, write_status.
Boot ==
    /\ Goto("boot", "setup")
    /\ timeout' \in {Parsed(v) : v \in Configured} \cup {DefaultTimeout}
    /\ WriteStatus("idle")
    /\ UNCHANGED <<ringVars, prefilled, alsaVars, isPlaying, lastPhase, clockVars, spoiled,
                   crashes>>

\* The socket is bound, ALSA prepared, recv_thread created.
SetUp ==
    /\ Goto("setup", "startFill")
    /\ recv' = "check"
    /\ UNCHANGED <<ring, running, prefilled, alsaVars, idleVars, clockVars, spoiled, lifeVars>>

\* No socket, the port taken, no such device, parameters refused: exit code 1.
SetUpFails ==
    /\ Goto("setup", "down")
    /\ UNCHANGED <<ringVars, prefilled, alsaVars, idleVars, clockVars, spoiled, lifeVars>>

\* The process is killed, and all it held in memory is gone; the file is not.
Crash ==
    /\ crashes < MaxCrashes /\ main \notin {"exited", "down"}
    /\ crashes' = crashes + 1
    /\ main' = "down"
    /\ ring' = <<>> /\ running' = TRUE /\ recv' = "none" /\ prefilled' = 0
    /\ alsa' = 0 /\ device' = "prepared"
    /\ isPlaying' = FALSE /\ lastPhase' = 0 /\ age' = 0 /\ spoiled' = FALSE
    /\ UNCHANGED <<fileVars, phase, timeout>>

\* Restart=on-failure (zinkos-rx.service): not after an exit with 0.
ServiceRestarts ==
    /\ Goto("down", "boot")
    /\ UNCHANGED <<ringVars, prefilled, alsaVars, idleVars, clockVars, spoiled, lifeVars>>
-------------------------------------------------------------------------------
(* recv_thread. *)

MayGoOnAlways == TRUE  \* mutated form: the flag is not looked at
MayGoOn == running

RecvCheck ==
    /\ recv = "check"
    /\ recv' = IF MayGoOn THEN "recv" ELSE "exited"
    /\ UNCHANGED <<ring, running, main, prefilled, alsaVars, idleVars, clockVars, spoiled, lifeVars>>

\* mutated form: the room is not checked
RecvPacketAlways(frames) ==
    /\ recv = "recv"
    /\ recv' = "check"
    /\ Len(ring) <= Capacity /\ ring' = ring \o frames
    /\ UNCHANGED <<running, main, prefilled, alsaVars, idleVars, clockVars, spoiled, lifeVars>>

\* recv returns a packet; one that does not fit the ring is dropped whole.
RecvPacket(frames) ==
    /\ recv = "recv"
    /\ recv' = "check"
    /\ ring' = IF Len(ring) + Len(frames) <= Capacity THEN ring \o frames ELSE ring
    /\ UNCHANGED <<running, main, prefilled, alsaVars, idleVars, clockVars, spoiled, lifeVars>>

\* An error, a short datagram, a bad magic, version or length.
RecvIgnored ==
    /\ recv = "recv"
    /\ recv' = "check"
    /\ UNCHANGED <<ring, running, main, prefilled, alsaVars, idleVars, clockVars, spoiled, lifeVars>>

Packets == UNION {[1..n -> BOOLEAN] : n \in 1..MaxPacket}
Arrival == RecvIgnored \/ \E p \in Packets : RecvPacket(p)
-------------------------------------------------------------------------------
(* ALSA (external). *)

\* A write of a period blocks until there is room.
Room == alsa + Period <= Buffer

\* start_threshold: the write that reaches it starts the device.
StartThresholdNever == Buffer + 1  \* mutated form: "don't auto-start"
StartThreshold == Period

Queued ==
    /\ device # "xrun" /\ Room
    /\ alsa' = alsa + Period
    /\ device' = IF alsa' >= StartThreshold THEN "running" ELSE device

DevicePlays ==
    /\ device = "running" /\ alsa > 0
    /\ alsa' = alsa - Period
    /\ device' = IF alsa' = 0 THEN "xrun" ELSE "running"
    /\ UNCHANGED <<ringVars, main, prefilled, idleVars, clockVars, spoiled, lifeVars>>

Tick ==
    /\ phase' = (phase + 1) % SecondTicks
    /\ age' = IF Looping /\ age < timeout * SecondTicks THEN age + 1 ELSE age
    /\ UNCHANGED <<ringVars, main, prefilled, alsaVars, idleVars, spoiled, lifeVars>>
-------------------------------------------------------------------------------
(* main. *)

FilledAtAll == ring # <<>>  \* mutated form: playback starts with the first packet
Filled == Len(ring) >= StartFill

StartFillDone ==
    /\ Goto("startFill", "prefill")
    /\ Filled
    /\ UNCHANGED <<ringVars, prefilled, alsaVars, idleVars, clockVars, spoiled, lifeVars>>

\* The pre-fill reads a whole period or stops.
MorePrefill == prefilled + Period <= Buffer /\ Len(ring) >= Period

PrefillRead ==
    /\ IF MorePrefill
       THEN Goto("prefill", "prefillWrite") /\ ring' = SubSeq(ring, Period + 1, Len(ring))
       ELSE Goto("prefill", "start") /\ UNCHANGED ring
    /\ UNCHANGED <<running, recv, prefilled, alsaVars, idleVars, clockVars, spoiled, lifeVars>>

PrefillWrite ==
    /\ Goto("prefillWrite", "prefill")
    /\ Queued
    /\ prefilled' = prefilled + Period
    /\ UNCHANGED <<ringVars, idleVars, clockVars, spoiled, lifeVars>>

\* After a failed write, because the device has already run dry or for another
\* reason, the pre-fill ends.
PrefillFails ==
    /\ Goto("prefillWrite", "start")
    /\ spoiled' = TRUE
    /\ UNCHANGED <<ringVars, prefilled, alsaVars, idleVars, clockVars, lifeVars>>

\* snd_pcm_start fails, unnoticed, unless the device is prepared and holds audio.
Start ==
    /\ Goto("start", "read")
    /\ device' = IF device = "prepared" /\ alsa > 0 THEN "running" ELSE device
    /\ isPlaying' = TRUE /\ WriteStatus("playing")
    /\ lastPhase' = phase /\ age' = 0
    /\ UNCHANGED <<ringVars, prefilled, alsa, phase, spoiled, lifeVars>>

\* now.tv_sec - last_data_ts.tv_sec.
ElapsedRoundedUp == (lastPhase + age + SecondTicks) \div SecondTicks  \* mutated form
Elapsed == (lastPhase + age) \div SecondTicks

\* mutated form: going idle leaves is_playing set
TimedOutSticky ==
    /\ isPlaying /\ Elapsed >= timeout
    /\ WriteStatus("idle") /\ UNCHANGED isPlaying
TimedOut ==
    /\ isPlaying /\ Elapsed >= timeout
    /\ WriteStatus("idle") /\ isPlaying' = FALSE

\* A period, or what there is of it, is read, and its audio tells idle from playing;
\* is_playing changes whether or not the file could be written.
Read ==
    /\ Goto("read", "write")
    /\ LET got == IF Len(ring) < Period THEN Len(ring) ELSE Period
           hasAudio == TRUE \in ToSet(SubSeq(ring, 1, got))
       IN  /\ ring' = SubSeq(ring, got + 1, Len(ring))
           /\ IF hasAudio
              THEN /\ lastPhase' = phase /\ age' = 0
                   /\ IF isPlaying THEN UNCHANGED fileVars ELSE WriteStatus("playing")
                   /\ isPlaying' = TRUE
              ELSE /\ UNCHANGED <<lastPhase, age>>
                   /\ TimedOut \/ (~(isPlaying /\ Elapsed >= timeout)
                                   /\ UNCHANGED <<fileVars, isPlaying>>)
    /\ UNCHANGED <<running, recv, prefilled, alsaVars, phase, spoiled, lifeVars>>

Write ==
    /\ Goto("write", "read")
    /\ Queued
    /\ UNCHANGED <<ringVars, prefilled, idleVars, clockVars, spoiled, lifeVars>>

\* snd_pcm_recover prepares the device again; this period is not heard.
Recover ==
    /\ Goto("write", "read")
    /\ device = "xrun"
    /\ device' = "prepared" /\ alsa' = 0
    /\ UNCHANGED <<ringVars, prefilled, idleVars, clockVars, spoiled, lifeVars>>

\* The device cannot be recovered, or fails in another way: the loop ends.
WriteFails ==
    /\ Goto("write", "join")
    /\ running' = FALSE
    /\ WriteStatus("idle")
    /\ UNCHANGED <<ring, recv, prefilled, alsaVars, isPlaying, lastPhase, clockVars, spoiled, lifeVars>>

Joined ==
    /\ Goto("join", "exited")
    /\ recv = "exited"
    /\ UNCHANGED <<ringVars, prefilled, alsaVars, idleVars, clockVars, spoiled, lifeVars>>

MainRuns == Boot \/ SetUp \/ StartFillDone \/ PrefillRead \/ PrefillWrite \/ PrefillFails \/ Start
            \/ Read \/ Write \/ Recover \/ Joined

Next == MainRuns \/ WriteFails \/ RecvCheck \/ Arrival \/ DevicePlays \/ Tick
        \/ SetUpFails \/ Crash \/ ServiceRestarts

Spec == Init /\ [][Next]_vars

\* Both threads run, the device plays what it was given, time passes, and a
\* process that failed is started again; no packet has to arrive and nothing
\* need fail.
FairSpec == Spec /\ WF_vars(MainRuns) /\ WF_vars(RecvCheck) /\ WF_vars(DevicePlays)
                 /\ WF_vars(Tick) /\ WF_vars(ServiceRestarts)
-------------------------------------------------------------------------------
TypeOK ==
    /\ ring \in Seq(BOOLEAN) /\ Len(ring) <= Capacity
    /\ running \in BOOLEAN
    /\ recv \in {"none", "check", "recv", "exited"}
    /\ timeout \in Nat \ {0} /\ crashes \in 0 .. MaxCrashes
    /\ main \in {"boot", "setup", "down", "startFill", "prefill", "prefillWrite", "start", "read", "write",
                 "join", "exited"}
    /\ prefilled \in 0 .. Buffer /\ alsa \in 0 .. Buffer
    /\ device \in {"prepared", "running", "xrun"}
    /\ isPlaying \in BOOLEAN
    /\ status \in {"idle", "playing", "other"} /\ failed \in BOOLEAN
    /\ phase \in 0 .. SecondTicks - 1 /\ lastPhase \in 0 .. SecondTicks - 1
    /\ age \in 0 .. timeout * SecondTicks

\* Playback starts with the start-fill behind it: what the pre-fill took from
\* the ring ALSA got, unless a write failed, and no frame was lost between.
StartsFilled == main = "start" /\ ~spoiled => prefilled + Len(ring) >= StartFill

\* The receiver turns idle, in is_playing or in the file, no earlier than after all
\* but a second of the timeout without audio, since whole seconds are subtracted.
IdleNotEarly ==
    [][Looping /\ main' = "write"
       /\ ((isPlaying /\ ~isPlaying') \/ (status = "playing" /\ status' = "idle")) =>
        age > (timeout - 1) * SecondTicks]_vars

\* When only silence comes, or the receiver is down, waits or does not come up, it
\* turns idle, and so does the file, whatever the process that was killed had left
\* there, unless the last write of it failed.
GoesIdle ==
    <>[](main # "start" /\ (Looping => TRUE \notin ToSet(ring))) =>
        <>[]((status = "idle" \/ failed) /\ (Looping => ~isPlaying))

\* When audio comes the receiver turns to playing, also after it was idle, and the
\* file shows it unless the last write of it failed.
AudioIsShown ==
    (Looping /\ TRUE \in ToSet(ring)) ~>
        ((isPlaying /\ (status = "playing" \/ failed)) \/ ~Looping)

\* A blocking write returns: after every recovery the device is started again,
\* though nothing but a write starts it.
WritesReturn == main = "write" ~> main # "write"

\* If packets keep coming, the exit after an ALSA failure ends; the receive
\* thread sees the flag after one of them.
ExitEndsIfFed == WF_vars(Arrival) => (main = "join" ~> main \in {"exited", "down"})

\* "Restart=on-failure" (zinkos-rx.service:16): after a failure of the ALSA device
\* the receiver is started again, if packets keep coming so that it can exit.
FailureRestarts == WF_vars(Arrival) => (main = "join" ~> main = "boot")
===============================================================================
