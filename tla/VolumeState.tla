----------------------------- MODULE VolumeState -----------------------------
(***************************************************************************)
(* The volume of driver/ZinkosPlugin.cpp and the file that keeps it.  A    *)
(* property thread of the HAL sets the volume or the mute and saves both,  *)
(* at most every 500 ms; StartIO and StopIO, on the control thread, load   *)
(* and save them; coreaudiod may end at any moment.  No lock protects the  *)
(* volume, the mute, the time of the last save or the file.                *)
(***************************************************************************)
EXTENDS Integers

CONSTANTS Levels,   \* bound: the volumes asked for, out of range too
          Full,     \* volumeScalar 1.0
          Grain     \* a step of the six decimals the file holds

ASSUME VolumeAssumption ==
    /\ Full \in Nat /\ Full > 1 /\ Levels \subseteq Int
    /\ Grain \in 1 .. Full
    /\ Full % Grain = 0 /\ (Full \div 2) % Grain = 0  \* 1.0 and 0.5 are printed exactly

VARIABLES
    mem,        \* gDriverState.volumeScalar and gDriverState.muted
    file,       \* what the volume file holds; {} when it is missing or truncated
    lastSave,   \* sLastPersistTime: "never" (0), "recent" (< 500 ms ago) or "old"
    at,         \* where each thread is in its call
    printed,    \* what each thread's save has put in its stdio buffer
    restored,   \* what LoadVolumeState has read from the file
    ioRunning,  \* gDriverState.ioRunning
    wish,       \* history: what the user set last
    picked,     \* history: the volumes the user ever set
    settled,    \* history: since StopIO began nothing was set and no save failed
    fault       \* history: some save failed, or coreaudiod ended inside a call

vars == <<mem, file, lastSave, at, printed, restored, ioRunning, wish, picked, settled,
          fault>>

Caller == {"setter", "control"}
Setting == [level : 0 .. Full, muted : BOOLEAN]

\* "safe default -- never blast full volume".
DefaultBlast == [level |-> Full, muted |-> FALSE]  \* mutated form: full volume
Default == [level |-> Full \div 2, muted |-> FALSE]

\* A volume asked for, in dB or as a scalar, is brought into the range.
ClampedBelow(v) == IF v < 0 THEN 0 ELSE v  \* mutated form: no upper limit
Clamped(v) == IF v < 0 THEN 0 ELSE IF v > Full THEN Full ELSE v

\* "%.6f" keeps a multiple of Grain.
Nearest(v) == ((v + Grain \div 2) \div Grain) * Grain
Rounded(s) == [s EXCEPT !.level = Nearest(s.level)]

\* A file that no save wrote: a level out of range.
Foreign == [level : Levels \ (0 .. Full), muted : BOOLEAN]

\* What LoadVolumeState makes of the file: a level out of range is not taken.
InRange(s) == IF s.level \in 0 .. Full THEN s ELSE [s EXCEPT !.level = Default.level]
Loaded(f) == IF f = {} THEN Default ELSE InRange(CHOOSE s \in f : TRUE)

Idle == \A c \in Caller : at[c] = "idle"
Step(c, from, to) == at[c] = from /\ at' = [at EXCEPT ![c] = to]
HistoryKept == UNCHANGED <<wish, picked, settled, fault>>

\* Initialize, before any other call, with whatever file is there.
Init ==
    /\ file \in {{}} \cup {{s} : s \in Foreign}
        \cup {{Rounded(s)} : s \in [level : {Clamped(v) : v \in Levels}, muted : BOOLEAN]}
    /\ mem = Loaded(file)
    /\ lastSave = "never" /\ ioRunning = FALSE
    /\ at = [c \in Caller |-> "idle"]
    /\ printed = [c \in Caller |-> Default] /\ restored = Default
    /\ wish = mem /\ picked = {mem.level} /\ settled = TRUE /\ fault = FALSE
-------------------------------------------------------------------------------
(* PersistVolumeState, by either thread. *)

\* Within 500 ms of the last save nothing is written.
Throttled == lastSave = "recent"

SaveTest(c) ==
    /\ Step(c, "saveTest", IF Throttled THEN "idle" ELSE "saveOpen")
    /\ UNCHANGED <<mem, file, lastSave, printed, restored, ioRunning>> /\ HistoryKept

\* fopen "w" truncates the file ...
SaveOpen(c) ==
    /\ Step(c, "saveOpen", "savePrint")
    /\ lastSave' = "recent"
    /\ file' = {}
    /\ UNCHANGED <<mem, printed, restored, ioRunning>> /\ HistoryKept

\* ... or fails, which is ignored.
SaveFails(c) ==
    /\ Step(c, "saveOpen", "idle")
    /\ lastSave' = "recent"
    /\ settled' = FALSE /\ fault' = TRUE
    /\ UNCHANGED <<mem, file, printed, restored, ioRunning, wish, picked>>

SavePrint(c) ==
    /\ Step(c, "savePrint", "saveClose")
    /\ printed' = [printed EXCEPT ![c] = Rounded(mem)]
    /\ UNCHANGED <<mem, file, lastSave, restored, ioRunning>> /\ HistoryKept

\* fclose writes the buffer out.
SaveClose(c) ==
    /\ Step(c, "saveClose", "idle")
    /\ file' = {printed[c]}
    /\ printed' = [printed EXCEPT ![c] = Default]
    /\ UNCHANGED <<mem, lastSave, restored, ioRunning>> /\ HistoryKept

\* fclose cannot write, which is ignored too.
CloseFails(c) ==
    /\ Step(c, "saveClose", "idle")
    /\ printed' = [printed EXCEPT ![c] = Default]
    /\ settled' = FALSE /\ fault' = TRUE
    /\ UNCHANGED <<mem, file, lastSave, restored, ioRunning, wish, picked>>

Elapse ==
    /\ lastSave = "recent"
    /\ lastSave' = "old"
    /\ UNCHANGED <<mem, file, at, printed, restored, ioRunning>> /\ HistoryKept
-------------------------------------------------------------------------------
(* SetPropertyData: the volume (as a scalar or in dB), or the mute. *)

Set(s) ==
    /\ mem' = s
    /\ Step("setter", "idle", "saveTest")
    /\ wish' = s
    /\ picked' = picked \cup {s.level}
    /\ settled' = FALSE
    /\ UNCHANGED <<file, lastSave, printed, restored, ioRunning, fault>>

SetVolume(v) == Set([mem EXCEPT !.level = Clamped(v)])
SetMute(m) == Set([mem EXCEPT !.muted = m])
-------------------------------------------------------------------------------
(* StartIO and StopIO. *)

\* mutated form: a second client's StartIO loads the configuration too
StartIOAlways ==
    /\ Step("control", "idle", "loadDefault")
    /\ UNCHANGED <<mem, file, lastSave, printed, restored, ioRunning>> /\ HistoryKept

\* While IO runs StartIO returns at once; else LoadConfig ends in LoadVolumeState,
\* which stores the defaults ...
StartIO ==
    /\ ~ioRunning
    /\ Step("control", "idle", "loadDefault")
    /\ UNCHANGED <<mem, file, lastSave, printed, restored, ioRunning>> /\ HistoryKept

LoadDefault ==
    /\ Step("control", "loadDefault", "loadRead")
    /\ mem' = Default
    /\ UNCHANGED <<file, lastSave, printed, restored, ioRunning>> /\ HistoryKept

\* ... reads the file, which another thread may have truncated ...
LoadRead ==
    /\ Step("control", "loadRead", IF file = {} THEN "run" ELSE "loadStore")
    /\ restored' = Loaded(file)
    /\ UNCHANGED <<mem, file, lastSave, printed, ioRunning>> /\ HistoryKept

\* ... and stores what it held.
LoadStore ==
    /\ Step("control", "loadStore", "run")
    /\ mem' = restored
    /\ restored' = Default
    /\ UNCHANGED <<file, lastSave, printed, ioRunning>> /\ HistoryKept

RunIO ==
    /\ Step("control", "run", "idle")
    /\ ioRunning' = TRUE
    /\ UNCHANGED <<mem, file, lastSave, printed, restored>> /\ HistoryKept

\* What the property thread has printed and not yet written out, if anything, is what
\* is in use.  It is not if that save began before the last StartIO reloaded.
PrintIsCurrent == at["setter"] = "saveClose" => printed["setter"] = Rounded(mem)

\* mutated form: the save is not forced
StopIOUnforced ==
    /\ ioRunning
    /\ Step("control", "idle", "saveTest")
    /\ ioRunning' = FALSE
    /\ settled' = PrintIsCurrent
    /\ UNCHANGED <<mem, file, lastSave, printed, restored, wish, picked, fault>>

\* "Force-save final volume (throttle may have skipped the last update)".
StopIO ==
    /\ ioRunning
    /\ Step("control", "idle", "saveTest")
    /\ ioRunning' = FALSE
    /\ lastSave' = "never"
    /\ settled' = PrintIsCurrent
    /\ UNCHANGED <<mem, file, printed, restored, wish, picked, fault>>

\* coreaudiod ends, whatever it was doing, and starts again: Initialize.
Restart ==
    /\ mem' = Loaded(file)
    /\ lastSave' = "never" /\ ioRunning' = FALSE
    /\ at' = [c \in Caller |-> "idle"]
    /\ printed' = [c \in Caller |-> Default] /\ restored' = Default
    /\ settled' = TRUE
    /\ fault' = (fault \/ ~Idle)
    /\ UNCHANGED <<file, wish, picked>>

Next ==
    \/ \E v \in Levels : SetVolume(v)
    \/ \E m \in BOOLEAN : SetMute(m)
    \/ \E c \in Caller : SaveTest(c) \/ SaveOpen(c) \/ SaveFails(c) \/ SavePrint(c)
                          \/ SaveClose(c) \/ CloseFails(c)
    \/ Elapse
    \/ StartIO \/ LoadDefault \/ LoadRead \/ LoadStore \/ RunIO \/ StopIO
    \/ Restart

Spec == Init /\ [][Next]_vars
-------------------------------------------------------------------------------
TypeOK ==
    /\ mem \in Setting /\ restored \in Setting /\ wish \in Setting
    /\ file \in {{}} \cup {{s} : s \in Setting \cup Foreign}
    /\ lastSave \in {"never", "recent", "old"}
    /\ at \in [Caller -> {"idle", "saveTest", "saveOpen", "savePrint", "saveClose",
                          "loadDefault", "loadRead", "loadStore", "run"}]
    /\ printed \in [Caller -> Setting]
    /\ ioRunning \in BOOLEAN /\ settled \in BOOLEAN /\ fault \in BOOLEAN
    /\ picked \subseteq 0 .. Full

\* "Forced write on StopIO to capture the last value" (overview.md, Volume
\* Persistence): once StopIO and the property thread are done the file restores
\* what is in use, wherever in its own save of the last value StopIO met the
\* property thread: each truncates what the other wrote, and either may find
\* itself throttled by the other.
SavedWhenStopped ==
    settled /\ Idle /\ ~ioRunning => Loaded(file) = Rounded(mem)

\* "never blasts full volume" (overview.md, Volume Persistence): whatever was
\* saved, truncated or lost, the volume is half or one that the user once picked.
NeverInvented ==
    mem.level \in {Full \div 2} \cup picked \cup {Nearest(v) : v \in picked}

\* While IO runs only the user changes what is heard: no cycle plays with the
\* defaults that LoadVolumeState stores in passing.
GainIsSteady ==
    [][ioRunning /\ ioRunning' /\ mem' # mem => at'["setter"] # at["setter"]]_vars

\* "Volume state survives coreaudiod restarts" (overview.md, Volume Persistence):
\* between calls the volume is the one the user set last, if no save failed or
\* was cut short.
VolumeSurvives == Idle /\ ~fault => Rounded(mem) = Rounded(wish)
===============================================================================
