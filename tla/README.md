# Zinkos in TLA+

Zinkos sends a Mac's audio to a small computer with a DAC. A CoreAudio driver
(`src/driver`, C++) runs inside coreaudiod and hands each IO cycle's frames to a
streaming engine (`src/engine`, Rust behind a C API). The engine's network thread
sends packets over UDP. A receiver plays them through ALSA: either
`src/receiver/c/zinkos_rx.c`, the one that is installed, or `src/receiver/src`,
written in Rust. The driver finds the receiver by Bonjour, and shows its device in
Sound settings only while there is one.

These modules model that program from its source, check it with TLC on small
instances, and prove the main facts for every size with TLAPS.
`PROJECT.json` lists the runs, the hazards they aim at, the lines each definition
stands for, and for each property a change of the code that breaks it.

## 1. Inventory

| Component | State | Operations | Talks to |
|---|---|---|---|
| Frame ring (`receiver/c/zinkos_rx.c:24-90`) | the slots, `wpos_frames`, `rpos_frames` | `rb_write_frames`, `rb_read_frames` | `recv_thread` writes, the playback loop reads, no lock |
| C receiver's `main` (`zinkos_rx.c:94-367`) | ALSA state, idle timer, `running`, the status file | configuration, set-up, start-fill, pre-fill, write, xrun recovery, status, exit | the ring; joins `recv_thread`; systemd starts it again |
| Engine (`engine/src/ffi.rs`, `state_machine.rs`) | atomic state, `net_stop`, `net_thread`, `producer` | create, start, stop, destroy, write_frames; the network thread | the driver's control and IO threads |
| Sender ring (`ring_buffer.rs`) | an SPSC queue (the `rtrb` crate) | `write_frames`, `read_frames` | audio thread, network thread |
| Packetizer (`packetizer.rs`) | `seq` | `build_packet` | network thread |
| Pacer, packet duration (`pacer.rs`, `config.rs`) | the next deadline | `wait` | network thread; the clock |
| Drift estimator (`drift.rs`) | a window of samples | `update` | nothing uses its result |
| Jitter buffer (`receiver/src/jitter_buffer.rs`) | the entries, `next_play_seq`, fill state, counters | `push`, `pop_frames` | `receive_loop` and `playback_loop`, under one mutex |
| Rust receiver's threads (`receiver/src/main.rs`) | `running` | receive, play, quit, join | the buffer; the socket, the audio sink, stdin |
| Driver IO (`driver/ZinkosPlugin.cpp:323-470`) | `engine`, `ioRunning` | `StartIO`, `StopIO`, `DoIOOperation` | the HAL, the engine |
| Discovery (`driver/ZinkosBrowse.cpp`) | `devicePublished`, `discoveredAvailable`, `discoveredIP`, `discoveredPort`, the grace deadline | browse thread, three callbacks, reconnection, `Browse_Start`, `Browse_Stop` | mDNSResponder; `StartIO` and `StopIO` share the four variables without a lock |
| Volume (`ZinkosPlugin.cpp:33-69, 511-544`) | volume, mute, their file, the time of the last save | set, save at most every 500 ms, load | a property thread and the control thread, no lock |
| Configuration (`ZinkosPlugin.cpp:71-146`) | the plist's settings | `LoadConfig` | the file system; loaded at `Initialize` and every `StartIO` |
| Property tables (`driver/ZinkosDevice.cpp`) | none of their own: `devicePublished`, the volume, the configuration | `HasProperty`, `IsPropertySettable`, `GetPropertyDataSize`, `GetPropertyData`, `SetPropertyData` | the HAL, in several calls per question |
| Timestamps (`ZinkosPlugin.cpp:278-284, 417-437`) | `ticksPerFrame`, the anchor | `GetZeroTimeStamp` | the HAL, which paces its IO cycles by them |
| Setup app, scripts, installer, services | files | edit the plist, install, restart | coreaudiod, systemd |

What is hard in it:

- **Stale indices.** Each side of the frame ring decides by an index that the
  other side moves while it copies. Correct means: no slot is touched by both
  copies, no unread frame is overwritten, full and empty are never confused, and
  frames come out in the order they went in.
- **Threads that outlive what they share.** `stop()` may come while the network
  thread is still in DNS, and neither of its callers looks at what it returns.
  Correct means: one thread streams, a stopped engine sends nothing, every call
  returns, and the flag `ioRunning` agrees with the engine.
- **An unreliable network and wrapping numbers.** Packets are lost, repeated and
  reordered, their number wraps, and a sender that restarts counts from 0. Correct
  means: audio is played forwards, each frame at most once, nothing that came in
  time is skipped, the counters add up, a newer packet is never refused, and
  silence takes the place of what is lost, no more and no less.
- **A device that stops by itself, and a process that does.** ALSA runs dry whenever
  packets fail to come, and has to be prepared, filled and started again by writes that may
  block; the process may be killed, and its status file outlives it. Correct means:
  playback starts with its cushion, a write returns, the status file follows the
  audio, also across a restart, and the exit ends.
- **Threads that end one by one.** Either thread of the Rust receiver may panic or end by
  itself, and `main` joins them in turn. Correct means: "q" ends the process all the same.
- **A file written in passing.** Two threads save the volume, with a limit of one save per
  500 ms, and coreaudiod may end in the middle. Correct means: what was set last is
  saved when IO stops, a reload is not heard while IO runs, and nothing but half or a
  picked volume is ever used.
- **Two clocks that must agree.** The HAL delivers audio by the driver's timestamps, the
  pacer takes it away by its deadlines; both are truncated, and either thread may be late.
  Correct means: lateness is made good and does not pile up as audio in the ring, and a ring
  with room for it drops nothing.
- **Tables kept in step by hand.** What an object has, how large an answer is, the answer,
  and what may be set are four switch statements. Correct means: they agree, for every
  scope and whatever is published, and so do the accounts of who owns whom.
- **Two threads publish and hide one device.** The browse thread and the HAL's
  control thread test and set the same flags. Correct means: a receiver that stays is
  shown, one that has gone is not, the grace period holds, the engine gets the
  address with a port, the HAL's list follows the flag, and `Release` returns.

## 2. Modules

| Module | What it models |
|---|---|
| `BoundedFifo` | what the frame ring promises: a bounded FIFO that takes a packet whole or not at all |
| `SpscRing` | the frame ring, a step for each access to shared memory; implements `BoundedFifo` |
| `SpscRingProofs` | its theorems |
| `EngineLifecycle` | the engine: the control thread inside a call, network threads, the audio thread. It has no `Next` of its own |
| `DriverIO` | `EngineLifecycle` under the driver's handlers and the HAL |
| `DriverIOProofs` | its theorems |
| `SeqArith` | the wrapping sequence number and `seq_before` |
| `JitterBuffer` | `push` and `pop_frames` |
| `JitterStream` | the Rust receiver: the buffer, its two threads and `main`, behind a sender and a network |
| `JitterStreamProofs` | its theorems, and those of `SeqArith` |
| `ReceiverPlayback` | the C receiver around the ring: start, receive thread, start-fill, pre-fill, playback, recovery, idle timer, exit, death and restart |
| `ReceiverPlaybackProofs` | its theorems |
| `VolumeState` | the volume, its file, and the threads that set, save and load it |
| `VolumeStateProofs` | its theorems |
| `Pacing` | IO cycles and the network thread's wake-ups, on the two clocks, around the ring |
| `PacingProofs` | its theorems |
| `PropertyTables` | the tables, and the HAL that explores them while the device comes and goes |
| `PropertyTablesProofs` | its theorems |
| `BonjourBrowse` | the browse thread, the parts of `StartIO`, `StopIO` and `Release` that share its variables, and their surroundings |
| `BonjourBrowseProofs` | its theorems |

### Frame ring

`wpos` and `rpos` are the code's indices. `RbWriteBegin` is the load of both
indices and the test for room, `RbWriteDrop` the early return; `RbWriteCopy` is one
frame of the two `memcpy`s, `RbWritePublish` the releasing store. Reading has the
same three parts. `wpos` is not read again after the first load, which is what makes
the copies race. Since each index has one owner and is stored with release and
loaded with acquire, a load that returns an older value of the other index only
lets a thread see less room or fewer frames, as if it had run earlier; the model loads the
current value, and the reader's or writer's delay is an interleaving.

### Engine and driver

One network thread is born per `start()`; engines and threads are told apart so
that a thread may be seen to outlive its engine. `call` is where the control thread
is inside `start`, `stop` or `destroy`; a call is cut where another thread can
notice: after the state's compare-and-exchange, after `net_stop` is set, at the
join. `net` is where a thread is: resolving the target, about to read the stop
flag, or sending. The ring is its fill level. `rt` is the audio thread between its
test of the state and its use of the ring.

`StartIO` and `StopIO` are scripts of engine calls, chosen when the handler begins by
the same conditions as in the code; `todo` is the rest of the script. The engine's
own actions carry each call out. The HAL is external: it calls
`StartIO` and `StopIO` one at a time, once each per client, and runs IO cycles while a
client is started.

The model does not explore undefined behaviour: `write_frames` on an engine
that another thread is freeing, or an `Option<Producer>` read while it is
written. With two clients the code permits both, see the hazards at `ffi.rs:84`
and `ZinkosPlugin.cpp:393`.

### Jitter buffer and Rust receiver

A packet is its number, the frames it has left, and an id that only the properties read.
`push` is one step, since the mutex is held. `pop_frames` is one step for each turn of its
loop; `remaining > 0` means that it holds the mutex. Three kinds of turn are told apart:
the expected packet, a gap, a packet behind the cursor; and the end of the buffer, an
underrun. Malformed packets are left out: `push` returns before it counts them or changes
anything the model keeps. One kind is kept, a packet longer than `receive_loop`'s buffer
(`MaxRecv`), which a sender of large packets sends every time.

`recv` and `play` are the two threads, in their loop, ended or panicked; `main` is which of
them it joins. A thread panics if it finds no port or no audio output, before its loop, so
that this is chosen in `Init`; a receive error ends the receive thread at any time. A
loop's test of `running` is part of the step it leads to: to quit between the two is the
same as to quit after them, since the flag is not read in between.

The buffer of 2048 bytes ("oversized to handle any frames_per_packet", `main.rs:86`) holds
507 frames, and the driver takes up to 4800 (`ZinkosPlugin.cpp:129`): nothing of larger
packets is heard. No run refutes the comment, the model shows only that they are dropped.

### Playback loop

The ring is here the FIFO that `SpscRing` is proved to implement, so a read or a write of
it is one step; a frame is audible or silent. `main` is where the main thread is,
`recv` where the receive thread is. ALSA is external: `alsa` counts what it holds, the
device plays a period at a time while it runs, and runs dry (`xrun`) when nothing is
left; a write of a period waits for room, and the write that reaches
`start_threshold` starts the device. A write may fail for another reason at any
time, which ends the loop. Time is a phase within the second and an age, since the
code subtracts whole seconds.

`Boot` reads the configuration and writes the status. `WriteStatus` is any write of it: it
gets through, or it fails, silently, and leaves the file as it was or cut short. Nothing
tries again until the next change of mind, and `is_playing` changes all the same. That need
not be rare: the service runs as a user of its own without a `RuntimeDirectory`
(`zinkos-rx.service`), and `ensure_status_dir` fails as silently; then there is no file at
all. `failed` remembers that the last write did not get through. `SetUp` is the socket, ALSA and the
receive thread, any of which but the thread may fail (`SetUpFails`). `Crash` is a process
that is killed anywhere: all its memory goes and the status file stays. `main` is "exited"
after a return of 0 and "down" after any other end; the service manager starts it again
from "down" only.

Two things the source's comments do not say can be seen in it: the threshold is one
period, so that the first pre-fill write already starts the device ("don't auto-start",
`zinkos_rx.c:269`), and the pre-fill may leave less than a period in the ring
("don't drain ring buffer dry", `:299`).

### Volume

`SaveTest`, `SaveOpen`, `SavePrint`, `SaveClose` are `PersistVolumeState` as the file sees
it: the test of the time, `fopen`, which truncates, the formatting of what the volume is
by then, and `fclose`, which writes; `SaveFails` and `CloseFails` are an `fopen` and an
`fclose` that fail. The file first found may hold a level out of range, which the load does
not take (`InRange`). `LoadDefault`, `LoadRead`, `LoadStore` are
`LoadVolumeState`: defaults, the read, and the stores of what was read. `setter` is the
HAL's property thread and `control` the thread of `StartIO` and `StopIO`; the throttle is
`lastSave`, and `Restart` is a coreaudiod that ends anywhere and starts again. A volume
that is not a number is left out: it passes both clamps (`ZinkosPlugin.cpp:517`, `:528`), is
multiplied with, and is refused by the next load as a level out of range is.

### Pacing

Time is host ticks. `owed` is the time since the audio of the last IO cycle ended: a cycle
of `IOFrames` comes when it exceeds `CycleTicks`, at most `MaxIOLate` ticks late. `due` is
the time to the pacer's deadline; it is missed by at most `MaxLate` ticks, and each `Wake`
moves it on by `Duration` from where it was, not from now. `fill` is the ring, `backlog`
what was in it when the target was resolved. `CycleTicks` comes from `ticksPerFrame`,
which `Initialize` cuts to a whole number of ticks, `Duration` from `packet_duration_ms`,
which is cut to whole milliseconds. `KeepsUp` says that the second cut is at least as
generous as the first. `ZeroTimeStamp` is what the HAL reads at any time after `StartIO`
set the anchor; section 5 proves that cycles of `CycleTicks` are what it makes of it.

Three consequences can be read off the model:

- 100 frames are sent every 2 ms, not every 2.083 ("`frames_per_packet / 48000` seconds",
  `docs/latency-analysis.md:23`); the pacer finds the ring empty now and then.
- On a host clock of 1 GHz a frame is 20833.33 ticks and becomes 20833: the HAL then
  delivers slightly more than the pacer sends, `KeepsUp` is false, and the ring slowly
  fills. On Apple silicon (24 MHz, 500 ticks) both are exact.
- With packets of whole milliseconds, audio buffered while the target was being resolved,
  up to a full ring of 100 ms, stays in the ring as latency, which the "~5–8ms" of
  `docs/latency-analysis.md:27` does not count. `BacklogNeverGrows` allows this much and
  no more.

### Property tables

Each switch statement is a table: a set of rows, a row being the selectors that share a
size or an answer. `PluginProperties`, `DeviceProperties` and so on are the first switch,
`PluginSizes` and so on the second, `PluginData` and so on the third, `IsPropertySettable`
and `Taken` what may be and is set. Values are left out except the objects an answer
names. The HAL, which is external, starts with the plug-in and asks every object
that an answer has named, for any property it has, in any scope; `published` may change
between the two calls of one question.

The device's latency is a constant (`ZinkosDevice.cpp:281`): `LatencyOffsetMs`, which
"adds a fixed offset to the latency reported to CoreAudio" (`docs/latency-analysis.md:179`),
is loaded and logged, and nothing else reads it.

### Discovery

`browse` is where the browse thread is in its loop, a callback, or its reconnection; `ctl`
the same for the HAL's control thread. Every load and store of the shared variables
is a step. The address is a plain array that one thread copies into (`ZinkosBrowse.cpp:406`)
and the other reads from: `StartIO` takes only a pointer to it (`ZinkosPlugin.cpp:355`),
loads the port, tests the address, and lets `zinkos_engine_create` copy it. Each copy is two
steps, of the one part and the other in either order, so that an address may be spliced of two.
Time is the state of the grace deadline (`off`, `armed`, `due`). A query is
answered only while its receiver is present: `DNSServiceProcessResult` has no timeout, so
a query for a receiver that left holds the thread. It fails when mDNSResponder goes away,
and, if `Faults` has it, may be refused at any time (`QueryRefused`). `select` may fail
(`SelectFails`), which ends the thread as it stands, "failed": what is shown then stays
shown. `SelectReady` is its return; the callback, with the stop pipe perhaps written to
meanwhile, is `BrowseAdd`, `BrowseRemove` or `ConnectionLost`. There is no thread at all with
a manual IP, or if `Browse_Start` fails, which nothing tries again. mDNSResponder may go away
at any moment, and a new connection may or may not be had on each of the attempts. A new
browse reports all the receivers that are there, in any order. `noticed` is a `PropertiesChanged`
notice the HAL has not acted on, `listed` whether its device list, as it last read it,
holds the device; `BrowseNotify` and `StopNotify` are the notices of the two threads, each
after its store.

## 3. Runs

All the passing runs are exhaustive for their bounds.

| Run | Question | Instance, and why it is enough |
|---|---|---|
| `ring` | is the ring a FIFO under every interleaving? | 4 slots, packets and reads of up to 3 frames, 2 frame values: a full ring, a packet that exactly fits, one that does not, copies that wrap at each position, reads shorter than asked for |
| `driver` | do the handlers keep one stream and agree with the engine? | 2 engines, 2 threads, 2 clients: stop while resolving, teardown, a client that starts while another plays |
| `jitter` | is audio played forwards, once and at its time, is nothing in time skipped, do the counters add up, and does "q" end the process? | 16 numbers from 15 on, 4 packets of 1 to 3 frames of which 3 do not fit, 3 deliveries, one restart, threads that panic, fail or run: wraps, gaps of several packets, repeats, packets split by a pop, underruns and playback after them, a restarted sender behind the cursor |
| `browse` | do the two threads give the engine one receiver's address and port, hide only when due, hide a device whose receivers left, show one whose receivers stay, tell the HAL, and end? | 2 receivers of which any are there at the start, 2 changes of the network or the connection, 2 attempts to reconnect, one IO, one plist edit, queries that fail and a select that does: a receiver that leaves and returns within the grace period or after it, one that leaves while another is resolved, one found while `StartIO` reads, a lost mDNSResponder with and without a change |
| `pacing` | does lateness pile up as audio, and is a frame dropped? | packets of 4 and 5 frames at 2 frames and 4 ticks per millisecond, so one packet is whole milliseconds and one is cut; cycles of 3 frames up to 2 ticks late, a network thread up to 9 ticks late, which is more than a packet; a ring of 18, which some backlogs fill |
| `volume` | is the last volume saved by StopIO, is a reload unheard, is no volume invented? | volumes below, inside and above the range, a grain of 2 in 8: a rounded volume, a file out of range, saves that fail at either end, race each other or are cut off |
| `properties` | do the four tables and the accounts of ownership agree? | every object, selector and scope there is; the publication may change at any moment |
| `playback` | does playback start filled, recover, tell idle from playing, and exit, and does the status outlive a crash wrongly? | ring of 3, period of 2, ALSA buffer of 2 periods, packets of 1 or 2 frames, a timeout of 1 or 2 seconds of 2 ticks, one crash anywhere, any number of failed starts and of failed writes of the status: a period cut short, an underrun in the pre-fill and in the loop, a full ring, an idle time that is not whole seconds |

Sequence numbers are compared by distance, so 16 of them behave as 2^32 do as long
as the packets of a run span less than half of the space; section 5 has the proof of
this. Two reconnect attempts instead of ten tell apart the last attempt from the
others. Two receivers suffice since the code keeps one address and one port.

Deadlock is not checked where the modelled system may stop: the last client stopped, the
bounds on engines, packets or changes used up. It is checked in `ring`, `pacing`,
`volume`, `playback` and `properties`, which never stop. The liveness properties cover
what must not hang.

### What fails

Four runs state what a comment, a document or a test says, and TLC finds that the code
does otherwise. Each is in `findings` with its line.

| Run | What the code does |
|---|---|
| `stop_refused` | `StopIO` while the target is being resolved: `stop()` fails, is ignored, and the thread goes on to stream after "streaming stopped" (a later `StartIO` destroys the engine the same way, and the thread outlives it) |
| `io_hides_receiver` | `StopIO` hides a receiver that came back between its test and its store, and nothing shows it again |
| `receiver_stays_down` | when the ALSA device fails for good the C receiver ends with exit code 0, so that "Restart=on-failure" does not restart it |
| `volume_lost` | a change within 500 ms of the last save is written by nothing but `StopIO`: the next `StartIO`, or a restart before it, brings the older volume back |

The passing properties are stated around these, and their exemptions say what the code
does not give:

- `OneStream` and `IoMatchesEngine` allow an engine whose failed `stop()` was ignored
  (`ignored` remembers it) and nothing else.
- `PlaysForward`, `SkipsOnlyRepeats`, `NewestIsKept` and `StatsAddUp` are stated of a sender
  that has not restarted; `KeepsTime` holds with one too. The jitter buffer refuses the
  packets of a restarted sender as late until their numbers reach those of the old one
  (`jitter_buffer.rs:115`, `:140`); no document says that it should not. Once the cursor
  has moved to a restarted sender's numbers, a late repeat of the old stream may be ahead of
  it and be played a second time, so that the counters no longer add up.
- One thread sends per engine is stated of the driver, which never starts a started
  engine. Of any client it is false: `start()` is documented as idempotent
  (`state_machine.rs:64`), but called twice it spawns a second thread, and `stop()`
  joins one of the two.
- `KeepsTime` is of packets of the default size: the silence for a lost packet has that
  length whatever was sent, so audio behind a loss comes early or late with any other.
- `QuitEnds` says nothing of a process nobody quits: if one thread has ended, the other
  goes on alone, and `main` waits for it.
- `VolumeSurvives` is what `volume_lost` refutes; `SavedWhenStopped` is what holds. It exempts what the user sets after `StopIO` began, a save that fails, and a
  save of the property thread that had printed before the last `StartIO` reloaded and is
  written out after this `StopIO` began (`PrintIsCurrent`): the file then holds what it had
  printed.
- `ExitEndsIfFed` and `FailureRestarts` need a packet: `main` joins a thread that is
  blocked in `recv`.
- `GoesIdle`, `AudioIsShown` and `IdleNotEarly` are of `is_playing` and of the file. The file
  is exempt while its last write is one that failed: it then says what it said, until the
  receiver changes its mind again and that write gets through. `is_playing` has no exemption.
- `GoesIdle` does not say that a killed receiver is called idle before it is started
  again; until then its file says what it last said.
- `StartsFilled` exempts a pre-fill whose write failed, since its period is lost.
- `ReceiverIsShown` holds while IO is never started (`ShownWithoutIO`), and is what
  `io_hides_receiver` refutes with IO. It is stated of all receivers being there for good,
  since any one that leaves hides the device, whichever was discovered
  (`ZinkosBrowse.cpp:348`); and it exempts a browse thread that gave up after its
  attempts, and one whose last query failed, which nothing repeats.
- `HidesOnlyWhenDue` is about the browse thread: `StopIO` hides a device with no receiver
  at once, grace period or not. It does not mention IO: the browse thread hides the device
  while IO runs too, as `docs/overview.md` says and the header of `ZinkosBrowse.cpp`
  denies.
- A `select` that fails for good (`ZinkosBrowse.cpp:243`) ends the browse thread with the
  device as it is: shown, it stays shown whatever leaves. `DeadDeviceGoes` and
  `ReceiverIsShown` exempt this end (`browse = "failed"`); nothing in the code mends it.
- `DeadDeviceGoes` and `ReleaseReturns` exempt `Waiting`: a receiver that leaves
  before it answers the resolve holds the browse thread.
- `TargetIsOnes` says that an address comes with a port and that both are one receiver's,
  unless a discovery was half stored while `StartIO` read them (`torn`): the code can then
  give the engine one receiver's port and another's address, or an address spliced of two.
  It was half stored if the second receiver's port was in and its address not yet, or, since
  the flag of the first stays up, not ever: its address query failed.
- `BacklogNeverGrows` and `NothingDropped` assume `KeepsUp` and, of the ring, room for the
  backlog and `InStep`.
- `AnswersFit` allows the list of devices to differ from the size given before it, when the
  publication changed in between.

## 4. Fairness

- `SpscRing`: a `memcpy` that began ends and its index is stored; playback keeps
  reading. The writer need not write.
- `EngineLifecycle`: each network thread keeps running, so a name resolution ends (it
  has its own timeout), and a pacer's deadline comes; the control thread goes on inside
  a call it began. Nobody has to call anything, and the audio thread has no fairness.
- `DriverIO`: also, a handler that began goes on to its next engine call.
- `JitterStream`: `pop_frames` goes on while it holds the mutex; a thread comes round to
  its test of the flag, since the read has a timeout of 100 ms and the sink's write is
  taken to return; `main` goes on when a join returns. The network and the user owe
  nothing.
- `ReceiverPlayback`: both threads run, the device plays what it was given, time
  passes; a process that is down is started again (`RestartSec=2`, and no more than the
  five starts in ten seconds that systemd allows). No packet has to come, and no failure;
  `ExitEndsIfFed` and `FailureRestarts` assume in their own statements that packets keep
  coming.
- `VolumeState`, `Pacing`, `PropertyTables`: none, they have safety properties only.
  `Pacing` bounds lateness instead: time does not pass once a thread is as late as it may
  be.
- `BonjourBrowse`: the browse thread and a handler run, the grace deadline passes, and the
  HAL acts on a notice. Receivers, mDNSResponder and the user owe nothing, nor does the
  HAL start or stop IO; nor does a query have to be answered, since the action is disabled
  when its receiver is gone. A `select` or a query may fail at any time and need not.

All of it is weak fairness: each step of a thread, once possible, stays
possible until the thread takes it, or, for `NetCheck` and `Joined`, is decided by a flag
that does not flip back while the thread waits.

## 5. Proofs

TLAPS checks these for every value of the constants.

**Frame ring** (`SpscRingProofs`, from `RingAssumption`: more than one slot,
non-empty packets and reads). `NoWrapOntoReader`, `FetchedInOrder`, `NoOverwrite`,
`NoOverlap`, and that the ring implements `BoundedFifo`. `NoOverlap` alone is not
inductive: it says nothing of what the reader will do to `rpos`. The inductive
invariant `IInv` says what a stale decision is worth: the writer's packet still
fits (`NoWrapOntoReader`), the reader's frames are still the oldest published ones
(`FetchedInOrder`), the writer's stored prefix is still there (`StoredInOrder`), and a
thread outside its call holds nothing (`IdleHoldsNothing`). The other thread can only make
room or add frames, which disturbs none of these. Two lemmas carry the
arithmetic: what `Used` and `Advance` are on either side of the wrap, and that `Slot` is
one-to-one over less than `N` frames. The refinement maps the queue to the slots from
`rpos` to `wpos`; a copied frame is a stutter, a store of an index is `Put` or `Get`.
`ReleaseIsNear` is what `OldestIsReleased` rests on: the slot of the oldest unread frame is
released after at most `MaxRead + 3` steps of playback (`StepsToRelease`); each of them
takes it nearer and no step of the writer takes it further.

**Driver and engine** (`DriverIOProofs`, from `EngineAssumption`, for any number of
engines, threads and clients). `TypeOK` with the driver's engine always a live one,
`StoppedMeansQuiet`, `OneStream`, `IoMatchesEngine` and `LegalTransitions`, which no run
repeats. None of them is inductive by itself, since between two calls of a handler the
engine and the flag disagree. The inductive invariant follows the script: `ScriptOK` says
which suffixes of a handler can be left and what holds of the engine before each; `CallOK`
where the control thread is; `FreshOK` that an engine or thread not yet created has left
no trace; `LiveOK` that an engine once dropped has no handle; `ThreadOK` that a living
thread is the one its engine can join, or that engine's `stop()` was refused; `StepOK`
what the stop flag and the state are while a stop is under way. There is a lemma for each
action. `JoinIsShort` is what `HandlersReturn` rests on: a thread that is joined has ended
or will see the stop flag, and none is joined while it resolves a name, which nothing
bounds. It needs that a handle is its own engine's (`HandleOK`), that an engine is starting
while its thread resolves (`ResolveOK`), and that the flag stays set (`FlagOK`).

**Sequence numbers** (`JitterStreamProofs`, from `NumSpaceAssumption`: at least 4
numbers). `seq_before` never holds both ways; two packets sent fewer than half of
the space apart are ordered as sent, across the wrap too; a successor comes
after. This is what makes a small number space a sound instance.

**Rust receiver** (`JitterStreamProofs`, from `StreamAssumption`, `JitterAssumption` and
`NumSpaceAssumption`, for any stream, network and packet sizes). `TypeCorrect`;
`PlayedInOrder`, `OnlyRepeatsSkipped`, `NewestKept` and `StatisticsAddUp` are the four
properties of a sender that has not restarted. The code compares wrapping numbers, the
properties compare ids, and the inductive invariant `OrderOK` relates the two: there is a
number `f` that the stream began with and a place `c` of the cursor in it such that every
waiting packet bears the number its id gives it (`Numbered`), the cursor the number of `c`
(`CursorAt`), the buffer is in the order of ids (`Sorted`), all that was heard is behind `c`
(`HeardBehind`), and so is the frame heard last, unless the rest of its packet is at the
front of the buffer (`LastBehind`); `AllCounted` is the account. Numbers say what ids say
only where two packets compared are less than half the number space apart. Nothing in the
code sees to that, and without it all four are false, so the theorems have it as their
hypothesis: `NothingStale`, nothing is held back while half the number space is sent, which
is 124 days at a packet every 5 ms. `ShortStream` proves the hypothesis of every stream that
is not longer than this (`MaxPackets < HalfRange`, which the run's instance satisfies).
`TimeKept` needs no such thing, but that playback asks for whole packets' time, as
`main.rs:111` does; its invariant is `EvenOK`. `PopFinishes` is what `QuitEnds` rests on:
a `pop_frames` that holds the mutex can always take its next turn, and each turn uses up
frames owed or packets.

**Pacing** (`PacingProofs`, from `PacingAssumption`: a packet of at least a millisecond, a
clock with at least a tick per frame, for all sizes and bounds on lateness).
`BacklogNeverGrows` and `NothingDropped` are not inductive, since nothing in them says how
a late thread catches up. The inductive invariant is an account in ticks of audio: what is
in the ring, what is owed by the HAL and the time to the deadline are together at most the
backlog, a cycle, its lateness and a packet's duration. A tick moves one from `due` to
`owed`, an IO cycle moves `CycleTicks` from `owed` to the ring at most, a wake-up adds
`Duration` to `due` and takes a packet, which lasts at least as long (`KeepsUp`), or
empties the ring. `ExactClockKeepsUp` proves this premise wherever a millisecond is a
whole number of frames' ticks. `TimeStampIsLatest` and `TimeStampsAreSteady` are about
`GetZeroTimeStamp`: the two roundings leave a timestamp that is less than a period old, and
timestamps lie on one line, so the HAL sees cycles of `CycleTicks` without drift.

**Discovery** (`BonjourBrowseProofs`, from `BrowseAssumption`, for any receivers and any
number of changes, edits, attempts and starts). `TargetIsOnes` (`TargetIsPaired`) and
`HidesOnlyWhenDue` hold because of the order of the browse thread's own stores: `StoredOK`
says that the port is stored before the address, both before the flag, that neither is
erased, and that they are of one receiver unless a discovery is half stored; `ReadOK` what
this leaves of each of `StartIO`'s loads and of either part of its copy; `GraceOK`
that the thread ends the grace period before it resolves, so that one that has run out is
never found with a receiver at hand. `AttemptsOK` bounds the reconnection. The control
thread, the network and the HAL disturb none of these. Three more theorems are what the
liveness properties rest on. `NoticeFollows`, for `ListFollows`: if the HAL's list is out of
date, a notice is there or about to be given. `DepartureIsSeen`, for `DeadDeviceGoes`: when
nobody is left, a shown device has a departure still queued, a grace period, or a thread that
is hiding it, and has not ended, unless a `select` failed or the driver was released; this needs that the last report queued is a departure (`GoneOK`), and that a
lost mDNSResponder takes the device with it (`LostOK`). `FoundIsShown`, for `ShownWithoutIO`:
before IO was started, a receiver that was found is shown or about to be; it is the control
thread, and nothing else, that breaks it (`ControlOK`). `ReleaseIsShort`, for
`ReleaseReturns`: `Release` joins only a thread that was told to stop, which has at most
`62 + MaxAttempts` steps to its end (`StepsToExit`). Each of its own steps lowers that bound,
nothing raises it, and it begins no query but for a result it was about to take when it was
told. It may go round its loop once more for a grace period that ran out, which is why the
bound is not simply its place in the loop.

**Volume** (`VolumeStateProofs`, from `VolumeAssumption`: 1.0 and 0.5 are multiples of the
last decimal printed). `SavedWhenStopped` needs to know of every step of both threads' saves
that nothing it depends on is gone. `SettledOK` says that from `StopIO` on, while nothing is
set and no save fails, whatever either thread has printed is what is in use, and that the
file restores it or a save that will see to it is under way (`FileComes`): one past its test
of the time, or `StopIO`'s own before that test, which a save that the property thread
begins meanwhile may throttle, but only by being that save. `FileOK` says that whatever is in the file, in a buffer or on its way back into
memory was printed from a level the user picked, or is the default: it gives
`NeverInvented`, and that what is printed twice does not change. `LoadOK` gives
`GainIsSteady`: the control thread reloads only before `ioRunning` is set. The lemmas on
`Nearest` are the arithmetic of "%.6f".

**Playback loop** (`ReceiverPlaybackProofs`, from `PlaybackAssumption`). `StartsFilled` is
not inductive, because the pre-fill holds a period in hand between the ring and ALSA, which
`PrefillOK` counts. The types say that the ring and ALSA's buffer are never given more than
they hold; `WholePeriods` is needed for ALSA's, `AgeOK` for the age, since each start may
read another timeout. `IdleNotEarly` is an inequality between whole seconds and ticks
(`ElapsedBound`). `WritesAreServed` is what `WritesReturn` rests on: a write that has no room
has a device that plays or one that will be recovered, since a device runs exactly while it
holds audio (`DeviceOK`). `StatusFileAgrees` is what `GoesIdle` and `AudioIsShown` say of the file: unless the last
write of it failed, and except from a crash to the next start, it says what `is_playing`
says. The next two are of `is_playing`, and need no write to get through.
`IdleIsNotLate` is the other half of `IdleNotEarly`: the first read of silence after the
timeout turns the receiver idle, so that the silence it takes is known to a second.
`AudioIsNext`, for `AudioIsShown`: each read brings what was received a period nearer to
playback, nothing passes it over, and the read that reaches it sets `is_playing`, and the file if it can be written.
`ExitIsHeard`, for `ExitEndsIfFed`: `main` joins a thread that exists and whose flag is down
(`ThreadOK`), and that only goes from `recv` to its test and from there to its end.

**Property tables** (`PropertyTablesProofs`, without assumptions). The run is exhaustive for
the tables as they are; the proof says which rows `TypeOK`, `AnswersFit` and `OwnersAgree`
rest on, and so what a selector that is added has to keep: a row in both tables of its object
(`SizeRow`, `AnswerRow`), with the same number of bytes (`PluginFits`, `DeviceFits`,
`StreamFits`, `ControlFits`, `AllFit`), a room that cuts nothing off (`CutWhole`), and,
outside the list of devices, no dependence on the publication (`SizeStays`). The inductive
invariant adds that what was announced is still what would be announced (`AnnouncedOK`), and
that the HAL knows the device before it knows anything of the device's (`KnownOK`).

Only model-checked:

- Every liveness property (`OldestIsReleased`, `HandlersReturn`, `QuitEnds`,
  `ShownWithoutIO`, `DeadDeviceGoes`, `ListFollows`, `ReleaseReturns`, `GoesIdle`,
  `AudioIsShown`, `WritesReturn`, `ExitEndsIfFed`): fairness and `ENABLED` are out of this
  prover's reach. Of each of them the safety half is proved, as said above: what they
  wait for is on its way, and where a bound on the steps is proved, not far. That it arrives
  is TLC's to show.
- That the code may do what the violation runs show: a counterexample is found, not proved.

## 6. Not modelled

- The wire format and the setup app: planned below.
- A period that does not fit in `main`'s buffer of 1024 frames (`zinkos_rx.c:287`):
  undefined behaviour, excluded by the model's `Period`.
- A volume that is not a number, see section 2.
- An IO cycle that is between its test of `ioRunning` and its use of the volume
  (`ZinkosPlugin.cpp:458`, `:466`) while `StopIO` and the next `StartIO` run: `GainIsSteady`
  is of `ioRunning`, not of a cycle.
- The drift estimator: floating-point, and no code uses its result.
- The values of most properties, which are constants.
- A `StartIO` under another client's IO sets the timestamps' anchor anew with the same
  seed (`ZinkosPlugin.cpp:383`): what the HAL makes of it is not known.
- ALSA and socket options: I/O without state of its own.
- The Rust receiver's ALSA sink: I/O only, and it does not compile on Linux, where it
  names the undefined `DEFAULT_DEFAULT_FRAMES_PER_PACKET` (`receiver/src/alsa_sink.rs`).
- Scripts, installer and service files; the plist edit is modelled as the user's.
- The `rtrb` queue: a dependency, used for its fill level.

## 7. Plan

Done: the ring, the engine under the driver, discovery, the volume, pacing and timestamps,
the property tables, both receivers from start to exit, and the proofs of section 5. Next,
in this order:

1. `WireFormat`: packet lengths against the receivers' buffers.
2. `SetupApp`: what the app edits, and what the driver has loaded. A manual IP left empty
   ("empty is ok (clears config)", `MenuView.swift:28`) leaves the old one in the plist, and
   "Saved" is shown when the administrator's prompt was cancelled.
3. `Driver`: `DriverIO` with `BonjourBrowse`, so that the address `StartIO` reads is the one
   the engine streams to.

## 8. Running it

    tlc -config SpscRing.cfg SpscRing.tla      # any run: its module and cfg are in PROJECT.json
    tlapm SpscRingProofs.tla                   # and every other module whose name ends in Proofs

`FreeNoGap`, `AddressCut` and the other definitions marked "mutated form" are
changes of the code that break a property; no specification uses them.
