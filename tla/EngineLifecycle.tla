---------------------------- MODULE EngineLifecycle ----------------------------
(***************************************************************************)
(* The streaming engine of engine/src: ffi.rs (ZinkosEngine and its C API) *)
(* driving state_machine.rs and one network thread per start().            *)
(*                                                                         *)
(* Three kinds of thread meet here.  The control thread calls create,      *)
(* start, stop and destroy; the audio thread calls write_frames; a network *)
(* thread resolves the target (UdpSender::new, which may block in DNS),    *)
(* marks the engine running and then sends what the ring holds.  They      *)
(* share the atomic state, the stop flag and the two ends of the ring.     *)
(* Engines and threads are numbered so that a thread can be seen to        *)
(* outlive its engine.  The module has no Next of its own: DriverIO adds   *)
(* the caller.                                                             *)
(***************************************************************************)
EXTENDS Integers, FiniteSets

CONSTANTS Engine,        \* bound: the engines ever created
          Thread,        \* bound: the network threads ever spawned
          None,          \* no engine, no thread
          RingFrames,    \* ring_buffer_frames: capacity of an engine's ring
          PacketFrames,  \* frames_per_packet
          MaxWrite       \* bound: frames in one audio callback

ASSUME EngineAssumption ==
    /\ None \notin Engine /\ None \notin Thread
    /\ RingFrames \in Nat \ {0}
    /\ PacketFrames \in Nat \ {0}
    /\ MaxWrite \in Nat \ {0}

State == {"Stopped", "Starting", "Running", "Stopping"}

VARIABLES
    live,       \* engines created and not yet dropped
    dropped,    \* engines destroyed
    state,      \* StateMachine.state of each engine
    netStop,    \* ZinkosEngine.net_stop
    handle,     \* ZinkosEngine.net_thread: the thread it can still join
    producer,   \* ZinkosEngine.producer: the thread that reads this ring's other end
    net,        \* where each network thread is
    owner,      \* the engine whose state and stop flag a thread shares
    fill,       \* frames in each thread's ring
    call,       \* the engine call the control thread is inside
    result,     \* what its last call returned: 0 or -1
    rt          \* the audio thread inside write_frames

engineVars == <<live, dropped, state, netStop, handle, producer>>
netVars == <<net, owner, fill>>
callVars == <<call, result>>
lifecycleVars == <<engineVars, netVars, callVars, rt>>

NoCall == [op |-> "none", at |-> "none", eng |-> None]
RtIdle == [at |-> "idle", eng |-> None]
Alive(t) == net[t] \in {"resolving", "check", "send"}

LifecycleInit ==
    /\ live = {} /\ dropped = {}
    /\ state = [e \in Engine |-> "Stopped"]
    /\ netStop = [e \in Engine |-> FALSE]
    /\ handle = [e \in Engine |-> None]
    /\ producer = [e \in Engine |-> None]
    /\ net = [t \in Thread |-> "unborn"]
    /\ owner = [t \in Thread |-> None]
    /\ fill = [t \in Thread |-> 0]
    /\ call = NoCall /\ result = 0
    /\ rt = RtIdle

\* StateMachine::transition: compare-and-exchange; a failed one changes nothing.
Transition(e, from, to) ==
    state' = IF state[e] = from THEN [state EXCEPT ![e] = to] ELSE state

\* StateMachine::is_accepting_audio.
AcceptingRunning(e) == state[e] = "Running"  \* mutated form: silence until DNS has answered
Accepting(e) == state[e] \in {"Starting", "Running"}
--------------------------------------------------------------------------------
(* The control thread. *)

Idle == call = NoCall

\* zinkos_engine_create.
Create(e) ==
    /\ Idle
    /\ e \notin live \cup dropped
    /\ live' = live \cup {e}
    /\ UNCHANGED <<dropped, state, netStop, handle, producer, netVars, callVars, rt>>

\* start() goes on from Stopped, and also when the engine is already started.
\* It refuses only while Stopping, a state that ends inside the stop() that
\* entered it, so the control thread never meets it here.
StartAccepted(e) ==
    /\ Idle /\ e \in live
    /\ \E t \in Thread : net[t] = "unborn"  \* bound
    /\ Transition(e, "Stopped", "Starting")
    /\ call' = [op |-> "start", at |-> "spawn", eng |-> e]
    /\ UNCHANGED <<live, dropped, netStop, handle, producer, netVars, result, rt>>

\* A new ring, the stop flag cleared, a new thread and its handle.
StartSpawn(t) ==
    /\ call.op = "start" /\ call.at = "spawn"
    /\ net[t] = "unborn"
    /\ LET e == call.eng
       IN  /\ producer' = [producer EXCEPT ![e] = t]
           /\ netStop' = [netStop EXCEPT ![e] = FALSE]
           /\ handle' = [handle EXCEPT ![e] = t]
           /\ owner' = [owner EXCEPT ![t] = e]
    /\ net' = [net EXCEPT ![t] = "resolving"]
    /\ call' = NoCall
    /\ result' = 0
    /\ UNCHANGED <<live, dropped, state, fill, rt>>

\* The engine's Box is dropped: its ring end goes, its thread is detached.
Drop(e) ==
    /\ live' = live \ {e}
    /\ dropped' = dropped \cup {e}
    /\ producer' = [producer EXCEPT ![e] = None]
    /\ handle' = [handle EXCEPT ![e] = None]

\* stop() fails from Starting: the network thread is not ready yet.
StopRefused(e) ==
    /\ Idle /\ e \in live
    /\ state[e] = "Starting"
    /\ result' = -1
    /\ UNCHANGED <<engineVars, netVars, call, rt>>

\* destroy ignores that failure and drops the engine as it is; a stopped
\* engine is dropped at once.
DestroyAtOnce(e) ==
    /\ Idle /\ e \in live
    /\ state[e] \in {"Starting", "Stopped"}
    /\ Drop(e)
    /\ UNCHANGED <<state, netStop, netVars, callVars, rt>>

\* stop(), called by op, passes the state machine ...
StopAccepted(e, op) ==
    /\ Idle /\ e \in live
    /\ state[e] # "Starting"
    /\ op = "destroy" => state[e] # "Stopped"
    /\ Transition(e, "Running", "Stopping")
    /\ call' = [op |-> op, at |-> "signal", eng |-> e]
    /\ UNCHANGED <<live, dropped, netStop, handle, producer, netVars, result, rt>>

\* ... sets net_stop ...
StopSignal ==
    /\ call.at = "signal"
    /\ netStop' = [netStop EXCEPT ![call.eng] = TRUE]
    /\ call' = [call EXCEPT !.at = "join"]
    /\ UNCHANGED <<live, dropped, state, handle, producer, netVars, result, rt>>

\* The thread whose handle engine e holds has ended, or there is none to join.
JoinedAtOnce(e) == TRUE  \* mutated form: the join is skipped
Joined(e) == handle[e] # None => net[handle[e]] = "exited"

\* ... waits for the thread, frees its ring end and marks the engine stopped.
StopFinish ==
    /\ call.op = "stop" /\ call.at = "join"
    /\ LET e == call.eng
       IN  /\ Joined(e)
           /\ handle' = [handle EXCEPT ![e] = None]
           /\ producer' = [producer EXCEPT ![e] = None]
           /\ Transition(e, "Stopping", "Stopped")
           /\ result' = IF state[e] = "Stopping" THEN 0 ELSE -1
    /\ call' = NoCall
    /\ UNCHANGED <<live, dropped, netStop, netVars, rt>>

\* The same inside destroy, which then drops the engine.
DestroyFinish ==
    /\ call.op = "destroy" /\ call.at = "join"
    /\ Joined(call.eng)
    /\ Transition(call.eng, "Stopping", "Stopped")
    /\ Drop(call.eng)
    /\ call' = NoCall
    /\ UNCHANGED <<netStop, netVars, result, rt>>

ControlSteps == StopSignal \/ StopFinish \/ DestroyFinish \/ \E t \in Thread : StartSpawn(t)
--------------------------------------------------------------------------------
(* Network threads. *)

\* UdpSender::new succeeds: the thread marks the engine running and enters its loop.
NetReady(t) ==
    /\ net[t] = "resolving"
    /\ Transition(owner[t], "Starting", "Running")
    /\ net' = [net EXCEPT ![t] = "check"]
    /\ UNCHANGED <<live, dropped, netStop, handle, producer, owner, fill, callVars, rt>>

\* UdpSender::new fails: it still marks the engine running, then ends.
NetFail(t) ==
    /\ net[t] = "resolving"
    /\ Transition(owner[t], "Starting", "Running")
    /\ net' = [net EXCEPT ![t] = "exited"]
    /\ UNCHANGED <<live, dropped, netStop, handle, producer, owner, fill, callVars, rt>>

\* The loop reads the stop flag before each packet, and only there.
StopSeenNever(t) == FALSE  \* mutated form: the loop ignores net_stop
StopSeen(t) == netStop[owner[t]]

NetCheck(t) ==
    /\ net[t] = "check"
    /\ net' = [net EXCEPT ![t] = IF StopSeen(t) THEN "exited" ELSE "send"]
    /\ UNCHANGED <<engineVars, owner, fill, callVars, rt>>

\* After pacer.wait, up to a packet of frames leaves the ring and is sent.
SendableFull(t) == PacketFrames  \* mutated form: a packet is always full
Sendable(t) == IF fill[t] < PacketFrames THEN fill[t] ELSE PacketFrames

NetSend(t) ==
    /\ net[t] = "send"
    /\ fill' = [fill EXCEPT ![t] = @ - Sendable(t)]
    /\ net' = [net EXCEPT ![t] = "check"]
    /\ UNCHANGED <<engineVars, owner, callVars, rt>>

NetStep(t) == NetReady(t) \/ NetFail(t) \/ NetCheck(t) \/ NetSend(t)
--------------------------------------------------------------------------------
(* The audio thread: write_frames tests the state, then uses the ring. *)

RtCheck(e) ==
    /\ rt = RtIdle
    /\ Accepting(e)
    /\ rt' = [at |-> "push", eng |-> e]
    /\ UNCHANGED <<engineVars, netVars, callVars>>

\* Frames that do not fit are dropped; without a ring nothing is written.
RtPush(n) ==
    /\ rt.at = "push"
    /\ rt' = RtIdle
    /\ LET t == producer[rt.eng]
           room == RingFrames - fill[t]
       IN  fill' = IF t = None THEN fill
                   ELSE [fill EXCEPT ![t] = @ + (IF n < room THEN n ELSE room)]
    /\ UNCHANGED <<engineVars, net, owner, callVars>>

RtSteps == \E n \in 1 .. MaxWrite : RtPush(n)
--------------------------------------------------------------------------------
LifecycleTypeOK ==
    /\ live \subseteq Engine /\ dropped \subseteq Engine /\ live \cap dropped = {}
    /\ state \in [Engine -> State]
    /\ netStop \in [Engine -> BOOLEAN]
    /\ handle \in [Engine -> Thread \cup {None}]
    /\ producer \in [Engine -> Thread \cup {None}]
    /\ net \in [Thread -> {"unborn", "resolving", "check", "send", "exited"}]
    /\ owner \in [Thread -> Engine \cup {None}]
    /\ fill \in [Thread -> 0 .. RingFrames]
    /\ call \in [op : {"none", "start", "stop", "destroy"},
                 at : {"none", "spawn", "signal", "join"}, eng : Engine \cup {None}]
    /\ result \in {0, -1}
    /\ rt \in [at : {"idle", "push"}, eng : Engine \cup {None}]

\* A stopped engine has no network thread left: whoever saw stop() succeed, or
\* the state Stopped, sees no packet sent afterwards (ffi.rs:64-75).
StoppedMeansQuiet ==
    \A t \in Thread : Alive(t) => state[owner[t]] # "Stopped"

\* The states follow the diagram of state_machine.rs:26-27, one at a time, under
\* every interleaving of the control thread with the network threads.
LegalMoves == {<<"Stopped", "Starting">>, <<"Starting", "Running">>,
               <<"Running", "Stopping">>, <<"Stopping", "Stopped">>}
LegalTransitions ==
    [][\A e \in Engine : state'[e] # state[e] => <<state[e], state'[e]>> \in LegalMoves]_state
================================================================================
