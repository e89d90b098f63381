------------------------------- MODULE DriverIO -------------------------------
(***************************************************************************)
(* The driver around the engine: ZinkosStartIO, ZinkosStopIO and           *)
(* ZinkosDoIOOperation of driver/ZinkosPlugin.cpp.  The HAL (external)     *)
(* calls StartIO and StopIO for each client, one call at a time, and runs  *)
(* IO cycles on its own thread while a client is started; after the last   *)
(* client's StopIO is called it runs no cycle.  A handler is a script of   *)
(* engine calls, each carried out by EngineLifecycle, interleaved with the *)
(* network threads and, with two clients, with an IO cycle.                *)
(***************************************************************************)
EXTENDS EngineLifecycle, Sequences

CONSTANT Client        \* the HAL's clients of the device

VARIABLES
    engine,      \* gDriverState.engine
    ioRunning,   \* gDriverState.ioRunning
    todo,        \* what the handler in progress still has to do
    started,     \* the clients between their StartIO and StopIO
    ignored      \* history: engines whose failed stop() the driver ignored

driverVars == <<engine, ioRunning, todo, started, ignored>>
vars == <<lifecycleVars, driverVars>>

Init ==
    /\ LifecycleInit
    /\ engine = None /\ ioRunning = FALSE
    /\ todo = <<>> /\ started = {} /\ ignored = {}
-------------------------------------------------------------------------------
Quiet == todo = <<>> /\ Idle

\* StartIO: the old engine is torn down, then a new one is created and started
\* if a receiver address is known; without one IO runs with no engine.
StartScript(addressKnown) ==
    CASE engine = None /\ addressKnown -> <<"create", "start", "run">>
      [] engine = None /\ ~addressKnown -> <<"run">>
      [] engine # None /\ addressKnown -> <<"stop", "destroy", "create", "start", "run">>
      [] engine # None /\ ~addressKnown -> <<"stop", "destroy", "run">>

StartIO(c, addressKnown) ==
    /\ Quiet
    /\ c \notin started
    /\ live \cup dropped # Engine  \* bound
    /\ started' = started \cup {c}
    /\ todo' = IF ioRunning THEN <<>> ELSE StartScript(addressKnown)
    /\ UNCHANGED <<lifecycleVars, engine, ioRunning, ignored>>

StopScript == IF engine = None THEN <<"halt">> ELSE <<"stop", "halt">>

\* StopIO stops the engine, whichever client called it.
StopIO(c) ==
    /\ Quiet
    /\ c \in started
    /\ started = {c} => rt = RtIdle
    /\ started' = started \ {c}
    /\ todo' = IF ioRunning THEN StopScript ELSE <<>>
    /\ UNCHANGED <<lifecycleVars, engine, ioRunning, ignored>>

Upcoming(step) == Idle /\ todo # <<>> /\ Head(todo) = step /\ todo' = Tail(todo)

DoStop ==
    /\ Upcoming("stop")
    /\ StopRefused(engine) \/ StopAccepted(engine, "stop")
    /\ ignored' = IF state[engine] = "Starting" THEN ignored \cup {engine} ELSE ignored
    /\ UNCHANGED <<engine, ioRunning, started>>

DoDestroy ==
    /\ Upcoming("destroy")
    /\ DestroyAtOnce(engine) \/ StopAccepted(engine, "destroy")
    /\ engine' = None
    /\ UNCHANGED <<ioRunning, started, ignored>>

DoCreate ==
    /\ Upcoming("create")
    /\ \E e \in Engine : Create(e) /\ engine' = e
    /\ UNCHANGED <<ioRunning, started, ignored>>

DoStart ==
    /\ Upcoming("start")
    /\ StartAccepted(engine)
    /\ UNCHANGED <<engine, ioRunning, started, ignored>>

SetRunning ==
    /\ Upcoming("run") \/ Upcoming("halt")
    /\ ioRunning' = (Head(todo) = "run")
    /\ UNCHANGED <<lifecycleVars, engine, started, ignored>>

Handler == DoStop \/ DoDestroy \/ DoCreate \/ DoStart \/ SetRunning
-------------------------------------------------------------------------------
\* DoIOOperation writes a cycle's frames while the driver says it is running.
\* The HAL runs cycles for the clients started, and lets a StartIO return first.
DoIOOperation ==
    /\ started # {} /\ (Quiet \/ Cardinality(started) > 1)
    /\ engine # None /\ ioRunning
    /\ RtCheck(engine)
    /\ UNCHANGED driverVars

EngineStep == ControlSteps \/ RtSteps \/ \E t \in Thread : NetStep(t)

Next ==
    \/ \E c \in Client : StopIO(c) \/ \E known \in BOOLEAN : StartIO(c, known)
    \/ Handler
    \/ DoIOOperation
    \/ EngineStep /\ UNCHANGED driverVars

Spec == Init /\ [][Next]_vars

\* coreaudiod runs a handler to its end and its IO thread finishes a cycle.
FairSpec == /\ Spec
            /\ WF_vars(Handler)
            /\ WF_vars(StopSignal /\ UNCHANGED driverVars)
            /\ WF_vars(StopFinish /\ UNCHANGED driverVars)
            /\ WF_vars(DestroyFinish /\ UNCHANGED driverVars)
            /\ WF_vars((\E t \in Thread : StartSpawn(t)) /\ UNCHANGED driverVars)
            /\ \A t \in Thread : WF_vars(NetStep(t) /\ UNCHANGED driverVars)
-------------------------------------------------------------------------------
TypeOK ==
    /\ LifecycleTypeOK
    /\ engine \in live \cup {None}
    /\ ioRunning \in BOOLEAN
    /\ todo \in Seq({"stop", "destroy", "create", "start", "run", "halt"})
    /\ started \subseteq Client
    /\ ignored \subseteq Engine

\* At most one network thread streams: any thread but the one the current
\* engine can join belongs to an engine whose failed stop() was ignored
\* (ZinkosPlugin.cpp:344, :398).
OneStream ==
    \A t \in Thread : Alive(t) =>
        owner[t] \in ignored \/ (owner[t] = engine /\ handle[engine] = t)
                            \/ (owner[t] = call.eng /\ handle[call.eng] = t)

\* Between handlers the flag ioRunning and the engine agree: while IO runs the
\* engine takes audio, and once it is stopped the engine takes none, unless
\* its stop() failed.
IoMatchesEngine ==
    Quiet /\ engine # None =>
        /\ ioRunning => Accepting(engine)
        /\ ~ioRunning /\ Accepting(engine) => engine \in ignored

\* StartIO and StopIO return: the join inside them always ends.
HandlersReturn == ~Quiet ~> Quiet

\* "ZinkosStopIO: streaming stopped" (ZinkosPlugin.cpp:413): when StopIO has
\* returned, no network thread is left to send what is in a ring.
StreamingStopped == Quiet /\ ~ioRunning => \A t \in Thread : ~Alive(t)
===============================================================================
