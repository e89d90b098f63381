---------------------------- MODULE DriverIOProofs ----------------------------
(***************************************************************************)
(* DriverIO for every number of engines, threads and clients: the engine's *)
(* states follow their diagram, a stopped engine sends nothing, and the    *)
(* only threads the driver cannot join are those of engines whose failed   *)
(* stop() it ignored.  The invariant follows the script of the handler in  *)
(* progress: what each step may take for granted is what the steps before  *)
(* it established, whatever the network threads did in between.            *)
(***************************************************************************)
EXTENDS DriverIO, TLAPS

Scripts ==
    {<<>>, <<"run">>, <<"halt">>, <<"stop", "halt">>,
     <<"start", "run">>, <<"create", "start", "run">>,
     <<"destroy", "run">>, <<"stop", "destroy", "run">>,
     <<"destroy", "create", "start", "run">>,
     <<"stop", "destroy", "create", "start", "run">>}

ScriptOK == todo \in Scripts
StepOf(s) == IF s = <<>> THEN "none" ELSE Head(s)
NextStep == StepOf(todo)

\* The call in progress is on an engine the driver holds or is destroying.
CallOK ==
    /\ call = NoCall \/
       /\ call.eng \in live
       /\ \/ call.op = "start" /\ call.at = "spawn" /\ state[call.eng] = "Starting"
             /\ NextStep = "run" /\ engine = call.eng
          \/ call.op = "stop" /\ call.at \in {"signal", "join"}
             /\ state[call.eng] \in {"Stopping", "Stopped"}
             /\ NextStep \in {"halt", "destroy"} /\ engine = call.eng
          \/ call.op = "destroy" /\ call.at \in {"signal", "join"}
             /\ state[call.eng] \in {"Stopping", "Stopped"}
             /\ NextStep \in {"create", "run"} /\ engine = None

\* An engine that does not exist yet is as ZinkosEngine::new will leave it.
FreshOK == \A e \in Engine \ (live \cup dropped) : state[e] = "Stopped"

\* Every engine there is, is the driver's or being destroyed.
LiveOK == \A e \in live : e = engine \/ e = call.eng

\* A network thread: its engine is started; a live engine can join it; a
\* dropped one was given up on; an engine about to spawn has none.
ThreadOK ==
    \A t \in Thread : Alive(t) =>
        /\ owner[t] \in live \cup dropped
        /\ state[owner[t]] # "Stopped"
        /\ owner[t] \in live => handle[owner[t]] = t
        /\ owner[t] \in dropped => owner[t] \in ignored
        /\ call.op = "start" => owner[t] # call.eng

\* What the next step of the handler relies on.
StepOK ==
    Idle =>
        /\ NextStep = "create" => engine = None
        /\ NextStep = "start" => engine \in live /\ state[engine] = "Stopped"
        /\ NextStep = "destroy" => engine \in live
                                /\ (state[engine] = "Stopped" \/ engine \in ignored)
        /\ NextStep = "run" /\ engine # None => Accepting(engine)
        /\ NextStep = "halt" /\ engine # None /\ Accepting(engine) => engine \in ignored
        /\ NextStep = "none" /\ engine # None =>
              /\ ioRunning => Accepting(engine)
              /\ ~ioRunning /\ Accepting(engine) => engine \in ignored

IInv == TypeOK /\ ScriptOK /\ CallOK /\ FreshOK /\ LiveOK /\ ThreadOK /\ StepOK
-------------------------------------------------------------------------------
\* What is left of a script is a script, and which step follows which.
LEMMA ScriptSteps ==
    ASSUME NEW s \in Scripts
    PROVE  /\ s = <<>> <=> StepOf(s) = "none"
           /\ s # <<>> => Tail(s) \in Scripts
           /\ StepOf(s) = "stop" => StepOf(Tail(s)) \in {"halt", "destroy"}
           /\ StepOf(s) = "destroy" => StepOf(Tail(s)) \in {"create", "run"}
           /\ StepOf(s) = "create" => StepOf(Tail(s)) = "start"
           /\ StepOf(s) = "start" => StepOf(Tail(s)) = "run"
           /\ StepOf(s) \in {"run", "halt"} => StepOf(Tail(s)) = "none"
<1>0. CASE s = <<>>
  BY <1>0 DEF StepOf
<1>1. CASE s = <<"run">>
  <2>1. Tail(s) = <<>>
    BY <1>1
  <2> QED  BY <1>1, <2>1 DEF Scripts, StepOf
<1>2. CASE s = <<"halt">>
  <2>1. Tail(s) = <<>>
    BY <1>2
  <2> QED  BY <1>2, <2>1 DEF Scripts, StepOf
<1>3. CASE s = <<"stop", "halt">>
  <2>1. Tail(s) = <<"halt">>
    BY <1>3
  <2> QED  BY <1>3, <2>1 DEF Scripts, StepOf
<1>4. CASE s = <<"start", "run">>
  <2>1. Tail(s) = <<"run">>
    BY <1>4
  <2> QED  BY <1>4, <2>1 DEF Scripts, StepOf
<1>5. CASE s = <<"create", "start", "run">>
  <2>1. Tail(s) = <<"start", "run">>
    BY <1>5
  <2> QED  BY <1>5, <2>1 DEF Scripts, StepOf
<1>6. CASE s = <<"destroy", "run">>
  <2>1. Tail(s) = <<"run">>
    BY <1>6
  <2> QED  BY <1>6, <2>1 DEF Scripts, StepOf
<1>7. CASE s = <<"stop", "destroy", "run">>
  <2>1. Tail(s) = <<"destroy", "run">>
    BY <1>7
  <2> QED  BY <1>7, <2>1 DEF Scripts, StepOf
<1>8. CASE s = <<"destroy", "create", "start", "run">>
  <2>1. Tail(s) = <<"create", "start", "run">>
    BY <1>8
  <2> QED  BY <1>8, <2>1 DEF Scripts, StepOf
<1>9. CASE s = <<"stop", "destroy", "create", "start", "run">>
  <2>1. Tail(s) = <<"destroy", "create", "start", "run">>
    BY <1>9
  <2> QED  BY <1>9, <2>1 DEF Scripts, StepOf
<1> QED  BY <1>0, <1>1, <1>2, <1>3, <1>4, <1>5, <1>6, <1>7, <1>8, <1>9 DEF Scripts

\* The scripts StartIO and StopIO begin with are scripts.
LEMMA FirstScripts ==
    /\ \A known \in BOOLEAN :
        /\ StartScript(known) \in Scripts
        /\ StepOf(StartScript(known)) =
              IF engine # None THEN "stop" ELSE IF known THEN "create" ELSE "run"
    /\ StopScript \in Scripts
    /\ StepOf(StopScript) = IF engine # None THEN "stop" ELSE "halt"
    /\ <<>> \in Scripts /\ StepOf(<<>>) = "none"
  BY DEF Scripts, StepOf, StartScript, StopScript
-------------------------------------------------------------------------------
\* Nothing has been created.
LEMMA InitIInv == Init => IInv
<1> SUFFICES ASSUME Init PROVE IInv
  OBVIOUS
<1>1. TypeOK
  <2>1. LifecycleTypeOK
    BY EngineAssumption DEF Init, LifecycleInit, LifecycleTypeOK, State, NoCall, RtIdle
  <2>2. todo \in Seq({"stop", "destroy", "create", "start", "run", "halt"})
    BY DEF Init
  <2> QED  BY <2>1, <2>2 DEF Init, TypeOK
<1>2. ScriptOK /\ CallOK /\ FreshOK /\ LiveOK /\ ThreadOK /\ StepOK
  BY FirstScripts
     DEF Init, LifecycleInit, ScriptOK, CallOK, FreshOK, LiveOK, ThreadOK, StepOK, Alive, NextStep
<1> QED  BY <1>1, <1>2 DEF IInv
-------------------------------------------------------------------------------
(* The steps. *)

\* Scripts are sequences of steps.
LEMMA ScriptType ==
    \A s \in Scripts : s \in Seq({"stop", "destroy", "create", "start", "run", "halt"})
<1> SUFFICES ASSUME NEW s \in Scripts
             PROVE  s \in Seq({"stop", "destroy", "create", "start", "run", "halt"})
  OBVIOUS
<1>1. CASE s = <<>>
  BY <1>1
<1>2. CASE s = <<"run">>
  BY <1>2
<1>3. CASE s = <<"halt">>
  BY <1>3
<1>4. CASE s = <<"stop", "halt">>
  BY <1>4
<1>5. CASE s = <<"start", "run">>
  BY <1>5
<1>6. CASE s = <<"create", "start", "run">>
  BY <1>6
<1>7. CASE s = <<"destroy", "run">>
  BY <1>7
<1>8. CASE s = <<"stop", "destroy", "run">>
  BY <1>8
<1>9. CASE s = <<"destroy", "create", "start", "run">>
  BY <1>9
<1>10. CASE s = <<"stop", "destroy", "create", "start", "run">>
  BY <1>10
<1> QED  BY <1>1, <1>2, <1>3, <1>4, <1>5, <1>6, <1>7, <1>8, <1>9, <1>10 DEF Scripts

\* StartIO begins: the engines are untouched.
LEMMA StartIOKeeps ==
    ASSUME IInv, NEW c \in Client, NEW known \in BOOLEAN, StartIO(c, known)
    PROVE  IInv'
<1> USE DEF IInv, NoCall, TypeOK, LifecycleTypeOK, StartIO, Quiet, Idle, lifecycleVars,
            engineVars, netVars, callVars
<1>1. ScriptOK' /\ TypeOK'
  <2>1. ScriptOK'
    BY FirstScripts, ScriptSteps DEF ScriptOK
  <2>2. LifecycleTypeOK'
    BY EngineAssumption DEF CallOK, StepOK, RtIdle
  <2>3. engine' \in live' \cup {None} /\ ioRunning' \in BOOLEAN
    BY EngineAssumption DEF CallOK, StepOK
  <2>4. started' \subseteq Client /\ ignored' \subseteq Engine
    BY EngineAssumption
  <2> QED  BY <2>1, <2>2, <2>3, <2>4, ScriptType DEF TypeOK, ScriptOK
<1>2. CallOK'
  BY FirstScripts, ScriptSteps, EngineAssumption DEF CallOK, ScriptOK, NextStep, StepOK
<1>3. FreshOK' /\ LiveOK'
  BY EngineAssumption DEF FreshOK, LiveOK, CallOK, StepOK, ScriptOK, NextStep, StepOf
<1>4. ThreadOK'
  BY EngineAssumption
     DEF ThreadOK, Alive, FreshOK, LiveOK, CallOK, StepOK, ScriptOK, NextStep, StepOf
<1>5. StepOK'
  BY FirstScripts, ScriptSteps, EngineAssumption
     DEF StepOK, ScriptOK, NextStep, CallOK, LiveOK, FreshOK, Accepting
<1> QED  BY <1>1, <1>2, <1>3, <1>4, <1>5

\* StopIO begins.
LEMMA StopIOKeeps ==
    ASSUME IInv, NEW c \in Client, StopIO(c)
    PROVE  IInv'
<1> USE DEF IInv, NoCall, TypeOK, LifecycleTypeOK, StopIO, Quiet, Idle, lifecycleVars,
            engineVars, netVars, callVars
<1>1. ScriptOK' /\ TypeOK'
  <2>1. ScriptOK'
    BY FirstScripts, ScriptSteps DEF ScriptOK
  <2>2. LifecycleTypeOK'
    BY EngineAssumption DEF CallOK, StepOK, RtIdle
  <2>3. engine' \in live' \cup {None} /\ ioRunning' \in BOOLEAN
    BY EngineAssumption DEF CallOK, StepOK
  <2>4. started' \subseteq Client /\ ignored' \subseteq Engine
    BY EngineAssumption
  <2> QED  BY <2>1, <2>2, <2>3, <2>4, ScriptType DEF TypeOK, ScriptOK
<1>2. CallOK'
  BY FirstScripts, ScriptSteps, EngineAssumption DEF CallOK, ScriptOK, NextStep, StepOK
<1>3. FreshOK' /\ LiveOK'
  BY EngineAssumption DEF FreshOK, LiveOK, CallOK, StepOK, ScriptOK, NextStep, StepOf
<1>4. ThreadOK'
  BY EngineAssumption
     DEF ThreadOK, Alive, FreshOK, LiveOK, CallOK, StepOK, ScriptOK, NextStep, StepOf
<1>5. StepOK'
  BY FirstScripts, ScriptSteps, EngineAssumption
     DEF StepOK, ScriptOK, NextStep, CallOK, LiveOK, FreshOK, Accepting
<1> QED  BY <1>1, <1>2, <1>3, <1>4, <1>5

\* stop() is refused or begins.
LEMMA StopKeeps ==
    ASSUME IInv, DoStop
    PROVE  IInv'
<1> USE DEF IInv, NoCall, TypeOK, LifecycleTypeOK, DoStop, Idle, StopRefused, StopAccepted,
            Transition, State, lifecycleVars, engineVars, netVars, callVars
<1>0. /\ Idle /\ NextStep = "stop"
      /\ todo' \in Scripts /\ NextStep' \in {"halt", "destroy"}
  BY ScriptSteps DEF ScriptOK, Upcoming, NextStep, StepOf
<1>1. ScriptOK' /\ TypeOK'
  <2>1. ScriptOK'
    BY <1>0 DEF ScriptOK
  <2>2. LifecycleTypeOK'
    <3>1. /\ live' \subseteq Engine /\ dropped' \subseteq Engine
          /\ live' \cap dropped' = {}
      BY <1>0, EngineAssumption DEF CallOK, StepOK, RtIdle
    <3>2. state' \in [Engine -> State] /\ netStop' \in [Engine -> BOOLEAN]
      BY <1>0, EngineAssumption DEF CallOK, StepOK, RtIdle
    <3>3. /\ handle' \in [Engine -> Thread \cup {None}]
          /\ producer' \in [Engine -> Thread \cup {None}]
      BY <1>0, EngineAssumption DEF CallOK, StepOK, RtIdle
    <3>4. /\ net' \in [Thread -> {"unborn", "resolving", "check", "send", "exited"}]
          /\ owner' \in [Thread -> Engine \cup {None}]
      BY <1>0, EngineAssumption DEF CallOK, StepOK, RtIdle
    <3>5. fill' \in [Thread -> 0 .. RingFrames]
      BY <1>0, EngineAssumption DEF CallOK, StepOK, RtIdle
    <3>6. call' \in [op : {"none", "start", "stop", "destroy"},
                   at : {"none", "spawn", "signal", "join"}, eng : Engine \cup {None}]
      BY <1>0, EngineAssumption DEF CallOK, StepOK, RtIdle
    <3>7. result' \in {0, -1} /\ rt' \in [at : {"idle", "push"}, eng : Engine \cup {None}]
      BY <1>0, EngineAssumption DEF CallOK, StepOK, RtIdle
    <3> QED  BY <3>1, <3>2, <3>3, <3>4, <3>5, <3>6, <3>7 DEF LifecycleTypeOK
  <2>3. engine' \in live' \cup {None} /\ ioRunning' \in BOOLEAN
    BY <1>0, EngineAssumption DEF CallOK, StepOK
  <2>4. started' \subseteq Client /\ ignored' \subseteq Engine
    BY <1>0, EngineAssumption
  <2> QED  BY <2>1, <2>2, <2>3, <2>4, ScriptType DEF TypeOK, ScriptOK
<1>2. CallOK'
  BY <1>0, EngineAssumption DEF CallOK, StepOK
<1>3. FreshOK' /\ LiveOK'
  BY <1>0, EngineAssumption DEF FreshOK, LiveOK, CallOK, StepOK
<1>4. ThreadOK'
  BY <1>0, EngineAssumption DEF ThreadOK, Alive, FreshOK, LiveOK, CallOK, StepOK
<1>5. StepOK'
  BY <1>0, EngineAssumption DEF StepOK, CallOK, LiveOK, FreshOK, Accepting
<1> QED  BY <1>1, <1>2, <1>3, <1>4, <1>5

\* destroy drops the engine or begins to stop it.
LEMMA DestroyKeeps ==
    ASSUME IInv, DoDestroy
    PROVE  IInv'
<1> USE DEF IInv, NoCall, TypeOK, LifecycleTypeOK, DoDestroy, Idle, DestroyAtOnce, Drop,
            StopAccepted, Transition, State, lifecycleVars, engineVars, netVars, callVars
<1>0. /\ Idle /\ NextStep = "destroy"
      /\ todo' \in Scripts /\ NextStep' \in {"create", "run"}
  BY ScriptSteps DEF ScriptOK, Upcoming, NextStep, StepOf
<1>1. ScriptOK' /\ TypeOK'
  <2>1. ScriptOK'
    BY <1>0 DEF ScriptOK
  <2>2. LifecycleTypeOK'
    <3>1. /\ live' \subseteq Engine /\ dropped' \subseteq Engine
          /\ live' \cap dropped' = {}
      BY <1>0, EngineAssumption DEF CallOK, StepOK, RtIdle
    <3>2. state' \in [Engine -> State] /\ netStop' \in [Engine -> BOOLEAN]
      BY <1>0, EngineAssumption DEF CallOK, StepOK, RtIdle
    <3>3. /\ handle' \in [Engine -> Thread \cup {None}]
          /\ producer' \in [Engine -> Thread \cup {None}]
      BY <1>0, EngineAssumption DEF CallOK, StepOK, RtIdle
    <3>4. /\ net' \in [Thread -> {"unborn", "resolving", "check", "send", "exited"}]
          /\ owner' \in [Thread -> Engine \cup {None}]
      BY <1>0, EngineAssumption DEF CallOK, StepOK, RtIdle
    <3>5. fill' \in [Thread -> 0 .. RingFrames]
      BY <1>0, EngineAssumption DEF CallOK, StepOK, RtIdle
    <3>6. call' \in [op : {"none", "start", "stop", "destroy"},
                   at : {"none", "spawn", "signal", "join"}, eng : Engine \cup {None}]
      BY <1>0, EngineAssumption DEF CallOK, StepOK, RtIdle
    <3>7. result' \in {0, -1} /\ rt' \in [at : {"idle", "push"}, eng : Engine \cup {None}]
      BY <1>0, EngineAssumption DEF CallOK, StepOK, RtIdle
    <3> QED  BY <3>1, <3>2, <3>3, <3>4, <3>5, <3>6, <3>7 DEF LifecycleTypeOK
  <2>3. engine' \in live' \cup {None} /\ ioRunning' \in BOOLEAN
    BY <1>0, EngineAssumption DEF CallOK, StepOK
  <2>4. started' \subseteq Client /\ ignored' \subseteq Engine
    BY <1>0, EngineAssumption
  <2> QED  BY <2>1, <2>2, <2>3, <2>4, ScriptType DEF TypeOK, ScriptOK
<1>2. CallOK'
  BY <1>0, EngineAssumption DEF CallOK, StepOK
<1>3. FreshOK' /\ LiveOK'
  BY <1>0, EngineAssumption DEF FreshOK, LiveOK, CallOK, StepOK
<1>4. ThreadOK'
  BY <1>0, EngineAssumption DEF ThreadOK, Alive, FreshOK, LiveOK, CallOK, StepOK
<1>5. StepOK'
  BY <1>0, EngineAssumption DEF StepOK, CallOK, LiveOK, FreshOK, Accepting
<1> QED  BY <1>1, <1>2, <1>3, <1>4, <1>5

\* A new engine.
LEMMA CreateKeeps ==
    ASSUME IInv, DoCreate
    PROVE  IInv'
<1> USE DEF IInv, NoCall, TypeOK, LifecycleTypeOK, DoCreate, Idle, Create, State, lifecycleVars,
            engineVars, netVars, callVars
<1>0. /\ Idle /\ NextStep = "create"
      /\ todo' \in Scripts /\ NextStep' = "start"
  BY ScriptSteps DEF ScriptOK, Upcoming, NextStep, StepOf
<1>1. ScriptOK' /\ TypeOK'
  <2>1. ScriptOK'
    BY <1>0 DEF ScriptOK
  <2>2. LifecycleTypeOK'
    BY <1>0, EngineAssumption DEF CallOK, StepOK, RtIdle
  <2>3. engine' \in live' \cup {None} /\ ioRunning' \in BOOLEAN
    BY <1>0, EngineAssumption DEF CallOK, StepOK
  <2>4. started' \subseteq Client /\ ignored' \subseteq Engine
    BY <1>0, EngineAssumption
  <2> QED  BY <2>1, <2>2, <2>3, <2>4, ScriptType DEF TypeOK, ScriptOK
<1>2. CallOK'
  BY <1>0, EngineAssumption DEF CallOK, StepOK
<1>3. FreshOK' /\ LiveOK'
  BY <1>0, EngineAssumption DEF FreshOK, LiveOK, CallOK, StepOK
<1>4. ThreadOK'
  BY <1>0, EngineAssumption DEF ThreadOK, Alive, FreshOK, LiveOK, CallOK, StepOK
<1>5. StepOK'
  BY <1>0, EngineAssumption DEF StepOK, CallOK, LiveOK, FreshOK, Accepting
<1> QED  BY <1>1, <1>2, <1>3, <1>4, <1>5

\* start() passes the state machine.
LEMMA StartKeeps ==
    ASSUME IInv, DoStart
    PROVE  IInv'
<1> USE DEF IInv, NoCall, TypeOK, LifecycleTypeOK, DoStart, Idle, StartAccepted, Transition,
            State, lifecycleVars, engineVars, netVars, callVars
<1>0. /\ Idle /\ NextStep = "start"
      /\ todo' \in Scripts /\ NextStep' = "run"
  BY ScriptSteps DEF ScriptOK, Upcoming, NextStep, StepOf
<1>1. ScriptOK' /\ TypeOK'
  <2>1. ScriptOK'
    BY <1>0 DEF ScriptOK
  <2>2. LifecycleTypeOK'
    <3>1. /\ live' \subseteq Engine /\ dropped' \subseteq Engine
          /\ live' \cap dropped' = {}
      BY <1>0, EngineAssumption DEF CallOK, StepOK, RtIdle
    <3>2. state' \in [Engine -> State] /\ netStop' \in [Engine -> BOOLEAN]
      BY <1>0, EngineAssumption DEF CallOK, StepOK, RtIdle
    <3>3. /\ handle' \in [Engine -> Thread \cup {None}]
          /\ producer' \in [Engine -> Thread \cup {None}]
      BY <1>0, EngineAssumption DEF CallOK, StepOK, RtIdle
    <3>4. /\ net' \in [Thread -> {"unborn", "resolving", "check", "send", "exited"}]
          /\ owner' \in [Thread -> Engine \cup {None}]
      BY <1>0, EngineAssumption DEF CallOK, StepOK, RtIdle
    <3>5. fill' \in [Thread -> 0 .. RingFrames]
      BY <1>0, EngineAssumption DEF CallOK, StepOK, RtIdle
    <3>6. call' \in [op : {"none", "start", "stop", "destroy"},
                   at : {"none", "spawn", "signal", "join"}, eng : Engine \cup {None}]
      BY <1>0, EngineAssumption DEF CallOK, StepOK, RtIdle
    <3>7. result' \in {0, -1} /\ rt' \in [at : {"idle", "push"}, eng : Engine \cup {None}]
      BY <1>0, EngineAssumption DEF CallOK, StepOK, RtIdle
    <3> QED  BY <3>1, <3>2, <3>3, <3>4, <3>5, <3>6, <3>7 DEF LifecycleTypeOK
  <2>3. engine' \in live' \cup {None} /\ ioRunning' \in BOOLEAN
    BY <1>0, EngineAssumption DEF CallOK, StepOK
  <2>4. started' \subseteq Client /\ ignored' \subseteq Engine
    BY <1>0, EngineAssumption
  <2> QED  BY <2>1, <2>2, <2>3, <2>4, ScriptType DEF TypeOK, ScriptOK
<1>2. CallOK'
  BY <1>0, EngineAssumption DEF CallOK, StepOK
<1>3. FreshOK' /\ LiveOK'
  BY <1>0, EngineAssumption DEF FreshOK, LiveOK, CallOK, StepOK
<1>4. ThreadOK'
  BY <1>0, EngineAssumption DEF ThreadOK, Alive, FreshOK, LiveOK, CallOK, StepOK
<1>5. StepOK'
  BY <1>0, EngineAssumption DEF StepOK, CallOK, LiveOK, FreshOK, Accepting
<1> QED  BY <1>1, <1>2, <1>3, <1>4, <1>5

\* The flag ioRunning.
LEMMA SetRunningKeeps ==
    ASSUME IInv, SetRunning
    PROVE  IInv'
<1> USE DEF IInv, NoCall, TypeOK, LifecycleTypeOK, SetRunning, Idle, lifecycleVars, engineVars,
            netVars, callVars
<1>0. /\ call = NoCall /\ NextStep \in {"run", "halt"} /\ ioRunning' = (NextStep = "run")
      /\ todo' \in Scripts /\ NextStep' = "none"
  BY ScriptSteps DEF ScriptOK, Upcoming, NextStep, StepOf
<1>1. ScriptOK' /\ TypeOK'
  <2>1. ScriptOK'
    BY <1>0 DEF ScriptOK
  <2>2. LifecycleTypeOK'
    BY <1>0, EngineAssumption DEF CallOK, StepOK, RtIdle
  <2>3. engine' \in live' \cup {None} /\ ioRunning' \in BOOLEAN
    BY <1>0, EngineAssumption DEF CallOK, StepOK
  <2>4. started' \subseteq Client /\ ignored' \subseteq Engine
    BY <1>0, EngineAssumption
  <2> QED  BY <2>1, <2>2, <2>3, <2>4, ScriptType DEF TypeOK, ScriptOK
<1>2. CallOK'
  BY <1>0, EngineAssumption DEF CallOK, StepOK
<1>3. FreshOK' /\ LiveOK'
  BY <1>0, EngineAssumption DEF FreshOK, LiveOK, CallOK, StepOK
<1>4. ThreadOK'
  BY <1>0, EngineAssumption DEF ThreadOK, Alive, FreshOK, LiveOK, CallOK, StepOK
<1>5. StepOK'
  BY <1>0, EngineAssumption DEF StepOK, CallOK, LiveOK, FreshOK, Accepting
<1> QED  BY <1>1, <1>2, <1>3, <1>4, <1>5

\* The audio thread touches only its ring.
LEMMA RtKeeps ==
    ASSUME IInv, DoIOOperation \/ (RtSteps /\ UNCHANGED driverVars)
    PROVE  IInv'
<1> USE DEF IInv, NoCall, TypeOK, LifecycleTypeOK, DoIOOperation, RtCheck, RtSteps, RtPush,
            RtIdle, Idle, Quiet, driverVars, lifecycleVars, engineVars, netVars, callVars
<1>1. ScriptOK' /\ TypeOK'
  <2>1. ScriptOK'
    BY FirstScripts, ScriptSteps DEF ScriptOK
  <2>2. LifecycleTypeOK'
    <3>1. /\ live' \subseteq Engine /\ dropped' \subseteq Engine
          /\ live' \cap dropped' = {}
      BY EngineAssumption DEF CallOK, StepOK
    <3>2. state' \in [Engine -> State] /\ netStop' \in [Engine -> BOOLEAN]
      BY EngineAssumption DEF CallOK, StepOK
    <3>3. /\ handle' \in [Engine -> Thread \cup {None}]
          /\ producer' \in [Engine -> Thread \cup {None}]
      BY EngineAssumption DEF CallOK, StepOK
    <3>4. /\ net' \in [Thread -> {"unborn", "resolving", "check", "send", "exited"}]
          /\ owner' \in [Thread -> Engine \cup {None}]
      BY EngineAssumption DEF CallOK, StepOK
    <3>5. fill' \in [Thread -> 0 .. RingFrames]
      BY EngineAssumption DEF CallOK, StepOK
    <3>6. call' \in [op : {"none", "start", "stop", "destroy"},
                   at : {"none", "spawn", "signal", "join"}, eng : Engine \cup {None}]
      BY EngineAssumption DEF CallOK, StepOK
    <3>7. result' \in {0, -1} /\ rt' \in [at : {"idle", "push"}, eng : Engine \cup {None}]
      BY EngineAssumption DEF CallOK, StepOK
    <3> QED  BY <3>1, <3>2, <3>3, <3>4, <3>5, <3>6, <3>7 DEF LifecycleTypeOK
  <2>3. engine' \in live' \cup {None} /\ ioRunning' \in BOOLEAN
    BY EngineAssumption DEF CallOK, StepOK
  <2>4. started' \subseteq Client /\ ignored' \subseteq Engine
    BY EngineAssumption
  <2> QED  BY <2>1, <2>2, <2>3, <2>4, ScriptType DEF TypeOK, ScriptOK
<1>2. CallOK'
  BY FirstScripts, ScriptSteps, EngineAssumption DEF CallOK, ScriptOK, NextStep, StepOK
<1>3. FreshOK' /\ LiveOK'
  BY EngineAssumption DEF FreshOK, LiveOK, CallOK, StepOK, ScriptOK, NextStep, StepOf
<1>4. ThreadOK'
  BY EngineAssumption
     DEF ThreadOK, Alive, FreshOK, LiveOK, CallOK, StepOK, ScriptOK, NextStep, StepOf
<1>5. StepOK'
  BY FirstScripts, ScriptSteps, EngineAssumption
     DEF StepOK, ScriptOK, NextStep, CallOK, LiveOK, FreshOK, Accepting
<1> QED  BY <1>1, <1>2, <1>3, <1>4, <1>5

\* A thread is spawned for a started engine.
LEMMA SpawnKeeps ==
    ASSUME IInv, NEW t \in Thread, StartSpawn(t), UNCHANGED driverVars
    PROVE  IInv'
<1> USE DEF IInv, NoCall, TypeOK, LifecycleTypeOK, StartSpawn, Idle, driverVars, State,
            lifecycleVars, engineVars, netVars, callVars
<1>1. ScriptOK' /\ TypeOK'
  <2>1. ScriptOK'
    BY FirstScripts, ScriptSteps DEF ScriptOK
  <2>2. LifecycleTypeOK'
    <3>1. /\ live' \subseteq Engine /\ dropped' \subseteq Engine
          /\ live' \cap dropped' = {}
      BY EngineAssumption DEF CallOK, StepOK, RtIdle
    <3>2. state' \in [Engine -> State] /\ netStop' \in [Engine -> BOOLEAN]
      BY EngineAssumption DEF CallOK, StepOK, RtIdle
    <3>3. /\ handle' \in [Engine -> Thread \cup {None}]
          /\ producer' \in [Engine -> Thread \cup {None}]
      BY EngineAssumption DEF CallOK, StepOK, RtIdle
    <3>4. /\ net' \in [Thread -> {"unborn", "resolving", "check", "send", "exited"}]
          /\ owner' \in [Thread -> Engine \cup {None}]
      BY EngineAssumption DEF CallOK, StepOK, RtIdle
    <3>5. fill' \in [Thread -> 0 .. RingFrames]
      BY EngineAssumption DEF CallOK, StepOK, RtIdle
    <3>6. call' \in [op : {"none", "start", "stop", "destroy"},
                   at : {"none", "spawn", "signal", "join"}, eng : Engine \cup {None}]
      BY EngineAssumption DEF CallOK, StepOK, RtIdle
    <3>7. result' \in {0, -1} /\ rt' \in [at : {"idle", "push"}, eng : Engine \cup {None}]
      BY EngineAssumption DEF CallOK, StepOK, RtIdle
    <3> QED  BY <3>1, <3>2, <3>3, <3>4, <3>5, <3>6, <3>7 DEF LifecycleTypeOK
  <2>3. engine' \in live' \cup {None} /\ ioRunning' \in BOOLEAN
    BY EngineAssumption DEF CallOK, StepOK
  <2>4. started' \subseteq Client /\ ignored' \subseteq Engine
    BY EngineAssumption
  <2> QED  BY <2>1, <2>2, <2>3, <2>4, ScriptType DEF TypeOK, ScriptOK
<1>2. CallOK'
  BY FirstScripts, ScriptSteps, EngineAssumption DEF CallOK, ScriptOK, NextStep, StepOK
<1>3. FreshOK' /\ LiveOK'
  BY EngineAssumption DEF FreshOK, LiveOK, CallOK, StepOK, ScriptOK, NextStep, StepOf
<1>4. ThreadOK'
  BY EngineAssumption
     DEF ThreadOK, Alive, FreshOK, LiveOK, CallOK, StepOK, ScriptOK, NextStep, StepOf
<1>5. StepOK'
  BY FirstScripts, ScriptSteps, EngineAssumption
     DEF StepOK, ScriptOK, NextStep, CallOK, LiveOK, FreshOK, Accepting
<1> QED  BY <1>1, <1>2, <1>3, <1>4, <1>5

\* The stop flag.
LEMMA SignalKeeps ==
    ASSUME IInv, StopSignal, UNCHANGED driverVars
    PROVE  IInv'
<1> USE DEF IInv, NoCall, TypeOK, LifecycleTypeOK, StopSignal, Idle, driverVars, lifecycleVars,
            engineVars, netVars, callVars
<1>1. ScriptOK' /\ TypeOK'
  <2>1. ScriptOK'
    BY FirstScripts, ScriptSteps DEF ScriptOK
  <2>2. LifecycleTypeOK'
    BY EngineAssumption DEF CallOK, StepOK, RtIdle
  <2>3. engine' \in live' \cup {None} /\ ioRunning' \in BOOLEAN
    BY EngineAssumption DEF CallOK, StepOK
  <2>4. started' \subseteq Client /\ ignored' \subseteq Engine
    BY EngineAssumption
  <2> QED  BY <2>1, <2>2, <2>3, <2>4, ScriptType DEF TypeOK, ScriptOK
<1>2. CallOK'
  BY FirstScripts, ScriptSteps, EngineAssumption DEF CallOK, ScriptOK, NextStep, StepOK
<1>3. FreshOK' /\ LiveOK'
  BY EngineAssumption DEF FreshOK, LiveOK, CallOK, StepOK, ScriptOK, NextStep, StepOf
<1>4. ThreadOK'
  BY EngineAssumption
     DEF ThreadOK, Alive, FreshOK, LiveOK, CallOK, StepOK, ScriptOK, NextStep, StepOf
<1>5. StepOK'
  BY FirstScripts, ScriptSteps, EngineAssumption
     DEF StepOK, ScriptOK, NextStep, CallOK, LiveOK, FreshOK, Accepting
<1> QED  BY <1>1, <1>2, <1>3, <1>4, <1>5

\* The join ends and the engine is stopped.
LEMMA StopFinishKeeps ==
    ASSUME IInv, StopFinish, UNCHANGED driverVars
    PROVE  IInv'
<1> USE DEF IInv, NoCall, TypeOK, LifecycleTypeOK, StopFinish, Joined, Transition, Idle,
            driverVars, State, lifecycleVars, engineVars, netVars, callVars
<1>1. ScriptOK' /\ TypeOK'
  <2>1. ScriptOK'
    BY FirstScripts, ScriptSteps DEF ScriptOK
  <2>2. LifecycleTypeOK'
    <3>1. /\ live' \subseteq Engine /\ dropped' \subseteq Engine
          /\ live' \cap dropped' = {}
      BY EngineAssumption DEF CallOK, StepOK, RtIdle
    <3>2. state' \in [Engine -> State] /\ netStop' \in [Engine -> BOOLEAN]
      BY EngineAssumption DEF CallOK, StepOK, RtIdle
    <3>3. /\ handle' \in [Engine -> Thread \cup {None}]
          /\ producer' \in [Engine -> Thread \cup {None}]
      BY EngineAssumption DEF CallOK, StepOK, RtIdle
    <3>4. /\ net' \in [Thread -> {"unborn", "resolving", "check", "send", "exited"}]
          /\ owner' \in [Thread -> Engine \cup {None}]
      BY EngineAssumption DEF CallOK, StepOK, RtIdle
    <3>5. fill' \in [Thread -> 0 .. RingFrames]
      BY EngineAssumption DEF CallOK, StepOK, RtIdle
    <3>6. call' \in [op : {"none", "start", "stop", "destroy"},
                   at : {"none", "spawn", "signal", "join"}, eng : Engine \cup {None}]
      BY EngineAssumption DEF CallOK, StepOK, RtIdle
    <3>7. result' \in {0, -1} /\ rt' \in [at : {"idle", "push"}, eng : Engine \cup {None}]
      BY EngineAssumption DEF CallOK, StepOK, RtIdle
    <3> QED  BY <3>1, <3>2, <3>3, <3>4, <3>5, <3>6, <3>7 DEF LifecycleTypeOK
  <2>3. engine' \in live' \cup {None} /\ ioRunning' \in BOOLEAN
    BY EngineAssumption DEF CallOK, StepOK
  <2>4. started' \subseteq Client /\ ignored' \subseteq Engine
    BY EngineAssumption
  <2> QED  BY <2>1, <2>2, <2>3, <2>4, ScriptType DEF TypeOK, ScriptOK
<1>2. CallOK'
  BY FirstScripts, ScriptSteps, EngineAssumption DEF CallOK, ScriptOK, NextStep, StepOK
<1>3. FreshOK' /\ LiveOK'
  BY EngineAssumption DEF FreshOK, LiveOK, CallOK, StepOK, ScriptOK, NextStep, StepOf
<1>4. ThreadOK'
  BY EngineAssumption
     DEF ThreadOK, Alive, FreshOK, LiveOK, CallOK, StepOK, ScriptOK, NextStep, StepOf
<1>5. StepOK'
  BY FirstScripts, ScriptSteps, EngineAssumption
     DEF StepOK, ScriptOK, NextStep, CallOK, LiveOK, FreshOK, Accepting
<1> QED  BY <1>1, <1>2, <1>3, <1>4, <1>5

\* The join ends and the engine is dropped.
LEMMA DestroyFinishKeeps ==
    ASSUME IInv, DestroyFinish, UNCHANGED driverVars
    PROVE  IInv'
<1> USE DEF IInv, NoCall, TypeOK, LifecycleTypeOK, DestroyFinish, Joined, Drop, Transition,
            Idle, driverVars, State, lifecycleVars, engineVars, netVars, callVars
<1>1. ScriptOK' /\ TypeOK'
  <2>1. ScriptOK'
    BY FirstScripts, ScriptSteps DEF ScriptOK
  <2>2. LifecycleTypeOK'
    <3>1. /\ live' \subseteq Engine /\ dropped' \subseteq Engine
          /\ live' \cap dropped' = {}
      BY EngineAssumption DEF CallOK, StepOK, RtIdle
    <3>2. state' \in [Engine -> State] /\ netStop' \in [Engine -> BOOLEAN]
      BY EngineAssumption DEF CallOK, StepOK, RtIdle
    <3>3. /\ handle' \in [Engine -> Thread \cup {None}]
          /\ producer' \in [Engine -> Thread \cup {None}]
      BY EngineAssumption DEF CallOK, StepOK, RtIdle
    <3>4. /\ net' \in [Thread -> {"unborn", "resolving", "check", "send", "exited"}]
          /\ owner' \in [Thread -> Engine \cup {None}]
      BY EngineAssumption DEF CallOK, StepOK, RtIdle
    <3>5. fill' \in [Thread -> 0 .. RingFrames]
      BY EngineAssumption DEF CallOK, StepOK, RtIdle
    <3>6. call' \in [op : {"none", "start", "stop", "destroy"},
                   at : {"none", "spawn", "signal", "join"}, eng : Engine \cup {None}]
      BY EngineAssumption DEF CallOK, StepOK, RtIdle
    <3>7. result' \in {0, -1} /\ rt' \in [at : {"idle", "push"}, eng : Engine \cup {None}]
      BY EngineAssumption DEF CallOK, StepOK, RtIdle
    <3> QED  BY <3>1, <3>2, <3>3, <3>4, <3>5, <3>6, <3>7 DEF LifecycleTypeOK
  <2>3. engine' \in live' \cup {None} /\ ioRunning' \in BOOLEAN
    BY EngineAssumption DEF CallOK, StepOK
  <2>4. started' \subseteq Client /\ ignored' \subseteq Engine
    BY EngineAssumption
  <2> QED  BY <2>1, <2>2, <2>3, <2>4, ScriptType DEF TypeOK, ScriptOK
<1>2. CallOK'
  BY FirstScripts, ScriptSteps, EngineAssumption DEF CallOK, ScriptOK, NextStep, StepOK
<1>3. FreshOK' /\ LiveOK'
  BY EngineAssumption DEF FreshOK, LiveOK, CallOK, StepOK, ScriptOK, NextStep, StepOf
<1>4. ThreadOK'
  BY EngineAssumption
     DEF ThreadOK, Alive, FreshOK, LiveOK, CallOK, StepOK, ScriptOK, NextStep, StepOf
<1>5. StepOK'
  BY FirstScripts, ScriptSteps, EngineAssumption
     DEF StepOK, ScriptOK, NextStep, CallOK, LiveOK, FreshOK, Accepting
<1> QED  BY <1>1, <1>2, <1>3, <1>4, <1>5

\* A network thread takes a step.
LEMMA NetKeeps ==
    ASSUME IInv, NEW t \in Thread, NetStep(t), UNCHANGED driverVars
    PROVE  IInv'
<1> USE DEF IInv, NoCall, TypeOK, LifecycleTypeOK, NetStep, NetReady, NetFail, NetCheck,
            NetSend, Sendable, Transition, StopSeen, Idle, driverVars, State, lifecycleVars,
            engineVars, netVars, callVars
<1>1. ScriptOK' /\ TypeOK'
  <2>1. ScriptOK'
    BY FirstScripts, ScriptSteps DEF ScriptOK
  <2>2. LifecycleTypeOK'
    <3>1. /\ live' \subseteq Engine /\ dropped' \subseteq Engine
          /\ live' \cap dropped' = {}
      BY EngineAssumption DEF CallOK, StepOK, RtIdle
    <3>2. state' \in [Engine -> State] /\ netStop' \in [Engine -> BOOLEAN]
      BY EngineAssumption DEF CallOK, StepOK, RtIdle
    <3>3. /\ handle' \in [Engine -> Thread \cup {None}]
          /\ producer' \in [Engine -> Thread \cup {None}]
      BY EngineAssumption DEF CallOK, StepOK, RtIdle
    <3>4. /\ net' \in [Thread -> {"unborn", "resolving", "check", "send", "exited"}]
          /\ owner' \in [Thread -> Engine \cup {None}]
      BY EngineAssumption DEF CallOK, StepOK, RtIdle
    <3>5. fill' \in [Thread -> 0 .. RingFrames]
      <4>1. fill[t] \in 0 .. RingFrames
        OBVIOUS
      <4>2. Sendable(t) \in 0 .. fill[t]
        BY <4>1, EngineAssumption
      <4>3. fill[t] - Sendable(t) \in 0 .. RingFrames
        BY <4>1, <4>2, EngineAssumption
      <4> HIDE DEF Sendable
      <4> QED  BY <4>3
    <3>6. call' \in [op : {"none", "start", "stop", "destroy"},
                   at : {"none", "spawn", "signal", "join"}, eng : Engine \cup {None}]
      BY EngineAssumption DEF CallOK, StepOK, RtIdle
    <3>7. result' \in {0, -1} /\ rt' \in [at : {"idle", "push"}, eng : Engine \cup {None}]
      BY EngineAssumption DEF CallOK, StepOK, RtIdle
    <3> QED  BY <3>1, <3>2, <3>3, <3>4, <3>5, <3>6, <3>7 DEF LifecycleTypeOK
  <2>3. engine' \in live' \cup {None} /\ ioRunning' \in BOOLEAN
    BY EngineAssumption DEF CallOK, StepOK
  <2>4. started' \subseteq Client /\ ignored' \subseteq Engine
    BY EngineAssumption
  <2> QED  BY <2>1, <2>2, <2>3, <2>4, ScriptType DEF TypeOK, ScriptOK
<1>2. CallOK'
  BY FirstScripts, ScriptSteps, EngineAssumption
     DEF ThreadOK, Alive, CallOK, ScriptOK, NextStep, StepOK
<1>3. FreshOK' /\ LiveOK'
  BY EngineAssumption DEF FreshOK, LiveOK, CallOK, StepOK, ScriptOK, NextStep, StepOf
<1>4. ThreadOK'
  BY EngineAssumption
     DEF ThreadOK, Alive, FreshOK, LiveOK, CallOK, StepOK, ScriptOK, NextStep, StepOf
<1>5. StepOK'
  BY FirstScripts, ScriptSteps, EngineAssumption
     DEF StepOK, ScriptOK, NextStep, CallOK, LiveOK, FreshOK, Accepting
<1> QED  BY <1>1, <1>2, <1>3, <1>4, <1>5

-------------------------------------------------------------------------------
\* Every step of the program keeps the invariant.
LEMMA NextIInv ==
    ASSUME IInv, [Next]_vars
    PROVE  IInv'
<1>1. CASE \E c \in Client : StopIO(c) \/ \E known \in BOOLEAN : StartIO(c, known)
  BY <1>1, StartIOKeeps, StopIOKeeps
<1>2. CASE Handler
  BY <1>2, StopKeeps, DestroyKeeps, CreateKeeps, StartKeeps, SetRunningKeeps DEF Handler
<1>3. CASE DoIOOperation
  BY <1>3, RtKeeps
<1>4. CASE EngineStep /\ UNCHANGED driverVars
  BY <1>4, SignalKeeps, StopFinishKeeps, DestroyFinishKeeps, SpawnKeeps, RtKeeps, NetKeeps
     DEF EngineStep, ControlSteps
<1>5. CASE UNCHANGED vars
  BY <1>5
     DEF vars, lifecycleVars, engineVars, netVars, callVars, driverVars, IInv, TypeOK,
         LifecycleTypeOK, ScriptOK, CallOK, FreshOK, LiveOK, ThreadOK, StepOK, NextStep, Idle,
         Alive, Accepting
<1> QED  BY <1>1, <1>2, <1>3, <1>4, <1>5 DEF Next

\* The invariant the theorems follow from.
LEMMA Inductive == Spec => []IInv
  BY InitIInv, NextIInv, PTL DEF Spec

\* Every variable keeps its type; in particular the driver never holds an engine
\* it has destroyed (ZinkosPlugin.cpp:346, :375).
THEOREM TypeCorrect == Spec => []TypeOK
<1>1. IInv => TypeOK
  BY DEF IInv
<1> QED  BY <1>1, Inductive, PTL

\* An engine whose state is Stopped has no network thread left (ffi.rs:60-78).
THEOREM StoppedSendsNothing == Spec => []StoppedMeansQuiet
<1>1. IInv => StoppedMeansQuiet
  BY DEF IInv, ThreadOK, StoppedMeansQuiet
<1> QED  BY <1>1, Inductive, PTL

\* One network thread streams, apart from those of engines whose stop() failed
\* and whose failure the driver ignored (ZinkosPlugin.cpp:344, :398).
THEOREM OneSender == Spec => []OneStream
<1>1. IInv => OneStream
  BY DEF IInv, ThreadOK, LiveOK, OneStream
<1> QED  BY <1>1, Inductive, PTL

\* Between handlers the driver's flag and the engine's state agree.
THEOREM FlagAgrees == Spec => []IoMatchesEngine
<1>1. IInv => IoMatchesEngine
  BY DEF IInv, StepOK, IoMatchesEngine, Quiet, NextStep, StepOf
<1> QED  BY <1>1, Inductive, PTL

\* Every change of an engine's state is an arrow of the diagram
\* (state_machine.rs:26-27), however the two threads that change it interleave.
THEOREM DiagramIsFollowed == Spec => LegalTransitions
<1> DEFINE Legal == \A e \in Engine :
                        state'[e] # state[e] => <<state[e], state'[e]>> \in LegalMoves
<1>1. ASSUME IInv, [Next]_vars
      PROVE  [Legal]_state
  <2> USE DEF IInv, TypeOK, LifecycleTypeOK, LegalMoves, Transition
  <2>1. CASE Handler
    BY <1>1, <2>1
       DEF Handler, DoStop, DoDestroy, DoCreate, DoStart, SetRunning, StopRefused, StopAccepted,
           DestroyAtOnce, Create, StartAccepted, lifecycleVars, engineVars
  <2>2. CASE EngineStep
    <3>1. CASE ControlSteps
      BY <1>1, <3>1
         DEF ControlSteps, StopSignal, StopFinish, DestroyFinish, StartSpawn, CallOK, NoCall
    <3>2. CASE RtSteps
      BY <3>2 DEF RtSteps, RtPush, engineVars
    <3>3. ASSUME NEW t \in Thread, NetStep(t)
          PROVE  [Legal]_state
      <4>1. CASE NetReady(t) \/ NetFail(t)
        <5>1. Alive(t)
          BY <4>1 DEF NetReady, NetFail, Alive
        <5>2. owner[t] \in Engine
          BY <1>1, <5>1 DEF ThreadOK
        <5>3. Transition(owner[t], "Starting", "Running")
          BY <4>1 DEF NetReady, NetFail
        <5> QED  BY <1>1, <5>2, <5>3
      <4>2. CASE NetCheck(t) \/ NetSend(t)
        BY <4>2 DEF NetCheck, NetSend, engineVars
      <4> QED  BY <3>3, <4>1, <4>2 DEF NetStep
    <3> QED  BY <2>2, <3>1, <3>2, <3>3 DEF EngineStep
  <2>3. CASE ~Handler /\ ~EngineStep
    BY <1>1, <2>3
       DEF Next, StopIO, StartIO, DoIOOperation, RtCheck, vars, lifecycleVars, engineVars
  <2> QED  BY <2>1, <2>2, <2>3
<1> QED  BY <1>1, Inductive, PTL DEF Spec, LegalTransitions
-------------------------------------------------------------------------------
(* What HandlersReturn rests on: the thread that a handler waits for is one that  *)
(* will look at the stop flag, and see it.  Nothing bounds a DNS query, and no    *)
(* handler waits for one, since stop() is refused while the engine is starting.   *)

\* A handle is that of a thread spawned for this engine.
HandleOK == \A e \in Engine : handle[e] # None => owner[handle[e]] = e /\ net[handle[e]] # "unborn"

\* While its thread resolves the target an engine is starting.
ResolveOK ==
    \A t \in Thread : net[t] = "resolving" /\ owner[t] \in live => state[owner[t]] = "Starting"

\* The flag is set before the join, and cleared only by a new start().
FlagOK == call.at = "join" => netStop[call.eng]

JoinOK == HandleOK /\ ResolveOK /\ FlagOK

\* The thread joined has ended, or is in its loop and told to stop.
JoinWillEnd ==
    call.at = "join" =>
        LET t == handle[call.eng]
        IN  t # None => \/ net[t] = "exited"
                        \/ net[t] \in {"check", "send"} /\ StopSeen(t)

\* The handler's own steps.
LEMMA HandlerKeepsJoin ==
    ASSUME IInv, JoinOK, Handler
    PROVE  JoinOK'
<1> USE EngineAssumption DEF IInv, TypeOK, LifecycleTypeOK, JoinOK, HandleOK, ResolveOK, FlagOK,
        Idle, NoCall, Transition, lifecycleVars, engineVars, netVars, callVars
<1>1. CASE DoStop
  BY <1>1 DEF DoStop, StopRefused, StopAccepted
<1>2. CASE DoDestroy
  BY <1>2 DEF DoDestroy, DestroyAtOnce, Drop, StopAccepted
<1>3. CASE DoCreate
  BY <1>3 DEF DoCreate, Create, ThreadOK, Alive
<1>4. CASE DoStart
  BY <1>4 DEF DoStart, StartAccepted
<1>5. CASE SetRunning
  BY <1>5 DEF SetRunning
<1>6. QED  BY <1>1, <1>2, <1>3, <1>4, <1>5 DEF Handler

\* The rest of the engine call the handler is inside.
LEMMA ControlKeepsJoin ==
    ASSUME IInv, JoinOK, ControlSteps
    PROVE  JoinOK'
<1> USE EngineAssumption DEF IInv, TypeOK, LifecycleTypeOK, JoinOK, HandleOK, ResolveOK, FlagOK,
        CallOK, NoCall, Transition, engineVars, netVars, callVars
<1>1. CASE StopSignal
  BY <1>1 DEF StopSignal
<1>2. CASE StopFinish
  BY <1>2 DEF StopFinish
<1>3. CASE DestroyFinish
  BY <1>3 DEF DestroyFinish, Drop
<1>4. ASSUME NEW t \in Thread, StartSpawn(t) PROVE JoinOK'
  BY <1>4 DEF StartSpawn
<1>5. QED  BY <1>1, <1>2, <1>3, <1>4 DEF ControlSteps

\* A network thread; it is the only one of a live engine.
LEMMA NetKeepsJoin ==
    ASSUME IInv, JoinOK, NEW t \in Thread, NetStep(t)
    PROVE  JoinOK'
<1> USE EngineAssumption DEF IInv, TypeOK, LifecycleTypeOK, JoinOK, HandleOK, ResolveOK, FlagOK,
        engineVars, callVars
<1>1. CASE NetReady(t) \/ NetFail(t)
  <2>1. /\ net[t] = "resolving" /\ net'[t] \in {"check", "exited"}
        /\ \A u \in Thread \ {t} : net'[u] = net[u]
        /\ Transition(owner[t], "Starting", "Running")
        /\ UNCHANGED <<live, netStop, handle, owner, call>>
    BY <1>1 DEF NetReady, NetFail
  <2>2. HandleOK' /\ FlagOK'
    BY <2>1
  <2>3. ASSUME NEW u \in Thread, net'[u] = "resolving", owner[u] \in live
        PROVE  state'[owner[u]] = "Starting"
    <3>1. u # t /\ net[u] = "resolving" /\ state[owner[u]] = "Starting"
      BY <2>1, <2>3
    <3>2. handle[owner[u]] = u /\ (owner[t] = owner[u] => handle[owner[t]] = t)
      BY <2>1, <2>3, <3>1 DEF ThreadOK, Alive
    <3>3. QED  BY <2>1, <3>1, <3>2 DEF Transition
  <2>4. QED  BY <2>1, <2>2, <2>3
<1>2. CASE NetCheck(t) \/ NetSend(t)
  BY <1>2 DEF NetCheck, NetSend
<1>3. QED  BY <1>1, <1>2 DEF NetStep

\* The join inside stop() and destroy() never waits for a thread that resolves, nor for
\* one that has not been told (ffi.rs:60-78).
THEOREM JoinIsShort == Spec => []JoinWillEnd
<1>1. Init => JoinOK
  BY DEF Init, LifecycleInit, JoinOK, HandleOK, ResolveOK, FlagOK, NoCall
<1>2. IInv /\ JoinOK => JoinWillEnd
  BY EngineAssumption DEF IInv, TypeOK, LifecycleTypeOK, CallOK, NoCall, JoinOK, HandleOK,
     ResolveOK, FlagOK, JoinWillEnd, StopSeen
<1>3. IInv /\ JoinOK /\ [Next]_vars => JoinOK'
  <2> SUFFICES ASSUME IInv, JoinOK, [Next]_vars PROVE JoinOK'
    OBVIOUS
  <2> USE DEF JoinOK, HandleOK, ResolveOK, FlagOK, lifecycleVars, engineVars, netVars, callVars
  <2>1. CASE Handler
    BY <2>1, HandlerKeepsJoin
  <2>2. CASE EngineStep
    <3>1. RtSteps => JoinOK'
      BY DEF RtSteps, RtPush
    <3>2. QED  BY <2>2, <3>1, ControlKeepsJoin, NetKeepsJoin DEF EngineStep
  <2>3. CASE ~Handler /\ ~EngineStep
    BY <2>3 DEF Next, StopIO, StartIO, DoIOOperation, RtCheck, vars
  <2>4. QED  BY <2>1, <2>2, <2>3
<1>4. QED  BY <1>1, <1>2, <1>3, Inductive, PTL DEF Spec
===============================================================================
