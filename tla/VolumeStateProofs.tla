-------------------------- MODULE VolumeStateProofs --------------------------
(***************************************************************************)
(* VolumeState for any range, grain and requests: a reload is not heard    *)
(* while IO runs, what StopIO saves is what is in use, and no volume comes *)
(* from anywhere but the user.                                             *)
(***************************************************************************)
EXTENDS VolumeState, TLAPS

\* A level that "%.6f" prints exactly.
Exact(v) == \E k \in Nat : v = k * Grain

\* The levels that may come out of the file or its default.
Printed == {Full \div 2} \cup {Nearest(v) : v \in picked}

Loading == at["control"] \in {"loadDefault", "loadRead", "loadStore", "run"}

\* StartIO reloads only while IO does not run.
LoadOK == Loading => ~ioRunning

\* What is in the file or on the way to it or from it was printed.
FileOK ==
    /\ file # {} => Exact(Loaded(file).level) /\ Loaded(file).level \in Printed
    /\ \A c \in Caller : Exact(printed[c].level) /\ printed[c].level \in Printed
    /\ restored.level \in Printed

\* The file restores what is in use, or a save that will see to it is under way: one
\* that is past its test, or StopIO's own, which nothing throttles.
FileComes ==
    \/ Loaded(file) = Rounded(mem)
    \/ \E c \in Caller : at[c] \in {"saveOpen", "savePrint", "saveClose"}
    \/ at["control"] = "saveTest" /\ lastSave = "never"

\* From StopIO on, while nothing is set and no save fails, both threads print what is in
\* use, and one of them gets it into the file.
SettledOK ==
    settled /\ ~ioRunning /\ ~Loading =>
        /\ \A c \in Caller : at[c] = "saveClose" => printed[c] = Rounded(mem)
        /\ FileComes

IInv == TypeOK /\ LoadOK /\ FileOK /\ SettledOK /\ NeverInvented
-------------------------------------------------------------------------------
\* A multiple of the grain is its own nearest multiple.
LEMMA NearestOfMultiple ==
    ASSUME NEW k \in Nat
    PROVE  Nearest(k * Grain) = k * Grain
<1> DEFINE h == Grain \div 2
<1>1. Grain \in Nat \ {0} /\ h \in Nat /\ h < Grain
  BY VolumeAssumption
<1> HIDE DEF h
<1>2. k * Grain \in Nat
  BY <1>1
<1>3. (k * Grain + h) \div Grain = k
  BY <1>1, <1>2
<1>4. QED  BY <1>3 DEF Nearest, h

\* Rounding stays in the range and gives an exact level.
LEMMA NearestType ==
    ASSUME NEW v \in 0 .. Full
    PROVE  Nearest(v) \in 0 .. Full /\ Exact(Nearest(v))
<1> DEFINE h == Grain \div 2
           q == (v + h) \div Grain
           m == Full \div Grain
<1>1. Grain \in Nat \ {0} /\ h \in Nat /\ h < Grain /\ v \in Nat /\ v <= Full /\ Full \in Nat
  BY VolumeAssumption
<1>2. m \in Nat /\ Full = m * Grain
  BY <1>1, VolumeAssumption
<1>3. q \in Nat /\ q * Grain <= v + h
  BY <1>1
<1> HIDE DEF h, q, m
<1>4. q * Grain < (m + 1) * Grain
  BY <1>1, <1>2, <1>3
<1>5. q <= m
  <2>1. SUFFICES ASSUME m + 1 <= q PROVE FALSE
    BY <1>2, <1>3
  <2>2. (m + 1) * Grain <= q * Grain
    BY <2>1, <1>1, <1>2, <1>3
  <2>3. QED  BY <2>2, <1>1, <1>2, <1>3, <1>4
<1>6. q * Grain <= m * Grain /\ q * Grain \in Nat
  BY <1>1, <1>2, <1>3, <1>5
<1>7. Nearest(v) = q * Grain
  BY DEF Nearest, h, q
<1>8. QED  BY <1>1, <1>2, <1>3, <1>6, <1>7 DEF Exact

\* An exact level is printed as it is.
LEMMA NearestOfExact ==
    ASSUME NEW v, Exact(v)
    PROVE  Nearest(v) = v
BY NearestOfMultiple DEF Exact

\* Half is exact.
LEMMA HalfIsExact == (Full \div 2) \in 0 .. Full /\ Exact(Full \div 2)
<1>1. (Full \div 2) \in 0 .. Full
  BY VolumeAssumption
<1>2. (Full \div 2) = ((Full \div 2) \div Grain) * Grain /\ ((Full \div 2) \div Grain) \in Nat
  BY <1>1, VolumeAssumption
<1>3. QED  BY <1>1, <1>2 DEF Exact

\* What a save prints of a setting is a setting, exact, and known.
LEMMA RoundedType ==
    ASSUME NEW s \in Setting
    PROVE  /\ Rounded(s) \in Setting /\ Rounded(s).level = Nearest(s.level)
           /\ Exact(Rounded(s).level)
           /\ Exact(s.level) => Rounded(s) = s
<1>1. s.level \in 0 .. Full /\ s = [level |-> s.level, muted |-> s.muted] /\ s.muted \in BOOLEAN
  BY DEF Setting
<1>2. Rounded(s) = [level |-> Nearest(s.level), muted |-> s.muted]
  BY <1>1 DEF Rounded
<1>3. QED  BY <1>1, <1>2, NearestType, NearestOfExact DEF Setting

\* A file with a setting restores it; no file, the default; a level out of range is
\* replaced by the default's.
LEMMA LoadedIs ==
    /\ \A s \in Setting : Loaded({s}) = s
    /\ \A s \in Foreign : Loaded({s}) \in Setting /\ Loaded({s}).level = Full \div 2
    /\ Loaded({}) = Default
    /\ Default \in Setting /\ Default.level = Full \div 2 /\ Exact(Default.level)
    /\ Rounded(Default) = Default
<1>1. \A s : Loaded({s}) = InRange(s)
  BY DEF Loaded
<1>2. Default \in Setting /\ Default.level = Full \div 2
  BY HalfIsExact DEF Default, Setting
<1>3. \A s \in Setting : InRange(s) = s
  BY DEF InRange, Setting
<1>4. ASSUME NEW s \in Foreign
      PROVE  InRange(s) \in Setting /\ InRange(s).level = Full \div 2
  <2>1. s.level \notin 0 .. Full /\ s.muted \in BOOLEAN
        /\ s = [level |-> s.level, muted |-> s.muted]
    BY DEF Foreign
  <2>2. InRange(s) = [level |-> Full \div 2, muted |-> s.muted]
    BY <1>2, <2>1 DEF InRange
  <2>3. QED  BY <2>1, <2>2, HalfIsExact DEF Setting
<1>5. QED  BY <1>1, <1>2, <1>3, <1>4, HalfIsExact, RoundedType DEF Loaded
-------------------------------------------------------------------------------
\* What was printed stays known: the user's levels are only added to.
LEMMA PrintedGrows ==
    ASSUME picked \subseteq picked'
    PROVE  Printed \subseteq Printed'
BY DEF Printed

\* What the file restores is a setting.
LEMMA Settings ==
    ASSUME TypeOK
    PROVE  Loaded(file) \in Setting
BY LoadedIs DEF TypeOK

\* The user's request is in range, known, and unsettles nothing that is saved.
LEMMA SetKeeps ==
    ASSUME IInv, NEW s \in Setting, Set(s)
    PROVE  IInv'
<1> USE DEF Set, Step
<1>1. picked' = picked \cup {s.level} /\ s.level \in 0 .. Full
  BY DEF Setting
<1>2. TypeOK'
  BY <1>1 DEF IInv, TypeOK, Caller
<1>3. LoadOK'
  BY DEF IInv, LoadOK, Loading, TypeOK, Caller
<1>4. FileOK'
  BY <1>1, PrintedGrows DEF IInv, FileOK
<1>5. SettledOK' /\ NeverInvented'
  BY <1>1 DEF IInv, SettledOK, NeverInvented
<1>6. QED  BY <1>2, <1>3, <1>4, <1>5 DEF IInv

\* The steps of a save, whichever thread makes them.
LEMMA SaveKeeps ==
    ASSUME IInv, NEW c \in Caller,
           SaveTest(c) \/ SaveOpen(c) \/ SaveFails(c) \/ SavePrint(c) \/ SaveClose(c)
           \/ CloseFails(c)
    PROVE  IInv'
<1> USE DEF Step, HistoryKept, Caller
<1>0. UNCHANGED <<mem, picked, restored, ioRunning>> /\ Printed' = Printed
  BY DEF SaveTest, SaveOpen, SaveFails, SavePrint, SaveClose, CloseFails, Printed
<1>1. mem \in Setting /\ Rounded(mem) \in Setting /\ Exact(Rounded(mem).level)
      /\ Rounded(mem).level = Nearest(mem.level) /\ Rounded(mem).level \in Printed
  <2>1. mem \in Setting /\ mem.level \in {Full \div 2} \cup picked \cup {Nearest(v) : v \in picked}
    BY DEF IInv, TypeOK, NeverInvented
  <2>2. Nearest(Full \div 2) = Full \div 2
    BY HalfIsExact, NearestOfExact
  <2>3. \A v \in picked : Nearest(Nearest(v)) = Nearest(v)
    BY NearestType, NearestOfExact DEF IInv, TypeOK
  <2>4. Nearest(mem.level) \in Printed
    BY <2>1, <2>2, <2>3 DEF Printed
  <2>5. QED  BY <2>1, <2>4, RoundedType
<1>2. TypeOK'
  <2>1. CASE SaveTest(c)
    BY <2>1 DEF SaveTest, IInv, TypeOK
  <2>2. CASE SaveOpen(c)
    BY <2>2 DEF SaveOpen, IInv, TypeOK
  <2>3. CASE SaveFails(c)
    BY <2>3 DEF SaveFails, IInv, TypeOK
  <2>4. CASE SavePrint(c)
    BY <2>4, <1>1 DEF SavePrint, IInv, TypeOK
  <2>5. CASE SaveClose(c)
    BY <2>5, LoadedIs DEF SaveClose, IInv, TypeOK
  <2>6. CASE CloseFails(c)
    BY <2>6, LoadedIs DEF CloseFails, IInv, TypeOK
  <2>7. QED  BY <2>1, <2>2, <2>3, <2>4, <2>5, <2>6
<1>3. LoadOK'
  BY DEF SaveTest, SaveOpen, SaveFails, SavePrint, SaveClose, CloseFails, IInv, LoadOK, Loading, TypeOK
<1>4. FileOK'
  <2>1. CASE SaveTest(c) \/ SaveFails(c)
    BY <2>1, <1>0 DEF SaveTest, SaveFails, IInv, FileOK
  <2>2. CASE SaveOpen(c)
    BY <2>2, <1>0 DEF SaveOpen, IInv, FileOK
  <2>3. CASE SavePrint(c)
    BY <2>3, <1>0, <1>1 DEF SavePrint, IInv, FileOK, TypeOK
  <2>4. CASE SaveClose(c)
    <3>1. Loaded(file') = printed[c] /\ \A d \in Caller : printed'[d] \in {printed[d], Default}
      BY <2>4, LoadedIs DEF SaveClose, IInv, TypeOK
    <3>2. Default.level \in Printed /\ Exact(Default.level)
      BY LoadedIs DEF Printed, Default
    <3>3. QED  BY <1>0, <3>1, <3>2 DEF IInv, FileOK
  <2>5. CASE CloseFails(c)
    <3>1. file' = file /\ \A d \in Caller : printed'[d] \in {printed[d], Default}
      BY <2>5 DEF CloseFails, IInv, TypeOK
    <3>2. Default.level \in Printed /\ Exact(Default.level)
      BY LoadedIs DEF Printed, Default
    <3>3. QED  BY <1>0, <3>1, <3>2 DEF IInv, FileOK
  <2>6. QED  BY <2>1, <2>2, <2>3, <2>4, <2>5
<1>5. SettledOK'
  <2> SUFFICES ASSUME settled', ~ioRunning, ~Loading
               PROVE  /\ \A d \in Caller : at'[d] = "saveClose" => printed'[d] = Rounded(mem)
                      /\ FileComes'
    <3>1. Loading' = Loading
      BY DEF SaveTest, SaveOpen, SaveFails, SavePrint, SaveClose, CloseFails, Loading, IInv, TypeOK
    <3>2. QED  BY <1>0, <3>1 DEF SettledOK
  <2>1. settled /\ ~SaveFails(c) /\ ~CloseFails(c)
    BY DEF SaveTest, SaveOpen, SaveFails, SavePrint, SaveClose, CloseFails
  <2>2. (\A d \in Caller : at[d] = "saveClose" => printed[d] = Rounded(mem)) /\ FileComes
    BY <2>1 DEF IInv, SettledOK
  <2>3. CASE SaveTest(c)
    BY <2>2, <2>3 DEF SaveTest, Throttled, FileComes, IInv, TypeOK
  <2>4. CASE SaveOpen(c)
    BY <2>2, <2>4 DEF SaveOpen, FileComes, IInv, TypeOK
  <2>5. CASE SavePrint(c)
    BY <1>0, <2>2, <2>5 DEF SavePrint, FileComes, IInv, TypeOK
  <2>6. CASE SaveClose(c)
    <3>1. Loaded(file') = printed[c] /\ printed[c] = Rounded(mem)
      BY <2>2, <2>6, LoadedIs DEF SaveClose, IInv, TypeOK
    <3>2. \A d \in Caller : at'[d] = "saveClose" => printed'[d] = printed[d] /\ at[d] = "saveClose"
      BY <2>6 DEF SaveClose, IInv, TypeOK
    <3>3. QED  BY <1>0, <2>2, <3>1, <3>2 DEF FileComes
  <2>7. QED  BY <2>1, <2>3, <2>4, <2>5, <2>6
<1>6. NeverInvented'
  BY <1>0 DEF IInv, NeverInvented
<1>7. QED  BY <1>2, <1>3, <1>4, <1>5, <1>6 DEF IInv

\* The steps of StartIO and StopIO on the control thread.
LEMMA ControlKeeps ==
    ASSUME IInv, StartIO \/ LoadDefault \/ LoadRead \/ LoadStore \/ RunIO \/ StopIO
    PROVE  IInv'
<1> USE DEF Step, HistoryKept, Caller, StartIO, LoadDefault, LoadRead, LoadStore, RunIO, StopIO
<1>0. UNCHANGED <<file, printed, picked>> /\ Printed' = Printed
      /\ mem' \in {mem, Default, restored} /\ restored' \in {restored, Default, Loaded(file)}
  BY DEF Printed
<1>1. Default \in Setting /\ Default.level = Full \div 2 /\ Loaded(file) \in Setting
  BY Settings, LoadedIs DEF IInv, Default
<1>2. Loaded(file).level \in Printed
  BY <1>1, LoadedIs DEF IInv, FileOK, Printed
<1>3. TypeOK'
  BY <1>1 DEF PrintIsCurrent, IInv, TypeOK
<1>4. LoadOK'
  BY DEF IInv, LoadOK, Loading, TypeOK
<1>5. FileOK'
  BY <1>0, <1>1, <1>2 DEF IInv, FileOK, Printed
<1>6. SettledOK'
  <2>1. CASE StopIO
    <3>1. at'["control"] = "saveTest" /\ lastSave' = "never" /\ at'["setter"] = at["setter"]
          /\ UNCHANGED <<printed, mem>>
      BY <2>1 DEF IInv, TypeOK
    <3>2. settled' => (at["setter"] = "saveClose" => printed["setter"] = Rounded(mem))
      BY <2>1 DEF PrintIsCurrent
    <3>3. QED  BY <3>1, <3>2 DEF SettledOK, FileComes
  <2>2. CASE ~StopIO
    <3>1. Loading' \/ ioRunning'
      BY <2>2 DEF Loading, IInv, TypeOK
    <3>2. QED  BY <3>1 DEF SettledOK
  <2>3. QED  BY <2>1, <2>2
<1>7. NeverInvented'
  BY <1>0, <1>1 DEF IInv, NeverInvented, FileOK, Printed
<1>8. QED  BY <1>3, <1>4, <1>5, <1>6, <1>7 DEF IInv

\* coreaudiod starts again from the file alone.
LEMMA RestartKeeps ==
    ASSUME IInv, Restart
    PROVE  IInv'
<1> USE DEF Restart, Caller
<1>1. Default \in Setting /\ Default.level = Full \div 2 /\ Exact(Default.level)
      /\ Loaded(file) \in Setting /\ Printed' = Printed
  BY Settings, LoadedIs DEF IInv, Default, Printed
<1>2. Loaded(file).level \in Printed /\ Exact(Loaded(file).level)
  BY <1>1, LoadedIs DEF IInv, FileOK, Printed
<1>3. TypeOK'
  BY <1>1 DEF IInv, TypeOK
<1>4. LoadOK'
  BY DEF LoadOK, Loading
<1>5. FileOK'
  BY <1>1, <1>2 DEF FileOK, Printed, IInv
<1>6. SettledOK'
  BY <1>1, <1>2, RoundedType DEF SettledOK, FileComes
<1>7. NeverInvented'
  BY <1>2 DEF NeverInvented, Printed
<1>8. QED  BY <1>3, <1>4, <1>5, <1>6, <1>7 DEF IInv

\* What Initialize finds is what a save once printed of a level in range.
LEMMA InitHolds == Init => IInv
<1> SUFFICES ASSUME Init PROVE IInv
  OBVIOUS
<1> USE DEF Init, Caller
<1>1. \A v \in Levels : Clamped(v) \in 0 .. Full
  BY VolumeAssumption DEF Clamped
<1>2. Default \in Setting /\ Default.level = Full \div 2 /\ Exact(Default.level)
  BY LoadedIs DEF Default
<1>3. file = {} \/ (\E s \in Foreign : file = {s}) \/ \E s \in Setting : file = {Rounded(s)}
  BY <1>1 DEF Setting
<1>4. file \in {{}} \cup {{s} : s \in Setting \cup Foreign} /\ mem \in Setting /\ Exact(mem.level)
  <2>1. CASE file = {}
    BY <2>1, <1>2, LoadedIs
  <2>2. ASSUME NEW s \in Setting, file = {Rounded(s)}
        PROVE  /\ file \in {{}} \cup {{t} : t \in Setting \cup Foreign}
               /\ mem \in Setting /\ Exact(mem.level)
    <3>1. Rounded(s) \in Setting /\ Exact(Rounded(s).level) /\ mem = Rounded(s)
      BY <2>2, RoundedType, LoadedIs
    <3>2. QED  BY <2>2, <3>1
  <2>3. ASSUME NEW s \in Foreign, file = {s}
        PROVE  /\ file \in {{}} \cup {{t} : t \in Setting \cup Foreign}
               /\ mem \in Setting /\ Exact(mem.level)
    BY <2>3, LoadedIs, HalfIsExact
  <2>4. QED  BY <1>3, <2>1, <2>2, <2>3
<1>5. mem.level \in 0 .. Full /\ picked = {mem.level} /\ mem.level = Nearest(mem.level)
  BY <1>4, NearestOfExact DEF Setting
<1>6. TypeOK
  BY <1>2, <1>4, <1>5 DEF TypeOK
<1>7. FileOK
  BY <1>2, <1>4, <1>5 DEF FileOK, Printed
<1>8. LoadOK /\ SettledOK /\ NeverInvented
  BY <1>4, <1>5, RoundedType DEF LoadOK, Loading, SettledOK, FileComes, NeverInvented
<1>9. QED  BY <1>6, <1>7, <1>8 DEF IInv
-------------------------------------------------------------------------------
\* The strengthened invariant holds in every reachable state.
THEOREM Invariance == Spec => []IInv
<1>1. IInv /\ [Next]_vars => IInv'
  <2> SUFFICES ASSUME IInv, [Next]_vars PROVE IInv'
    OBVIOUS
  <2>1. ASSUME NEW v \in Levels, SetVolume(v) PROVE IInv'
    <3>1. [mem EXCEPT !.level = Clamped(v)] \in Setting
      BY VolumeAssumption DEF IInv, TypeOK, Setting, Clamped
    <3>2. QED  BY <2>1, <3>1, SetKeeps DEF SetVolume
  <2>2. ASSUME NEW m \in BOOLEAN, SetMute(m) PROVE IInv'
    <3>1. [mem EXCEPT !.muted = m] \in Setting
      BY DEF IInv, TypeOK, Setting
    <3>2. QED  BY <2>2, <3>1, SetKeeps DEF SetMute
  <2>3. ASSUME NEW c \in Caller,
               SaveTest(c) \/ SaveOpen(c) \/ SaveFails(c) \/ SavePrint(c) \/ SaveClose(c)
               \/ CloseFails(c)
        PROVE  IInv'
    BY <2>3, SaveKeeps
  <2>4. CASE Elapse
    BY <2>4 DEF Elapse, HistoryKept, IInv, TypeOK, LoadOK, Loading, FileOK, Printed, SettledOK,
       FileComes, NeverInvented
  <2>5. CASE StartIO \/ LoadDefault \/ LoadRead \/ LoadStore \/ RunIO \/ StopIO
    BY <2>5, ControlKeeps
  <2>6. CASE Restart
    BY <2>6, RestartKeeps
  <2>7. CASE UNCHANGED vars
    BY <2>7 DEF vars, IInv, TypeOK, LoadOK, Loading, FileOK, Printed, SettledOK,
       FileComes, NeverInvented
  <2>8. QED  BY <2>1, <2>2, <2>3, <2>4, <2>5, <2>6, <2>7 DEF Next
<1>2. QED  BY InitHolds, <1>1, PTL DEF Spec

\* Types: a volume never leaves the range, in memory, in a buffer or in the file.
THEOREM TypeCorrect == Spec => []TypeOK
<1>1. IInv => TypeOK
  BY DEF IInv
<1>2. QED  BY Invariance, <1>1, PTL

\* StopIO's forced save: once both threads are done the file restores what is in use, at
\* whatever step of its own save of the last value the property thread was when StopIO
\* began, and whichever of the two then truncated, throttled or overwrote the other.
THEOREM ForcedSaveIsKept == Spec => []SavedWhenStopped
<1>1. IInv => SavedWhenStopped
  BY DEF IInv, SettledOK, FileComes, Loading, SavedWhenStopped, Idle, Caller
<1>2. QED  BY Invariance, <1>1, PTL

\* No truncated, lost or raced file brings a volume nobody picked.
THEOREM VolumeIsPicked == Spec => []NeverInvented
<1>1. IInv => NeverInvented
  BY DEF IInv
<1>2. QED  BY Invariance, <1>1, PTL

\* LoadVolumeState's passing defaults are never heard.
THEOREM ReloadIsNotHeard == Spec => GainIsSteady
<1> DEFINE Steady == ioRunning /\ ioRunning' /\ mem' # mem => at'["setter"] # at["setter"]
<1>1. IInv /\ [Next]_vars => [Steady]_vars
  <2> SUFFICES ASSUME IInv, Next, ioRunning, ioRunning', mem' # mem
               PROVE  at'["setter"] # at["setter"]
    OBVIOUS
  <2>1. \E s : Set(s)
    BY DEF Next, SetVolume, SetMute, SaveTest, SaveOpen, SaveFails, SavePrint, SaveClose,
           CloseFails, Elapse, StartIO, LoadDefault, LoadRead, LoadStore, RunIO, StopIO, Restart, Step, HistoryKept,
           IInv, LoadOK, Loading
  <2>2. QED  BY <2>1 DEF Set, Step, IInv, TypeOK, Caller
<1>2. QED  BY Invariance, <1>1, PTL DEF Spec, GainIsSteady
===============================================================================
