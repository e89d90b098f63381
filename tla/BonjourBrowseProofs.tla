-------------------------- MODULE BonjourBrowseProofs --------------------------
(***************************************************************************)
(* BonjourBrowse for any receivers, any number of changes, edits and       *)
(* attempts: why the browse thread cannot hide a receiver it has just      *)
(* found, and why StartIO cannot get an address without a port.  Both rest *)
(* on the order in which the browse thread stores what it shares, and on   *)
(* nothing that the control thread or the network does.                    *)
(***************************************************************************)
EXTENDS BonjourBrowse, FiniteSetTheorems, SequenceTheorems, TLAPS

\* An expiry or a deadline is pending only while no receiver is at hand.
GraceOK ==
    /\ grace # "off" => ~available
    /\ browse \in {"resolve", "address", "storing", "available", "unpublish", "hide"} =>
        grace = "off"
    /\ browse \in {"unpublish", "hide", "lost", "lostHide"} => ~available

\* The port is stored before the address, and both before the flag; none is erased, and
\* they are one receiver's once the address is whole.
StoredOK ==
    /\ present \subseteq Receiver
    /\ browse \in {"address", "storing"} => half /\ port = found /\ found # None
    /\ ~half /\ port # None => \A p \in Part : ip[p] = port
    /\ browse = "available" \/ available => port # None /\ \A p \in Part : ip[p] # None

\* What StartIO has read so far, and what it will read unless a receiver is resolved.
ReadOK ==
    /\ ctl = "readAvailable" => target = NoTarget /\ ~torn
    /\ Reading =>
        /\ ~torn => ~half
        /\ port # None /\ \A p \in Part : ip[p] # None
    /\ ctl = "readPort" => target = NoTarget
    /\ ctl \in {"testIP", "copyIP", "copyRest"} =>
        /\ target.port # None /\ (~torn => target.port = port)
        /\ ~torn => \A p \in Part : target.ip[p] \in {None, port}
    /\ ctl \notin {"readAvailable", "readPort", "testIP", "copyIP", "copyRest"} =>
        /\ target = NoTarget \/ Complete(target)
        /\ ~torn => \A p \in Part : target.ip[p] = target.port

\* While the thread looks for mDNSResponder it has an attempt left.
AttemptsOK ==
    browse \in {"lost", "lostHide", "lostHidden", "reconnect"} => attempts < MaxAttempts

IInv == TypeOK /\ GraceOK /\ StoredOK /\ ReadOK /\ AttemptsOK
-------------------------------------------------------------------------------
\* The grace period belongs to the browse thread, which ends it before it resolves.
LEMMA GraceStep == IInv /\ [Next]_vars => GraceOK'
<1> SUFFICES ASSUME IInv, [Next]_vars PROVE GraceOK'
  OBVIOUS
<1> USE BrowseAssumption DEF IInv, GraceOK, TypeOK, outsideVars, halVars,
        sharedVars, browseVars, ctlVars, Goto, CtlGoto, CtlKeeps, Notify
<1>1. ASSUME NEW r \in Receiver, Appear(r) \/ Vanish(r) PROVE GraceOK'
  BY <1>1 DEF Appear, Vanish
<1>2. CASE LoseDaemon \/ GraceElapses \/ EditPlist \/ HalReads \/ UNCHANGED vars
  BY <1>2 DEF LoseDaemon, GraceElapses, EditPlist, HalReads, vars
<1>3. CASE Top \/ SelectStop \/ SelectTimeout \/ SelectFails \/ SelectReady
  BY <1>3 DEF Top, Expired, SelectStop, SelectTimeout, SelectFails, SelectReady
<1>4. CASE BrowseAdd
  BY <1>4 DEF BrowseAdd, AfterAdd
<1>5. CASE BrowseRemove
  BY <1>5 DEF BrowseRemove
<1>6. CASE ConnectionLost
  BY <1>6 DEF ConnectionLost
<1>7. CASE UnpublishTest \/ UnpublishSet
  BY <1>7 DEF UnpublishTest, UnpublishSet
<1>8. ASSUME NEW isBack \in BOOLEAN, Reconnect(isBack) PROVE GraceOK'
  BY <1>8 DEF Reconnect
<1>9. CASE ReconnectStop \/ QueryFails \/ QueryRefused
  BY <1>9 DEF ReconnectStop, QueryFails, QueryRefused, QueryEnds
<1>10. CASE Resolved
  BY <1>10 DEF Resolved
<1>11. ASSUME NEW p \in Part, AddressFound(p) PROVE GraceOK'
  BY <1>11 DEF AddressFound
<1>12. CASE AddressStored
  BY <1>12 DEF AddressStored
<1>13. CASE MakeAvailable
  BY <1>13 DEF MakeAvailable
<1>14. CASE PublishTest \/ PublishSet \/ BrowseNotify
  BY <1>14 DEF PublishTest, PublishSet, BrowseNotify
<1>15. CASE StartIO
  BY <1>15 DEF StartIO, LoadConfig
<1>16. CASE ReadAvailable
  BY <1>16 DEF ReadAvailable
<1>17. CASE ReadPort \/ TestIP
  BY <1>17 DEF ReadPort, TestIP
<1>18. ASSUME NEW p \in Part, CopyIP(p) PROVE GraceOK'
  BY <1>18 DEF CopyIP
<1>19. CASE CopyRest
  BY <1>19 DEF CopyRest
<1>20. CASE StopIO \/ StopTest \/ StopUnpublishTest
  BY <1>20 DEF StopIO, StopTest, HideAtStop, StopUnpublishTest
<1>21. CASE StopUnpublishSet \/ StopNotify
  BY <1>21 DEF StopUnpublishSet, StopNotify
<1>22. CASE BrowseStop \/ BrowseJoined
  BY <1>22 DEF BrowseStop, BrowseJoined
<1>23. QED
  BY <1>1, <1>2, <1>3, <1>4, <1>5, <1>6, <1>7, <1>8, <1>9, <1>10, <1>11, <1>12, <1>13, <1>14,
     <1>15, <1>16, <1>17, <1>18, <1>19, <1>20, <1>21, <1>22
  DEF Next, BrowseRuns, BrowseFails, CtlRuns

\* The browse thread stores the port, then the address part by part, then the flag, and
\* erases none.
LEMMA StoredStep == IInv /\ [Next]_vars => StoredOK'
<1> SUFFICES ASSUME IInv, [Next]_vars PROVE StoredOK'
  OBVIOUS
<1> USE BrowseAssumption DEF IInv, StoredOK, TypeOK, WholeIP, outsideVars,
        halVars, sharedVars, browseVars, ctlVars, Goto, CtlGoto, CtlKeeps, Notify
<1>1. ASSUME NEW r \in Receiver, Appear(r) \/ Vanish(r) PROVE StoredOK'
  BY <1>1 DEF Appear, Vanish
<1>2. CASE LoseDaemon \/ GraceElapses \/ EditPlist \/ HalReads \/ UNCHANGED vars
  BY <1>2 DEF LoseDaemon, GraceElapses, EditPlist, HalReads, vars
<1>3. CASE Top \/ SelectStop \/ SelectTimeout \/ SelectFails \/ SelectReady
  BY <1>3 DEF Top, Expired, SelectStop, SelectTimeout, SelectFails, SelectReady
<1>4. CASE BrowseAdd
  BY <1>4 DEF BrowseAdd, AfterAdd
<1>5. CASE BrowseRemove
  BY <1>5 DEF BrowseRemove
<1>6. CASE ConnectionLost
  BY <1>6 DEF ConnectionLost
<1>7. CASE UnpublishTest \/ UnpublishSet
  BY <1>7 DEF UnpublishTest, UnpublishSet
<1>8. ASSUME NEW isBack \in BOOLEAN, Reconnect(isBack) PROVE StoredOK'
  BY <1>8 DEF Reconnect
<1>9. CASE ReconnectStop \/ QueryFails \/ QueryRefused
  BY <1>9 DEF ReconnectStop, QueryFails, QueryRefused, QueryEnds
<1>10. CASE Resolved
  BY <1>10 DEF Resolved
<1>11. ASSUME NEW p \in Part, AddressFound(p) PROVE StoredOK'
  BY <1>11 DEF AddressFound
<1>12. CASE AddressStored
  BY <1>12 DEF AddressStored
<1>13. CASE MakeAvailable
  BY <1>13 DEF MakeAvailable
<1>14. CASE PublishTest \/ PublishSet \/ BrowseNotify
  BY <1>14 DEF PublishTest, PublishSet, BrowseNotify
<1>15. CASE StartIO
  BY <1>15 DEF StartIO, LoadConfig
<1>16. CASE ReadAvailable
  BY <1>16 DEF ReadAvailable
<1>17. CASE ReadPort \/ TestIP
  BY <1>17 DEF ReadPort, TestIP
<1>18. ASSUME NEW p \in Part, CopyIP(p) PROVE StoredOK'
  BY <1>18 DEF CopyIP
<1>19. CASE CopyRest
  BY <1>19 DEF CopyRest
<1>20. CASE StopIO \/ StopTest \/ StopUnpublishTest
  BY <1>20 DEF StopIO, StopTest, HideAtStop, StopUnpublishTest
<1>21. CASE StopUnpublishSet \/ StopNotify
  BY <1>21 DEF StopUnpublishSet, StopNotify
<1>22. CASE BrowseStop \/ BrowseJoined
  BY <1>22 DEF BrowseStop, BrowseJoined
<1>23. QED
  BY <1>1, <1>2, <1>3, <1>4, <1>5, <1>6, <1>7, <1>8, <1>9, <1>10, <1>11, <1>12, <1>13, <1>14,
     <1>15, <1>16, <1>17, <1>18, <1>19, <1>20, <1>21, <1>22
  DEF Next, BrowseRuns, BrowseFails, CtlRuns

\* StartIO reads only behind the flag, and is given notice of whatever is resolved meanwhile.
LEMMA ReadStep == IInv /\ [Next]_vars => ReadOK'
<1> SUFFICES ASSUME IInv, [Next]_vars PROVE ReadOK'
  OBVIOUS
<1> USE BrowseAssumption DEF IInv, StoredOK, ReadOK, TypeOK, Reading, NoTarget, WholeIP,
        Complete, outsideVars, halVars,
        sharedVars, browseVars, ctlVars, Goto, CtlGoto, CtlKeeps, Notify
<1>1. ASSUME NEW r \in Receiver, Appear(r) \/ Vanish(r) PROVE ReadOK'
  BY <1>1 DEF Appear, Vanish
<1>2. CASE LoseDaemon \/ GraceElapses \/ EditPlist \/ HalReads \/ UNCHANGED vars
  BY <1>2 DEF LoseDaemon, GraceElapses, EditPlist, HalReads, vars
<1>3. CASE Top \/ SelectStop \/ SelectTimeout \/ SelectFails \/ SelectReady
  BY <1>3 DEF Top, Expired, SelectStop, SelectTimeout, SelectFails, SelectReady
<1>4. CASE BrowseAdd
  BY <1>4 DEF BrowseAdd, AfterAdd
<1>5. CASE BrowseRemove
  BY <1>5 DEF BrowseRemove
<1>6. CASE ConnectionLost
  BY <1>6 DEF ConnectionLost
<1>7. CASE UnpublishTest \/ UnpublishSet
  BY <1>7 DEF UnpublishTest, UnpublishSet
<1>8. ASSUME NEW isBack \in BOOLEAN, Reconnect(isBack) PROVE ReadOK'
  BY <1>8 DEF Reconnect
<1>9. CASE ReconnectStop \/ QueryFails \/ QueryRefused
  BY <1>9 DEF ReconnectStop, QueryFails, QueryRefused, QueryEnds
<1>10. CASE Resolved
  BY <1>10 DEF Resolved
<1>11. ASSUME NEW p \in Part, AddressFound(p) PROVE ReadOK'
  BY <1>11 DEF AddressFound
<1>12. CASE AddressStored
  BY <1>12 DEF AddressStored
<1>13. CASE MakeAvailable
  BY <1>13 DEF MakeAvailable
<1>14. CASE PublishTest \/ PublishSet \/ BrowseNotify
  BY <1>14 DEF PublishTest, PublishSet, BrowseNotify
<1>15. CASE StartIO
  BY <1>15 DEF StartIO, LoadConfig
<1>16. CASE ReadAvailable
  BY <1>16 DEF ReadAvailable
<1>17. CASE ReadPort \/ TestIP
  BY <1>17 DEF ReadPort, TestIP
<1>18. ASSUME NEW p \in Part, CopyIP(p) PROVE ReadOK'
  BY <1>18 DEF CopyIP
<1>19. CASE CopyRest
  BY <1>19 DEF CopyRest
<1>20. CASE StopIO \/ StopTest \/ StopUnpublishTest
  BY <1>20 DEF StopIO, StopTest, HideAtStop, StopUnpublishTest
<1>21. CASE StopUnpublishSet \/ StopNotify
  BY <1>21 DEF StopUnpublishSet, StopNotify
<1>22. CASE BrowseStop \/ BrowseJoined
  BY <1>22 DEF BrowseStop, BrowseJoined
<1>23. QED
  BY <1>1, <1>2, <1>3, <1>4, <1>5, <1>6, <1>7, <1>8, <1>9, <1>10, <1>11, <1>12, <1>13, <1>14,
     <1>15, <1>16, <1>17, <1>18, <1>19, <1>20, <1>21, <1>22
  DEF Next, BrowseRuns, BrowseFails, CtlRuns

\* An attempt that fails is the last or leaves one.
LEMMA AttemptsStep == IInv /\ [Next]_vars => AttemptsOK'
<1> SUFFICES ASSUME IInv, [Next]_vars PROVE AttemptsOK'
  OBVIOUS
<1> USE BrowseAssumption DEF IInv, AttemptsOK, TypeOK, outsideVars, halVars,
        sharedVars, browseVars, ctlVars, Goto, CtlGoto, CtlKeeps, Notify
<1>1. ASSUME NEW r \in Receiver, Appear(r) \/ Vanish(r) PROVE AttemptsOK'
  BY <1>1 DEF Appear, Vanish
<1>2. CASE LoseDaemon \/ GraceElapses \/ EditPlist \/ HalReads \/ UNCHANGED vars
  BY <1>2 DEF LoseDaemon, GraceElapses, EditPlist, HalReads, vars
<1>3. CASE Top \/ SelectStop \/ SelectTimeout \/ SelectFails \/ SelectReady
  BY <1>3 DEF Top, Expired, SelectStop, SelectTimeout, SelectFails, SelectReady
<1>4. CASE BrowseAdd
  BY <1>4 DEF BrowseAdd, AfterAdd
<1>5. CASE BrowseRemove
  BY <1>5 DEF BrowseRemove
<1>6. CASE ConnectionLost
  BY <1>6 DEF ConnectionLost
<1>7. CASE UnpublishTest \/ UnpublishSet
  BY <1>7 DEF UnpublishTest, UnpublishSet
<1>8. ASSUME NEW isBack \in BOOLEAN, Reconnect(isBack) PROVE AttemptsOK'
  BY <1>8 DEF Reconnect
<1>9. CASE ReconnectStop \/ QueryFails \/ QueryRefused
  BY <1>9 DEF ReconnectStop, QueryFails, QueryRefused, QueryEnds
<1>10. CASE Resolved
  BY <1>10 DEF Resolved
<1>11. ASSUME NEW p \in Part, AddressFound(p) PROVE AttemptsOK'
  BY <1>11 DEF AddressFound
<1>12. CASE AddressStored
  BY <1>12 DEF AddressStored
<1>13. CASE MakeAvailable
  BY <1>13 DEF MakeAvailable
<1>14. CASE PublishTest \/ PublishSet \/ BrowseNotify
  BY <1>14 DEF PublishTest, PublishSet, BrowseNotify
<1>15. CASE StartIO
  BY <1>15 DEF StartIO, LoadConfig
<1>16. CASE ReadAvailable
  BY <1>16 DEF ReadAvailable
<1>17. CASE ReadPort \/ TestIP
  BY <1>17 DEF ReadPort, TestIP
<1>18. ASSUME NEW p \in Part, CopyIP(p) PROVE AttemptsOK'
  BY <1>18 DEF CopyIP
<1>19. CASE CopyRest
  BY <1>19 DEF CopyRest
<1>20. CASE StopIO \/ StopTest \/ StopUnpublishTest
  BY <1>20 DEF StopIO, StopTest, HideAtStop, StopUnpublishTest
<1>21. CASE StopUnpublishSet \/ StopNotify
  BY <1>21 DEF StopUnpublishSet, StopNotify
<1>22. CASE BrowseStop \/ BrowseJoined
  BY <1>22 DEF BrowseStop, BrowseJoined
<1>23. QED
  BY <1>1, <1>2, <1>3, <1>4, <1>5, <1>6, <1>7, <1>8, <1>9, <1>10, <1>11, <1>12, <1>13, <1>14,
     <1>15, <1>16, <1>17, <1>18, <1>19, <1>20, <1>21, <1>22
  DEF Next, BrowseRuns, BrowseFails, CtlRuns

\* A report is a sequence of browse results.
LEMMA ReportType ==
    ASSUME NEW S \in SUBSET Receiver, NEW report \in ReportAll(S)
    PROVE  report \in Seq(Event)
<1>1. PICK order \in SetToSeqs(S) : report = [k \in DOMAIN order |-> [kind |-> "add", who |-> order[k]]]
  BY DEF ReportAll
<1>2. Cardinality(S) \in Nat
  BY BrowseAssumption, FS_Subset, FS_CardinalityType
<1>3. order \in [1 .. Cardinality(S) -> S]
  BY <1>1 DEF SetToSeqs
<1>4. report \in [1 .. Cardinality(S) -> Event]
  BY <1>1, <1>3 DEF Event
<1>5. QED  BY <1>2, <1>4

\* The queue of results takes one more, and gives up its first.
LEMMA QueueType ==
    ASSUME events \in Seq(Event)
    PROVE  /\ \A r \in Receiver : Report("add", r) \in Seq(Event) /\ Report("remove", r) \in Seq(Event)
           /\ events # <<>> => Head(events).who \in Receiver /\ Tail(events) \in Seq(Event)
<1>1. ASSUME NEW e \in Event PROVE Append(events, e) \in Seq(Event)
  OBVIOUS
<1>2. ASSUME NEW r \in Receiver
      PROVE  [kind |-> "add", who |-> r] \in Event /\ [kind |-> "remove", who |-> r] \in Event
  BY DEF Event
<1>3. ASSUME events # <<>> PROVE Head(events) \in Event /\ Tail(events) \in Seq(Event)
  BY <1>3
<1>4. \A e \in Event : e.who \in Receiver
  BY DEF Event
<1>5. QED  BY <1>1, <1>2, <1>3, <1>4 DEF Report

\* Types, which need what the thread knows of its attempts.
LEMMA TypeStep == IInv /\ [Next]_vars => TypeOK'
<1> SUFFICES ASSUME IInv, [Next]_vars PROVE TypeOK'
  OBVIOUS
<1> USE BrowseAssumption DEF IInv, StoredOK, AttemptsOK, TypeOK, NoTarget, WholeIP, outsideVars,
        halVars, sharedVars, browseVars, ctlVars, Goto, CtlGoto, CtlKeeps, Notify
<1>1. ASSUME NEW r \in Receiver, Appear(r) \/ Vanish(r) PROVE TypeOK'
  BY <1>1, QueueType DEF Appear, Vanish
<1>2. CASE LoseDaemon \/ GraceElapses \/ EditPlist \/ HalReads \/ UNCHANGED vars
  BY <1>2 DEF LoseDaemon, GraceElapses, EditPlist, HalReads, vars
<1>3. CASE Top \/ SelectStop \/ SelectTimeout \/ SelectFails \/ SelectReady
  BY <1>3 DEF Top, Expired, SelectStop, SelectTimeout, SelectFails, SelectReady
<1>4. CASE BrowseAdd
  BY <1>4, QueueType DEF BrowseAdd, AfterAdd
<1>5. CASE BrowseRemove
  BY <1>5, QueueType DEF BrowseRemove
<1>6. CASE ConnectionLost
  <2>1. 0 \in 0 .. MaxAttempts
    OBVIOUS
  <2>2. QED  BY <1>6, <2>1 DEF ConnectionLost
<1>7. CASE UnpublishTest \/ UnpublishSet
  BY <1>7 DEF UnpublishTest, UnpublishSet
<1>8. ASSUME NEW isBack \in BOOLEAN, Reconnect(isBack) PROVE TypeOK'
  BY <1>8, ReportType DEF Reconnect
<1>9. CASE ReconnectStop \/ QueryFails \/ QueryRefused
  BY <1>9 DEF ReconnectStop, QueryFails, QueryRefused, QueryEnds
<1>10. CASE Resolved
  BY <1>10 DEF Resolved
<1>11. ASSUME NEW p \in Part, AddressFound(p) PROVE TypeOK'
  BY <1>11 DEF AddressFound
<1>12. CASE AddressStored
  BY <1>12 DEF AddressStored
<1>13. CASE MakeAvailable
  BY <1>13 DEF MakeAvailable
<1>14. CASE PublishTest \/ PublishSet \/ BrowseNotify
  BY <1>14 DEF PublishTest, PublishSet, BrowseNotify
<1>15. CASE StartIO
  BY <1>15 DEF StartIO, LoadConfig
<1>16. CASE ReadAvailable
  BY <1>16 DEF ReadAvailable
<1>17. CASE ReadPort \/ TestIP
  BY <1>17 DEF ReadPort, TestIP
<1>18. ASSUME NEW p \in Part, CopyIP(p) PROVE TypeOK'
  BY <1>18 DEF CopyIP
<1>19. CASE CopyRest
  BY <1>19 DEF CopyRest
<1>20. CASE StopIO \/ StopTest \/ StopUnpublishTest
  <2>1. CASE StopIO
    BY <2>1 DEF StopIO
  <2>2. CASE StopTest \/ StopUnpublishTest
    BY <2>2 DEF StopTest, StopUnpublishTest
  <2>3. QED  BY <1>20, <2>1, <2>2
<1>21. CASE StopUnpublishSet \/ StopNotify
  BY <1>21 DEF StopUnpublishSet, StopNotify
<1>22. CASE BrowseStop \/ BrowseJoined
  BY <1>22 DEF BrowseStop, BrowseJoined
<1>23. QED
  BY <1>1, <1>2, <1>3, <1>4, <1>5, <1>6, <1>7, <1>8, <1>9, <1>10, <1>11, <1>12, <1>13, <1>14,
     <1>15, <1>16, <1>17, <1>18, <1>19, <1>20, <1>21, <1>22
  DEF Next, BrowseRuns, BrowseFails, CtlRuns

\* Before anything is found there is nothing to hide and nothing to read.
LEMMA InitHolds == Init => IInv
<1> SUFFICES ASSUME Init PROVE IInv
  OBVIOUS
<1> USE BrowseAssumption DEF Init
<1>1. TypeOK
  <2>1. events \in Seq(Event)
    BY ReportType
  <2>2. plistIP \in BOOLEAN
    OBVIOUS
  <2>3. 0 \in 0 .. MaxAttempts
    OBVIOUS
  <2>4. target \in [ip : [Part -> Receiver \cup {None}], port : Receiver \cup {None}]
    BY DEF NoTarget, WholeIP
  <2>5. ip \in [Part -> Receiver \cup {None}]
    BY DEF WholeIP
  <2>6. QED  BY <2>1, <2>2, <2>3, <2>4, <2>5 DEF TypeOK
<1>2. GraceOK /\ StoredOK /\ ReadOK /\ AttemptsOK
  BY DEF GraceOK, StoredOK, ReadOK, AttemptsOK, NoTarget, WholeIP, Reading
<1>3. QED  BY <1>1, <1>2 DEF IInv

\* What the two threads take for granted holds at all times.
THEOREM Invariance == Spec => []IInv
<1>1. IInv /\ [Next]_vars => IInv'
  BY TypeStep, GraceStep, StoredStep, ReadStep, AttemptsStep DEF IInv
<1>2. QED  BY InitHolds, <1>1, PTL DEF Spec

\* Types; the reconnect attempts stay within their bound.
THEOREM TypeCorrect == Spec => []TypeOK
<1>1. IInv => TypeOK
  BY DEF IInv
<1>2. QED  BY <1>1, Invariance, PTL

\* The engine gets a whole pair or nothing, and one receiver's pair unless a discovery
\* was half stored while StartIO read it: wherever StartIO's loads fall among the browse
\* thread's stores, whichever parts of the address are copied first, and whichever
\* queries fail (ZinkosPlugin.cpp:353-366).
THEOREM TargetIsPaired == Spec => []TargetIsOnes
<1>1. IInv => TargetIsOnes
  <2>1. SUFFICES ASSUME IInv, ctl = "idle"
                 PROVE  /\ target = NoTarget \/ Complete(target)
                        /\ ~torn => target.ip = WholeIP(target.port)
    BY DEF TargetIsOnes
  <2>2. /\ target = NoTarget \/ Complete(target)
        /\ ~torn => \A p \in Part : target.ip[p] = target.port
    BY <2>1 DEF IInv, ReadOK
  <2>3. target.ip \in [Part -> Receiver \cup {None}]
    BY <2>1 DEF IInv, TypeOK
  <2>4. QED  BY <2>2, <2>3 DEF WholeIP
<1>2. QED  BY <1>1, Invariance, PTL

\* The browse thread hides the device only when it holds no receiver, and not within
\* the grace period, whatever StartIO and StopIO do meanwhile.
THEOREM HiddenWhenDue == Spec => HidesOnlyWhenDue
<1>1. IInv /\ [Next]_vars =>
        [published /\ ~published' /\ browse' # browse =>
            ~available /\ (browse = "hide" => grace = "off")]_vars
  <2> SUFFICES ASSUME IInv, [Next]_vars, published, ~published', browse' # browse
               PROVE  ~available /\ (browse = "hide" => grace = "off")
    OBVIOUS
  <2> USE DEF IInv, GraceOK, TypeOK, outsideVars, halVars, sharedVars, browseVars, ctlVars,
          Goto, CtlGoto, CtlKeeps, Notify
  <2>1. CASE UnpublishSet
    BY <2>1 DEF UnpublishSet
  <2>2. ASSUME NEW r \in Receiver, Appear(r) \/ Vanish(r) PROVE FALSE
    BY <2>2 DEF Appear, Vanish
  <2>3. ASSUME LoseDaemon \/ GraceElapses \/ EditPlist \/ HalReads PROVE FALSE
    BY <2>3 DEF LoseDaemon, GraceElapses, EditPlist, HalReads
  <2>4. ASSUME Top \/ SelectStop \/ SelectTimeout \/ SelectFails \/ SelectReady
               \/ BrowseAdd \/ BrowseRemove \/ ConnectionLost
               \/ UnpublishTest \/ ReconnectStop PROVE FALSE
    BY <2>4 DEF Top, SelectStop, SelectTimeout, SelectFails, SelectReady, BrowseAdd, BrowseRemove,
                ConnectionLost,
                UnpublishTest, ReconnectStop
  <2>5. ASSUME QueryFails \/ QueryRefused \/ Resolved
               \/ (\E p \in Part : AddressFound(p)) \/ AddressStored
               \/ MakeAvailable \/ PublishTest
               \/ PublishSet \/ BrowseNotify PROVE FALSE
    BY <2>5 DEF QueryFails, QueryRefused, QueryEnds, Resolved, AddressFound, AddressStored,
       MakeAvailable, PublishTest, PublishSet,
                BrowseNotify
  <2>6. ASSUME NEW isBack \in BOOLEAN, Reconnect(isBack) PROVE FALSE
    BY <2>6 DEF Reconnect
  <2>7. ASSUME StartIO \/ StopIO \/ BrowseStop \/ CtlRuns PROVE FALSE
    BY <2>7 DEF CtlRuns, StartIO, StopIO, BrowseStop, ReadAvailable, ReadPort, TestIP, CopyIP,
       CopyRest, StopTest,
                StopUnpublishTest, StopUnpublishSet, StopNotify, BrowseJoined
  <2>8. ~UNCHANGED vars
    BY DEF vars
  <2>9. QED  BY <2>1, <2>2, <2>3, <2>4, <2>5, <2>6, <2>7, <2>8 DEF Next, BrowseRuns, BrowseFails
<1>2. QED  BY <1>1, Invariance, PTL DEF Spec, HidesOnlyWhenDue
--------------------------------------------------------------------------------
(* What ListFollows rests on.                                                   *)

\* A thread has stored devicePublished and is about to call NotifyDeviceListChanged.
AboutToNotify == browse \in {"shown", "hidden", "lostHidden"} \/ ctl = "stopHidden"

\* A list that is out of date will be asked for again: the notice is there, or about
\* to be given.
NoNoticeIsLost == listed = published \/ noticed \/ AboutToNotify

\* Whatever the two threads store, and wherever the HAL's reading of the list falls
\* among their stores and notices, no notice is lost: both notify after the store,
\* and the list is read after the notice is taken.
THEOREM NoticeFollows == Spec => []NoNoticeIsLost
<1>1. Init => NoNoticeIsLost
  BY DEF Init, NoNoticeIsLost
<1>2. NoNoticeIsLost /\ [Next]_vars => NoNoticeIsLost'
  <2> SUFFICES ASSUME NoNoticeIsLost, [Next]_vars PROVE NoNoticeIsLost'
    OBVIOUS
  <2> USE DEF NoNoticeIsLost, AboutToNotify, outsideVars, halVars, sharedVars, browseVars,
          ctlVars, Goto, CtlGoto, CtlKeeps, Notify
  <2>1. CASE PublishSet
    BY <2>1 DEF PublishSet
  <2>2. CASE UnpublishSet
    BY <2>2 DEF UnpublishSet
  <2>3. CASE StopUnpublishSet
    BY <2>3 DEF StopUnpublishSet
  <2>4. CASE BrowseNotify \/ StopNotify
    BY <2>4 DEF BrowseNotify, StopNotify
  <2>5. CASE HalReads
    BY <2>5 DEF HalReads
  <2>6. ASSUME NEW r \in Receiver, Appear(r) \/ Vanish(r) PROVE NoNoticeIsLost'
    BY <2>6 DEF Appear, Vanish
  <2>7. CASE LoseDaemon \/ GraceElapses \/ EditPlist \/ UNCHANGED vars
    BY <2>7 DEF LoseDaemon, GraceElapses, EditPlist, vars
  <2>8. CASE Top \/ SelectStop \/ SelectTimeout \/ SelectFails \/ SelectReady
               \/ BrowseAdd \/ BrowseRemove \/ ConnectionLost
             \/ UnpublishTest \/ ReconnectStop
    BY <2>8 DEF Top, SelectStop, SelectTimeout, SelectFails, SelectReady, BrowseAdd, BrowseRemove,
                ConnectionLost,
                UnpublishTest, ReconnectStop
  <2>9. CASE QueryFails \/ QueryRefused \/ Resolved
               \/ (\E p \in Part : AddressFound(p)) \/ AddressStored
               \/ MakeAvailable \/ PublishTest
    BY <2>9 DEF QueryFails, QueryRefused, QueryEnds, Resolved, AddressFound, AddressStored,
       MakeAvailable, PublishTest
  <2>10. ASSUME NEW isBack \in BOOLEAN, Reconnect(isBack) PROVE NoNoticeIsLost'
    BY <2>10 DEF Reconnect
  <2>11. CASE StartIO \/ StopIO \/ BrowseStop \/ ReadAvailable \/ ReadPort \/ TestIP \/ CopyRest
              \/ (\E p \in Part : CopyIP(p))
               \/ StopTest
              \/ StopUnpublishTest \/ BrowseJoined
    BY <2>11 DEF StartIO, StopIO, BrowseStop, ReadAvailable, ReadPort, TestIP, CopyIP, CopyRest,
       StopTest,
                 StopUnpublishTest, BrowseJoined
  <2>12. QED
    BY <2>1, <2>2, <2>3, <2>4, <2>5, <2>6, <2>7, <2>8, <2>9, <2>10, <2>11
   
  DEF Next, BrowseRuns, BrowseFails, CtlRuns
<1>3. QED  BY <1>1, <1>2, PTL DEF Spec
--------------------------------------------------------------------------------
(* What DeadDeviceGoes rests on.                                                *)

Adding == browse \in {"resolve", "address", "storing", "available", "publish", "show", "shown"}
Hiding == browse \in {"unpublish", "hide"}

\* When nobody is there, the last thing mDNSResponder has to report is a departure.
QueueOK == events # <<>> => Last(events).kind = "remove"

\* With mDNSResponder there and nobody on the network, a device that is shown is not
\* forgotten, unless a select of the thread failed: a departure is still to be reported,
\* or the grace period runs or has run out, or the thread is hiding it; and the thread is
\* there to do so, if it was not told to stop.
NoDepartureIsLost ==
    connected /\ ~manual /\ present = {} /\ published /\ browse # "failed" =>
        /\ (events # <<>> /\ QueueOK) \/ grace # "off" \/ Hiding
        /\ browse \in {"none", "exited"} => stopPipe

\* Nor while the thread adds a receiver that has left.
GoneOK ==
    connected /\ ~manual /\ present = {} =>
        /\ QueueOK
        /\ Adding => events # <<>>
        /\ published => events # <<>> \/ grace # "off" \/ Hiding

\* A lost mDNSResponder takes the device with it, and only then does the thread give up.
LostOK ==
    /\ browse = "none" => manual \/ ~published
    /\ browse = "exited" => stopPipe \/ ~connected
    /\ browse \in {"lost", "lostHide", "lostHidden", "reconnect"} => ~connected
    /\ browse \in {"lostHidden", "reconnect"} => ~published

\* The last report stays the last until it is taken.
LEMMA LastReport ==
    ASSUME events \in Seq(Event)
    PROVE  /\ \A e \in Event : Append(events, e) # <<>> /\ Last(Append(events, e)) = e
           /\ events # <<>> /\ Tail(events) # <<>> => Last(Tail(events)) = Last(events)
           /\ events # <<>> /\ Tail(events) = <<>> => Last(events) = Head(events)
<1>1. ASSUME NEW e \in Event PROVE Append(events, e) # <<>> /\ Last(Append(events, e)) = e
  <2>1. Len(Append(events, e)) = Len(events) + 1 /\ Append(events, e)[Len(events) + 1] = e
    BY AppendProperties
  <2>2. Len(Append(events, e)) # 0 /\ Last(Append(events, e)) = e
    BY <2>1, LenProperties DEF Last
  <2>3. QED  BY <2>2, EmptySeq
<1>2. ASSUME events # <<>>
      PROVE  /\ Len(events) \in Nat \ {0} /\ Len(Tail(events)) = Len(events) - 1
             /\ \A i \in 1 .. Len(Tail(events)) : Tail(events)[i] = events[i + 1]
             /\ Head(events) = events[1] /\ Tail(events) \in Seq(Event)
  BY <1>2, EmptySeq, HeadTailProperties
<1>3. ASSUME events # <<>>, Tail(events) # <<>> PROVE Last(Tail(events)) = Last(events)
  <2>1. Len(Tail(events)) \in 1 .. Len(Tail(events)) /\ Len(Tail(events)) + 1 = Len(events)
    BY <1>2, <1>3, EmptySeq
  <2>2. QED  BY <1>2, <1>3, <2>1 DEF Last
<1>4. ASSUME events # <<>>, Tail(events) = <<>> PROVE Last(events) = Head(events)
  <2>0. Len(Tail(events)) = 0
    BY <1>4, EmptySeq
  <2>1. Len(events) = 1
    BY <1>2, <1>4, <2>0
  <2>2. QED  BY <1>2, <1>4, <2>1 DEF Last
<1>5. QED  BY <1>1, <1>3, <1>4

\* With nobody there a new browse reports nothing.
LEMMA NothingToReport ==
    ASSUME NEW report \in ReportAll({})
    PROVE  report = <<>>
<1>1. PICK order \in SetToSeqs({}) : report = [k \in DOMAIN order |-> [kind |-> "add", who |-> order[k]]]
  BY DEF ReportAll
<1>2. Cardinality({}) = 0
  BY FS_EmptySet
<1>3. order \in [1 .. 0 -> {}]
  BY <1>1, <1>2 DEF SetToSeqs
<1>4. report \in [1 .. 0 -> {}] /\ DOMAIN report = {}
  BY <1>1, <1>3
<1>5. report \in Seq({}) /\ Len(report) = 0
  BY <1>4
<1>6. QED  BY <1>5, EmptySeq

\* A departure is reported behind all else, an arrival means that somebody is there, and
\* the thread, when it takes the last report, begins the grace period.
LEMMA GoneStep ==
    ASSUME IInv, GoneOK, LostOK, [Next]_vars
    PROVE  GoneOK' /\ LostOK'
<1> USE DEF IInv, TypeOK, GraceOK, GoneOK, LostOK, Adding, Hiding, QueueOK, outsideVars, halVars,
        sharedVars, browseVars, ctlVars, Goto, CtlGoto, CtlKeeps, Notify
<1> DEFINE Kept == GoneOK' /\ LostOK'
<1>1. ASSUME NEW r \in Receiver, Appear(r) PROVE Kept
  <2>1. present' # {} /\ UNCHANGED <<connected, browse, published, manual, stopPipe>>
    BY <1>1 DEF Appear
  <2>2. QED  BY <2>1
<1>2. ASSUME NEW r \in Receiver, Vanish(r) PROVE Kept
  <2>1. UNCHANGED <<connected, browse, published, manual, stopPipe>>
    BY <1>2 DEF Vanish
  <2>2. CASE connected
    <3> DEFINE e == [kind |-> "remove", who |-> r]
    <3>1. e \in Event /\ e.kind = "remove" /\ events' = Append(events, e)
      BY <1>2, <2>2 DEF Vanish, Report, Event
    <3> HIDE DEF e
    <3>2. events' # <<>> /\ Last(events').kind = "remove"
      BY <3>1, LastReport
    <3>3. QED  BY <2>1, <3>2
  <2>3. CASE ~connected
    BY <2>1, <2>3
  <2>4. QED  BY <2>2, <2>3
<1>3. CASE LoseDaemon \/ GraceElapses \/ EditPlist \/ HalReads \/ UNCHANGED vars
  BY <1>3 DEF LoseDaemon, GraceElapses, EditPlist, HalReads, vars
<1>4. CASE Top
  BY <1>4 DEF Top, Expired
<1>5. CASE SelectStop \/ SelectTimeout \/ SelectFails \/ SelectReady
  BY <1>5 DEF SelectStop, SelectTimeout, SelectFails, SelectReady
<1>6. CASE BrowseAdd
  <2>1. /\ events # <<>> /\ Head(events).kind = "add" /\ events' = Tail(events)
        /\ browse' = "resolve" /\ UNCHANGED <<present, connected, published, manual, stopPipe>>
    BY <1>6 DEF BrowseAdd
  <2>2. connected /\ ~manual /\ present = {} => events' # <<>> /\ Last(events').kind = "remove"
    BY <2>1, LastReport
  <2>3. QED  BY <2>1, <2>2
<1>7. CASE BrowseRemove
  <2>1. /\ events # <<>> /\ events' = Tail(events) /\ grace' = "armed"
        /\ browse' = "top" /\ UNCHANGED <<present, connected, published, manual, stopPipe>>
    BY <1>7 DEF BrowseRemove
  <2>2. connected /\ ~manual /\ present = {} /\ events' # <<>> => Last(events').kind = "remove"
    BY <2>1, LastReport
  <2>3. QED  BY <2>1, <2>2
<1>8. CASE ConnectionLost
  BY <1>8 DEF ConnectionLost
<1>9. CASE UnpublishTest \/ UnpublishSet
  BY <1>9 DEF UnpublishTest, UnpublishSet
<1>10. CASE ReconnectStop \/ QueryFails \/ QueryRefused \/ Resolved
               \/ (\E p \in Part : AddressFound(p)) \/ AddressStored
               \/ MakeAvailable
  BY <1>10 DEF ReconnectStop, QueryFails, QueryRefused, QueryEnds, Resolved, AddressFound,
     AddressStored, MakeAvailable
<1>11. CASE PublishTest \/ PublishSet \/ BrowseNotify
  BY <1>11 DEF PublishTest, PublishSet, BrowseNotify
<1>12. ASSUME NEW isBack \in BOOLEAN, Reconnect(isBack) PROVE Kept
  <2>1. browse = "reconnect" /\ ~published /\ UNCHANGED <<present, published, manual, stopPipe>>
    BY <1>12 DEF Reconnect
  <2>2. CASE isBack
    <3>1. browse' = "top" /\ events' \in ReportAll(present)
      BY <1>12, <2>2 DEF Reconnect
    <3>2. present = {} => events' = <<>>
      BY <3>1, NothingToReport
    <3>3. QED  BY <2>1, <3>1, <3>2
  <2>3. CASE ~isBack
    <3>1. ~connected' /\ browse' \in {"reconnect", "exited"}
      BY <1>12, <2>3 DEF Reconnect
    <3>2. QED  BY <2>1, <3>1
  <2>4. QED  BY <2>2, <2>3
<1>13. CASE StartIO \/ StopIO \/ BrowseStop
  BY <1>13 DEF StartIO, StopIO, BrowseStop
<1>14. CASE ReadAvailable \/ ReadPort \/ TestIP \/ CopyRest
              \/ (\E p \in Part : CopyIP(p))
               \/ BrowseJoined
  BY <1>14 DEF ReadAvailable, ReadPort, TestIP, CopyIP, CopyRest, BrowseJoined
<1>15. CASE StopTest \/ StopUnpublishTest \/ StopUnpublishSet \/ StopNotify
  BY <1>15 DEF StopTest, StopUnpublishTest, StopUnpublishSet, StopNotify
<1>16. QED
  BY <1>1, <1>2, <1>3, <1>4, <1>5, <1>6, <1>7, <1>8, <1>9, <1>10, <1>11, <1>12, <1>13, <1>14,
     <1>15
  DEF Next, BrowseRuns, BrowseFails, CtlRuns

\* A device whose receivers have all left is not left shown, however the departures fell
\* among arrivals, queries that failed and lost connections, unless a select failed and
\* ended the thread (ZinkosBrowse.cpp:243-246).
THEOREM DepartureIsSeen == Spec => []NoDepartureIsLost
<1>1. Init => GoneOK /\ LostOK
  <2>1. SUFFICES ASSUME Init PROVE GoneOK /\ LostOK
    OBVIOUS
  <2>2. present = {} => events = <<>>
    BY <2>1, NothingToReport DEF Init
  <2>3. QED  BY <2>1, <2>2 DEF Init, GoneOK, LostOK, QueueOK, Adding
<1>2. GoneOK /\ LostOK => NoDepartureIsLost
  BY DEF GoneOK, LostOK, NoDepartureIsLost
<1>3. IInv /\ GoneOK /\ LostOK /\ [Next]_vars => GoneOK' /\ LostOK'
  BY GoneStep
<1>4. QED  BY <1>1, <1>2, <1>3, Invariance, PTL DEF Spec
--------------------------------------------------------------------------------
(* What ShownWithoutIO rests on, and what StopIO breaks.                        *)

\* A receiver at hand is shown, or about to be, while IO has not been started.
AvailableIsShown ==
    starts = 0 /\ available => published \/ browse \in {"publish", "show"}

\* Only StartIO gets the control thread into a handler that reads or stores the flags.
ControlOK ==
    /\ starts \in Nat
    /\ starts = 0 => ctl \in {"idle", "joining", "released"} /\ ~ioRunning

\* The browse thread by itself never leaves a receiver that it has found hidden, neither
\* when a grace period ends nor when mDNSResponder is lost.
THEOREM FoundIsShown == Spec => []AvailableIsShown
<1>1. Init => ControlOK /\ AvailableIsShown
  BY DEF Init, ControlOK, AvailableIsShown
<1>2. IInv /\ ControlOK /\ AvailableIsShown /\ [Next]_vars =>
        ControlOK' /\ AvailableIsShown'
  <2> SUFFICES ASSUME IInv, ControlOK, AvailableIsShown, [Next]_vars
               PROVE  ControlOK' /\ AvailableIsShown'
    OBVIOUS
  <2> USE DEF IInv, TypeOK, GraceOK, ControlOK, AvailableIsShown, outsideVars, halVars,
          sharedVars, browseVars, ctlVars, Goto, CtlGoto, CtlKeeps, Notify
  <2>1. ASSUME NEW r \in Receiver, Appear(r) \/ Vanish(r)
        PROVE  ControlOK' /\ AvailableIsShown'
    BY <2>1 DEF Appear, Vanish
  <2>2. CASE LoseDaemon \/ GraceElapses \/ EditPlist \/ HalReads \/ UNCHANGED vars
    BY <2>2 DEF LoseDaemon, GraceElapses, EditPlist, HalReads, vars
  <2>3. CASE Top \/ SelectStop \/ SelectTimeout \/ SelectFails \/ SelectReady \/ BrowseAdd
    BY <2>3 DEF Top, SelectStop, SelectTimeout, SelectFails, SelectReady, BrowseAdd
  <2>4. CASE BrowseRemove \/ ConnectionLost \/ UnpublishTest \/ UnpublishSet
    BY <2>4 DEF BrowseRemove, ConnectionLost, UnpublishTest, UnpublishSet
  <2>5. CASE ReconnectStop \/ QueryFails \/ QueryRefused \/ Resolved
               \/ (\E p \in Part : AddressFound(p)) \/ AddressStored
               \/ MakeAvailable
    BY <2>5 DEF ReconnectStop, QueryFails, QueryRefused, QueryEnds, Resolved, AddressFound,
       AddressStored, MakeAvailable
  <2>6. CASE PublishTest \/ PublishSet \/ BrowseNotify
    BY <2>6 DEF PublishTest, PublishSet, BrowseNotify
  <2>7. ASSUME NEW isBack \in BOOLEAN, Reconnect(isBack)
        PROVE  ControlOK' /\ AvailableIsShown'
    BY <2>7 DEF Reconnect
  <2>8. CASE StartIO
    <3>1. starts' \in Nat /\ starts' # 0
      BY <2>8 DEF StartIO
    <3>2. QED  BY <3>1
  <2>9. CASE BrowseStop
    BY <2>9 DEF BrowseStop
  <2>10. CASE StopIO
    BY <2>10 DEF StopIO
  <2>11. CASE ReadAvailable \/ ReadPort \/ TestIP \/ CopyRest
              \/ (\E p \in Part : CopyIP(p))
               \/ BrowseJoined
    BY <2>11 DEF ReadAvailable, ReadPort, TestIP, CopyIP, CopyRest, BrowseJoined
  <2>12. CASE StopTest \/ StopUnpublishTest \/ StopUnpublishSet \/ StopNotify
    BY <2>12 DEF StopTest, StopUnpublishTest, StopUnpublishSet, StopNotify
  <2>13. QED
    BY <2>1, <2>2, <2>3, <2>4, <2>5, <2>6, <2>7, <2>8, <2>9, <2>10, <2>11, <2>12
   
  DEF Next, BrowseRuns, BrowseFails, CtlRuns
<1>3. QED  BY <1>1, <1>2, Invariance, PTL DEF Spec
--------------------------------------------------------------------------------
(* What ReleaseReturns rests on.                                                *)

\* A bound on the steps that the browse thread has left, once it is told to stop, to its
\* end: at select it may go round once more if the grace period is over, and at a result
\* that select has already reported it may begin one more query or all its attempts.
Ahead ==
    CASE browse = "select" -> IF grace = "due" THEN 13 ELSE 1
      [] browse = "reconnect" -> 5 + MaxAttempts - attempts
      [] browse = "hidden" -> 2
      [] browse = "hide" -> 3
      [] browse = "unpublish" -> 4
      [] browse = "top" -> 5
      [] browse = "shown" -> 6
      [] browse = "show" -> 7
      [] browse = "publish" -> 8
      [] browse = "available" -> 9
      [] browse = "storing" -> 10
      [] browse = "address" -> 11
      [] browse \in {"resolve", "none"} -> 12
      [] browse = "lostHidden" -> 6 + MaxAttempts
      [] browse = "lostHide" -> 7 + MaxAttempts
      [] browse = "lost" -> 8 + MaxAttempts
      [] browse = "process" -> 34 + MaxAttempts
      [] Ended -> 0

\* A grace period that runs, and one that is over, still have an effect.
GraceAhead == CASE grace = "armed" -> 28 [] grace = "due" -> 14 [] grace = "off" -> 0

StepsToExit == IF Ended THEN 0 ELSE Ahead + GraceAhead

BrowsePlaces ==
    {"none", "top", "select", "process", "unpublish", "hide", "hidden", "lost", "lostHide",
     "lostHidden", "reconnect", "resolve", "address", "storing", "available", "publish", "show",
     "shown", "exited", "failed"}

\* Release waits for a thread that was told to stop, and no earlier.
StopOK ==
    /\ browse \in BrowsePlaces /\ stopPipe \in BOOLEAN
    /\ stopPipe <=> ctl \in {"joining", "released"}
    /\ ctl = "joining" => browse # "none"
    /\ ctl = "released" => Ended
    /\ browse = "hidden" => grace = "off"

\* Release is waiting, so the thread was told; it ends after no more than StepsToExit steps.
ReleaseIsJoined ==
    /\ ctl = "joining" => stopPipe /\ browse # "none"
    /\ StepsToExit \in 0 .. 62 + MaxAttempts /\ (StepsToExit = 0 <=> Ended)

\* Once told, the thread stays told; nobody takes it further from its end, each step of its
\* own takes it nearer, and it begins to wait for an answer only for a result that it was
\* already about to take.
ExitGetsNearer ==
    [][stopPipe =>
        /\ stopPipe' /\ StepsToExit' <= StepsToExit
        /\ BrowseRuns \/ BrowseFails => StepsToExit' < StepsToExit
        /\ Waiting' => Waiting \/ browse = "process"]_vars

\* The bound is one.
LEMMA StepsBound ==
    ASSUME TypeOK, AttemptsOK, StopOK
    PROVE  StepsToExit \in 0 .. 62 + MaxAttempts /\ (StepsToExit = 0 <=> Ended)
<1>1. GraceAhead \in {0, 14, 28}
  BY DEF GraceAhead, TypeOK
<1>2. ~Ended => Ahead \in 1 .. 34 + MaxAttempts
  <2>1. MaxAttempts \in Nat \ {0} /\ attempts \in Nat
    BY BrowseAssumption DEF TypeOK
  <2>2. CASE browse = "select"
    BY <2>1, <2>2 DEF Ahead
  <2>3. CASE browse = "reconnect"
    BY <2>1, <2>3 DEF Ahead, AttemptsOK
  <2>4. CASE browse = "hidden"
    BY <2>1, <2>4 DEF Ahead
  <2>5. CASE browse = "hide"
    BY <2>1, <2>5 DEF Ahead
  <2>6. CASE browse = "unpublish"
    BY <2>1, <2>6 DEF Ahead
  <2>7. CASE browse = "top"
    BY <2>1, <2>7 DEF Ahead
  <2>8. CASE browse = "shown"
    BY <2>1, <2>8 DEF Ahead
  <2>9. CASE browse = "show"
    BY <2>1, <2>9 DEF Ahead
  <2>10. CASE browse = "publish"
    BY <2>1, <2>10 DEF Ahead
  <2>11. CASE browse = "available"
    BY <2>1, <2>11 DEF Ahead
  <2>12. CASE browse = "storing"
    BY <2>1, <2>12 DEF Ahead
  <2>13. CASE browse = "address"
    BY <2>1, <2>13 DEF Ahead
  <2>14. CASE browse \in {"resolve", "none"}
    BY <2>1, <2>14 DEF Ahead
  <2>15. CASE browse = "lostHidden"
    BY <2>1, <2>15 DEF Ahead
  <2>16. CASE browse = "lostHide"
    BY <2>1, <2>16 DEF Ahead
  <2>17. CASE browse = "lost"
    BY <2>1, <2>17 DEF Ahead
  <2>18. CASE browse = "process"
    BY <2>1, <2>18 DEF Ahead
  <2>19. QED
    BY <2>2, <2>3, <2>4, <2>5, <2>6, <2>7, <2>8, <2>9, <2>10, <2>11, <2>12, <2>13, <2>14, <2>15,
       <2>16, <2>17, <2>18
    DEF StopOK, BrowsePlaces, Ended
<1>3. QED  BY <1>1, <1>2, BrowseAssumption DEF StepsToExit

\* The control thread tells the browse thread once, and then waits.
LEMMA StopStep == TypeOK /\ GraceOK /\ AttemptsOK /\ StopOK /\ [Next]_vars => StopOK'
<1> SUFFICES ASSUME TypeOK, GraceOK, AttemptsOK, StopOK, [Next]_vars PROVE StopOK'
  OBVIOUS
<1> USE DEF TypeOK, GraceOK, AttemptsOK, StopOK, BrowsePlaces, Ended, outsideVars,
        halVars, sharedVars, browseVars,
        ctlVars, Goto, CtlGoto, CtlKeeps, Notify
<1>1. ASSUME NEW r \in Receiver, Appear(r) \/ Vanish(r) PROVE StopOK'
  BY <1>1 DEF Appear, Vanish
<1>2. CASE LoseDaemon \/ GraceElapses \/ EditPlist \/ HalReads \/ UNCHANGED vars
  BY <1>2 DEF LoseDaemon, GraceElapses, EditPlist, HalReads, vars
<1>3. CASE Top \/ SelectStop \/ SelectTimeout \/ SelectFails \/ SelectReady \/ BrowseAdd
  BY <1>3 DEF Top, SelectStop, SelectTimeout, SelectFails, SelectReady, BrowseAdd
<1>4. CASE BrowseRemove \/ ConnectionLost \/ UnpublishTest \/ UnpublishSet
  BY <1>4 DEF BrowseRemove, ConnectionLost, UnpublishTest, UnpublishSet
<1>5. CASE ReconnectStop \/ QueryFails \/ QueryRefused \/ Resolved
               \/ (\E p \in Part : AddressFound(p)) \/ AddressStored
               \/ MakeAvailable
  BY <1>5 DEF ReconnectStop, QueryFails, QueryRefused, QueryEnds, Resolved, AddressFound,
     AddressStored, MakeAvailable
<1>6. CASE PublishTest \/ PublishSet \/ BrowseNotify
  BY <1>6 DEF PublishTest, PublishSet, BrowseNotify
<1>7. ASSUME NEW isBack \in BOOLEAN, Reconnect(isBack) PROVE StopOK'
  BY <1>7 DEF Reconnect
<1>8. CASE StartIO \/ StopIO
  BY <1>8 DEF StartIO, StopIO
<1>9. CASE BrowseStop
  BY <1>9 DEF BrowseStop
<1>10. CASE ReadAvailable \/ ReadPort \/ TestIP \/ CopyRest
              \/ (\E p \in Part : CopyIP(p))
               \/ BrowseJoined
  BY <1>10 DEF ReadAvailable, ReadPort, TestIP, CopyIP, CopyRest, BrowseJoined
<1>11. CASE StopTest \/ StopUnpublishTest \/ StopUnpublishSet \/ StopNotify
  BY <1>11 DEF StopTest, StopUnpublishTest, StopUnpublishSet, StopNotify
<1>12. QED
  BY <1>1, <1>2, <1>3, <1>4, <1>5, <1>6, <1>7, <1>8, <1>9, <1>10, <1>11
 
  DEF Next, BrowseRuns, BrowseFails, CtlRuns

\* Told to stop, the browse thread takes no new report, and goes on from where it is.
LEMMA ThreadWindsUp ==
    ASSUME TypeOK, GraceOK, AttemptsOK, StopOK, stopPipe, BrowseRuns \/ BrowseFails
    PROVE  /\ stopPipe' /\ StepsToExit' < StepsToExit /\ StepsToExit' <= StepsToExit
           /\ Waiting' => Waiting \/ browse = "process"
<1> USE BrowseAssumption DEF TypeOK, GraceOK, AttemptsOK, StopOK, BrowsePlaces, StepsToExit, Ahead,
        GraceAhead, Waiting, Ended, ctlVars, Goto
<1> DEFINE Nearer == /\ stopPipe' /\ StepsToExit' < StepsToExit /\ StepsToExit' <= StepsToExit
                     /\ Waiting' => Waiting \/ browse = "process"
<1>1. CASE Top
  <2>1. CASE grace = "due"
    BY <1>1, <2>1 DEF Top, Expired
  <2>2. CASE grace # "due"
    BY <1>1, <2>2 DEF Top, Expired
  <2>3. QED  BY <2>1, <2>2
<1>2. CASE SelectStop
  BY <1>2 DEF SelectStop
<1>3. CASE SelectTimeout
  BY <1>3 DEF SelectTimeout
<1>4. CASE SelectFails
  BY <1>4 DEF SelectFails
<1>5. ~SelectReady
  BY DEF SelectReady
<1>6. CASE BrowseAdd
  BY <1>6 DEF BrowseAdd, AfterAdd
<1>7. CASE BrowseRemove
  BY <1>7 DEF BrowseRemove
<1>8. CASE ConnectionLost
  BY <1>8 DEF ConnectionLost
<1>9. CASE UnpublishTest
  <2>1. CASE browse = "unpublish"
    <3>1. grace = "off" /\ browse' \in {"hide", "select"} /\ UNCHANGED <<grace, stopPipe>>
      BY <1>9, <2>1 DEF UnpublishTest
    <3>2. StepsToExit = 4 /\ StepsToExit' \in {3, 1} /\ ~Waiting'
      BY <2>1, <3>1
    <3>3. QED  BY <3>1, <3>2
  <2>2. CASE browse = "lost"
    BY <1>9, <2>2 DEF UnpublishTest
  <2>3. QED  BY <1>9, <2>1, <2>2 DEF UnpublishTest
<1>10. CASE UnpublishSet
  BY <1>10 DEF UnpublishSet
<1>11. ASSUME NEW isBack \in BOOLEAN, Reconnect(isBack) PROVE Nearer
  <2>1. browse = "reconnect" /\ attempts < MaxAttempts /\ UNCHANGED <<grace, stopPipe>>
    BY <1>11 DEF Reconnect
  <2>2. CASE isBack
    BY <1>11, <2>1, <2>2 DEF Reconnect
  <2>3. CASE ~isBack
    <3>1. /\ attempts' = attempts + 1
          /\ browse' = IF attempts + 1 < MaxAttempts THEN "reconnect" ELSE "exited"
      BY <1>11, <2>3 DEF Reconnect
    <3>2. QED  BY <2>1, <3>1
  <2>4. QED  BY <2>2, <2>3
<1>12. CASE ReconnectStop
  BY <1>12 DEF ReconnectStop
<1>13. CASE QueryFails \/ QueryRefused
  <2>1. /\ browse \in {"resolve", "address"} /\ browse' = "top"
        /\ UNCHANGED <<grace, attempts, stopPipe>>
    BY <1>13 DEF QueryFails, QueryRefused, QueryEnds
  <2>2. QED  BY <2>1
<1>14. CASE Resolved
  BY <1>14 DEF Resolved
<1>15. ASSUME NEW p \in Part, AddressFound(p) PROVE Nearer
  BY <1>15 DEF AddressFound
<1>16. CASE AddressStored
  BY <1>16 DEF AddressStored
<1>17. CASE MakeAvailable
  BY <1>17 DEF MakeAvailable
<1>18. CASE PublishTest
  BY <1>18 DEF PublishTest
<1>19. CASE PublishSet
  BY <1>19 DEF PublishSet
<1>20. CASE BrowseNotify
  BY <1>20 DEF BrowseNotify
<1>21. QED
  BY <1>1, <1>2, <1>3, <1>4, <1>5, <1>6, <1>7, <1>8, <1>9, <1>10, <1>11, <1>12, <1>13, <1>14,
     <1>15, <1>16, <1>17, <1>18, <1>19, <1>20 DEF BrowseRuns, BrowseFails

\* The other threads leave the browse thread where it is, and the time that passes only
\* ends a grace period.
LEMMA OthersWindUp ==
    ASSUME TypeOK, GraceOK, AttemptsOK, StopOK, stopPipe, [Next]_vars, ~BrowseRuns, ~BrowseFails
    PROVE  stopPipe' /\ StepsToExit' <= StepsToExit /\ (Waiting' => Waiting \/ browse = "process")
<1> USE DEF outsideVars, halVars, sharedVars, browseVars, ctlVars
<1>1. CASE GraceElapses
  BY <1>1, BrowseAssumption DEF GraceElapses, TypeOK, AttemptsOK, StopOK, BrowsePlaces,
                                StepsToExit, Ahead, GraceAhead, Waiting, Ended
<1>2. ASSUME NEW r \in Receiver, Appear(r) \/ Vanish(r)
      PROVE  stopPipe' /\ UNCHANGED <<browse, grace, attempts>>
  BY <1>2 DEF Appear, Vanish
<1>3. ASSUME LoseDaemon \/ EditPlist \/ HalReads \/ UNCHANGED vars
      PROVE  stopPipe' /\ UNCHANGED <<browse, grace, attempts>>
  BY <1>3 DEF LoseDaemon, EditPlist, HalReads, vars
<1>4. ASSUME StartIO \/ StopIO \/ BrowseStop \/ CtlRuns
      PROVE  stopPipe' /\ UNCHANGED <<browse, grace, attempts>>
  BY <1>4 DEF CtlRuns, StartIO, StopIO, BrowseStop, ReadAvailable, ReadPort, TestIP, CopyIP,
     CopyRest, StopTest,
              StopUnpublishTest, StopUnpublishSet, StopNotify, BrowseJoined, CtlKeeps
<1>5. ASSUME stopPipe', UNCHANGED <<browse, grace, attempts>>
      PROVE  stopPipe' /\ StepsToExit' <= StepsToExit /\ (Waiting' => Waiting \/ browse = "process")
  <2>1. StepsToExit' = StepsToExit /\ Waiting' = Waiting
    BY <1>5 DEF StepsToExit, Ahead, GraceAhead, Waiting, Ended
  <2>2. StepsToExit \in Int
    BY StepsBound, BrowseAssumption
  <2>3. QED  BY <1>5, <2>1, <2>2
<1>6. QED  BY <1>1, <1>2, <1>3, <1>4, <1>5 DEF Next

\* The last Release waits for a thread that was told to stop and has no more than 62 +
\* MaxAttempts steps to its end, unless it waits for an answer: of a receiver that comes and
\* goes, an expiring grace period, a lost mDNSResponder and a failing select none holds it
\* up (ZinkosBrowse.cpp:155-166).
THEOREM ReleaseIsShort == Spec => []ReleaseIsJoined /\ ExitGetsNearer
<1>1. Init => StopOK
  BY DEF Init, StopOK, BrowsePlaces, Ended
<1>2. IInv => TypeOK /\ GraceOK /\ AttemptsOK
  BY DEF IInv
<1>3. TypeOK /\ AttemptsOK /\ StopOK => ReleaseIsJoined
  BY StepsBound DEF ReleaseIsJoined, StopOK
<1>4. TypeOK /\ GraceOK /\ AttemptsOK /\ StopOK /\ [Next]_vars =>
        [stopPipe =>
            /\ stopPipe' /\ StepsToExit' <= StepsToExit
            /\ BrowseRuns \/ BrowseFails => StepsToExit' < StepsToExit
            /\ Waiting' => Waiting \/ browse = "process"]_vars
  <2>1. SUFFICES ASSUME TypeOK, GraceOK, AttemptsOK, StopOK, [Next]_vars, stopPipe
                 PROVE  /\ stopPipe' /\ StepsToExit' <= StepsToExit
                        /\ BrowseRuns \/ BrowseFails => StepsToExit' < StepsToExit
                        /\ Waiting' => Waiting \/ browse = "process"
    OBVIOUS
  <2>2. CASE BrowseRuns \/ BrowseFails
    BY <2>1, <2>2, ThreadWindsUp
  <2>3. CASE ~BrowseRuns /\ ~BrowseFails
    BY <2>1, <2>3, OthersWindUp
  <2>4. QED  BY <2>2, <2>3
<1>5. QED  BY <1>1, <1>2, <1>3, <1>4, StopStep, Invariance, PTL DEF Spec, ExitGetsNearer
================================================================================
