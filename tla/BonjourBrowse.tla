----------------------------- MODULE BonjourBrowse -----------------------------
(***************************************************************************)
(* When the device shows up in Sound settings: the browse thread of        *)
(* driver/ZinkosBrowse.cpp and the parts of StartIO and StopIO             *)
(* (driver/ZinkosPlugin.cpp) that read what it discovered or unpublish the *)
(* device.  The two threads share devicePublished and discoveredAvailable, *)
(* which are atomic, discoveredPort, and discoveredIP, a plain array that  *)
(* one may copy from while the other copies into it.  There is no lock, so *)
(* each load and store is a step, and a copy of the address is two, of a   *)
(* part each.  Receivers, mDNSResponder, the clock, the user and the HAL   *)
(* are external.                                                           *)
(***************************************************************************)
EXTENDS Integers, Sequences, SequencesExt, FiniteSets

CONSTANTS Receiver,       \* receivers that may be on the network
          None,           \* no receiver
          ManualChoices,  \* bound: may the plist hold a receiver IP at load time
          Faults,         \* "error": a query or a select may fail at any time
          MaxChanges,     \* bound: receivers coming and going, connections lost
          MaxIO,          \* bound: times IO is started
          MaxEdits,       \* bound: times the user edits the plist
          MaxAttempts     \* reconnect attempts (10)

ASSUME BrowseAssumption ==
    /\ IsFiniteSet(Receiver) /\ None \notin Receiver
    /\ ManualChoices \subseteq BOOLEAN
    /\ MaxAttempts \in Nat \ {0}

VARIABLES
    present,    \* receivers announced on the network
    connected,  \* mDNSResponder is there
    events,     \* browse results mDNSResponder has for us, oldest first
    changes,    \* changes so far
    published,  \* devicePublished
    available,  \* discoveredAvailable
    ip,         \* whose address each part of discoveredIP is of
    port,       \* whose port discoveredPort holds
    half,       \* history: the port stored last is of a receiver whose address is not
                \* stored, yet or at all
    grace,      \* sUnpublishDeadlineNs: "off", "armed", or "due" once passed
    browse,     \* where the browse thread is
    found,      \* the receiver its callbacks resolve or resolved last; None if they failed
    attempts,   \* reconnect attempts so far
    stopPipe,   \* Browse_Stop wrote to the stop pipe
    ctl,        \* where the HAL's control thread is
    ioRunning,
    plistIP,    \* the plist holds a receiver IP
    manual,     \* manualIPConfigured, settled when the driver was loaded
    targetIP,   \* the plist IP as last loaded: TRUE if there is one
    target,     \* the address and port that the engine StartIO has started sends to
    torn,       \* history: a discovery was half stored while StartIO read it
    starts, edits,
    noticed,    \* the HAL was told that the device list has changed
    listed      \* the HAL's device list holds the device

halVars == <<noticed, listed>>
outsideVars == <<present, connected, events, changes, halVars>>
sharedVars == <<published, available, ip, port, half>>
browseVars == <<grace, browse, found, attempts>>
ctlVars == <<ctl, ioRunning, plistIP, manual, targetIP, target, torn, starts, edits, stopPipe>>
vars == <<outsideVars, sharedVars, browseVars, ctlVars>>

\* An address is copied by strlcpy and read as a C string: neither at once.
Part == {"head", "tail"}
WholeIP(r) == [p \in Part |-> r]
NoTarget == [ip |-> WholeIP(None), port |-> None]

\* A new browse reports every receiver that is there, in some order.
ReportAll(receivers) ==
    {[k \in DOMAIN order |-> [kind |-> "add", who |-> order[k]]] : order \in SetToSeqs(receivers)}

\* ZinkosBrowse_Start, at the end of Initialize: with a manual IP the device is
\* published at once and there is no browse thread.  Nor is there one if the stop
\* pipe, the browse or the thread cannot be had, which is not tried again, and it
\* ends at once if the browse has no socket.
Init ==
    /\ present \in SUBSET Receiver /\ events \in ReportAll(present)
    /\ connected = TRUE /\ changes = 0
    /\ plistIP \in ManualChoices
    /\ manual = plistIP /\ targetIP = plistIP
    /\ published = manual
    /\ available = FALSE /\ ip = WholeIP(None) /\ port = None /\ half = FALSE
    /\ browse \in {"none", "top", "failed"} /\ (manual => browse = "none")
    /\ browse # "top" => manual \/ "error" \in Faults
    /\ grace = "off" /\ found = None /\ attempts = 0 /\ stopPipe = FALSE
    /\ ctl = "idle" /\ ioRunning = FALSE /\ target = NoTarget /\ torn = FALSE
    /\ starts = 0 /\ edits = 0
    /\ noticed = FALSE /\ listed = published
--------------------------------------------------------------------------------
(* The network, mDNSResponder and the clock (external). *)

Report(kind, r) == IF connected THEN Append(events, [kind |-> kind, who |-> r]) ELSE events

Appear(r) ==
    /\ changes < MaxChanges /\ r \notin present
    /\ present' = present \cup {r}
    /\ events' = Report("add", r)
    /\ changes' = changes + 1
    /\ UNCHANGED <<connected, halVars, sharedVars, browseVars, ctlVars>>

Vanish(r) ==
    /\ changes < MaxChanges /\ r \in present
    /\ present' = present \ {r}
    /\ events' = Report("remove", r)
    /\ changes' = changes + 1
    /\ UNCHANGED <<connected, halVars, sharedVars, browseVars, ctlVars>>

LoseDaemon ==
    /\ changes < MaxChanges /\ connected
    /\ connected' = FALSE
    /\ changes' = changes + 1
    /\ UNCHANGED <<present, events, halVars, sharedVars, browseVars, ctlVars>>

\* Three seconds have passed since the receiver was reported gone.
GraceElapses ==
    /\ grace = "armed"
    /\ grace' = "due"
    /\ UNCHANGED <<outsideVars, sharedVars, browse, found, attempts, ctlVars>>
--------------------------------------------------------------------------------
(* The browse thread. *)

\* PublishDevice and UnpublishDevice both test the flag, then set it.
Goto(here, there) == browse = here /\ browse' = there

Expired == grace = "due"

Top ==
    /\ IF Expired
       THEN Goto("top", "unpublish") /\ grace' = "off"
       ELSE Goto("top", "select") /\ UNCHANGED grace
    /\ UNCHANGED <<outsideVars, sharedVars, found, attempts, ctlVars>>

\* select: the stop pipe first; a timeout or a signal goes round the loop.
SelectStopIgnored == FALSE  \* mutated form: the stop pipe is not watched
SelectStop ==
    /\ stopPipe
    /\ Goto("select", "exited")
    /\ UNCHANGED <<outsideVars, sharedVars, grace, found, attempts, ctlVars>>

SelectTimeoutNever == FALSE  \* mutated form: select blocks without a timeout
SelectTimeout ==
    /\ grace = "due"
    /\ Goto("select", "top")
    /\ UNCHANGED <<outsideVars, sharedVars, grace, found, attempts, ctlVars>>

\* Another error ends the thread, and it leaves the device as it is.
SelectFails ==
    /\ "error" \in Faults
    /\ Goto("select", "failed")
    /\ UNCHANGED <<outsideVars, sharedVars, grace, found, attempts, ctlVars>>

\* The browse connection has something to read, or is broken.
SelectReady ==
    /\ ~stopPipe
    /\ events # <<>> \/ ~connected
    /\ Goto("select", "process")
    /\ UNCHANGED <<outsideVars, sharedVars, grace, found, attempts, ctlVars>>

\* BrowseCallback, Add: the pending unpublish is cancelled before the resolve.
AfterAddKept == grace  \* mutated form: the pending unpublish is kept
AfterAdd == "off"

BrowseAdd ==
    /\ events # <<>> /\ Head(events).kind = "add"
    /\ Goto("process", "resolve")
    /\ grace' = AfterAdd
    /\ found' = Head(events).who
    /\ events' = Tail(events)
    /\ UNCHANGED <<present, connected, changes, halVars, sharedVars, attempts, ctlVars>>

\* BrowseCallback, Remove: whichever receiver went, none is available.
BrowseRemove ==
    /\ events # <<>> /\ Head(events).kind = "remove"
    /\ Goto("process", "top")
    /\ available' = FALSE
    /\ grace' = "armed"
    /\ events' = Tail(events)
    /\ UNCHANGED <<present, connected, changes, halVars, published, ip, port, half, found,
                   attempts, ctlVars>>

\* ProcessResult fails: mDNSResponder is gone.
ConnectionLost ==
    /\ ~connected /\ events = <<>>
    /\ Goto("process", "lost")
    /\ available' = FALSE
    /\ attempts' = 0
    /\ UNCHANGED <<outsideVars, published, ip, port, half, grace, found, ctlVars>>

\* UnpublishDevice, after the grace period and after losing the connection.
UnpublishTest ==
    /\ \/ Goto("unpublish", IF published THEN "hide" ELSE "select")
       \/ Goto("lost", IF published THEN "lostHide" ELSE "reconnect")
    /\ UNCHANGED <<outsideVars, sharedVars, grace, found, attempts, ctlVars>>

UnpublishSet ==
    /\ Goto("hide", "hidden") \/ Goto("lostHide", "lostHidden")
    /\ published' = FALSE
    /\ UNCHANGED <<outsideVars, available, ip, port, half, grace, found, attempts, ctlVars>>

\* The pause between attempts ends early when the stop pipe is written to, unless its
\* select fails, which is taken for the time having passed.
Pauses == ~stopPipe \/ "error" \in Faults

\* mutated form: one attempt too many
ReconnectOnceMore(isBack) ==
    /\ Pauses /\ ~isBack
    /\ Goto("reconnect", IF attempts < MaxAttempts THEN "reconnect" ELSE "exited")
    /\ attempts' = attempts + 1
    /\ connected' = FALSE
    /\ UNCHANGED <<present, events, changes, halVars, sharedVars, grace, found, ctlVars>>

\* Up to MaxAttempts new browse connections, two seconds apart.
Reconnect(isBack) ==
    /\ Pauses
    /\ IF isBack
       THEN /\ Goto("reconnect", "top")
            /\ events' \in ReportAll(present)
            /\ UNCHANGED attempts
       ELSE /\ Goto("reconnect", IF attempts + 1 < MaxAttempts THEN "reconnect" ELSE "exited")
            /\ attempts' = attempts + 1
            /\ UNCHANGED events
    /\ connected' = isBack
    /\ UNCHANGED <<present, changes, halVars, sharedVars, grace, found, ctlVars>>

ReconnectStop ==
    /\ stopPipe
    /\ Goto("reconnect", "exited")
    /\ UNCHANGED <<outsideVars, sharedVars, grace, found, attempts, ctlVars>>

QueryEnds ==
    /\ Goto("resolve", "top") \/ Goto("address", "top")
    /\ found' = None
    /\ UNCHANGED <<outsideVars, sharedVars, grace, attempts, ctlVars>>

\* A query fails when mDNSResponder goes away ...
QueryFails == ~connected /\ QueryEnds

\* ... or is refused, or answered with an error.
QueryRefused == "error" \in Faults /\ QueryEnds

\* StartIO is between its look at the flag and the end of its copy.
Reading == ctl \in {"readPort", "testIP", "copyIP", "copyRest"}

\* ResolveCallback: the port is stored before the address is known, and the flag of
\* an earlier discovery stays up.  The query has no timeout and a receiver that has
\* gone does not answer: the thread is then held in DNSServiceProcessResult until it
\* comes back.
Resolved ==
    /\ connected /\ found \in present
    /\ Goto("resolve", "address")
    /\ port' = found
    /\ half' = TRUE /\ torn' = (torn \/ Reading)
    /\ UNCHANGED <<outsideVars, published, available, ip, grace, found, attempts,
                   ctl, ioRunning, plistIP, manual, targetIP, target, starts, edits, stopPipe>>

\* AddrInfoCallback: the address, a part ...
AddressFound(p) ==
    /\ connected /\ found \in present
    /\ Goto("address", "storing")
    /\ ip' = [ip EXCEPT ![p] = found]
    /\ UNCHANGED <<outsideVars, published, available, port, half, grace, found, attempts, ctlVars>>

\* mutated form: the copy is cut short
AddressCut ==
    /\ Goto("storing", "available")
    /\ half' = FALSE
    /\ UNCHANGED <<outsideVars, published, available, ip, port, grace, found, attempts, ctlVars>>

\* ... and the other, then the flag, then PublishDevice.
AddressStored ==
    /\ Goto("storing", "available")
    /\ ip' = WholeIP(found)
    /\ half' = FALSE
    /\ UNCHANGED <<outsideVars, published, available, port, grace, found, attempts, ctlVars>>

MakeAvailable ==
    /\ Goto("available", "publish")
    /\ available' = TRUE
    /\ UNCHANGED <<outsideVars, published, ip, port, half, grace, found, attempts, ctlVars>>

PublishTest ==
    /\ Goto("publish", IF published THEN "top" ELSE "show")
    /\ UNCHANGED <<outsideVars, sharedVars, grace, found, attempts, ctlVars>>

PublishSet ==
    /\ Goto("show", "shown")
    /\ published' = TRUE
    /\ UNCHANGED <<outsideVars, available, ip, port, half, grace, found, attempts, ctlVars>>

\* NotifyDeviceListChanged, after the store.
NotifyNone == UNCHANGED halVars  \* mutated form: the HAL is not told
Notify == noticed' = TRUE /\ UNCHANGED listed

BrowseNotify ==
    /\ Goto("shown", "top") \/ Goto("hidden", "select") \/ Goto("lostHidden", "reconnect")
    /\ Notify
    /\ UNCHANGED <<present, connected, events, changes, sharedVars, grace, found, attempts,
                   ctlVars>>

\* What the thread does by itself; a new connection may or may not be had.
BrowseRuns ==
    \/ Top \/ SelectStop \/ SelectTimeout \/ SelectReady
    \/ BrowseAdd \/ BrowseRemove \/ ConnectionLost
    \/ UnpublishTest \/ UnpublishSet
    \/ ReconnectStop \/ QueryFails \/ Resolved \/ AddressStored
    \/ MakeAvailable \/ PublishTest \/ PublishSet \/ BrowseNotify
    \/ \E p \in Part : AddressFound(p)
    \/ \E isBack \in BOOLEAN : Reconnect(isBack)

\* What may happen to it at any time, but need not.
BrowseFails == SelectFails \/ QueryRefused
--------------------------------------------------------------------------------
(* StartIO, StopIO and Release on the HAL's control thread, and the user. *)

\* The user sets or clears the receiver IP in the plist.
EditPlist ==
    /\ edits < MaxEdits
    /\ plistIP' = ~plistIP
    /\ edits' = edits + 1
    /\ UNCHANGED <<outsideVars, sharedVars, browseVars, ctl, ioRunning, manual, targetIP,
                   target, torn, starts, stopPipe>>

CtlGoto(here, there) == ctl = here /\ ctl' = there
CtlKeeps == UNCHANGED <<outsideVars, browseVars, plistIP, manual, edits>>

\* LoadConfig: the plist is read again.
LoadConfig == targetIP' = plistIP

\* A plist IP wins over what was discovered.
StartIO ==
    /\ starts < MaxIO
    /\ ~ioRunning /\ listed /\ ~stopPipe
    /\ starts' = starts + 1
    /\ LoadConfig
    /\ target' = NoTarget /\ torn' = FALSE
    /\ IF plistIP THEN CtlGoto("idle", "idle") /\ ioRunning' = TRUE
                  ELSE CtlGoto("idle", "readAvailable") /\ UNCHANGED ioRunning
    /\ CtlKeeps /\ UNCHANGED <<sharedVars, stopPipe>>

\* From here on effectiveIP points to discoveredIP itself.
ReadAvailable ==
    /\ IF available
       THEN CtlGoto("readAvailable", "readPort") /\ torn' = half /\ UNCHANGED ioRunning
       ELSE CtlGoto("readAvailable", "idle") /\ ioRunning' = TRUE /\ UNCHANGED torn
    /\ CtlKeeps /\ UNCHANGED <<sharedVars, targetIP, target, starts, stopPipe>>

ReadPort ==
    /\ CtlGoto("readPort", "testIP")
    /\ target' = [target EXCEPT !.port = port]
    /\ CtlKeeps /\ UNCHANGED <<sharedVars, ioRunning, targetIP, torn, starts, stopPipe>>

\* An empty address is none: IO runs without the network.
TestIP ==
    /\ IF ip["head"] = None
       THEN CtlGoto("testIP", "idle") /\ target' = NoTarget /\ ioRunning' = TRUE
       ELSE CtlGoto("testIP", "copyIP") /\ UNCHANGED <<target, ioRunning>>
    /\ CtlKeeps /\ UNCHANGED <<sharedVars, targetIP, torn, starts, stopPipe>>

\* zinkos_engine_create copies the address, a part ...
CopyIP(p) ==
    /\ CtlGoto("copyIP", "copyRest")
    /\ target' = [target EXCEPT !.ip[p] = ip[p]]
    /\ CtlKeeps /\ UNCHANGED <<sharedVars, ioRunning, targetIP, torn, starts, stopPipe>>

\* ... and the other.
CopyRest ==
    /\ CtlGoto("copyRest", "idle")
    /\ target' = [target EXCEPT !.ip = [p \in Part |-> IF @[p] = None THEN ip[p] ELSE @[p]]]
    /\ ioRunning' = TRUE
    /\ CtlKeeps /\ UNCHANGED <<sharedVars, targetIP, torn, starts, stopPipe>>

\* StopIO: without a manual IP, a device with no receiver is unpublished now.
StopIO ==
    /\ ioRunning
    /\ CtlGoto("idle", "stopTest")
    /\ ioRunning' = FALSE /\ target' = NoTarget /\ torn' = FALSE
    /\ CtlKeeps /\ UNCHANGED <<sharedVars, targetIP, starts, stopPipe>>

HideAtStop == ~manual /\ ~available

StopTest ==
    /\ CtlGoto("stopTest", IF HideAtStop THEN "stopUnpublish" ELSE "idle")
    /\ CtlKeeps /\ UNCHANGED <<sharedVars, ioRunning, targetIP, target, torn, starts, stopPipe>>

StopUnpublishTest ==
    /\ CtlGoto("stopUnpublish", IF published THEN "stopHide" ELSE "idle")
    /\ CtlKeeps /\ UNCHANGED <<sharedVars, ioRunning, targetIP, target, torn, starts, stopPipe>>

StopUnpublishSet ==
    /\ CtlGoto("stopHide", "stopHidden")
    /\ published' = FALSE
    /\ CtlKeeps
    /\ UNCHANGED <<available, ip, port, half, ioRunning, targetIP, target, torn, starts, stopPipe>>

StopNotify ==
    /\ CtlGoto("stopHidden", "idle")
    /\ Notify
    /\ UNCHANGED <<present, connected, events, changes, browseVars, plistIP, manual, edits,
                   sharedVars, ioRunning, targetIP, target, torn, starts, stopPipe>>

\* The HAL asks for the device list again.
HalReads ==
    /\ noticed
    /\ noticed' = FALSE
    /\ listed' = published
    /\ UNCHANGED <<present, connected, events, changes, sharedVars, browseVars, ctlVars>>

\* The browse thread has ended, though not always for being told to.
Ended == browse \in {"exited", "failed"}

\* The last Release: Browse_Stop tells the thread and joins it.
BrowseStop ==
    /\ CtlGoto("idle", "joining") /\ browse # "none"
    /\ ~ioRunning
    /\ stopPipe' = TRUE
    /\ CtlKeeps /\ UNCHANGED <<sharedVars, ioRunning, targetIP, target, torn, starts>>

BrowseJoined ==
    /\ Ended
    /\ CtlGoto("joining", "released")
    /\ CtlKeeps /\ UNCHANGED <<sharedVars, ioRunning, targetIP, target, torn, starts, stopPipe>>

CtlRuns == ReadAvailable \/ ReadPort \/ TestIP \/ (\E p \in Part : CopyIP(p)) \/ CopyRest
           \/ StopTest \/ StopUnpublishTest \/ StopUnpublishSet \/ StopNotify \/ BrowseJoined

Next ==
    \/ \E r \in Receiver : Appear(r) \/ Vanish(r)
    \/ LoseDaemon \/ GraceElapses \/ EditPlist \/ HalReads
    \/ BrowseRuns \/ BrowseFails
    \/ StartIO \/ StopIO \/ BrowseStop \/ CtlRuns

Spec == Init /\ [][Next]_vars

\* The browse thread and a handler once begun keep running, time passes, and the
\* HAL acts on a notice.  Nothing need fail.
FairSpec == Spec /\ WF_vars(BrowseRuns) /\ WF_vars(CtlRuns) /\ WF_vars(GraceElapses)
                 /\ WF_vars(HalReads)
--------------------------------------------------------------------------------
Event == [kind : {"add", "remove"}, who : Receiver]

TypeOK ==
    /\ present \subseteq Receiver /\ connected \in BOOLEAN
    /\ events \in Seq(Event)
    /\ published \in BOOLEAN /\ available \in BOOLEAN
    /\ ip \in [Part -> Receiver \cup {None}] /\ port \in Receiver \cup {None}
    /\ half \in BOOLEAN /\ torn \in BOOLEAN
    /\ grace \in {"off", "armed", "due"}
    /\ found \in Receiver \cup {None}
    /\ attempts \in 0 .. MaxAttempts
    /\ noticed \in BOOLEAN /\ listed \in BOOLEAN
    /\ target \in [ip : [Part -> Receiver \cup {None}], port : Receiver \cup {None}]

\* The engine gets an address and a port, or neither; and they are one receiver's,
\* unless a discovery was half stored when StartIO saw the flag or became so before
\* StartIO had copied the address.  Only then can it get a part of one receiver and a
\* part of another: nothing guards against that (ZinkosBrowse.cpp:406-409,
\* ZinkosPlugin.cpp:353-366).
Complete(t) == \A p \in Part : t.ip[p] # None /\ t.port # None
TargetIsOnes ==
    ctl = "idle" =>
        /\ target = NoTarget \/ Complete(target)
        /\ ~torn => target.ip = WholeIP(target.port)

\* The browse thread never hides the device while it still holds a fresh
\* discovery, nor within the grace period ("If the receiver comes back within that
\* window, nothing changes", README).
HidesOnlyWhenDue ==
    [][published /\ ~published' /\ browse' # browse =>
        ~available /\ (browse = "hide" => grace = "off")]_vars

\* The thread waits for an answer to a resolve or address query.
Waiting == browse \in {"resolve", "address"}

\* Receivers that stay are shown ("When a receiver is found, the device appears in
\* Sound settings", README), unless the browse thread gave up, was stopped, waits
\* for an answer, or was refused one.
ReceiverIsShown ==
    <>[](present = Receiver /\ browse \notin {"none", "exited", "failed"})
        => <>[](published \/ Waiting \/ found = None)

\* They are while IO is never started: through grace periods, receivers that come
\* and go, and a lost mDNSResponder.
ShownWithoutIO == [](starts = 0) => ReceiverIsShown

\* When every receiver has gone for good the device goes, unless the browse
\* thread waits for the answer of one of them, or a select of its failed: it then ends
\* with the device shown and nobody left to hide it (ZinkosBrowse.cpp:243-246).
DeadDeviceGoes ==
    <>[](present = {} /\ ~manual /\ ~stopPipe /\ browse # "failed")
        => <>[](~published \/ Waiting)

\* The HAL's list follows: once the device stays shown, or stays hidden, so does its
\* entry, although two threads store the flag and notify in any order.
ListFollows == \A shown \in BOOLEAN : <>[](published = shown) => <>[](listed = shown)

\* Release returns: the browse thread ends when it is told to (Browse_Stop joins
\* it), unless it waits for an answer.
ReleaseReturns == ctl = "joining" ~> ctl = "released" \/ Waiting
================================================================================
