----------------------------- MODULE JitterStream -----------------------------
(***************************************************************************)
(* The Rust receiver, receiver/src/main.rs: its receive thread, its        *)
(* playback thread and main around the jitter buffer, behind a sender and  *)
(* the network.  The sender numbers its packets from where it was when the *)
(* receiver came up; it may restart, and a new Packetizer counts from 0.   *)
(* UDP, the socket, the audio sink and the user are external: UDP loses,   *)
(* repeats and reorders packets.                                           *)
(***************************************************************************)
EXTENDS JitterBuffer, FiniteSets

CONSTANTS FirstSeqs,    \* bound: the sender's number when the receiver comes up
          PacketSizes,  \* frames a packet may carry: a read may be short
          MaxRecv,      \* frames that fit receive_loop's buffer of 2048 bytes
          MaxPackets,   \* bound: packets sent
          MaxPushes,    \* bound: packets delivered, repeats included
          MaxRestarts   \* bound: times the sender restarts

\* The sender sends no empty packet (engine/src/ffi.rs:131).
ASSUME StreamAssumption ==
    /\ FirstSeqs \subseteq SeqNum
    /\ PacketSizes \subseteq Nat \ {0}
    /\ MaxRecv \in Nat /\ MaxPackets \in Nat /\ MaxPushes \in Nat /\ MaxRestarts \in Nat

VARIABLES
    running,    \* the flag both threads look at
    recv,       \* receive_loop: "loop", "ended" or "panicked"
    play,       \* playback_loop, likewise
    main,       \* "joinRecv", "joinPlay", or "gone" with the process
    sendSeq,    \* Packetizer.seq
    sent,       \* packets sent so far; their ids are 1..sent
    restarts,
    inFlight,   \* packets the network may still deliver
    pushes,     \* packets delivered so far
    newest,     \* history: the highest id pushed
    heard,      \* history: ids of packets played to their end
    last,       \* history: the packet last played, and its frames then left
    uneven      \* history: a packet of other than GapFrames was sent

threadVars == <<running, recv, play, main>>
senderVars == <<sendSeq, sent, restarts, uneven>>
networkVars == <<inFlight, pushes, newest>>
playedVars == <<heard, last>>
vars == <<jitterVars, threadVars, senderVars, networkVars, playedVars>>

\* Either thread may panic before its loop: no such port, no such audio output.
Init ==
    /\ JitterInit
    /\ running = TRUE /\ main = "joinRecv"
    /\ recv \in {"loop", "panicked"} /\ play \in {"loop", "panicked"}
    /\ sendSeq \in FirstSeqs
    /\ sent = 0 /\ restarts = 0 /\ uneven = FALSE
    /\ inFlight = {} /\ pushes = 0 /\ newest = 0
    /\ heard = {} /\ last = [id |-> 0, left |-> 0]
-------------------------------------------------------------------------------
(* The sender. *)

\* build_packet: the current number, then the next one.  What is sent when the
\* receive thread has ended, or is about to, is left out.
Send(n) ==
    /\ sent < MaxPackets /\ recv = "loop" /\ running
    /\ sent' = sent + 1
    /\ sendSeq' = SeqNext(sendSeq)
    /\ uneven' = (uneven \/ n # GapFrames)
    /\ inFlight' = inFlight \cup {[id |-> sent + 1, seq |-> sendSeq, left |-> n]}
    /\ UNCHANGED <<jitterVars, threadVars, restarts, pushes, newest, playedVars>>

\* A new engine, or the same one started again: Packetizer::new.
Restart ==
    /\ restarts < MaxRestarts /\ recv = "loop" /\ running
    /\ restarts' = restarts + 1
    /\ sendSeq' = 0
    /\ UNCHANGED <<jitterVars, threadVars, sent, uneven, networkVars, playedVars>>
-------------------------------------------------------------------------------
(* The receive thread.  A loop's test of the flag is part of the step it leads  *)
(* to: to quit in between, or after that step, makes no difference to either.   *)

ReceiveCounted(p, copyKept) ==  \* mutated form: counted before its length is checked
    /\ recv = "loop" /\ running
    /\ pushes < MaxPushes
    /\ p \in inFlight
    /\ pushes' = pushes + 1
    /\ inFlight' = IF copyKept THEN inFlight ELSE inFlight \ {p}
    /\ IF p.left <= MaxRecv
       THEN Push(p) /\ newest' = IF p.id > newest THEN p.id ELSE newest
       ELSE /\ received' = received + 1
            /\ UNCHANGED <<buf, jstate, next, remaining, lost, newest>>
    /\ UNCHANGED <<threadVars, senderVars, playedVars>>

\* A packet arrives, in any order; the network may hold a copy back, and what
\* it never delivers is lost.  A packet cut off by the buffer is shorter than
\* its header says, and push() returns.
Receive(p, copyKept) ==
    /\ recv = "loop" /\ running
    /\ pushes < MaxPushes
    /\ p \in inFlight
    /\ pushes' = pushes + 1
    /\ inFlight' = IF copyKept THEN inFlight ELSE inFlight \ {p}
    /\ IF p.left <= MaxRecv
       THEN Push(p) /\ newest' = IF p.id > newest THEN p.id ELSE newest
       ELSE remaining = 0 /\ UNCHANGED <<jitterVars, newest>>
    /\ UNCHANGED <<threadVars, senderVars, playedVars>>

\* The read times out every 100 ms, and the flag is seen.
RecvStops ==
    /\ recv = "loop" /\ ~running
    /\ recv' = "ended" /\ inFlight' = {}
    /\ UNCHANGED <<jitterVars, running, play, main, senderVars, pushes, newest, playedVars>>

\* Any other error of recv_from ends this thread, and this thread alone.  The
\* socket is closed with it.
RecvFails ==
    /\ recv = "loop" /\ running
    /\ recv' = "ended" /\ inFlight' = {}
    /\ UNCHANGED <<jitterVars, running, play, main, senderVars, pushes, newest, playedVars>>
-------------------------------------------------------------------------------
(* The playback thread. *)

PlayBegins ==
    /\ play = "loop" /\ running
    /\ PopBegin
    /\ UNCHANGED <<threadVars, senderVars, networkVars, playedVars>>

\* pop_frames plays frames of the oldest packet ...
Play ==
    /\ PopExpected
    /\ last' = [id |-> Oldest.id, left |-> Oldest.left - Take]
    /\ heard' = IF Take = Oldest.left THEN heard \cup {Oldest.id} ELSE heard
    /\ UNCHANGED <<threadVars, senderVars, networkVars>>

\* ... or fills a gap, skips a packet, or runs dry.
PlayNothing ==
    /\ PopGap \/ PopBehind \/ PopUnderrun
    /\ UNCHANGED <<threadVars, senderVars, networkVars, playedVars>>

PlayStops ==
    /\ play = "loop" /\ ~running /\ remaining = 0
    /\ play' = "ended"
    /\ UNCHANGED <<jitterVars, running, recv, main, senderVars, networkVars, playedVars>>
-------------------------------------------------------------------------------
(* main, and the thread that reads stdin. *)

\* The user types "q".
Quit ==
    /\ running
    /\ running' = FALSE
    /\ UNCHANGED <<jitterVars, recv, play, main, senderVars, networkVars, playedVars>>

\* recv_thread.join().unwrap(): a panic is passed on, and main's ends the process.
JoinRecv ==
    /\ main = "joinRecv" /\ recv # "loop"
    /\ main' = IF recv = "panicked" THEN "gone" ELSE "joinPlay"
    /\ UNCHANGED <<jitterVars, running, recv, play, senderVars, networkVars, playedVars>>

\* play_thread.join().unwrap(), and the statistics if it had not panicked.
JoinPlay ==
    /\ main = "joinPlay" /\ play # "loop"
    /\ main' = "gone"
    /\ UNCHANGED <<jitterVars, running, recv, play, senderVars, networkVars, playedVars>>

Stops == RecvStops \/ PlayStops \/ JoinRecv \/ JoinPlay

Next ==
    /\ main # "gone"
    /\ \/ \E n \in PacketSizes : Send(n)
       \/ Restart
       \/ \E p \in inFlight, copyKept \in BOOLEAN : Receive(p, copyKept)
       \/ RecvFails \/ PlayBegins \/ Play \/ PlayNothing
       \/ Quit \/ Stops

Spec == Init /\ [][Next]_vars

\* pop_frames goes on while it holds the mutex, a thread comes round to its test
\* of the flag, and main to a thread that ended.  The network owes nothing.
FairSpec ==
    /\ Spec
    /\ WF_vars(main # "gone" /\ (Play \/ PlayNothing))
    /\ WF_vars(main # "gone" /\ Stops)
-------------------------------------------------------------------------------
Entry == [id : 1..MaxPackets, seq : SeqNum, left : Nat]

TypeOK ==
    /\ buf \in Seq(Entry)
    /\ jstate \in {"Filling", "Playing", "Underrun"}
    /\ next \in SeqNum \cup {NoSeq}
    /\ remaining \in 0..PopFrames
    /\ received \in Nat /\ lost \in Nat
    /\ running \in BOOLEAN /\ main \in {"joinRecv", "joinPlay", "gone"}
    /\ {recv, play} \subseteq {"loop", "ended", "panicked"}
    /\ sendSeq \in SeqNum
    /\ inFlight \subseteq Entry
    /\ heard \subseteq 1..MaxPackets

\* Frames are played in the order they were sent and at most once, whatever
\* was lost, repeated or reordered on the way: a packet is played after the
\* packets before it, and resumed only where it was left.  (A sender that
\* restarts numbers its packets anew.)
PlaysForward ==
    [][last' # last /\ restarts = 0 =>
        \/ last'.id > last.id
        \/ last'.id = last.id /\ last'.left < last.left]_vars

\* A packet that came in time is heard: what is skipped in the buffer had
\* been played before, a repeat (jitter_buffer.rs:186-190).
SkipsOnlyRepeats ==
    [][\A p \in 1..MaxPackets :
        (restarts = 0 /\ buf # <<>> /\ Oldest.id = p /\ remaining > 0 /\ lost' # lost)
            => p \in heard]_vars

\* The statistics add up: every packet counted as received is in the buffer,
\* was played, once, or is counted as dropped.  (After a restart of the sender a
\* repeat of a packet of the old stream may be played a second time.)
StatsAddUp == restarts = 0 => received = lost + Len(buf) + Cardinality(heard)

\* A packet newer than all that came before is buffered, so playback goes on,
\* across the wrap too.
NewestIsKept == [][newest' # newest /\ restarts = 0 => lost' = lost]_vars

\* Losses do not shift the audio that follows: if all packets have the default
\* size, each number the cursor passes takes the time of one packet, heard or
\* silent, and none is passed over.
KeepsTime ==
    [][~uneven /\ next # NoSeq /\ next' # next =>
        remaining - remaining' = GapFrames /\ next' = SeqNext(next)]_vars

\* "q" ends the process, whatever the threads were doing, also when one of them had
\* ended by itself: no pop goes on for ever, and main's joins return.
QuitEnds == ~running ~> main = "gone"
===============================================================================
