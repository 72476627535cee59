------------------------------ MODULE DashEvents ------------------------------
(***************************************************************************)
(* The events of the dash on their way to the logger's card: the queue and *)
(* the notifications of dash_main.cpp, SystemEvents.h, the receiving side  *)
(* of DashLink.cpp and SystemLog.cpp.                                      *)
(*                                                                         *)
(* The dash repeats the oldest event of its queue in parts until the       *)
(* logger acknowledges it; the logger acknowledges an event only when it   *)
(* is found on the card.  Parts and acknowledgements get lost, either side *)
(* reboots, the card is absent or a write is short.                        *)
(*                                                                         *)
(* An event is [dash, boot, seq]; what it says is left out.  The line of   *)
(* an event is written to the newest file of its dash; files start with a  *)
(* new date or segment.  The removal of all but 16 segments is left out.   *)
(***************************************************************************)
EXTENDS Integers, Sequences, FiniteSets, FiniteSetsExt

CONSTANTS
    Dashes,         \* the dashes that the logger meets
    None,
    Parts,          \* notifications of an event (4)
    Modulus,        \* sequence numbers a part can tell apart (256)
    Capacity,       \* events a queue holds (64)
    MaxEvents,      \* bound: events of a boot of a dash
    MaxBoots,       \* bound: boots of a dash
    MaxResets,      \* bound: resets of the logger
    MaxLocal,       \* bound: events of the logger itself in a boot
    MaxShort        \* bound: short writes

ASSUME EventsAssumption ==
    /\ None \notin Dashes /\ Parts \in Nat \ {0, 1} /\ Capacity \in Nat \ {0}
    /\ Modulus \in Nat /\ Modulus > Capacity
    /\ {MaxEvents, MaxBoots, MaxResets, MaxLocal, MaxShort} \subseteq Nat

VARIABLES
    \* the dash
    boot,           \* eventBoot
    eventSeq,
    queue,          \* systemEvents
    part,
    previousSeq,
    \* the link
    connected,      \* the dash whose handshake was accepted, or None
    rx,             \* eventReceiver_
    received,       \* receivedEvent_ while eventReady_
    ack,            \* the acknowledgement that is on its way
    \* SystemLog
    ready,          \* ready_
    pending,        \* pending_ with devices_
    dashDevice, dashBoot, dashSeq, dashPendingBoot, dashPendingSeq,
    \* the card
    lines,          \* the lines of every dash's files
    fragment,       \* whether the newest file ends in half a line
    \* history
    acked,          \* the events that were popped from the dash's queue
    locals, resets, shorts

dashVars == <<boot, eventSeq, queue, part, previousSeq>>
linkVars == <<connected, rx, received, ack>>
logVars == <<ready, pending, dashDevice, dashBoot, dashSeq, dashPendingBoot, dashPendingSeq>>
card == <<lines, fragment>>
bounds == <<locals, resets, shorts>>
vars == <<dashVars, linkVars, logVars, card, acked, bounds>>

-----------------------------------------------------------------------------

Seqs == 1 .. MaxEvents
Boots == 1 .. MaxBoots
Events == [dash : Dashes, boot : Boots, seq : Seqs]
NoEvent == [dash |-> None, boot |-> 0, seq |-> 0]
Line == [boot : Boots, seq : Seqs, readable : BOOLEAN, first : BOOLEAN]

\* A receiver between two events
Empty == [next |-> 0, sequence |-> 0, event |-> NoEvent]

TypeOK ==
    /\ boot \in [Dashes -> Boots] /\ eventSeq \in [Dashes -> 0 .. MaxEvents]
    /\ queue \in [Dashes -> Seq(Seqs)] /\ \A d \in Dashes : Len(queue[d]) <= Capacity
    /\ part \in [Dashes -> 0 .. Parts - 1] /\ previousSeq \in [Dashes -> 0 .. MaxEvents]
    /\ connected \in Dashes \cup {None}
    /\ rx \in [next : 0 .. Parts - 1, sequence : 0 .. Modulus - 1, event : Events \cup {NoEvent}]
    /\ received \in Events \cup {NoEvent} /\ ack \in Events \cup {NoEvent}
    /\ ready \in BOOLEAN
    /\ pending \in Seq(Events \cup {NoEvent}) /\ Len(pending) <= Capacity
    /\ dashDevice \in Dashes \cup {None}
    /\ dashBoot \in 0 .. MaxBoots /\ dashSeq \in 0 .. MaxEvents
    /\ dashPendingBoot \in 0 .. MaxBoots /\ dashPendingSeq \in 0 .. MaxEvents
    /\ lines \in [Dashes -> Seq(Line)] /\ fragment \in [Dashes -> BOOLEAN]
    /\ acked \subseteq Events
    /\ locals \in 0 .. MaxLocal /\ resets \in 0 .. MaxResets /\ shorts \in 0 .. MaxShort

Init ==
    /\ boot = [d \in Dashes |-> 1] /\ eventSeq = [d \in Dashes |-> 0]
    /\ queue = [d \in Dashes |-> <<>>]
    /\ part = [d \in Dashes |-> 0] /\ previousSeq = [d \in Dashes |-> 0]
    /\ connected = None /\ rx = Empty /\ received = NoEvent /\ ack = NoEvent
    /\ ready = FALSE /\ pending = <<>> /\ dashDevice = None
    /\ dashBoot = 0 /\ dashSeq = 0 /\ dashPendingBoot = 0 /\ dashPendingSeq = 0
    /\ lines = [d \in Dashes |-> <<>>] /\ fragment = [d \in Dashes |-> FALSE]
    /\ acked = {} /\ locals = 0 /\ resets = 0 /\ shorts = 0

-----------------------------------------------------------------------------
(* The dash *)

\* Queue::push: a full queue drops the new event.
Push(q, e) == IF Len(q) = Capacity THEN q ELSE Append(q, e)

\* dashEvent: the number of an event that is dropped is used up.
DashEvent(d) ==
    /\ eventSeq[d] < MaxEvents
    /\ eventSeq' = [eventSeq EXCEPT ![d] = @ + 1]
    /\ queue' = [queue EXCEPT ![d] = Push(@, eventSeq[d] + 1)]
    /\ UNCHANGED <<boot, part, previousSeq, linkVars, logVars, card, acked, bounds>>

\* frame: part p of event e; the numbers travel in part 0.
Frame(e, p) == [part |-> p, sequence |-> e.seq % Modulus, event |-> e]

\* Receiver::accept: next = Parts when the event is whole.  What is assembled
\* carries the numbers of its first part.
Assemble(r, f) ==
    IF f.part = 0 THEN [next |-> 1, sequence |-> f.sequence, event |-> f.event]
    ELSE IF f.part = r.next /\ f.sequence = r.sequence THEN [r EXCEPT !.next = @ + 1]
    ELSE Empty

\* onEvent: a whole event waits for the loop.
OnEvent(f) ==
    LET r == Assemble(rx, f)
    IN IF r.next = Parts THEN rx' = Empty /\ received' = r.event
       ELSE rx' = r /\ UNCHANGED received

\* serviceSystemEvents sends the next part of the oldest event; it arrives or
\* is lost.
SendPart(d) ==
    /\ connected = d /\ queue[d] # <<>>
    /\ LET e == [dash |-> d, boot |-> boot[d], seq |-> Head(queue[d])]
           p == IF previousSeq[d] # e.seq THEN 0 ELSE part[d]
       IN /\ previousSeq' = [previousSeq EXCEPT ![d] = e.seq]
          /\ part' = [part EXCEPT ![d] = (p + 1) % Parts]
          /\ OnEvent(Frame(e, p)) \/ UNCHANGED <<rx, received>>
    /\ UNCHANGED <<boot, eventSeq, queue, connected, ack, logVars, card, acked, bounds>>

\* Mutant: any acknowledgement pops the oldest event.
AcksFrontAny(d) == queue[d] # <<>>

\* Whether the acknowledgement is the one of the oldest event
AcksFront(d) == queue[d] # <<>> /\ ack.boot = boot[d] /\ ack.seq = Head(queue[d])

\* EventCallbacks::onWrite
OnAck(d) ==
    /\ connected = d /\ ack # NoEvent /\ ack' = NoEvent
    /\ IF AcksFront(d)
       THEN /\ queue' = [queue EXCEPT ![d] = Tail(@)]
            /\ acked' = acked \cup {[dash |-> d, boot |-> boot[d], seq |-> Head(queue[d])]}
       ELSE UNCHANGED <<queue, acked>>
    /\ UNCHANGED <<boot, eventSeq, part, previousSeq, connected, rx, received, logVars, card, bounds>>

\* The write has no response and may be lost.
AckLost ==
    /\ ack # NoEvent /\ ack' = NoEvent
    /\ UNCHANGED <<dashVars, connected, rx, received, logVars, card, acked, bounds>>

\* A reboot of the dash: the queue is RAM.
DashReboot(d) ==
    /\ boot[d] < MaxBoots /\ boot' = [boot EXCEPT ![d] = @ + 1]
    /\ eventSeq' = [eventSeq EXCEPT ![d] = 0] /\ queue' = [queue EXCEPT ![d] = <<>>]
    /\ part' = [part EXCEPT ![d] = 0] /\ previousSeq' = [previousSeq EXCEPT ![d] = 0]
    /\ IF connected = d THEN connected' = None /\ ack' = NoEvent ELSE UNCHANGED <<connected, ack>>
    /\ UNCHANGED <<rx, received, logVars, card, acked, bounds>>

-----------------------------------------------------------------------------
(* The logger *)

\* loop and finishScan: the receiver starts afresh with the connection.
Connect(d) ==
    /\ connected = None /\ connected' = d
    /\ received' = NoEvent /\ rx' = Empty
    /\ UNCHANGED <<dashVars, ack, logVars, card, acked, bounds>>

Disconnect ==
    /\ connected # None /\ connected' = None /\ ack' = NoEvent
    /\ UNCHANGED <<dashVars, rx, received, logVars, card, acked, bounds>>

\* add and http: an event of the logger itself, in the same queue
Add ==
    /\ locals < MaxLocal /\ locals' = locals + 1
    /\ pending' = Push(pending, NoEvent)
    /\ UNCHANGED <<dashVars, linkVars, ready, dashDevice, dashBoot, dashSeq, dashPendingBoot,
                   dashPendingSeq, card, acked, resets, shorts>>

\* Mutant: the last lines are not looked at.
TailSeqsNone(d, b) == {}

\* The numbers that the last lines of d's files give for boot b
TailSeqs(d, b) ==
    {lines[d][i].seq : i \in {j \in DOMAIN lines[d] :
        /\ j = Len(lines[d]) \/ lines[d][j + 1].first
        /\ lines[d][j].readable /\ lines[d][j].boot = b}}

\* The end of acceptDash: one event at a time waits for the card.
Keep(e) ==
    /\ dashPendingSeq = 0 /\ Len(pending) < Capacity /\ UNCHANGED ack
    /\ pending' = Append(pending, e) /\ dashPendingBoot' = e.boot /\ dashPendingSeq' = e.seq

\* acceptDash, not without a card.  The number recovered from the files of a
\* dash is never below the one of the dash before.
AcceptDash(e) ==
    LET found == IF dashDevice = connected THEN {} ELSE TailSeqs(connected, e.boot)
        b == IF found = {} THEN dashBoot ELSE e.boot
        s == Max({dashSeq} \cup found)
        known == e.boot = b /\ e.seq <= s
    IN \/ ~ready /\ UNCHANGED <<ack, logVars>>
       \/ /\ ready /\ UNCHANGED ready
          /\ dashDevice' = connected /\ dashBoot' = b /\ dashSeq' = s
          /\ \/ known /\ ack' = e /\ UNCHANGED <<pending, dashPendingBoot, dashPendingSeq>>
             \/ ~known /\ Keep(e)
             \/ /\ ~known /\ (dashPendingSeq # 0 \/ Len(pending) = Capacity)
                /\ UNCHANGED <<ack, pending, dashPendingBoot, dashPendingSeq>>

\* publish: the loop takes up the event and writes the acknowledgement.
Publish ==
    /\ connected # None /\ received # NoEvent /\ received' = NoEvent
    /\ AcceptDash(received)
    /\ UNCHANGED <<dashVars, connected, rx, card, acked, bounds>>

\* Mutant: the event that was written keeps its place.
WrittenStaysPending(d, e, first) ==
    /\ lines' = [lines EXCEPT ![d] = Append(@,
                    [boot |-> e.boot, seq |-> e.seq, first |-> first,
                     readable |-> first \/ ~fragment[d]])]
    /\ fragment' = [fragment EXCEPT ![d] = FALSE]
    /\ dashBoot' = dashPendingBoot /\ dashSeq' = dashPendingSeq /\ UNCHANGED dashPendingSeq

\* SystemLog::loop: the oldest entry is written and flushed.
Written(d, e, first) ==
    /\ lines' = [lines EXCEPT ![d] = Append(@,
                    [boot |-> e.boot, seq |-> e.seq, first |-> first,
                     readable |-> first \/ ~fragment[d]])]
    /\ fragment' = [fragment EXCEPT ![d] = FALSE]
    /\ dashBoot' = dashPendingBoot /\ dashSeq' = dashPendingSeq /\ dashPendingSeq' = 0

\* A write without a card, or of a logger event; a short write leaves half a
\* line behind and the entry in the queue.
Drain ==
    /\ \/ /\ ready' \in BOOLEAN
          /\ ~ready' \/ pending = <<>>
          /\ UNCHANGED <<pending, dashBoot, dashSeq, dashPendingSeq, card, shorts>>
       \/ /\ ready' = TRUE /\ pending # <<>> /\ Head(pending) = NoEvent
          /\ pending' = Tail(pending)
          /\ UNCHANGED <<dashBoot, dashSeq, dashPendingSeq, card, shorts>>
       \/ /\ ready' = TRUE /\ pending # <<>> /\ Head(pending) # NoEvent
          /\ pending' = Tail(pending) /\ UNCHANGED shorts
          /\ LET e == Head(pending) IN \E first \in {lines[e.dash] = <<>>, TRUE} : Written(e.dash, e, first)
       \/ /\ ready' = TRUE /\ pending # <<>> /\ Head(pending) # NoEvent
          /\ shorts < MaxShort /\ shorts' = shorts + 1
          /\ fragment' = [fragment EXCEPT ![Head(pending).dash] = TRUE]
          /\ UNCHANGED <<pending, lines, dashBoot, dashSeq, dashPendingSeq>>
    /\ UNCHANGED <<dashVars, linkVars, dashDevice, dashPendingBoot, acked, locals, resets>>

\* A reset of the logger: only the card is left.
Reset ==
    /\ resets < MaxResets /\ resets' = resets + 1
    /\ connected' = None /\ rx' = Empty /\ received' = NoEvent /\ ack' = NoEvent
    /\ ready' = FALSE /\ pending' = <<>> /\ dashDevice' = None
    /\ dashBoot' = 0 /\ dashSeq' = 0 /\ dashPendingBoot' = 0 /\ dashPendingSeq' = 0
    /\ locals' = 0
    /\ UNCHANGED <<dashVars, card, acked, shorts>>

-----------------------------------------------------------------------------

Next ==
    \/ \E d \in Dashes : DashEvent(d) \/ SendPart(d) \/ OnAck(d) \/ DashReboot(d) \/ Connect(d)
    \/ AckLost \/ Disconnect \/ Add \/ Publish \/ Drain \/ Reset

Spec == Init /\ [][Next]_vars

\* Part p arrives and is of use.
Delivers(d, p) ==
    /\ SendPart(d) /\ part'[d] = (p + 1) % Parts
    /\ IF p + 1 < Parts THEN rx'.next = p + 1 ELSE rx.next = p /\ rx'.next = 0

\* The loops go on, and what is repeated for ever over a link that stays
\* arrives in the end: every part, and the acknowledgement.
Fairness ==
    /\ WF_vars(Publish) /\ WF_vars(Drain /\ Len(pending') < Len(pending))
    /\ \A d \in Dashes : WF_vars(SendPart(d)) /\ SF_vars(OnAck(d))
    /\ \A d \in Dashes, p \in 0 .. Parts - 1 : SF_vars(Delivers(d, p))

FairSpec == Spec /\ Fairness

-----------------------------------------------------------------------------
(* Properties *)

\* An event leaves the dash only when its line is on the card, whoever
\* rebooted in between.
AckedIsStored ==
    \A e \in acked : \E i \in DOMAIN lines[e.dash] :
        lines[e.dash][i].boot = e.boot /\ lines[e.dash][i].seq = e.seq

\* The lines of a boot that can be read are in the order of its events, none
\* of them twice: a lost acknowledgement does not repeat a flushed record.
StoredOnceInOrder ==
    \A d \in Dashes : \A i, j \in DOMAIN lines[d] :
        /\ i < j /\ lines[d][i].boot = lines[d][j].boot
        /\ lines[d][i].readable /\ lines[d][j].readable
        => lines[d][i].seq < lines[d][j].seq

\* Once the link and the card stay, the dash gets rid of all its events:
\* whatever was lost before, each of them is delivered and acknowledged.
EventsDelivered ==
    \A d \in Dashes : <>[](connected = d /\ ready) => []<>(queue[d] = <<>>)
=============================================================================
