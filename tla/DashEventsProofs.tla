-------------------------- MODULE DashEventsProofs --------------------------
(***************************************************************************)
(* With one dash, an event leaves the dash's queue only when its line is   *)
(* on the logger's card, and the lines that can be read are in the order   *)
(* of the events and never repeated: for any number of events, parts,      *)
(* reboots of either side, lost parts and acknowledgements and short       *)
(* writes.                                                                 *)
(*                                                                         *)
(* The argument: the dash offers its oldest event only, so all the lines   *)
(* of its boot are at most as new as what it offers.  What the logger      *)
(* acknowledges is at most as new as a line it wrote or found; so it is    *)
(* that line, or an event acknowledged before.                             *)
(***************************************************************************)
EXTENDS DashEvents, WellFoundedInduction, TLAPS

-----------------------------------------------------------------------------
(* Maxima *)

\* A set of natural numbers has a least element.
LEMMA Least ==
    ASSUME NEW S \in SUBSET Nat, S # {}
    PROVE  \E x \in S : \A y \in S : x <= y
<1>1. IsWellFoundedOn(OpToRel(<, Nat), Nat)
  BY NatLessThanWellFounded, Zenon
<1> DEFINE R == {p \in Nat \X Nat : p[1] < p[2]}
<1>2. OpToRel(<, Nat) = R
  BY Zenon DEF OpToRel
<1>3. IsWellFoundedOn(R, Nat)
  BY <1>1, <1>2, Zenon
<1> HIDE DEF R
<1>4. PICK x \in S : \A y \in S : ~(<<y, x>> \in R)
  BY <1>3, WFMin
<1>5. ASSUME NEW y \in S PROVE x <= y
  <2>1. <<y, x>> \in Nat \X Nat
    OBVIOUS
  <2>2. ~(y < x)
    BY <1>4, <2>1 DEF R
  <2> QED BY <2>2
<1> QED BY <1>5

\* Max is what its name says on bounded sets.
LEMMA Greatest ==
    ASSUME NEW n \in Nat, NEW S \in SUBSET (0 .. n), S # {}
    PROVE  Max(S) \in S /\ \A y \in S : y <= Max(S)
<1> DEFINE T == {n - x : x \in S}
<1>1. T \subseteq Nat /\ T # {}
  <2>1. \A x \in S : n - x \in Nat
    OBVIOUS
  <2> QED BY <2>1, Zenon
<1>2. PICK t \in T : \A y \in T : t <= y
  BY <1>1, Least
<1>3. PICK x \in S : t = n - x
  BY <1>2
<1>4. \A y \in S : x >= y
  BY <1>2, <1>3
<1> QED BY <1>4 DEF Max

-----------------------------------------------------------------------------
(* The inductive invariant *)

\* One dash is paired with the logger.
OneDash == \A d, e \in Dashes : d = e

Numbers == Nat \ {0}
Sent == [dash : Dashes, boot : Nat, seq : Numbers]
Lines == Seq([boot : Nat, seq : Numbers, readable : BOOLEAN, first : BOOLEAN])

\* The part of TypeOK that does not depend on the bounds.
DTypes ==
    /\ boot \in [Dashes -> Nat] /\ eventSeq \in [Dashes -> Nat]
    /\ queue \in [Dashes -> Seq(Numbers)]
    /\ connected \in Dashes \cup {None}
    /\ rx \in [next : Int, sequence : Int, event : Sent \cup {NoEvent}]
    /\ received \in Sent \cup {NoEvent} /\ ack \in Sent \cup {NoEvent}
    /\ pending \in Seq(Sent \cup {NoEvent})
    /\ dashDevice \in Dashes \cup {None}
    /\ dashBoot \in Nat /\ dashSeq \in Nat
    /\ dashPendingBoot \in Nat /\ dashPendingSeq \in Nat
    /\ lines \in [Dashes -> Lines] /\ fragment \in [Dashes -> BOOLEAN]
    /\ acked \subseteq Sent

\* The line of e is on the card.
Stored(e) ==
    \E i \in DOMAIN lines[e.dash] :
        lines[e.dash][i].boot = e.boot /\ lines[e.dash][i].seq = e.seq

\* acceptDash would find e acknowledged by what it remembers.
Known(e) == dashDevice = e.dash /\ dashBoot = e.boot /\ e.seq <= dashSeq

\* e is the event that the dash repeats.
Front(e) == queue[e.dash] # <<>> /\ e.seq = queue[e.dash][1]

\* Line x may stand before a line of event s of boot b: it is older, or it is
\* the same event behind half a line.
Before(x, b, s) ==
    /\ x.boot <= b
    /\ x.boot = b => x.seq < s \/ (x.seq = s /\ ~x.readable)

\* Nothing that the dash still keeps is older than event s of its boot b.
Due(d, b, s) ==
    /\ b <= boot[d]
    /\ b = boot[d] =>
          s <= eventSeq[d] /\ \A k \in 1 .. Len(queue[d]) : s <= queue[d][k]

QueueSound ==
    \A d \in Dashes : \A i \in 1 .. Len(queue[d]) :
        /\ queue[d][i] <= eventSeq[d]
        /\ \A j \in 1 .. Len(queue[d]) : i < j => queue[d][i] < queue[d][j]

LinesSound ==
    \A d \in Dashes : \A i \in 1 .. Len(lines[d]) :
        /\ Due(d, lines[d][i].boot, lines[d][i].seq)
        /\ \A j \in 1 .. Len(lines[d]) :
              i < j => Before(lines[d][i], lines[d][j].boot, lines[d][j].seq)

\* At most one event of the dash is in the logger's queue, and it is newer
\* than everything on the card.
PendingSound ==
    /\ \A k \in 1 .. Len(pending) : pending[k] # NoEvent =>
          /\ dashPendingSeq # 0
          /\ pending[k].boot = dashPendingBoot /\ pending[k].seq = dashPendingSeq
          /\ \A l \in 1 .. Len(pending) : pending[l] # NoEvent => k = l
    /\ dashPendingSeq # 0 =>
          /\ dashDevice # None
          /\ dashBoot <= dashPendingBoot
          /\ dashBoot = dashPendingBoot => dashSeq < dashPendingSeq
          /\ \A d \in Dashes :
                /\ Due(d, dashPendingBoot, dashPendingSeq)
                /\ \A i \in 1 .. Len(lines[d]) :
                      Before(lines[d][i], dashPendingBoot, dashPendingSeq)

\* What acceptDash remembers of the dash is on the card, and covers a last line
\* of the dash's boot that can be read.
RecoverySound ==
    /\ dashDevice = None => dashBoot = 0 /\ dashSeq = 0
    /\ \A d \in Dashes : dashDevice = d =>
          /\ dashBoot <= boot[d]
          /\ dashSeq # 0 => Stored([dash |-> d, boot |-> dashBoot, seq |-> dashSeq])
          /\ LET n == Len(lines[d])
             IN n > 0 /\ lines[d][n].readable /\ lines[d][n].boot = boot[d] =>
                   dashBoot = boot[d] /\ lines[d][n].seq <= dashSeq

\* Over a connection the logger hears the oldest event of the dash, or one
\* that was acknowledged since.
LinkSound ==
    connected # None =>
        \A e \in Sent : e \in {received, rx.event} =>
            e.boot = boot[e.dash] /\ (Front(e) \/ (e \in acked /\ Known(e)))

\* An acknowledgement on its way is of an event of this boot that is on the card.
AckSound ==
    \A e \in Sent : ack = e =>
        connected # None /\ e.boot = boot[e.dash] /\ Known(e) /\ Stored(e)

\* The events that left the dash are on the card.
AckedSound == \A e \in acked : Stored(e)

DInv ==
    /\ DTypes /\ QueueSound /\ LinesSound /\ PendingSound /\ RecoverySound
    /\ LinkSound /\ AckSound /\ AckedSound

-----------------------------------------------------------------------------

\* No event of a dash is the absent event.
LEMMA NoEventNotSent == NoEvent \notin Sent
BY EventsAssumption DEF NoEvent, Sent

\* At the start nothing was said and the card is empty.
LEMMA DInit == Init => DInv
<1> SUFFICES ASSUME Init PROVE DInv
  OBVIOUS
<1> USE DEF Init
<1>1. Empty \in [next : Int, sequence : Int, event : Sent \cup {NoEvent}] /\ Empty.event = NoEvent
  BY DEF Empty
<1>2. /\ <<>> \in Seq(Numbers) /\ <<>> \in Seq(Sent \cup {NoEvent})
      /\ <<>> \in Lines
  BY DEF Lines
<1>3. DTypes
  <2>1. boot \in [Dashes -> Nat] /\ eventSeq \in [Dashes -> Nat] /\ fragment \in [Dashes -> BOOLEAN]
    OBVIOUS
  <2>2. queue \in [Dashes -> Seq(Numbers)] /\ lines \in [Dashes -> Lines]
    BY <1>2
  <2> QED BY <1>1, <1>2, <2>1, <2>2 DEF DTypes
<1>4. \A d \in Dashes : Len(queue[d]) = 0 /\ Len(lines[d]) = 0
  OBVIOUS
<1>5. QueueSound
  BY <1>4 DEF QueueSound
<1>6. LinesSound
  BY <1>4 DEF LinesSound
<1>7. PendingSound
  BY DEF PendingSound
<1>8. RecoverySound
  BY EventsAssumption DEF RecoverySound
<1>9. LinkSound
  BY DEF LinkSound
<1>10. AckSound
  BY NoEventNotSent DEF AckSound
<1>11. AckedSound
  BY DEF AckedSound
<1> QED BY <1>3, <1>5, <1>6, <1>7, <1>8, <1>9, <1>10, <1>11 DEF DInv

-----------------------------------------------------------------------------
(* Steps of the dash *)

\* A line holds numbers.
LEMMA LineTyped ==
    ASSUME DTypes, NEW d \in Dashes, NEW i \in 1 .. Len(lines[d])
    PROVE  /\ lines[d] \in Lines /\ Len(lines[d]) \in Nat
           /\ lines[d][i].boot \in Nat /\ lines[d][i].seq \in Numbers /\ lines[d][i].seq \in Nat
           /\ lines[d][i].readable \in BOOLEAN
<1> DEFINE T == [boot : Nat, seq : Numbers, readable : BOOLEAN, first : BOOLEAN]
<1>1. lines[d] \in Lines /\ Lines = Seq(T)
  BY DEF DTypes, Lines
<1> HIDE DEF T
<1>2. lines[d][i] \in T /\ Len(lines[d]) \in Nat
  BY <1>1
<1> QED BY <1>1, <1>2 DEF T, Numbers

\* The lines stay sound while the dash keeps nothing older.
LEMMA LinesStay ==
    ASSUME DInv, UNCHANGED lines,
           \A d \in Dashes : \A b, s \in Nat : Due(d, b, s) => Due(d, b, s)'
    PROVE  LinesSound'
<1>1. \A d \in Dashes : \A i \in 1 .. Len(lines[d]) :
          lines[d][i].boot \in Nat /\ lines[d][i].seq \in Nat
  BY LineTyped DEF DInv
<1> SUFFICES ASSUME NEW d \in Dashes, NEW i \in 1 .. Len(lines[d])
             PROVE  /\ Due(d, lines[d][i].boot, lines[d][i].seq)'
                    /\ \A j \in 1 .. Len(lines[d]) :
                          i < j => Before(lines[d][i], lines[d][j].boot, lines[d][j].seq)'
  BY Zenon DEF LinesSound
<1>2. /\ Due(d, lines[d][i].boot, lines[d][i].seq)
      /\ \A j \in 1 .. Len(lines[d]) :
            i < j => Before(lines[d][i], lines[d][j].boot, lines[d][j].seq)
  BY DEF DInv, LinesSound
<1> DEFINE b == lines[d][i].boot
           s == lines[d][i].seq
<1>3. Due(d, b, s)'
  BY <1>1, <1>2
<1>4. Due(d, lines[d][i].boot, lines[d][i].seq)'
  BY <1>3 DEF Due
<1> QED BY <1>2, <1>4 DEF Before

\* So does the pending event when the logger does nothing.
LEMMA StaysDue ==
    ASSUME DInv,
           UNCHANGED <<lines, pending, dashDevice, dashBoot, dashSeq, dashPendingBoot, dashPendingSeq>>,
           \A d \in Dashes : \A b, s \in Nat : Due(d, b, s) => Due(d, b, s)'
    PROVE  LinesSound' /\ PendingSound'
<1>1. LinesSound'
  BY LinesStay
<1>2. dashPendingBoot \in Nat /\ dashPendingSeq \in Nat
  BY DEF DInv, DTypes
<1>3. PendingSound'
  BY <1>2, Zenon DEF DInv, PendingSound, Before
<1> QED BY <1>1, <1>3

\* Parts of the invariant stay while nothing they speak of changes.
LEMMA DashStays ==
    ASSUME DInv, UNCHANGED <<boot, eventSeq, queue>>
    PROVE  QueueSound' /\ \A d \in Dashes : \A b, s \in Nat : Due(d, b, s) => Due(d, b, s)'
<1>1. QueueSound'
  BY Zenon DEF DInv, QueueSound
<1>2. \A d \in Dashes : \A b, s \in Nat : Due(d, b, s) => Due(d, b, s)'
  BY Zenon DEF Due
<1> QED BY <1>1, <1>2

LEMMA RecoveryStays ==
    ASSUME DInv, UNCHANGED <<boot, dashDevice, dashBoot, dashSeq, lines>>
    PROVE  RecoverySound'
BY Zenon DEF DInv, RecoverySound, Stored

LEMMA AckStays ==
    ASSUME DInv, UNCHANGED <<ack, connected, boot, dashDevice, dashBoot, dashSeq, lines>>
    PROVE  AckSound'
BY Zenon DEF DInv, AckSound, Known, Stored

LEMMA AckedStays ==
    ASSUME DInv, UNCHANGED <<lines, acked>>
    PROVE  AckedSound'
BY Zenon DEF DInv, AckedSound, Stored

\* What was stored stays so while the card is not written.
LEMMA StaysStored ==
    ASSUME UNCHANGED lines, NEW e
    PROVE  Stored(e) <=> Stored(e)'
BY DEF Stored

\* dashEvent: the new event is newer than everything before it.
LEMMA DashEventStep ==
    ASSUME OneDash, DInv, NEW d \in Dashes, DashEvent(d)
    PROVE  DInv'
<1> USE DEF linkVars, logVars, card, bounds
<1>1. /\ eventSeq' = [eventSeq EXCEPT ![d] = eventSeq[d] + 1]
      /\ queue' = [queue EXCEPT ![d] = Push(queue[d], eventSeq[d] + 1)]
      /\ UNCHANGED <<boot, connected, rx, received, ack, pending, dashDevice, dashBoot, dashSeq,
                     dashPendingBoot, dashPendingSeq, lines, fragment, acked>>
  BY DEF DashEvent
<1>2. DTypes /\ eventSeq[d] \in Nat /\ queue[d] \in Seq(Numbers) /\ eventSeq[d] + 1 \in Numbers
  <2>1. DTypes /\ eventSeq[d] \in Nat /\ queue[d] \in Seq(Numbers)
    BY DEF DInv, DTypes
  <2> QED BY <2>1 DEF Numbers
<1>3. queue'[d] \in Seq(Numbers) /\ eventSeq'[d] = eventSeq[d] + 1
  BY <1>1, <1>2 DEF Push, DTypes
<1>4. DTypes'
  <2>1. eventSeq' \in [Dashes -> Nat] /\ queue' \in [Dashes -> Seq(Numbers)]
    BY <1>1, <1>2, <1>3 DEF DTypes
  <2> QED BY <1>1, <1>2, <2>1 DEF DTypes
<1>5. /\ Len(queue[d]) \in Nat
      /\ Len(queue'[d]) \in {Len(queue[d]), Len(queue[d]) + 1}
      /\ \A i \in 1 .. Len(queue[d]) : queue'[d][i] = queue[d][i]
      /\ \A i \in 1 .. Len(queue'[d]) :
            i \in 1 .. Len(queue[d]) \/ (i = Len(queue[d]) + 1 /\ queue'[d][i] = eventSeq[d] + 1)
  BY <1>1, <1>2 DEF Push, DTypes
<1>6. \A x \in Dashes : x = d
  BY DEF OneDash
<1>7. \A i \in 1 .. Len(queue[d]) : queue[d][i] \in Nat /\ queue[d][i] <= eventSeq[d]
  BY <1>2 DEF DInv, QueueSound, Numbers
<1>8. QueueSound'
  <2>1. ASSUME NEW i \in 1 .. Len(queue'[d]) PROVE queue'[d][i] <= eventSeq'[d]
    BY <1>2, <1>3, <1>5, <1>7
  <2>2. ASSUME NEW i \in 1 .. Len(queue'[d]), NEW j \in 1 .. Len(queue'[d]), i < j
        PROVE  queue'[d][i] < queue'[d][j]
    <3>1. i \in 1 .. Len(queue[d])
      BY <1>5, <2>2
    <3>2. CASE j \in 1 .. Len(queue[d])
      BY <1>5, <2>2, <3>1, <3>2 DEF DInv, QueueSound
    <3>3. CASE j = Len(queue[d]) + 1 /\ queue'[d][j] = eventSeq[d] + 1
      BY <1>2, <1>5, <1>7, <3>1, <3>3
    <3> QED BY <1>5, <3>2, <3>3
  <2> QED BY <1>6, <2>1, <2>2 DEF QueueSound
<1>9. ASSUME NEW b \in Nat, NEW s \in Nat, Due(d, b, s) PROVE Due(d, b, s)'
  <2>1. b <= boot'[d]
    BY <1>1, <1>9 DEF Due
  <2>2. ASSUME b = boot'[d] PROVE s <= eventSeq'[d] /\ \A k \in 1 .. Len(queue'[d]) : s <= queue'[d][k]
    <3>1. s <= eventSeq[d] /\ \A k \in 1 .. Len(queue[d]) : s <= queue[d][k]
      BY <1>1, <1>9, <2>2 DEF Due
    <3>2. ASSUME NEW k \in 1 .. Len(queue'[d]) PROVE s <= queue'[d][k]
      BY <1>2, <1>5, <3>1
    <3> QED BY <1>2, <1>3, <3>1, <3>2
  <2> QED BY <2>1, <2>2 DEF Due
<1>10. LinesSound' /\ PendingSound'
  BY <1>1, <1>6, <1>9, StaysDue
<1>11. RecoverySound'
  BY <1>1, RecoveryStays
<1>12. ASSUME NEW e \in Sent, Front(e) PROVE Front(e)'
  <2>1. e.dash = d /\ queue[d] # <<>> /\ e.seq = queue[d][1]
    BY <1>6, <1>12 DEF Front, Sent
  <2>2. 1 \in 1 .. Len(queue[d])
    BY <1>2, <2>1
  <2>3. queue'[d] # <<>> /\ queue'[d][1] = queue[d][1]
    BY <1>3, <1>5, <2>2
  <2> QED BY <2>1, <2>3 DEF Front
<1>13. LinkSound'
  BY <1>1, <1>12, Zenon DEF DInv, LinkSound, Known
<1>14. AckSound' /\ AckedSound'
  BY <1>1, AckStays, AckedStays
<1> QED BY <1>4, <1>8, <1>10, <1>11, <1>13, <1>14 DEF DInv

\* A part of the oldest event arrives or is lost.
LEMMA SendPartStep ==
    ASSUME OneDash, DInv, NEW d \in Dashes, SendPart(d)
    PROVE  DInv'
<1> USE DEF logVars, card, bounds
<1> DEFINE e == [dash |-> d, boot |-> boot[d], seq |-> Head(queue[d])]
<1>1. /\ UNCHANGED <<boot, eventSeq, queue, connected, ack, pending, dashDevice, dashBoot, dashSeq,
                     dashPendingBoot, dashPendingSeq, lines, fragment, acked>>
      /\ connected = d /\ queue[d] # <<>>
      /\ UNCHANGED <<rx, received>> \/ \E p : OnEvent(Frame(e, p))
  BY DEF SendPart
<1>2. DTypes /\ queue[d] \in Seq(Numbers) /\ boot[d] \in Nat
  BY DEF DInv, DTypes
<1>3. e \in Sent /\ e.seq = queue[d][1] /\ e.dash = d /\ e.boot = boot[d]
  BY <1>1, <1>2 DEF Sent
<1>4. e \in Sent /\ e.boot = boot[e.dash] /\ Front(e)
  BY <1>1, <1>3 DEF Front
<1> HIDE DEF e
<1>5. /\ rx' \in [next : Int, sequence : Int, event : Sent \cup {NoEvent}]
      /\ rx'.event \in {rx.event, e, NoEvent}
      /\ received' \in {received, rx.event, e, NoEvent}
  <2>1. CASE UNCHANGED <<rx, received>>
    BY <1>2, <2>1 DEF DTypes
  <2>2. ASSUME NEW p, OnEvent(Frame(e, p))
        PROVE  /\ rx' \in [next : Int, sequence : Int, event : Sent \cup {NoEvent}]
               /\ rx'.event \in {rx.event, e, NoEvent}
               /\ received' \in {received, rx.event, e, NoEvent}
    <3> DEFINE f == Frame(e, p)
               r == Assemble(rx, f)
    <3>1. f.event = e /\ f.sequence = e.seq % Modulus
      BY DEF Frame
    <3>2. f.sequence \in Int
      <4>1. e.seq \in Int /\ Modulus \in Nat /\ Modulus > 0
        BY <1>3, EventsAssumption DEF Sent, Numbers
      <4> QED BY <3>1, <4>1
    <3>3. Empty \in [next : Int, sequence : Int, event : Sent \cup {NoEvent}] /\ Empty.event = NoEvent
      BY DEF Empty
    <3> HIDE DEF f
    <3>4. /\ r \in [next : Int, sequence : Int, event : Sent \cup {NoEvent}]
          /\ r.event \in {rx.event, e, NoEvent}
      <4>1. rx \in [next : Int, sequence : Int, event : Sent \cup {NoEvent}]
        BY <1>2 DEF DTypes
      <4> QED BY <1>4, <3>1, <3>2, <3>3, <4>1 DEF Assemble
    <3>5. (rx' = Empty /\ received' = r.event) \/ (rx' = r /\ received' = received)
      BY <2>2 DEF OnEvent, f
    <3> HIDE DEF r
    <3> QED BY <3>3, <3>4, <3>5
  <2> QED BY <1>1, <2>1, <2>2
<1>6. DTypes'
  <2>1. received' \in Sent \cup {NoEvent}
    BY <1>2, <1>4, <1>5 DEF DTypes
  <2> QED BY <1>1, <1>2, <1>5, <2>1 DEF DTypes
<1>7. QueueSound' /\ LinesSound' /\ PendingSound'
  BY <1>1, DashStays, StaysDue
<1>8. RecoverySound' /\ AckSound' /\ AckedSound'
  BY <1>1, RecoveryStays, AckStays, AckedStays
<1>9. LinkSound'
  <2>1. ASSUME NEW x \in Sent, x \in {received', rx'.event}
        PROVE  x.boot = boot[x.dash] /\ (Front(x) \/ (x \in acked /\ Known(x)))
    <3>1. x \in {received, rx.event, e}
      BY <1>5, <2>1, NoEventNotSent
    <3>2. connected # None
      BY <1>1, EventsAssumption
    <3> QED BY <1>4, <3>1, <3>2 DEF DInv, LinkSound
  <2> QED BY <1>1, <2>1, Zenon DEF LinkSound, Front, Known
<1> QED BY <1>6, <1>7, <1>8, <1>9 DEF DInv

\* EventCallbacks::onWrite: the oldest event leaves when its line is stored.
LEMMA OnAckStep ==
    ASSUME OneDash, DInv, NEW d \in Dashes, OnAck(d)
    PROVE  DInv'
<1> USE DEF logVars, card, bounds
<1>0. \A x \in Dashes : x = d
  BY DEF OneDash
<1>1. /\ UNCHANGED <<boot, eventSeq, connected, rx, received, pending, dashDevice, dashBoot, dashSeq,
                     dashPendingBoot, dashPendingSeq, lines, fragment>>
      /\ connected = d /\ ack # NoEvent /\ ack' = NoEvent
  BY DEF OnAck
<1>2. DTypes /\ queue[d] \in Seq(Numbers) /\ boot[d] \in Nat /\ ack \in Sent
  BY <1>1 DEF DInv, DTypes
<1>3. AckSound'
  BY <1>1, NoEventNotSent DEF AckSound
<1>4. CASE UNCHANGED <<queue, acked>>
  <2>1. DTypes'
    BY <1>1, <1>2, <1>4 DEF DTypes
  <2>2. QueueSound' /\ RecoverySound' /\ AckedSound'
    BY <1>1, <1>4, DashStays, RecoveryStays, AckedStays
  <2>4. LinesSound' /\ PendingSound'
    BY <1>1, <1>4, DashStays, StaysDue
  <2>5. LinkSound'
    BY <1>1, <1>4, Zenon DEF DInv, LinkSound, Front, Known
  <2> QED BY <1>3, <2>1, <2>2, <2>4, <2>5 DEF DInv
<1>5. CASE AcksFront(d)
  <2> DEFINE h == [dash |-> d, boot |-> boot[d], seq |-> Head(queue[d])]
  <2>1. /\ queue' = [queue EXCEPT ![d] = Tail(queue[d])] /\ acked' = acked \cup {h}
        /\ queue[d] # <<>> /\ ack.boot = boot[d] /\ ack.seq = Head(queue[d])
    BY <1>5 DEF OnAck, AcksFront
  <2>2. /\ h \in Sent /\ h.dash = d /\ h.boot = boot[d] /\ h.seq = queue[d][1]
        /\ \A x \in Sent : x.boot = boot[x.dash] /\ x.seq = queue[d][1] => x = h
    BY <1>0, <1>2, <2>1 DEF Sent
  <2> HIDE DEF h
  <2>3. h = ack
    <3>1. ack.dash = d /\ ack.boot = boot[ack.dash] /\ ack.seq = queue[d][1]
      BY <1>0, <1>2, <2>1 DEF Sent
    <3> QED BY <1>2, <2>2, <3>1
  <2>4. Known(h) /\ Stored(h)
    BY <1>2, <2>3 DEF DInv, AckSound
  <2>5. /\ queue'[d] = Tail(queue[d]) /\ queue'[d] \in Seq(Numbers)
        /\ Len(queue[d]) \in Nat \ {0} /\ Len(queue'[d]) = Len(queue[d]) - 1
        /\ \A i \in 1 .. Len(queue'[d]) : i + 1 \in 1 .. Len(queue[d]) /\ queue'[d][i] = queue[d][i + 1]
    BY <1>2, <2>1 DEF DTypes
  <2>6. DTypes'
    <3>1. queue' \in [Dashes -> Seq(Numbers)]
      BY <1>2, <2>1, <2>5 DEF DTypes
    <3> QED BY <1>1, <1>2, <2>1, <2>2, <3>1 DEF DTypes
  <2>7. QueueSound'
    <3>1. ASSUME NEW i \in 1 .. Len(queue'[d]), NEW j \in 1 .. Len(queue'[d]), i < j
          PROVE  queue'[d][i] < queue'[d][j]
      <4>1. i + 1 \in 1 .. Len(queue[d]) /\ j + 1 \in 1 .. Len(queue[d]) /\ i + 1 < j + 1
        BY <2>5, <3>1
      <4>2. queue[d][i + 1] < queue[d][j + 1]
        BY <4>1 DEF DInv, QueueSound
      <4> QED BY <2>5, <4>2
    <3>2. ASSUME NEW i \in 1 .. Len(queue'[d]) PROVE queue'[d][i] <= eventSeq'[d]
      <4>1. i + 1 \in 1 .. Len(queue[d]) /\ queue'[d][i] = queue[d][i + 1]
        BY <2>5
      <4> QED BY <1>1, <4>1 DEF DInv, QueueSound
    <3> QED BY <1>0, <3>1, <3>2 DEF QueueSound
  <2>8. ASSUME NEW b \in Nat, NEW s \in Nat, Due(d, b, s) PROVE Due(d, b, s)'
    <3>1. ASSUME NEW k \in 1 .. Len(queue'[d]), b = boot[d] PROVE s <= queue'[d][k]
      <4>1. k + 1 \in 1 .. Len(queue[d]) /\ queue'[d][k] = queue[d][k + 1]
        BY <2>5
      <4> QED BY <2>8, <3>1, <4>1 DEF Due
    <3> QED BY <1>1, <2>8, <3>1 DEF Due
  <2>9. LinesSound' /\ PendingSound'
    BY <1>0, <1>1, <2>8, StaysDue
  <2>10. RecoverySound'
    BY <1>1, RecoveryStays
  <2>11. LinkSound'
    <3>1. ASSUME NEW e \in Sent, e \in {received, rx.event}
          PROVE  e.boot = boot[e.dash] /\ e \in acked' /\ Known(e)
      <4>1. connected # None
        BY <1>1, EventsAssumption
      <4>2. e.boot = boot[e.dash] /\ (Front(e) \/ (e \in acked /\ Known(e)))
        BY <3>1, <4>1 DEF DInv, LinkSound
      <4>3. CASE Front(e)
        <5>1. e.dash = d
          BY <1>0 DEF Sent
        <5>2. e = h
          BY <2>2, <4>2, <4>3, <5>1 DEF Front
        <5> QED BY <2>1, <2>4, <4>2, <5>2
      <4> QED BY <2>1, <4>2, <4>3
    <3> QED BY <1>1, <3>1, Zenon DEF LinkSound, Known
  <2>12. AckedSound'
    BY <1>1, <2>1, <2>4, Zenon DEF DInv, AckedSound, Stored
  <2> QED BY <1>3, <2>6, <2>7, <2>9, <2>10, <2>11, <2>12 DEF DInv
<1> QED BY <1>4, <1>5 DEF OnAck

\* A reboot of the dash: a new boot number, an empty queue and no connection.
LEMMA DashRebootStep ==
    ASSUME OneDash, DInv, NEW d \in Dashes, DashReboot(d)
    PROVE  DInv'
<1> USE DEF logVars, card, bounds
<1>0. \A x \in Dashes : x = d
  BY DEF OneDash
<1>1. /\ boot' = [boot EXCEPT ![d] = boot[d] + 1] /\ eventSeq' = [eventSeq EXCEPT ![d] = 0]
      /\ queue' = [queue EXCEPT ![d] = <<>>]
      /\ UNCHANGED <<rx, received, pending, dashDevice, dashBoot, dashSeq, dashPendingBoot,
                     dashPendingSeq, lines, fragment, acked>>
      /\ IF connected = d THEN connected' = None /\ ack' = NoEvent ELSE UNCHANGED <<connected, ack>>
  BY DEF DashReboot
<1>2. DTypes /\ boot[d] \in Nat /\ d # None
  BY EventsAssumption DEF DInv, DTypes
<1>3. connected' = None /\ ack' = NoEvent
  <2>1. CASE connected = d
    BY <1>1, <2>1
  <2>2. CASE connected # d
    <3>1. connected = None
      BY <1>0, <1>2, <2>2 DEF DTypes
    <3>2. ack = NoEvent
      BY <1>2, <3>1 DEF DTypes, DInv, AckSound
    <3> QED BY <1>1, <2>2, <3>1, <3>2
  <2> QED BY <2>1, <2>2
<1>4. boot'[d] = boot[d] + 1 /\ eventSeq'[d] = 0 /\ queue'[d] = <<>> /\ Len(queue'[d]) = 0
  BY <1>1, <1>2 DEF DTypes
<1>5. DTypes'
  <2>1. boot' \in [Dashes -> Nat] /\ eventSeq' \in [Dashes -> Nat]
    BY <1>1, <1>2 DEF DTypes
  <2>2. queue' \in [Dashes -> Seq(Numbers)]
    BY <1>1, <1>2 DEF DTypes
  <2> QED BY <1>1, <1>2, <1>3, <2>1, <2>2 DEF DTypes
<1>6. QueueSound'
  BY <1>0, <1>4 DEF QueueSound
<1>7. ASSUME NEW b \in Nat, NEW s \in Nat, Due(d, b, s) PROVE Due(d, b, s)'
  BY <1>2, <1>4, <1>7 DEF Due
<1>8. LinesSound' /\ PendingSound'
  BY <1>0, <1>1, <1>7, StaysDue
<1>9. RecoverySound'
  <2>1. (dashDevice = None => dashBoot = 0 /\ dashSeq = 0)'
    BY <1>1 DEF DInv, RecoverySound
  <2>2. ASSUME dashDevice = d
        PROVE  /\ dashBoot <= boot'[d]
               /\ dashSeq # 0 => Stored([dash |-> d, boot |-> dashBoot, seq |-> dashSeq])
    BY <1>2, <1>4, <2>2 DEF DInv, DTypes, RecoverySound
  <2>3. ASSUME Len(lines[d]) > 0 PROVE lines[d][Len(lines[d])].boot # boot'[d]
    <3>1. Len(lines[d]) \in 1 .. Len(lines[d])
      BY <1>2, <2>3 DEF DTypes, Lines
    <3>2. lines[d][Len(lines[d])].boot <= boot[d] /\ lines[d][Len(lines[d])].boot \in Nat
      BY <1>2, <3>1, LineTyped DEF DInv, LinesSound, Due
    <3> QED BY <1>2, <1>4, <3>2
  <2> QED BY <1>0, <1>1, <2>1, <2>2, <2>3, StaysStored DEF RecoverySound
<1>10. LinkSound' /\ AckSound'
  BY <1>3, NoEventNotSent DEF LinkSound, AckSound
<1>11. AckedSound'
  BY <1>1, AckedStays
<1> QED BY <1>5, <1>6, <1>8, <1>9, <1>10, <1>11 DEF DInv

-----------------------------------------------------------------------------
(* Steps of the logger *)

\* Connecting and disconnecting, a lost acknowledgement and an event of the
\* logger itself.
LEMMA LinkSteps ==
    ASSUME OneDash, DInv,
           (\E d \in Dashes : Connect(d)) \/ Disconnect \/ AckLost \/ Add \/ UNCHANGED vars
    PROVE  DInv'
<1> USE DEF dashVars, linkVars, logVars, card, bounds, vars
<1>1. UNCHANGED <<boot, eventSeq, queue, dashDevice, dashBoot, dashSeq, dashPendingBoot,
                  dashPendingSeq, lines, fragment, acked>>
  BY DEF Connect, Disconnect, AckLost, Add
<1>2. DTypes /\ Empty \in [next : Int, sequence : Int, event : Sent \cup {NoEvent}]
      /\ Empty.event = NoEvent
  BY DEF DInv, Empty
<1>3. /\ QueueSound' /\ RecoverySound' /\ AckedSound'
      /\ \A x \in Dashes : \A b, s \in Nat : Due(x, b, s) => Due(x, b, s)'
  BY <1>1, DashStays, RecoveryStays, AckedStays
<1>4. CASE Add
  <2>1. /\ UNCHANGED <<connected, rx, received, ack>>
        /\ pending' = Push(pending, NoEvent)
    BY <1>4 DEF Add
  <2>2. pending \in Seq(Sent \cup {NoEvent})
    BY <1>2 DEF DTypes
  <2>3. /\ pending' \in Seq(Sent \cup {NoEvent}) /\ Len(pending) \in Nat
        /\ \A k \in 1 .. Len(pending') : pending'[k] # NoEvent =>
              k \in 1 .. Len(pending) /\ pending'[k] = pending[k]
    BY <2>1, <2>2 DEF Push
  <2>4. DTypes'
    BY <1>1, <1>2, <2>1, <2>3 DEF DTypes
  <2>5. LinesSound'
    BY <1>1, <1>3, LinesStay
  <2>6. PendingSound'
    <3>1. ASSUME NEW k \in 1 .. Len(pending'), pending'[k] # NoEvent
          PROVE  /\ dashPendingSeq # 0
                 /\ pending'[k].boot = dashPendingBoot /\ pending'[k].seq = dashPendingSeq
                 /\ \A l \in 1 .. Len(pending') : pending'[l] # NoEvent => k = l
      BY <2>3, <3>1 DEF DInv, PendingSound
    <3>2. dashPendingSeq # 0 =>
            /\ dashDevice # None
            /\ dashBoot <= dashPendingBoot
            /\ dashBoot = dashPendingBoot => dashSeq < dashPendingSeq
            /\ \A d \in Dashes :
                  /\ Due(d, dashPendingBoot, dashPendingSeq)
                  /\ \A i \in 1 .. Len(lines[d]) :
                        Before(lines[d][i], dashPendingBoot, dashPendingSeq)
      BY DEF DInv, PendingSound
    <3> QED BY <1>1, <3>1, <3>2, Zenon DEF PendingSound, Due, Before
  <2>7. LinkSound' /\ AckSound'
    <3>1. LinkSound'
      BY <1>1, <2>1, Zenon DEF DInv, LinkSound, Front, Known
    <3> QED BY <1>1, <2>1, <3>1, AckStays
  <2> QED BY <1>3, <2>4, <2>5, <2>6, <2>7 DEF DInv
<1>5. CASE (\E d \in Dashes : Connect(d)) \/ Disconnect \/ AckLost \/ UNCHANGED vars
  <2>1. UNCHANGED pending
    BY <1>5 DEF Connect, Disconnect, AckLost
  <2>2. LinesSound' /\ PendingSound'
    BY <1>1, <1>3, <2>1, StaysDue
  <2>3. CASE \E d \in Dashes : Connect(d)
    <3>1. /\ connected = None /\ connected' \in Dashes /\ received' = NoEvent /\ rx' = Empty
          /\ UNCHANGED ack
      BY <2>3 DEF Connect
    <3>2. ack \notin Sent
      BY <3>1 DEF DInv, AckSound
    <3>3. DTypes'
      BY <1>1, <1>2, <2>1, <3>1 DEF DTypes
    <3>4. AckSound' /\ LinkSound'
      BY <1>2, <3>1, <3>2, NoEventNotSent DEF AckSound, LinkSound
    <3> QED BY <1>3, <2>2, <3>3, <3>4 DEF DInv
  <2>4. CASE Disconnect
    <3>1. connected' = None /\ ack' = NoEvent /\ UNCHANGED <<rx, received>>
      BY <2>4 DEF Disconnect
    <3>2. DTypes'
      BY <1>1, <1>2, <2>1, <3>1 DEF DTypes
    <3>3. AckSound' /\ LinkSound'
      BY <3>1, NoEventNotSent DEF AckSound, LinkSound
    <3> QED BY <1>3, <2>2, <3>2, <3>3 DEF DInv
  <2>5. CASE AckLost \/ UNCHANGED vars
    <3>1. ack' \in {ack, NoEvent} /\ UNCHANGED <<connected, rx, received>>
      BY <2>5 DEF AckLost
    <3>2. DTypes'
      BY <1>1, <1>2, <2>1, <3>1 DEF DTypes
    <3>3. LinkSound'
      BY <1>1, <3>1, Zenon DEF DInv, LinkSound, Front, Known
    <3>4. ASSUME NEW e \in Sent, ack' = e
          PROVE  connected # None /\ e.boot = boot[e.dash] /\ Known(e) /\ Stored(e)
      BY <3>1, <3>4, NoEventNotSent DEF DInv, AckSound
    <3>5. AckSound'
      BY <1>1, <3>1, <3>4, Zenon DEF AckSound, Known, Stored
    <3> QED BY <1>3, <2>2, <3>2, <3>3, <3>5 DEF DInv
  <2> QED BY <1>5, <2>3, <2>4, <2>5
<1> QED BY <1>4, <1>5

\* A reset of the logger leaves the card.
LEMMA ResetStep ==
    ASSUME DInv, Reset
    PROVE  DInv'
<1> USE DEF dashVars, card
<1>1. /\ UNCHANGED <<boot, eventSeq, queue, lines, fragment, acked>>
      /\ connected' = None /\ rx' = Empty /\ received' = NoEvent /\ ack' = NoEvent
      /\ pending' = <<>> /\ dashDevice' = None
      /\ dashBoot' = 0 /\ dashSeq' = 0 /\ dashPendingBoot' = 0 /\ dashPendingSeq' = 0
  BY DEF Reset
<1>2. DTypes /\ Empty \in [next : Int, sequence : Int, event : Sent \cup {NoEvent}]
  BY DEF DInv, Empty
<1>3. DTypes'
  BY <1>1, <1>2 DEF DTypes
<1>4. QueueSound' /\ LinesSound' /\ AckedSound'
  BY <1>1, DashStays, AckedStays, LinesStay
<1>5. PendingSound'
  BY <1>1 DEF PendingSound
<1>6. RecoverySound'
  BY <1>1, EventsAssumption DEF RecoverySound
<1>7. LinkSound' /\ AckSound'
  BY <1>1, NoEventNotSent DEF LinkSound, AckSound
<1> QED BY <1>3, <1>4, <1>5, <1>6, <1>7 DEF DInv

\* What acceptDash remembers after it looked at the last lines of the files:
\* the number of a line on the card, which covers a last line that can be read.
LEMMA Recovered ==
    ASSUME OneDash, DInv, NEW d \in Dashes, NEW found, NEW b, NEW s,
           found = IF dashDevice = d THEN {} ELSE TailSeqs(d, boot[d]),
           b = IF found = {} THEN dashBoot ELSE boot[d],
           s = Max({dashSeq} \cup found)
    PROVE  /\ b \in Nat /\ s \in Nat
           /\ dashDevice = d => b = dashBoot /\ s = dashSeq
           /\ b <= boot[d]
           /\ s # 0 => Stored([dash |-> d, boot |-> b, seq |-> s])
           /\ LET n == Len(lines[d])
              IN n > 0 /\ lines[d][n].readable /\ lines[d][n].boot = boot[d] =>
                    b = boot[d] /\ lines[d][n].seq <= s
<1>0. DTypes /\ boot[d] \in Nat /\ eventSeq[d] \in Nat /\ dashSeq \in Nat /\ dashBoot \in Nat
  BY DEF DInv, DTypes
<1>1. CASE dashDevice = d
  <2>1. found = {} /\ {dashSeq} \cup found = {dashSeq} /\ b = dashBoot
    BY <1>1
  <2>2. s = dashSeq
    <3>1. {dashSeq} \in SUBSET (0 .. dashSeq)
      BY <1>0
    <3>2. Max({dashSeq}) \in {dashSeq}
      BY <1>0, <3>1, Greatest
    <3> QED BY <2>1, <3>2
  <2> QED BY <1>0, <1>1, <2>1, <2>2 DEF DInv, RecoverySound
<1>2. CASE dashDevice # d
  <2>1. dashDevice = None /\ dashBoot = 0 /\ dashSeq = 0
    BY <1>0, <1>2 DEF DTypes, OneDash, DInv, RecoverySound
  <2>2. found = TailSeqs(d, boot[d])
    BY <1>2
  <2>3. ASSUME NEW x \in found
        PROVE  \E i \in 1 .. Len(lines[d]) :
                  lines[d][i].seq = x /\ lines[d][i].boot = boot[d]
    <3>1. lines[d] \in Lines
      BY <1>0 DEF DTypes
    <3>2. DOMAIN lines[d] = 1 .. Len(lines[d])
      BY <3>1 DEF Lines
    <3> QED BY <2>2, <2>3, <3>2 DEF TailSeqs
  <2>4. ASSUME NEW x \in found PROVE x \in 0 .. eventSeq[d]
    <3>1. PICK i \in 1 .. Len(lines[d]) : lines[d][i].seq = x /\ lines[d][i].boot = boot[d]
      BY <2>3
    <3>2. x \in Nat /\ x <= eventSeq[d]
      BY <1>0, <3>1, LineTyped DEF DInv, LinesSound, Due
    <3> QED BY <1>0, <3>2
  <2>5. {dashSeq} \cup found \in SUBSET (0 .. eventSeq[d])
    BY <1>0, <2>1, <2>4
  <2>6. /\ s \in {dashSeq} \cup found
        /\ \A y \in {dashSeq} \cup found : y <= s
    <3>1. {dashSeq} \cup found # {}
      OBVIOUS
    <3> QED BY <1>0, <2>5, <3>1, Greatest
  <2>7. b \in Nat /\ s \in Nat /\ b <= boot[d]
    BY <1>0, <2>1, <2>5, <2>6
  <2>8. ASSUME s # 0 PROVE Stored([dash |-> d, boot |-> b, seq |-> s])
    <3>1. s \in found /\ b = boot[d]
      BY <2>1, <2>6, <2>8
    <3>2. PICK i \in 1 .. Len(lines[d]) : lines[d][i].seq = s /\ lines[d][i].boot = boot[d]
      BY <2>3, <3>1
    <3>3. DOMAIN lines[d] = 1 .. Len(lines[d])
      BY <1>0 DEF DTypes, Lines
    <3> QED BY <3>1, <3>2, <3>3 DEF Stored
  <2>9. ASSUME Len(lines[d]) > 0, lines[d][Len(lines[d])].readable,
               lines[d][Len(lines[d])].boot = boot[d]
        PROVE  b = boot[d] /\ lines[d][Len(lines[d])].seq <= s
    <3>1. DOMAIN lines[d] = 1 .. Len(lines[d]) /\ Len(lines[d]) \in DOMAIN lines[d]
      BY <1>0, <2>9 DEF DTypes, Lines
    <3>2. lines[d][Len(lines[d])].seq \in found
      BY <2>2, <2>9, <3>1 DEF TailSeqs
    <3> QED BY <2>6, <3>2
  <2> QED BY <1>2, <2>7, <2>8, <2>9
<1> QED BY <1>1, <1>2

\* acceptDash with a card: event e of dash d is acknowledged, kept or not
\* taken, and b and s are remembered.
LEMMA AcceptStep ==
    ASSUME OneDash, DInv, NEW d \in Dashes, NEW e \in Sent, NEW b \in Nat, NEW s \in Nat,
           connected = d, received = e, received' = NoEvent,
           UNCHANGED <<boot, eventSeq, queue, connected, rx, lines, fragment, acked>>,
           dashDevice = d => b = dashBoot /\ s = dashSeq,
           b <= boot[d],
           s # 0 => Stored([dash |-> d, boot |-> b, seq |-> s]),
           LET n == Len(lines[d])
           IN n > 0 /\ lines[d][n].readable /\ lines[d][n].boot = boot[d] =>
                 b = boot[d] /\ lines[d][n].seq <= s,
           dashDevice' = d, dashBoot' = b, dashSeq' = s,
           \/ /\ e.boot = b /\ e.seq <= s /\ ack' = e
              /\ UNCHANGED <<pending, dashPendingBoot, dashPendingSeq>>
           \/ ~(e.boot = b /\ e.seq <= s) /\ Keep(e)
           \/ UNCHANGED <<ack, pending, dashPendingBoot, dashPendingSeq>>
    PROVE  DInv'
<1>2. DTypes /\ (\A x \in Dashes : x = d) /\ d # None
  BY EventsAssumption DEF DInv, OneDash
<1>3. e.dash = d /\ e.boot \in Nat /\ e.seq \in Nat /\ e.seq # 0 /\ boot[d] \in Nat
  BY <1>2 DEF Sent, Numbers, DTypes
<1>4. e.boot = boot[d] /\ (Front(e) \/ (e \in acked /\ Known(e)))
  BY <1>2, <1>3 DEF DInv, LinkSound
<1>5. DOMAIN lines[d] = 1 .. Len(lines[d]) /\ queue[d] \in Seq(Numbers) /\ Len(lines[d]) \in Nat
  BY <1>2 DEF DTypes, Lines
<1>6. ASSUME Front(e)
      PROVE  /\ 1 \in 1 .. Len(queue[d]) /\ e.seq = queue[d][1]
             /\ \A i \in 1 .. Len(lines[d]) : lines[d][i].boot = boot[d] => lines[d][i].seq <= e.seq
  <2>1. queue[d] # <<>> /\ e.seq = queue[d][1]
    BY <1>3, <1>6 DEF Front
  <2>2. 1 \in 1 .. Len(queue[d])
    BY <1>5, <2>1
  <2> QED BY <2>1, <2>2 DEF DInv, LinesSound, Due
<1>7. /\ QueueSound' /\ AckedSound'
      /\ \A x \in Dashes : \A c, t \in Nat : Due(x, c, t) => Due(x, c, t)'
  BY DashStays, AckedStays
<1>8. LinesSound'
  BY <1>7, LinesStay
<1>9. RecoverySound'
  <2> DEFINE r == [dash |-> d, boot |-> b, seq |-> s]
  <2>1. Stored(r) => Stored(r)'
    BY StaysStored
  <2> QED BY <1>2, <2>1 DEF RecoverySound
<1>10. ASSUME NEW x \in Sent, Known(x) PROVE Known(x)'
  BY <1>2, <1>10 DEF Known, Sent
<1>11. LinkSound'
  <2>1. ASSUME NEW x \in Sent, x \in {received', rx'.event}
        PROVE  x.boot = boot[x.dash] /\ (Front(x) \/ (x \in acked /\ Known(x)'))
    BY <1>2, <1>10, <2>1, NoEventNotSent DEF DInv, LinkSound
  <2> QED BY <2>1, Zenon DEF LinkSound, Front
<1>12. ASSUME ack' = ack PROVE AckSound'
  BY <1>10, <1>12, StaysStored DEF DInv, AckSound
<1>13. ASSUME UNCHANGED <<pending, dashPendingBoot, dashPendingSeq>> PROVE PendingSound'
  <2>1. ASSUME dashPendingSeq # 0
        PROVE  /\ b <= dashPendingBoot /\ (b = dashPendingBoot => s < dashPendingSeq)
               /\ \A x \in Dashes :
                     /\ Due(x, dashPendingBoot, dashPendingSeq)
                     /\ \A i \in 1 .. Len(lines[x]) :
                           Before(lines[x][i], dashPendingBoot, dashPendingSeq)
    BY <1>2, <2>1 DEF DInv, PendingSound, DTypes
  <2>2. \A k \in 1 .. Len(pending) : pending[k] # NoEvent =>
          /\ dashPendingSeq # 0
          /\ pending[k].boot = dashPendingBoot /\ pending[k].seq = dashPendingSeq
          /\ \A l \in 1 .. Len(pending) : pending[l] # NoEvent => k = l
    BY DEF DInv, PendingSound
  <2> QED BY <1>2, <1>13, <2>1, <2>2, Zenon DEF PendingSound, Due, Before
<1>14. CASE /\ e.boot = b /\ e.seq <= s /\ ack' = e
            /\ UNCHANGED <<pending, dashPendingBoot, dashPendingSeq>>
  <2>1. DTypes'
    BY <1>2, <1>14 DEF DTypes
  <2>2. Stored(e)
    <3>1. CASE e \in acked
      BY <3>1 DEF DInv, AckedSound
    <3>2. CASE Front(e)
      <4>1. s # 0 /\ b = boot[d]
        BY <1>3, <1>4, <1>14
      <4>2. PICK i \in 1 .. Len(lines[d]) : lines[d][i].boot = b /\ lines[d][i].seq = s
        BY <1>5, <4>1 DEF Stored
      <4>3. e.seq = s
        BY <1>3, <1>6, <1>14, <3>2, <4>1, <4>2
      <4> QED BY <1>3, <1>4, <1>5, <4>1, <4>2, <4>3 DEF Stored
    <3> QED BY <1>4, <3>1, <3>2
  <2>3. Known(e)' /\ Stored(e)'
    BY <1>3, <1>14, <2>2, StaysStored DEF Known
  <2>4. AckSound'
    BY <1>2, <1>3, <1>4, <1>14, <2>3 DEF AckSound
  <2> QED BY <1>7, <1>8, <1>9, <1>11, <1>13, <1>14, <2>1, <2>4 DEF DInv
<1>15. CASE ~(e.boot = b /\ e.seq <= s) /\ Keep(e)
  <2>1. /\ dashPendingSeq = 0 /\ UNCHANGED ack /\ pending' = Append(pending, e)
        /\ dashPendingBoot' = e.boot /\ dashPendingSeq' = e.seq
    BY <1>15 DEF Keep
  <2>2. pending \in Seq(Sent \cup {NoEvent})
    BY <1>2 DEF DTypes
  <2>3. /\ pending' \in Seq(Sent \cup {NoEvent}) /\ Len(pending) \in Nat
        /\ Len(pending') = Len(pending) + 1 /\ pending'[Len(pending) + 1] = e
        /\ \A k \in 1 .. Len(pending) : pending'[k] = pending[k]
    BY <2>1, <2>2
  <2>4. DTypes'
    BY <1>2, <1>3, <2>1, <2>3 DEF DTypes
  <2>5. Front(e)
    BY <1>3, <1>4, <1>15 DEF Known
  <2>6. \A k \in 1 .. Len(pending) : pending[k] = NoEvent
    BY <2>1 DEF DInv, PendingSound
  <2>7. \A k \in 1 .. Len(pending') : pending'[k] # NoEvent => k = Len(pending) + 1
    BY <2>3, <2>6
  <2>8. Due(d, e.boot, e.seq)
    <3>1. \A k \in 1 .. Len(queue[d]) : queue[d][1] <= queue[d][k]
      BY <1>5, <1>6, <2>5 DEF DInv, QueueSound, Numbers
    <3>2. e.seq <= eventSeq[d]
      BY <1>6, <2>5 DEF DInv, QueueSound
    <3> QED BY <1>3, <1>4, <1>6, <2>5, <3>1, <3>2 DEF Due
  <2>9. ASSUME NEW i \in 1 .. Len(lines[d]) PROVE Before(lines[d][i], e.boot, e.seq)
    <3>1. lines[d][i].boot \in Nat /\ lines[d][i].seq \in Nat /\ lines[d][i].readable \in BOOLEAN
      BY <1>2, LineTyped
    <3>2. lines[d][i].boot <= e.boot
      BY <1>4 DEF DInv, LinesSound, Due
    <3>3. ASSUME lines[d][i].boot = e.boot, lines[d][i].seq = e.seq, lines[d][i].readable PROVE FALSE
      <4>1. ASSUME NEW j \in 1 .. Len(lines[d]), i < j PROVE FALSE
        <5>1. lines[d][j].boot \in Nat /\ lines[d][j].seq \in Nat
          BY <1>2, LineTyped
        <5>2. Before(lines[d][i], lines[d][j].boot, lines[d][j].seq) /\ lines[d][j].boot <= boot[d]
          BY <4>1 DEF DInv, LinesSound, Due
        <5>3. lines[d][j].boot = boot[d] /\ lines[d][i].seq < lines[d][j].seq
          BY <1>3, <1>4, <3>1, <3>3, <5>1, <5>2 DEF Before
        <5>4. lines[d][j].seq <= e.seq
          BY <1>6, <2>5, <5>3
        <5> QED BY <1>3, <3>3, <5>1, <5>3, <5>4
      <4>2. i = Len(lines[d])
        <5>1. i # Len(lines[d]) => i < Len(lines[d]) /\ Len(lines[d]) \in 1 .. Len(lines[d])
          BY <1>5
        <5> QED BY <4>1, <5>1
      <4>3. b = boot[d] /\ e.seq <= s
        BY <1>4, <1>5, <3>3, <4>2
      <4> QED BY <1>4, <1>15, <4>3
    <3>4. lines[d][i].boot = e.boot => lines[d][i].seq <= e.seq
      BY <1>4, <1>6, <2>5
    <3> QED BY <1>3, <3>1, <3>2, <3>3, <3>4 DEF Before
  <2>10. PendingSound'
    <3>1. \A k \in 1 .. Len(pending') : pending'[k] # NoEvent =>
            /\ dashPendingSeq' # 0
            /\ pending'[k].boot = dashPendingBoot' /\ pending'[k].seq = dashPendingSeq'
            /\ \A l \in 1 .. Len(pending') : pending'[l] # NoEvent => k = l
      BY <1>3, <2>1, <2>3, <2>7
    <3>2. Due(d, e.boot, e.seq)'
      BY <1>3, <1>7, <2>8
    <3>3. Due(d, dashPendingBoot, dashPendingSeq)'
      BY <2>1, <3>2 DEF Due
    <3>4. /\ dashDevice' # None /\ dashBoot' <= dashPendingBoot'
          /\ dashBoot' = dashPendingBoot' => dashSeq' < dashPendingSeq'
      BY <1>2, <1>3, <1>4, <1>15, <2>1
    <3>5. \A i \in 1 .. Len(lines[d]) : Before(lines[d][i], dashPendingBoot, dashPendingSeq)'
      BY <2>1, <2>9 DEF Before
    <3> QED BY <1>2, <3>1, <3>3, <3>4, <3>5 DEF PendingSound
  <2> QED BY <1>7, <1>8, <1>9, <1>11, <1>12, <2>1, <2>4, <2>10 DEF DInv
<1>16. CASE UNCHANGED <<ack, pending, dashPendingBoot, dashPendingSeq>>
  <2>1. DTypes'
    BY <1>2, <1>16 DEF DTypes
  <2> QED BY <1>7, <1>8, <1>9, <1>11, <1>12, <1>13, <1>16, <2>1 DEF DInv
<1> QED BY <1>14, <1>15, <1>16

\* publish: without a card nothing happens.
LEMMA PublishStep ==
    ASSUME OneDash, DInv, Publish
    PROVE  DInv'
<1> USE DEF dashVars, card, bounds
<1>1. /\ UNCHANGED <<boot, eventSeq, queue, connected, rx, lines, fragment, acked>>
      /\ connected # None /\ received # NoEvent /\ received' = NoEvent
      /\ AcceptDash(received)
  BY DEF Publish
<1>2. DTypes /\ connected \in Dashes /\ received \in Sent
  BY <1>1 DEF DInv, DTypes
<1>3. PICK d \in Dashes, e \in Sent : d = connected /\ e = received
  BY <1>2
<1>4. e.dash = d /\ e.boot = boot[d]
  BY <1>1, <1>3 DEF DInv, LinkSound, OneDash, Sent
<1>5. CASE UNCHANGED <<ack, logVars>>
  <2>1. UNCHANGED <<ack, pending, dashDevice, dashBoot, dashSeq, dashPendingBoot, dashPendingSeq>>
    BY <1>5 DEF logVars
  <2>2. /\ QueueSound' /\ AckedSound'
        /\ \A x \in Dashes : \A c, t \in Nat : Due(x, c, t) => Due(x, c, t)'
    BY <1>1, DashStays, AckedStays
  <2>3. DTypes'
    BY <1>1, <1>2, <2>1 DEF DTypes
  <2>4. LinesSound' /\ PendingSound'
    BY <1>1, <2>1, <2>2, StaysDue
  <2>5. RecoverySound' /\ AckSound'
    BY <1>1, <2>1, RecoveryStays, AckStays
  <2>6. LinkSound'
    <3>1. ASSUME NEW x \in Sent, x \in {received', rx'.event}
          PROVE  x.boot = boot[x.dash] /\ (Front(x) \/ (x \in acked /\ Known(x)))
      BY <1>1, <3>1, NoEventNotSent DEF DInv, LinkSound
    <3> QED BY <1>1, <2>1, <3>1, Zenon DEF LinkSound, Front, Known
  <2> QED BY <2>2, <2>3, <2>4, <2>5, <2>6 DEF DInv
<1>6. CASE ~UNCHANGED <<ack, logVars>>
  <2> DEFINE found == IF dashDevice = d THEN {} ELSE TailSeqs(d, e.boot)
  <2>1. PICK b, s : /\ b = IF found = {} THEN dashBoot ELSE e.boot
                    /\ s = Max({dashSeq} \cup found)
    OBVIOUS
  <2>2. /\ dashDevice' = d /\ dashBoot' = b /\ dashSeq' = s
        /\ \/ /\ e.boot = b /\ e.seq <= s /\ ack' = e
              /\ UNCHANGED <<pending, dashPendingBoot, dashPendingSeq>>
           \/ ~(e.boot = b /\ e.seq <= s) /\ Keep(e)
           \/ UNCHANGED <<ack, pending, dashPendingBoot, dashPendingSeq>>
    BY <1>1, <1>3, <1>6, <2>1 DEF AcceptDash
  <2>3. /\ found = IF dashDevice = d THEN {} ELSE TailSeqs(d, boot[d])
        /\ b = IF found = {} THEN dashBoot ELSE boot[d]
    BY <1>4, <2>1
  <2> HIDE DEF found
  <2>4. PICK f : f = found
    OBVIOUS
  <2>5. /\ b \in Nat /\ s \in Nat
        /\ dashDevice = d => b = dashBoot /\ s = dashSeq
        /\ b <= boot[d]
        /\ s # 0 => Stored([dash |-> d, boot |-> b, seq |-> s])
        /\ LET n == Len(lines[d])
           IN n > 0 /\ lines[d][n].readable /\ lines[d][n].boot = boot[d] =>
                 b = boot[d] /\ lines[d][n].seq <= s
    BY <2>1, <2>3, <2>4, Recovered
  <2> QED BY <1>1, <1>3, <2>2, <2>5, AcceptStep
<1> QED BY <1>5, <1>6

\* SystemLog::loop: the pending event of dash d is written and flushed.
LEMMA WrittenStep ==
    ASSUME OneDash, DInv, NEW d \in Dashes, NEW e \in Sent, NEW first \in BOOLEAN,
           pending # <<>>, Head(pending) = e, e.dash = d, pending' = Tail(pending),
           Written(d, e, first),
           UNCHANGED <<dashVars, linkVars, dashDevice, dashPendingBoot, acked>>
    PROVE  DInv'
<1> USE DEF dashVars, linkVars
<1> DEFINE l == [boot |-> e.boot, seq |-> e.seq, first |-> first,
                 readable |-> first \/ ~fragment[d]]
<1>1. /\ lines' = [lines EXCEPT ![d] = Append(lines[d], l)]
      /\ fragment' = [fragment EXCEPT ![d] = FALSE]
      /\ dashBoot' = dashPendingBoot /\ dashSeq' = dashPendingSeq /\ dashPendingSeq' = 0
  BY DEF Written
<1>2. DTypes /\ (\A x \in Dashes : x = d) /\ d # None
  BY EventsAssumption DEF DInv, OneDash
<1>3. /\ e.boot \in Nat /\ e.seq \in Numbers /\ e.seq \in Nat /\ e.seq # 0
      /\ pending \in Seq(Sent \cup {NoEvent})
      /\ dashPendingBoot \in Nat /\ dashPendingSeq \in Nat /\ dashBoot \in Nat /\ dashSeq \in Nat
      /\ boot[d] \in Nat
  BY <1>2 DEF Sent, Numbers, DTypes
<1>4. /\ Len(pending) \in Nat \ {0} /\ 1 \in 1 .. Len(pending) /\ pending[1] = e /\ e # NoEvent
      /\ pending' \in Seq(Sent \cup {NoEvent}) /\ Len(pending') = Len(pending) - 1
      /\ \A k \in 1 .. Len(pending') : k + 1 \in 1 .. Len(pending) /\ pending'[k] = pending[k + 1]
  BY <1>3, NoEventNotSent
<1>5. /\ dashPendingSeq # 0 /\ e.boot = dashPendingBoot /\ e.seq = dashPendingSeq
      /\ \A k \in 1 .. Len(pending) : pending[k] # NoEvent => k = 1
  BY <1>4 DEF DInv, PendingSound
<1>6. /\ dashDevice # None /\ dashBoot <= dashPendingBoot
      /\ dashBoot = dashPendingBoot => dashSeq < dashPendingSeq
      /\ Due(d, dashPendingBoot, dashPendingSeq)
      /\ \A i \in 1 .. Len(lines[d]) : Before(lines[d][i], dashPendingBoot, dashPendingSeq)
  BY <1>5 DEF DInv, PendingSound
<1>7. dashDevice = d
  BY <1>2, <1>6 DEF DTypes
<1> DEFINE T == [boot : Nat, seq : Numbers, readable : BOOLEAN, first : BOOLEAN]
<1>8. lines \in [Dashes -> Seq(T)] /\ Lines = Seq(T) /\ l \in T /\ l.boot = e.boot /\ l.seq = e.seq
  BY <1>2, <1>3 DEF DTypes, Lines
<1> HIDE DEF T, l
<1>9. /\ lines'[d] = Append(lines[d], l) /\ lines' \in [Dashes -> Seq(T)]
      /\ Len(lines[d]) \in Nat /\ Len(lines'[d]) = Len(lines[d]) + 1
      /\ lines'[d][Len(lines[d]) + 1] = l
      /\ \A i \in 1 .. Len(lines[d]) : lines'[d][i] = lines[d][i]
      /\ DOMAIN lines[d] = 1 .. Len(lines[d]) /\ DOMAIN lines'[d] = 1 .. Len(lines'[d])
  <2>1. lines'[d] = Append(lines[d], l) /\ lines[d] \in Seq(T)
    BY <1>1, <1>8
  <2>2. lines' \in [Dashes -> Seq(T)]
    BY <1>1, <1>8, <2>1
  <2> QED BY <1>8, <2>1, <2>2
<1>10. DTypes'
  <2>1. fragment' \in [Dashes -> BOOLEAN]
    BY <1>1, <1>2 DEF DTypes
  <2> QED BY <1>1, <1>2, <1>3, <1>4, <1>8, <1>9, <2>1 DEF DTypes
<1>11. QueueSound'
  BY DashStays
<1>12. ASSUME NEW c \in Nat, NEW t \in Nat, Due(d, c, t) PROVE Due(d, c, t)'
  BY <1>12 DEF Due
<1>13. LinesSound'
  <2>1. ASSUME NEW i \in 1 .. Len(lines'[d])
        PROVE  /\ Due(d, lines'[d][i].boot, lines'[d][i].seq)
               /\ \A j \in 1 .. Len(lines'[d]) :
                     i < j => Before(lines'[d][i], lines'[d][j].boot, lines'[d][j].seq)
    <3>1. CASE i = Len(lines[d]) + 1
      BY <1>5, <1>6, <1>8, <1>9, <3>1
    <3>2. CASE i \in 1 .. Len(lines[d])
      <4>1. Due(d, lines[d][i].boot, lines[d][i].seq)
        BY <3>2 DEF DInv, LinesSound
      <4>2. ASSUME NEW j \in 1 .. Len(lines'[d]), i < j
            PROVE  Before(lines[d][i], lines'[d][j].boot, lines'[d][j].seq)
        <5>1. CASE j = Len(lines[d]) + 1
          BY <1>5, <1>6, <1>8, <1>9, <3>2, <5>1
        <5>2. CASE j \in 1 .. Len(lines[d])
          BY <1>9, <3>2, <4>2, <5>2 DEF DInv, LinesSound
        <5> QED BY <1>9, <5>1, <5>2
      <4> QED BY <1>9, <3>2, <4>1, <4>2
    <3>3. i = Len(lines[d]) + 1 \/ i \in 1 .. Len(lines[d])
      BY <1>9
    <3> QED BY <3>1, <3>2, <3>3
  <2> QED BY <1>2, <2>1 DEF LinesSound, Due, Before
<1>14. PendingSound'
  <2>1. \A k \in 1 .. Len(pending') : pending'[k] = NoEvent
    BY <1>4, <1>5
  <2> QED BY <1>1, <2>1 DEF PendingSound
<1>15. ASSUME NEW x \in Sent, Stored(x) PROVE Stored(x)'
  <2>1. x.dash = d
    BY <1>2 DEF Sent
  <2>2. PICK i \in 1 .. Len(lines[d]) : lines[d][i].boot = x.boot /\ lines[d][i].seq = x.seq
    BY <1>9, <1>15, <2>1 DEF Stored
  <2>3. i \in DOMAIN lines'[d] /\ lines'[d][i] = lines[d][i]
    BY <1>9
  <2> QED BY <2>1, <2>2, <2>3 DEF Stored
<1>16. ASSUME NEW x \in Sent, Known(x), x.boot = boot[d] PROVE Known(x)'
  <2>1. x.dash = d /\ x.seq \in Nat /\ x.seq <= dashSeq /\ dashBoot = boot[d]
    BY <1>2, <1>16 DEF Sent, Numbers, Known
  <2>2. dashPendingBoot = boot[d]
    BY <1>3, <1>6, <2>1 DEF Due
  <2> QED BY <1>1, <1>3, <1>6, <1>7, <1>16, <2>1, <2>2 DEF Known
<1>17. RecoverySound'
  <2> DEFINE r == [dash |-> d, boot |-> dashPendingBoot, seq |-> dashPendingSeq]
  <2>1. Len(lines[d]) + 1 \in DOMAIN lines'[d]
    BY <1>9
  <2>2. dashBoot' <= boot'[d] /\ dashBoot' = l.boot /\ dashSeq' = l.seq
    BY <1>1, <1>5, <1>6, <1>8 DEF Due
  <2>3. Stored([dash |-> d, boot |-> dashBoot, seq |-> dashSeq])'
    BY <1>9, <2>1, <2>2 DEF Stored
  <2>4. l.seq <= l.seq
    BY <1>3, <1>8
  <2>5. lines'[d][Len(lines'[d])] = l
    BY <1>9
  <2> QED BY <1>2, <1>7, <2>2, <2>3, <2>4, <2>5 DEF RecoverySound
<1>18. LinkSound'
  <2>1. ASSUME NEW x \in Sent, x \in {received, rx.event}, connected # None
        PROVE  x.boot = boot[x.dash] /\ (Front(x) \/ (x \in acked /\ Known(x)'))
    <3>1. x.boot = boot[x.dash] /\ (Front(x) \/ (x \in acked /\ Known(x))) /\ x.dash = d
      BY <1>2, <2>1 DEF DInv, LinkSound, Sent
    <3> QED BY <1>16, <3>1
  <2> QED BY <2>1, Zenon DEF LinkSound, Front
<1>19. AckSound'
  <2>1. ASSUME NEW x \in Sent, ack = x
        PROVE  connected # None /\ x.boot = boot[x.dash] /\ Known(x)' /\ Stored(x)'
    <3>1. connected # None /\ x.boot = boot[x.dash] /\ Known(x) /\ Stored(x) /\ x.dash = d
      BY <1>2, <2>1 DEF DInv, AckSound, Sent
    <3> QED BY <1>15, <1>16, <3>1
  <2> QED BY <2>1, Zenon DEF AckSound
<1>20. AckedSound'
  BY <1>2, <1>15 DEF DInv, AckedSound, DTypes
<1> QED BY <1>10, <1>11, <1>13, <1>14, <1>17, <1>18, <1>19, <1>20 DEF DInv

\* SystemLog::loop: the card is looked for, a logger event is written, an event
\* of the dash is written, or half of it.
LEMMA DrainStep ==
    ASSUME OneDash, DInv, Drain
    PROVE  DInv'
<1>1. UNCHANGED <<dashVars, linkVars, dashDevice, dashPendingBoot, acked>>
  BY DEF Drain
<1>2. DTypes /\ pending \in Seq(Sent \cup {NoEvent})
  BY DEF DInv, DTypes
<1>3. CASE /\ pending # <<>> /\ Head(pending) # NoEvent /\ pending' = Tail(pending)
           /\ LET e == Head(pending)
              IN \E first \in {lines[e.dash] = <<>>, TRUE} : Written(e.dash, e, first)
  <2>1. PICK e \in Sent : e = Head(pending)
    BY <1>2, <1>3
  <2>2. PICK d \in Dashes : d = e.dash
    BY DEF Sent
  <2>3. PICK first \in BOOLEAN : Written(d, e, first)
    BY <1>3, <2>1, <2>2
  <2> QED BY <1>1, <1>3, <2>1, <2>2, <2>3, WrittenStep
<1>4. CASE /\ pending' = pending \/ (pending # <<>> /\ Head(pending) = NoEvent /\ pending' = Tail(pending))
           /\ UNCHANGED <<lines, dashBoot, dashSeq, dashPendingSeq>>
           /\ fragment' \in [Dashes -> BOOLEAN]
  <2>1. /\ UNCHANGED <<boot, eventSeq, queue, connected, rx, received, ack, dashDevice, dashBoot,
                       dashSeq, dashPendingBoot, dashPendingSeq, lines, acked>>
        /\ fragment' \in [Dashes -> BOOLEAN]
    BY <1>1, <1>4 DEF dashVars, linkVars
  <2>2. pending' \in Seq(Sent \cup {NoEvent})
    <3> DEFINE S == Sent \cup {NoEvent}
    <3>1. pending \in Seq(S)
      BY <1>2
    <3> HIDE DEF S
    <3>2. pending # <<>> => Tail(pending) \in Seq(S)
      BY <3>1
    <3>3. pending' \in Seq(S)
      BY <1>4, <3>1, <3>2
    <3> QED BY <3>3 DEF S
  <2>3. DTypes'
    BY <1>2, <2>1, <2>2 DEF DTypes
  <2>4. /\ QueueSound' /\ AckedSound'
        /\ \A x \in Dashes : \A c, t \in Nat : Due(x, c, t) => Due(x, c, t)'
    BY <2>1, DashStays, AckedStays
  <2>5. LinesSound'
    BY <2>1, <2>4, LinesStay
  <2>6. RecoverySound' /\ LinkSound' /\ AckSound'
    <3>1. LinkSound'
      BY <2>1, Zenon DEF DInv, LinkSound, Front, Known
    <3> QED BY <2>1, <3>1, RecoveryStays, AckStays
  <2>7. PendingSound'
    <3>1. CASE pending' = pending
      BY <2>1, <2>4, <3>1, StaysDue
    <3>2. CASE pending # <<>> /\ pending' = Tail(pending)
      <4>1. /\ Len(pending) \in Nat /\ Len(pending') = Len(pending) - 1
            /\ \A k \in 1 .. Len(pending') :
                  k + 1 \in 1 .. Len(pending) /\ pending'[k] = pending[k + 1]
        BY <1>2, <3>2
      <4>2. ASSUME NEW k \in 1 .. Len(pending'), pending'[k] # NoEvent
            PROVE  /\ dashPendingSeq # 0
                   /\ pending'[k].boot = dashPendingBoot /\ pending'[k].seq = dashPendingSeq
                   /\ \A n \in 1 .. Len(pending') : pending'[n] # NoEvent => k = n
        <5>1. k + 1 \in 1 .. Len(pending) /\ pending[k + 1] # NoEvent
          BY <4>1, <4>2
        <5>2. ASSUME NEW n \in 1 .. Len(pending'), pending'[n] # NoEvent PROVE k = n
          <6>1. n + 1 \in 1 .. Len(pending) /\ pending[n + 1] # NoEvent
            BY <4>1, <5>2
          <6>2. k + 1 = n + 1
            BY <5>1, <6>1 DEF DInv, PendingSound
          <6> QED BY <4>1, <6>2
        <5> QED BY <4>1, <5>1, <5>2 DEF DInv, PendingSound
      <4>3. dashPendingSeq # 0 =>
              /\ dashDevice # None
              /\ dashBoot <= dashPendingBoot
              /\ dashBoot = dashPendingBoot => dashSeq < dashPendingSeq
              /\ \A d \in Dashes :
                    /\ Due(d, dashPendingBoot, dashPendingSeq)
                    /\ \A i \in 1 .. Len(lines[d]) :
                          Before(lines[d][i], dashPendingBoot, dashPendingSeq)
        BY DEF DInv, PendingSound
      <4> QED BY <2>1, <4>2, <4>3, Zenon DEF PendingSound, Due, Before
    <3> QED BY <1>4, <3>1, <3>2
  <2> QED BY <2>3, <2>4, <2>5, <2>6, <2>7 DEF DInv
<1>5. fragment \in [Dashes -> BOOLEAN]
  BY <1>2 DEF DTypes
<1> QED BY <1>3, <1>4, <1>5 DEF Drain, card

\* Every step preserves the invariant.
LEMMA DStep == OneDash /\ DInv /\ [Next]_vars => DInv'
<1> SUFFICES ASSUME OneDash, DInv, [Next]_vars PROVE DInv'
  OBVIOUS
<1>1. CASE \E d \in Dashes : DashEvent(d) \/ SendPart(d) \/ OnAck(d) \/ DashReboot(d)
  BY <1>1, DashEventStep, SendPartStep, OnAckStep, DashRebootStep
<1>2. CASE (\E d \in Dashes : Connect(d)) \/ Disconnect \/ AckLost \/ Add \/ UNCHANGED vars
  BY <1>2, LinkSteps
<1>3. CASE Publish \/ Drain \/ Reset
  BY <1>3, PublishStep, DrainStep, ResetStep
<1> QED BY <1>1, <1>2, <1>3 DEF Next

\* With one dash, an event that left its queue has its line on the logger's
\* card, whatever was lost and whoever rebooted (SystemLog::acceptDash and
\* EventCallbacks::onWrite).
THEOREM AcknowledgedEventsAreStored == OneDash => (Spec => []AckedIsStored)
<1> SUFFICES ASSUME OneDash PROVE Spec => []AckedIsStored
  OBVIOUS
<1>1. DInv => AckedIsStored
  BY DEF DInv, AckedSound, AckedIsStored, Stored
<1>2. DInv /\ [Next]_vars => DInv'
  BY DStep
<1> QED BY <1>1, <1>2, DInit, PTL DEF Spec

\* With one dash, the lines that can be read are in the order of the events of
\* their boot, and none is repeated (the recovery of the last number in
\* SystemLog::acceptDash).
THEOREM LinesAreInOrder == OneDash => (Spec => []StoredOnceInOrder)
<1> SUFFICES ASSUME OneDash PROVE Spec => []StoredOnceInOrder
  OBVIOUS
<1>1. DInv => StoredOnceInOrder
  <2> SUFFICES ASSUME DInv, NEW d \in Dashes, NEW i \in DOMAIN lines[d], NEW j \in DOMAIN lines[d],
                      i < j, lines[d][i].boot = lines[d][j].boot, lines[d][i].readable
               PROVE  lines[d][i].seq < lines[d][j].seq
    BY DEF StoredOnceInOrder
  <2>1. DTypes /\ lines[d] \in Lines
    BY DEF DInv, DTypes
  <2>2. DOMAIN lines[d] = 1 .. Len(lines[d])
    BY <2>1 DEF Lines
  <2>3. Before(lines[d][i], lines[d][j].boot, lines[d][j].seq)
    BY <2>2 DEF DInv, LinesSound
  <2> QED BY <2>3 DEF Before
<1>2. DInv /\ [Next]_vars => DInv'
  BY DStep
<1> QED BY <1>1, <1>2, DInit, PTL DEF Spec
=============================================================================
