---------------------------- MODULE DurableFifo ----------------------------
(***************************************************************************)
(* What the store-and-forward queue promises its callers: a FIFO of the    *)
(* captured records that survives resets.  Records leave it at the old end *)
(* only, either because a caller popped the head or because capacity ran   *)
(* out, and a capacity loss is announced in the drop counter before it     *)
(* happens.                                                                *)
(***************************************************************************)
EXTENDS Integers, Sequences

CONSTANTS CounterMaximum, MaxRecords

VARIABLES
    queue,      \* the records that a reset would replay, oldest first
    dropped,    \* the drop counter that a reset would report
    lost        \* the number of records that left the queue without a pop

fifoVars == <<queue, dropped, lost>>

\* An empty queue, or what an earlier firmware left in it.
FifoInit ==
    /\ queue \in {<<>>, <<1>>}
    /\ dropped = 0
    /\ lost = 0

\* A record is newer than every record before it.
Accept(r) ==
    /\ \A i \in 1 .. Len(queue) : queue[i] < r
    /\ queue' = Append(queue, r)
    /\ UNCHANGED <<dropped, lost>>

\* The head leaves on request; a discarded record is counted at once.
Resolve ==
    /\ queue # <<>>
    /\ queue' = Tail(queue)
    /\ dropped' \in {dropped, dropped + 1}
    /\ dropped' <= CounterMaximum
    /\ UNCHANGED lost

\* A loss is announced.  An announced loss may still be averted by a reset.
Announce ==
    /\ dropped' \in dropped + 1 .. CounterMaximum
    /\ UNCHANGED <<queue, lost>>

\* The n oldest records are lost, all of them announced before (unless the
\* counter could not count any further).
Lose(n) ==
    /\ \/ lost + n <= dropped
       \/ dropped = CounterMaximum
    /\ queue' = SubSeq(queue, n + 1, Len(queue))
    /\ lost' = lost + n
    /\ UNCHANGED dropped

FifoNext ==
    \/ \E r \in 1 .. MaxRecords : Accept(r)
    \/ Resolve
    \/ Announce
    \/ \E n \in 1 .. Len(queue) : Lose(n)

FifoSpec == FifoInit /\ [][FifoNext]_fifoVars
=============================================================================
