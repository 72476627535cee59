------------------------ MODULE MCStoreForwardQueue ------------------------
(* The queue checked against what it promises: StoreForwardQueue implements *)
(* DurableFifo, read off the files as the next begin would read them.       *)
EXTENDS StoreForwardQueue

\* Where scanSegment will end in segment s: before the first unreadable cell.
ReplayEnd(s) ==
    CHOOSE end \in DurableHead(s) .. Len(file[s]) :
        /\ \A i \in DurableHead(s) + 1 .. end : file[s][i].ok
        /\ end < Len(file[s]) => ~file[s][end + 1].ok

\* The records of segment s that begin will count as pending, oldest first.
Replayable(s) ==
    [i \in 1 .. ReplayEnd(s) - DurableHead(s) |-> file[s][DurableHead(s) + i].id]

\* The segment that begin will treat as the active one.
DurableActive == IF HasMetadata THEN metadataFile.active ELSE 0

\* The drop counter that begin will load.
DurableDropped == IF HasMetadata THEN metadataFile.dropped ELSE 0

\* All that begin will replay: the other segment is the older one.
ReplayQueue == Replayable(Other(DurableActive)) \o Replayable(DurableActive)

Fifo == INSTANCE DurableFifo WITH
    queue <- ReplayQueue, dropped <- DurableDropped, lost <- Cardinality(Lost)

\* enqueue, rotation, pop, resets at any point of them and startup repair
\* together behave as one FIFO that survives resets, loses records at its old
\* end only and announces every loss in the drop counter first.
ImplementsDurableFifo == Fifo!FifoSpec
=============================================================================
