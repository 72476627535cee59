------------------------- MODULE StoreForwardQueue -------------------------
(***************************************************************************)
(* The onboard store-and-forward queue of the ESP32 logger                 *)
(* (logger/firmware/src/StoreForwardQueue.cpp).                            *)
(*                                                                         *)
(* The queue lives in two append-only segment files and one metadata file. *)
(* Only the Arduino loop calls it, so its operations never interleave with *)
(* one another; what interrupts them is a reset.  Every operation is       *)
(* therefore split at its writes to flash: one action per durable write,   *)
(* the volatile assignments that lead to a write in the same action, and a *)
(* Crash enabled between any two of them.                                  *)
(*                                                                         *)
(* A record is a number (the order in which it was offered) and occupies   *)
(* one unit of a segment, so that byte offsets become cell indices.  A     *)
(* cell whose header, length or checksum does not hold is one with ok =    *)
(* FALSE.                                                                  *)
(***************************************************************************)
EXTENDS Integers, Sequences, FiniteSets

CONSTANTS
    SegmentMaximum,   \* segmentMaximumBytes_, in records
    CounterMaximum,   \* the value at which droppedRecords saturates
    MaxRecords,       \* bound: records offered to the queue
    MaxCrashes,       \* bound: resets
    Faults            \* the filesystem calls that may fail

\* Every call of the code to LittleFS that may report a failure, by the place
\* it is made from, and the two ways in which flash may change by itself.
FaultPoints ==
    {"mount", "create", "repair", "beginSave",
     "open", "shortAppend",
     "dropSave", "truncate", "rotateSave",
     "popSave", "reclaimSave",
     "metadataLoss", "decay"}

ASSUME ConstantsAssumption ==
    /\ SegmentMaximum \in Nat \ {0}
    /\ CounterMaximum \in Nat
    /\ MaxRecords \in Nat \ {0}
    /\ MaxCrashes \in Nat
    /\ Faults \subseteq FaultPoints

VARIABLES
    \* flash
    file,           \* segment -> sequence of cells
    made,           \* the segments whose file exists
    quarantine,     \* segment -> ids copied to the .corrupt file
    metadataFile,   \* /sfq.meta
    \* RAM
    active,         \* metadata_.activeSegment
    head,           \* metadata_.head
    dropped,        \* metadata_.droppedRecords
    reserved,       \* metadata_.reserved: earlier drops are unknown
    corruptionEvents,
    quarantinedBytes,
    tail,           \* tail_
    count,          \* count_
    pc,             \* the write to flash that comes next
    cur,            \* the segment that the current operation works on
    \* observations of the environment and of the callers
    next,           \* the last record offered to enqueue
    accepted,       \* records written completely
    resolved,       \* records whose pop was committed
    crashes

flash == <<file, made, quarantine, metadataFile>>
metadata == <<active, head, dropped, reserved, corruptionEvents,
              quarantinedBytes>>
ram == <<metadata, tail, count, pc, cur>>
history == <<next, accepted, resolved, crashes>>
vars == <<flash, ram, history>>

-----------------------------------------------------------------------------
(* Data *)

Segments == {0, 1}
Other(s) == 1 - s
Lesser(a, b) == IF a <= b THEN a ELSE b

\* Mutant: the counter is not saturated.
UnboundedAdd(value, increment) == value + increment

\* StatusDiagnostics::saturatingAdd
SaturatingAdd(value, increment) ==
    IF increment > CounterMaximum - value THEN CounterMaximum
                                          ELSE value + increment

Torn == [id |-> 0, ok |-> FALSE]
Complete(r) == [id |-> r, ok |-> TRUE]
Cell == [id : 0..MaxRecords, ok : BOOLEAN]

\* struct Metadata, and whether its checksum holds in this or an older version
MetadataFile ==
    [format : {"none", "v1", "v2", "bad"}, active : Segments,
     head : [Segments -> Nat], dropped : 0 .. CounterMaximum,
     reserved : {0, 1}, corruptionEvents : Nat, quarantinedBytes : Nat]

Zero == [s \in Segments |-> 0]

\* ids of the cells of segment s after offset h
IdsAfter(s, h) == {file[s][i].id : i \in h + 1 .. Len(file[s])}

pendingRecords == count[0] + count[1]

\* Mutant: replay starts with the active segment.
activeFirst == IF count[active] > 0 THEN active ELSE Other(active)

\* StoreForwardQueue::oldestSegment
oldestSegment ==
    IF count[Other(active)] > 0 THEN Other(active) ELSE active

\* The cell at the replay head; peek and pop refuse a head that is past the
\* end of the file or that holds no valid record.
HeadReadable(s) ==
    /\ head[s] < Len(file[s])
    /\ file[s][head[s] + 1].ok
HeadRecord(s) == file[s][head[s] + 1].id

-----------------------------------------------------------------------------
(* Writes to flash that several operations make *)

\* saveMetadata: written to a temporary file, then renamed over /sfq.meta
SaveMetadata ==
    metadataFile' = [format |-> "v2", active |-> active', head |-> head',
                     dropped |-> dropped', reserved |-> reserved',
                     corruptionEvents |-> corruptionEvents',
                     quarantinedBytes |-> quarantinedBytes']

\* truncateSegment
TruncateSegment(s) ==
    /\ file' = [file EXCEPT ![s] = <<>>]
    /\ head' = [head EXCEPT ![s] = 0]
    /\ tail' = [tail EXCEPT ![s] = 0]
    /\ count' = [count EXCEPT ![s] = 0]

-----------------------------------------------------------------------------
(* begin *)

QuarantineFiles == {s \in Segments : quarantine[s] # <<>>}
AnyQueueFile ==
    metadataFile.format # "none" \/ made # {} \/ QuarantineFiles # {}

HasMetadata == metadataFile.format \in {"v1", "v2"}

\* loadMetadata: version 2 as it is, version 1 migrated (it had no reserved flag
\* and no corruption counters); otherwise begin's defaults, which remember that
\* earlier drops are unknown when any queue file exists.
LoadMetadata ==
    \/ /\ HasMetadata
       /\ active' = metadataFile.active
       /\ head' = metadataFile.head
       /\ dropped' = metadataFile.dropped
       /\ IF metadataFile.format = "v2"
          THEN /\ reserved' = metadataFile.reserved
               /\ corruptionEvents' = metadataFile.corruptionEvents
               /\ quarantinedBytes' = metadataFile.quarantinedBytes
          ELSE /\ reserved' = 0
               /\ corruptionEvents' = 0
               /\ quarantinedBytes' = 0
    \/ /\ ~HasMetadata
       /\ active' = 0
       /\ head' = Zero
       /\ dropped' = 0
       /\ reserved' = IF AnyQueueFile THEN 1 ELSE 0
       /\ corruptionEvents' = Cardinality(QuarantineFiles)
       /\ quarantinedBytes' = Len(quarantine[0]) + Len(quarantine[1])

\* begin up to loadMetadata: a partition that does not mount is left alone.
Begin ==
    /\ pc = "off"
    /\ \/ /\ "mount" \in Faults
          /\ pc' = "unavailable"
          /\ UNCHANGED <<metadata, cur>>
       \/ /\ LoadMetadata
          /\ pc' = "scan"
          /\ cur' = 0
    /\ UNCHANGED <<flash, tail, count, history>>

\* After segment cur, scan segment 1 or commit the metadata.
ScanNext ==
    IF cur = 0 THEN pc' = "scan" /\ cur' = 1
               ELSE pc' = "beginSave" /\ cur' = cur

\* scanSegment, segment file missing: create it.
CreateSegment ==
    /\ pc = "scan"
    /\ cur \notin made
    /\ \/ /\ "create" \in Faults
          /\ pc' = "unavailable"
          /\ UNCHANGED <<made, metadata, tail, count, cur>>
       \/ /\ made' = made \cup {cur}
          /\ head' = [head EXCEPT ![cur] = 0]
          /\ tail' = [tail EXCEPT ![cur] = 0]
          /\ count' = [count EXCEPT ![cur] = 0]
          /\ ScanNext
          /\ UNCHANGED <<active, dropped, reserved, corruptionEvents,
                         quarantinedBytes>>
    /\ UNCHANGED <<file, quarantine, metadataFile, history>>

\* scanSegment: the valid records from the committed head end at offset end.
ScanSegment ==
    /\ pc = "scan"
    /\ cur \in made
    /\ LET h == Lesser(head[cur], Len(file[cur]))
       IN \E end \in h .. Len(file[cur]) :
            /\ \A i \in h + 1 .. end : file[cur][i].ok
            /\ end < Len(file[cur]) => ~file[cur][end + 1].ok
            /\ head' = [head EXCEPT ![cur] = h]
            /\ tail' = [tail EXCEPT ![cur] = end]
            /\ count' = [count EXCEPT ![cur] = end - h]
            /\ CASE end < Len(file[cur]) -> pc' = "quarantine" /\ cur' = cur
                 [] end = Len(file[cur]) /\ end = h ->
                        pc' = "scanReclaim" /\ cur' = cur
                 [] OTHER -> ScanNext
    /\ UNCHANGED <<flash, active, dropped, reserved, corruptionEvents,
                   quarantinedBytes, history>>

\* Mutant: everything from the replay head is taken for the corrupt suffix.
QuarantineFromHead ==
    LET suffix == SubSeq(file[cur], head[cur] + 1, Len(file[cur]))
    IN /\ pc = "quarantine"
       /\ quarantine' = [quarantine EXCEPT ![cur] =
                            @ \o [i \in 1 .. Len(suffix) |-> suffix[i].id]]
       /\ pc' = "repair"
       /\ UNCHANGED <<file, made, metadataFile, metadata, tail, count, cur,
                      history>>

\* scanSegment: the corrupt suffix is copied to the quarantine file before the
\* segment is replaced.  A copy that fails may have written it or not.
QuarantineSuffix ==
    LET suffix == SubSeq(file[cur], tail[cur] + 1, Len(file[cur]))
        copied == [quarantine EXCEPT ![cur] =
                      @ \o [i \in 1 .. Len(suffix) |-> suffix[i].id]]
    IN /\ pc = "quarantine"
       /\ \/ /\ "repair" \in Faults
             /\ quarantine' \in {quarantine, copied}
             /\ pc' = "unavailable"
          \/ /\ quarantine' = copied
             /\ pc' = "repair"
       /\ UNCHANGED <<file, made, metadataFile, metadata, tail, count, cur,
                      history>>

\* Mutant: the whole segment is counted as quarantined.
RepairCountsWhole ==
    /\ pc = "repair"
    /\ file' = [file EXCEPT ![cur] = SubSeq(@, 1, tail[cur])]
    /\ corruptionEvents' = corruptionEvents + 1
    /\ quarantinedBytes' = quarantinedBytes + Len(file[cur])
    /\ IF count[cur] = 0 THEN pc' = "scanReclaim" /\ cur' = cur
                         ELSE ScanNext
    /\ UNCHANGED <<made, quarantine, metadataFile, active, head, dropped,
                   reserved, tail, count, history>>

\* scanSegment: the repaired prefix is renamed over the segment.
RepairSegment ==
    /\ pc = "repair"
    /\ \/ /\ "repair" \in Faults
          /\ pc' = "unavailable"
          /\ UNCHANGED <<file, corruptionEvents, quarantinedBytes, cur>>
       \/ /\ file' = [file EXCEPT ![cur] = SubSeq(@, 1, tail[cur])]
          /\ corruptionEvents' = corruptionEvents + 1
          /\ quarantinedBytes' = quarantinedBytes + Len(file[cur]) - tail[cur]
          /\ IF count[cur] = 0 THEN pc' = "scanReclaim" /\ cur' = cur
                               ELSE ScanNext
    /\ UNCHANGED <<made, quarantine, metadataFile, active, head, dropped,
                   reserved, tail, count, history>>

\* scanSegment: a segment without pending records is emptied.
ScanReclaim ==
    /\ pc = "scanReclaim"
    /\ \/ /\ "truncate" \in Faults
          /\ pc' = "unavailable"
          /\ UNCHANGED <<file, head, tail, count, cur>>
       \/ /\ TruncateSegment(cur)
          /\ ScanNext
    /\ UNCHANGED <<made, quarantine, metadataFile, active, dropped, reserved,
                   corruptionEvents, quarantinedBytes, history>>

\* begin: commit the scanned heads; the queue is ready.
BeginSave ==
    /\ pc = "beginSave"
    /\ UNCHANGED <<file, made, quarantine, metadata, tail, count, cur, history>>
    /\ \/ /\ "beginSave" \in Faults
          /\ pc' = "unavailable"
          /\ UNCHANGED metadataFile
       \/ /\ SaveMetadata
          /\ pc' = "ready"

-----------------------------------------------------------------------------
(* enqueue *)

\* enqueue: the next snapshot goes to the active segment if it fits.
Enqueue ==
    /\ pc = "ready"
    /\ next < MaxRecords
    /\ next' = next + 1
    /\ pc' = IF tail[active] + 1 > SegmentMaximum THEN "rotate" ELSE "append"
    /\ UNCHANGED <<flash, metadata, tail, count, cur, accepted, resolved, crashes>>

\* Mutant: the drop is counted in RAM and committed with the rotation only.
RotateCountsLater ==
    /\ pc = "rotate"
    /\ cur' = Other(active)
    /\ dropped' = SaturatingAdd(dropped, count[Other(active)])
    /\ pc' = "rotateTruncate"
    /\ UNCHANGED <<flash, active, head, reserved, corruptionEvents,
                   quarantinedBytes, tail, count, history>>

\* rotateSegment: commit the drop of the other segment's pending records
\* before their bytes are reclaimed.
RotateCount ==
    LET n == Other(active)
    IN /\ pc = "rotate"
       /\ cur' = n
       /\ UNCHANGED <<file, made, quarantine, active, head, reserved,
                      corruptionEvents, quarantinedBytes, tail, count, history>>
       /\ \/ /\ count[n] = 0
             /\ pc' = "rotateTruncate"
             /\ UNCHANGED <<dropped, metadataFile>>
          \/ /\ count[n] > 0
             /\ dropped' = SaturatingAdd(dropped, count[n])
             /\ SaveMetadata
             /\ pc' = "rotateTruncate"
          \/ /\ count[n] > 0
             /\ "dropSave" \in Faults
             /\ pc' = "ready"
             /\ UNCHANGED <<dropped, metadataFile>>

\* rotateSegment: empty the other segment and make it the active one.
RotateTruncate ==
    /\ pc = "rotateTruncate"
    /\ \/ /\ "truncate" \in Faults
          /\ pc' = "ready"
          /\ UNCHANGED <<file, active, head, tail, count>>
       \/ /\ TruncateSegment(cur)
          /\ active' = cur
          /\ pc' = "rotateSave"
    /\ UNCHANGED <<made, quarantine, metadataFile, dropped, reserved,
                   corruptionEvents, quarantinedBytes, cur, history>>

\* rotateSegment: commit the new active segment.  A failed commit fails the
\* enqueue and leaves the rotation in RAM only.
RotateSave ==
    /\ pc = "rotateSave"
    /\ UNCHANGED <<file, made, quarantine, metadata, tail, count, cur, history>>
    /\ \/ /\ "rotateSave" \in Faults
          /\ pc' = "ready"
          /\ UNCHANGED metadataFile
       \/ /\ SaveMetadata
          /\ pc' = "append"

\* enqueue: append header and payload to the active segment.  A short write
\* leaves its bytes in the file and does not move tail_ or count_.
AppendRecord ==
    LET s == active
    IN /\ pc = "append"
       /\ pc' = "ready"
       /\ \/ /\ "open" \in Faults
             /\ UNCHANGED <<file, tail, count, accepted>>
          \/ /\ "shortAppend" \in Faults
             /\ file' = [file EXCEPT ![s] = Append(@, Torn)]
             /\ UNCHANGED <<tail, count, accepted>>
          \/ /\ file' = [file EXCEPT ![s] = Append(@, Complete(next))]
             /\ tail' = [tail EXCEPT ![s] = @ + 1]
             /\ count' = [count EXCEPT ![s] = @ + 1]
             /\ accepted' = accepted \cup {next}
       /\ UNCHANGED <<made, quarantine, metadataFile, metadata, cur, next,
                      resolved, crashes>>

-----------------------------------------------------------------------------
(* pop *)

\* Mutant: the head moves in RAM and is committed with the next rotation only.
PopUncommitted(discarded) ==
    LET s == oldestSegment
    IN /\ pc = "ready"
       /\ pendingRecords > 0
       /\ HeadReadable(s)
       /\ head' = [head EXCEPT ![s] = @ + 1]
       /\ dropped' = IF discarded THEN SaturatingAdd(dropped, 1) ELSE dropped
       /\ count' = [count EXCEPT ![s] = @ - 1]
       /\ resolved' = resolved \cup {HeadRecord(s)}
       /\ UNCHANGED <<flash, active, reserved, corruptionEvents, quarantinedBytes,
                      tail, pc, cur, next, accepted, crashes>>

\* pop: commit the advanced head (and the drop, for a discarded record) before
\* anything is reclaimed; if the commit fails, RAM is restored.
Pop(discarded) ==
    LET s == oldestSegment
    IN /\ pc = "ready"
       /\ pendingRecords > 0
       /\ HeadReadable(s)
       /\ UNCHANGED <<file, made, quarantine, active, reserved, corruptionEvents,
                      quarantinedBytes, tail, next, accepted, crashes>>
       /\ \/ /\ head' = [head EXCEPT ![s] = @ + 1]
             /\ dropped' = IF discarded THEN SaturatingAdd(dropped, 1)
                                        ELSE dropped
             /\ SaveMetadata
             /\ count' = [count EXCEPT ![s] = @ - 1]
             /\ resolved' = resolved \cup {HeadRecord(s)}
             /\ pc' = IF count[s] = 1 THEN "reclaim" ELSE "ready"
             /\ cur' = s
          \/ /\ "popSave" \in Faults
             /\ UNCHANGED <<head, dropped, metadataFile, count, resolved, pc, cur>>

\* popIfMatches: an unreadable head and a head other than the submitted record
\* leave the queue alone.
PopIfMatches(submitted, discarded) ==
    /\ pendingRecords > 0
    /\ HeadReadable(oldestSegment)
    /\ HeadRecord(oldestSegment) = submitted
    /\ Pop(discarded)

\* pop: empty the segment whose last record was popped.
PopReclaim ==
    /\ pc = "reclaim"
    /\ \/ /\ "truncate" \in Faults
          /\ pc' = "ready"
          /\ UNCHANGED <<file, head, tail, count>>
       \/ /\ TruncateSegment(cur)
          /\ pc' = "reclaimSave"
    /\ UNCHANGED <<made, quarantine, metadataFile, active, dropped, reserved,
                   corruptionEvents, quarantinedBytes, cur, history>>

\* pop: commit the head of the emptied segment.
PopReclaimSave ==
    /\ pc = "reclaimSave"
    /\ pc' = "ready"
    /\ UNCHANGED <<file, made, quarantine, metadata, tail, count, cur, history>>
    /\ \/ /\ "reclaimSave" \in Faults
          /\ UNCHANGED metadataFile
       \/ SaveMetadata

-----------------------------------------------------------------------------
(* The environment *)

\* A reset at any point: what is in RAM is gone.
PowerLoss ==
    /\ pc # "off"
    /\ crashes < MaxCrashes
    /\ crashes' = crashes + 1
    /\ pc' = "off"
    /\ cur' = 0
    /\ active' = 0 /\ head' = Zero /\ dropped' = 0 /\ reserved' = 0
    /\ corruptionEvents' = 0 /\ quarantinedBytes' = 0
    /\ tail' = Zero
    /\ count' = Zero
    /\ UNCHANGED <<made, quarantine, metadataFile, next, accepted, resolved>>

Crash == PowerLoss /\ UNCHANGED file

\* A reset in the middle of an append leaves an incomplete record.
CrashInAppend ==
    /\ pc = "append"
    /\ PowerLoss
    /\ file' = [file EXCEPT ![active] = Append(@, Torn)]

\* The metadata file no longer has a valid checksum.
MetadataLoss ==
    /\ "metadataLoss" \in Faults
    /\ pc = "off"
    /\ metadataFile.format \in {"v1", "v2"}
    /\ metadataFile' = [metadataFile EXCEPT !.format = "bad"]
    /\ UNCHANGED <<file, made, quarantine, ram, history>>

\* A stored record no longer has a valid checksum.
Decay ==
    /\ "decay" \in Faults
    /\ pc \in {"off", "ready"}
    /\ \E s \in Segments : \E i \in 1 .. Len(file[s]) :
          file' = [file EXCEPT ![s][i].ok = FALSE]
    /\ UNCHANGED <<made, quarantine, metadataFile, ram, history>>

-----------------------------------------------------------------------------

\* /sfq.meta before the first boot of this firmware
FileOf(format, heads) ==
    [format |-> format, active |-> 0, head |-> heads, dropped |-> 0,
     reserved |-> 0, corruptionEvents |-> 0, quarantinedBytes |-> 0]

\* A logger that was never used, or one upgraded from the firmware that wrote
\* version 1 metadata, with one record in segment 0 (sent or not).
Init ==
    /\ \/ /\ file = [s \in Segments |-> <<>>]
          /\ made = {}
          /\ metadataFile = FileOf("none", Zero)
          /\ next = 0
          /\ accepted = {}
          /\ resolved = {}
       \/ /\ file = [s \in Segments |-> IF s = 0 THEN <<Complete(1)>> ELSE <<>>]
          /\ made = Segments
          /\ next = 1
          /\ accepted = {1}
          /\ \/ metadataFile = FileOf("v1", Zero) /\ resolved = {}
             \/ /\ metadataFile = FileOf("v1", [Zero EXCEPT ![0] = 1])
                /\ resolved = {1}
    /\ quarantine = [s \in Segments |-> <<>>]
    /\ active = 0 /\ head = Zero /\ dropped = 0 /\ reserved = 0
    /\ corruptionEvents = 0 /\ quarantinedBytes = 0
    /\ tail = Zero
    /\ count = Zero
    /\ pc = "off"
    /\ cur = 0
    /\ crashes = 0

BeginSteps ==
    \/ Begin \/ CreateSegment \/ ScanSegment \/ QuarantineSuffix
    \/ RepairSegment \/ ScanReclaim \/ BeginSave

EnqueueSteps ==
    \/ Enqueue \/ RotateCount \/ RotateTruncate \/ RotateSave \/ AppendRecord

PopSteps ==
    \/ \E d \in BOOLEAN : Pop(d)
    \/ \E r \in 1 .. MaxRecords, d \in BOOLEAN : PopIfMatches(r, d)
    \/ PopReclaim
    \/ PopReclaimSave

Environment == Crash \/ CrashInAppend \/ MetadataLoss \/ Decay

Next == BeginSteps \/ EnqueueSteps \/ PopSteps \/ Environment

Spec == Init /\ [][Next]_vars
-----------------------------------------------------------------------------
(* What a reset would find *)

DurableHead(s) ==
    IF HasMetadata THEN Lesser(metadataFile.head[s], Len(file[s])) ELSE 0

\* Records that stay in the segments for the next begin.
InSegments == UNION {IdsAfter(s, DurableHead(s)) : s \in Segments}

Quarantined ==
    UNION {{quarantine[s][i] : i \in 1 .. Len(quarantine[s])} : s \in Segments}

\* Records written completely that no reset brings back and nobody popped.
Lost == accepted \ (resolved \cup InSegments \cup Quarantined)

\* The drop count on flash is one that the status report may show.
DropsKnown == HasMetadata /\ metadataFile.reserved = 0

-----------------------------------------------------------------------------
(* Properties *)

FlashType ==
    /\ file \in [Segments -> Seq(Cell)]
    /\ made \subseteq Segments
    /\ quarantine \in [Segments -> Seq(0 .. MaxRecords)]
    /\ metadataFile \in MetadataFile

RamType ==
    /\ active \in Segments
    /\ head \in [Segments -> Nat]
    /\ dropped \in 0 .. CounterMaximum
    /\ reserved \in {0, 1}
    /\ corruptionEvents \in Nat
    /\ quarantinedBytes \in Nat
    /\ tail \in [Segments -> Nat]
    /\ count \in [Segments -> Nat]
    /\ cur \in Segments

ControlType ==
    pc \in {"off", "unavailable", "scan", "quarantine", "repair",
            "scanReclaim", "beginSave", "ready", "rotate", "rotateTruncate",
            "rotateSave", "append", "reclaim", "reclaimSave"}

HistoryType ==
    /\ next \in 0 .. MaxRecords
    /\ accepted \subseteq 1 .. next
    /\ resolved \subseteq accepted
    /\ crashes \in 0 .. MaxCrashes

\* The types of the variables: what every operation keeps of the files, of
\* metadata_, tail_ and count_, and where an operation can be interrupted.
TypeOK == FlashType /\ RamType /\ ControlType /\ HistoryType

\* "It cannot silently erase records without incrementing the counter"
\* (rotateSegment): at every point of every operation, every record written
\* completely is popped, or found again after a reset, or kept in quarantine,
\* or counted in the committed drop counter, unless the counter is saturated
\* or declared unknown.
NoSilentLoss ==
    DropsKnown => \/ Cardinality(Lost) <= metadataFile.dropped
                  \/ metadataFile.dropped = CounterMaximum

\* "Rotation deliberately removes the oldest whole segment": a record that a
\* later reset still finds is newer than every record that was dropped.
DropsAreOldest ==
    DropsKnown => \A l \in Lost, k \in InSegments \ {0} : l < k

\* "The committed head prevents replay": a pop that was committed to /sfq.meta
\* is never undone, whatever is reclaimed, rotated or rescanned afterwards.
CommittedNotReplayed == DropsKnown => resolved \cap InSegments = {}

\* "The last incomplete record is quarantined": tail repair never takes a
\* record that was written completely, and replay can read every pending one.
OnlyIncompleteQuarantined == accepted \cap Quarantined = {}

\* The diagnostics never claim more quarantined bytes or repairs than there is
\* evidence of in the .corrupt files, whatever repair was interrupted.
QuarantineNotOverstated ==
    LET evidence == Len(quarantine[0]) + Len(quarantine[1])
    IN /\ metadataFile.quarantinedBytes <= evidence
       /\ metadataFile.corruptionEvents <= evidence

=============================================================================
