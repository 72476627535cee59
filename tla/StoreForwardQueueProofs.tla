---------------------- MODULE StoreForwardQueueProofs ----------------------
(***************************************************************************)
(* Proofs about StoreForwardQueue for every segment capacity, every number *)
(* of records and resets and every width of the drop counter: its types,   *)
(* that no committed pop is undone, what the quarantine holds and how it   *)
(* is counted, that no record is lost without being counted, and that the  *)
(* queue implements DurableFifo.                                           *)
(***************************************************************************)
EXTENDS MCStoreForwardQueue, FiniteSetTheorems, SequenceTheorems, TLAPS

\* A readable cell holds a record that was written completely; an unreadable
\* one holds such a record or the torn bytes of an append.
CellsSound ==
    \A s \in Segments : \A i \in 1 .. Len(file[s]) :
        /\ file[s][i].ok => file[s][i].id # 0
        /\ file[s][i].id # 0 => file[s][i].id \in accepted

\* An operation of enqueue that has taken a record knows which.
OfferSound == pc \in {"rotate", "rotateTruncate", "rotateSave", "append"} => next > 0

\* begin: the segment under repair.
RepairSound ==
    /\ pc \in {"quarantine", "repair"} =>
          /\ head[cur] <= tail[cur]
          /\ tail[cur] < Len(file[cur])
          /\ count[cur] = tail[cur] - head[cur]
          /\ \A i \in head[cur] + 1 .. tail[cur] : file[cur][i].ok
    /\ pc = "repair" =>
          \A i \in tail[cur] + 1 .. Len(file[cur]) :
              file[cur][i].id \in Quarantined
    /\ pc = "scanReclaim" => head[cur] = Len(file[cur])

\* What type correctness rests on, whichever call fails.
TInv == TypeOK /\ CellsSound /\ OfferSound /\ RepairSound

-----------------------------------------------------------------------------
(* Types *)

\* The saturating counter stays within its width and never goes back.
LEMMA SaturatingAddFacts ==
    ASSUME NEW v \in 0 .. CounterMaximum, NEW n \in Nat
    PROVE  /\ SaturatingAdd(v, n) \in 0 .. CounterMaximum
           /\ v <= SaturatingAdd(v, n)
           /\ \/ SaturatingAdd(v, n) = v + n
              \/ SaturatingAdd(v, n) = CounterMaximum
BY ConstantsAssumption DEF SaturatingAdd

LEMMA InitType == Init => TypeOK
<1> SUFFICES ASSUME Init PROVE TypeOK
  OBVIOUS
<1>1. Zero \in [Segments -> Nat] /\ [Zero EXCEPT ![0] = 1] \in [Segments -> Nat]
  BY DEF Zero, Segments
<1>2. file \in [Segments -> Seq(Cell)]
  <2>1. Complete(1) \in Cell
    BY ConstantsAssumption DEF Complete, Cell
  <2>2. <<>> \in Seq(Cell) /\ <<Complete(1)>> \in Seq(Cell)
    BY <2>1
  <2> QED BY <2>2 DEF Init
<1>3. quarantine \in [Segments -> Seq(0 .. MaxRecords)]
  BY DEF Init
<1>4. metadataFile \in MetadataFile
  <2>1. \A h \in [Segments -> Nat], f \in {"none", "v1"} : FileOf(f, h) \in MetadataFile
    BY ConstantsAssumption DEF FileOf, Segments, MetadataFile
  <2>2. CASE metadataFile = FileOf("none", Zero)
    BY <1>1, <2>1, <2>2
  <2>3. CASE metadataFile = FileOf("v1", Zero)
    BY <1>1, <2>1, <2>3
  <2>4. CASE metadataFile = FileOf("v1", [Zero EXCEPT ![0] = 1])
    BY <1>1, <2>1, <2>4
  <2> QED BY <2>2, <2>3, <2>4 DEF Init
<1>5. made \subseteq Segments /\ next \in 0 .. MaxRecords
      /\ accepted \subseteq 1 .. next /\ resolved \subseteq accepted
  BY ConstantsAssumption DEF Init, Segments
<1>6. /\ active \in Segments /\ head \in [Segments -> Nat]
      /\ dropped \in 0 .. CounterMaximum /\ reserved \in {0, 1}
      /\ corruptionEvents \in Nat /\ quarantinedBytes \in Nat
      /\ tail \in [Segments -> Nat] /\ count \in [Segments -> Nat]
      /\ pc = "off" /\ cur \in Segments /\ crashes \in 0 .. MaxCrashes
  BY <1>1, ConstantsAssumption DEF Init, Segments
<1> QED BY <1>2, <1>3, <1>4, <1>5, <1>6
         DEF TypeOK, FlashType, RamType, ControlType, HistoryType

\* A commit of well-typed metadata is well typed.
LEMMA SaveType ==
    ASSUME RamType', SaveMetadata
    PROVE  metadataFile' \in MetadataFile
BY DEF SaveMetadata, MetadataFile, RamType

LEMMA FlashTypeStep == TInv /\ [Next]_vars /\ RamType' => FlashType'
<1> SUFFICES ASSUME TInv, [Next]_vars, RamType' PROVE FlashType'
  OBVIOUS
<1>1. FlashType /\ RamType /\ HistoryType
  BY DEF TInv, TypeOK
<1>2. /\ file \in [Segments -> Seq(Cell)]
      /\ metadataFile \in MetadataFile
      /\ quarantine \in [Segments -> Seq(0 .. MaxRecords)]
      /\ cur \in Segments /\ active \in Segments
      /\ made \subseteq Segments
  BY <1>1 DEF FlashType, RamType
<1>20. tail[cur] \in Nat
  BY <1>1, <1>2 DEF RamType
<1>21. Len(file[cur]) \in Nat /\ \A i \in 1 .. Len(file[cur]) : file[cur][i] \in Cell
  BY <1>2
<1>3. Torn \in Cell
  BY ConstantsAssumption DEF Torn, Cell
<1>4. [file EXCEPT ![cur] = <<>>] \in [Segments -> Seq(Cell)]
  BY <1>2
<1>5. CASE UNCHANGED flash
  BY <1>1, <1>5 DEF FlashType, flash
<1>6. CASE SaveMetadata /\ UNCHANGED <<file, made, quarantine>>
  BY <1>1, <1>6, SaveType DEF FlashType
<1>7. CASE CreateSegment
  BY <1>2, <1>7 DEF CreateSegment, FlashType
<1>8. CASE QuarantineSuffix
  <2>10. /\ tail[cur] + 1 \in Int /\ Len(file[cur]) \in Int
         /\ \A i \in tail[cur] + 1 .. Len(file[cur]) : file[cur][i] \in Cell
    BY <1>20, <1>21
  <2> DEFINE suffix == SubSeq(file[cur], tail[cur] + 1, Len(file[cur]))
             ids == [i \in 1 .. Len(suffix) |-> suffix[i].id]
  <2>1. suffix \in Seq(Cell)
    BY <2>10, SubSeqProperties
  <2>2. ids \in Seq(0 .. MaxRecords)
    <3> HIDE DEF suffix
    <3>1. Len(suffix) \in Nat
      BY <2>1
    <3>2. \A i \in 1 .. Len(suffix) : suffix[i] \in Cell
      BY <2>1
    <3>3. \A c \in Cell : c.id \in 0 .. MaxRecords
      BY DEF Cell
    <3> QED BY <3>1, <3>2, <3>3
  <2>3. [quarantine EXCEPT ![cur] = @ \o ids] \in [Segments -> Seq(0 .. MaxRecords)]
    <3> HIDE DEF ids
    <3> QED BY <1>2, <2>2
  <2>4. quarantine' \in [Segments -> Seq(0 .. MaxRecords)]
    BY <1>2, <1>8, <2>3 DEF QuarantineSuffix
  <2> QED
    BY <1>2, <1>8, <2>4 DEF QuarantineSuffix, FlashType
<1>9. CASE RepairSegment
  <2>1. SubSeq(file[cur], 1, tail[cur]) \in Seq(Cell)
    <3>1. tail[cur] \in Nat /\ tail[cur] < Len(file[cur])
      BY <1>1, <1>2, <1>9 DEF RepairSegment, TInv, RepairSound, RamType
    <3> QED BY <1>2, <3>1
  <2>2. file' \in [Segments -> Seq(Cell)]
    BY <1>2, <1>9, <2>1 DEF RepairSegment
  <2> QED
    BY <1>2, <1>9, <2>2 DEF RepairSegment, FlashType
<1>10. CASE UNCHANGED <<made, quarantine, metadataFile>> /\ file' \in [Segments -> Seq(Cell)]
  BY <1>2, <1>10 DEF FlashType
<1>11. CASE AppendRecord
  <2>1. next \in 0 .. MaxRecords
    BY <1>1 DEF HistoryType
  <2>2. Complete(next) \in Cell
    BY <2>1 DEF Complete, Cell
  <2>3. /\ [file EXCEPT ![active] = Append(@, Complete(next))] \in [Segments -> Seq(Cell)]
        /\ [file EXCEPT ![active] = Append(@, Torn)] \in [Segments -> Seq(Cell)]
    BY <1>2, <1>3, <2>2
  <2>4. file' \in [Segments -> Seq(Cell)]
    BY <1>2, <1>11, <2>3 DEF AppendRecord
  <2> QED BY <1>10, <1>11, <2>4 DEF AppendRecord
<1>12. CASE MetadataLoss
  <2>1. metadataFile' \in MetadataFile
    BY <1>2, <1>12 DEF MetadataLoss, MetadataFile
  <2> QED BY <1>2, <1>12, <2>1 DEF MetadataLoss, FlashType
<1>13. CASE Decay
  <2>1. PICK s \in Segments : \E i \in 1 .. Len(file[s]) :
            file' = [file EXCEPT ![s][i].ok = FALSE]
    BY <1>13 DEF Decay
  <2>2. PICK i \in 1 .. Len(file[s]) :
            file' = [file EXCEPT ![s][i].ok = FALSE]
    BY <2>1
  <2>3. file[s][i] \in Cell
    BY <1>2
  <2>4. [file[s][i] EXCEPT !.ok = FALSE] \in Cell
    BY <2>3 DEF Cell
  <2>5. [file[s] EXCEPT ![i] = [file[s][i] EXCEPT !.ok = FALSE]] \in Seq(Cell)
    BY <1>2, <2>4
  <2>6. file' \in [Segments -> Seq(Cell)]
    BY <1>2, <2>2, <2>5
  <2> QED BY <1>10, <1>13, <2>6 DEF Decay
<1>14. CASE CrashInAppend
  <2>1. [file EXCEPT ![active] = Append(@, Torn)] \in [Segments -> Seq(Cell)]
    BY <1>2, <1>3
  <2>2. UNCHANGED <<made, quarantine, metadataFile>>
    BY <1>14 DEF CrashInAppend, PowerLoss
  <2> QED BY <1>10, <1>14, <2>1, <2>2 DEF CrashInAppend
<1>15. CASE ScanReclaim \/ RotateTruncate \/ PopReclaim
  <2>1. UNCHANGED <<made, quarantine, metadataFile>>
    BY <1>15 DEF ScanReclaim, RotateTruncate, PopReclaim
  <2>2. file' = file \/ file' = [file EXCEPT ![cur] = <<>>]
    BY <1>15 DEF ScanReclaim, RotateTruncate, PopReclaim, TruncateSegment
  <2> QED BY <1>2, <1>4, <1>10, <2>1, <2>2
<1>16. CASE BeginSave \/ RotateSave \/ PopReclaimSave \/ RotateCount
            \/ \E d \in BOOLEAN : Pop(d)
  <2>1. UNCHANGED flash \/ (SaveMetadata /\ UNCHANGED <<file, made, quarantine>>)
    BY <1>16 DEF BeginSave, RotateSave, PopReclaimSave, RotateCount, Pop, flash
  <2> QED BY <1>5, <1>6, <2>1
<1>17. CASE Begin \/ ScanSegment \/ Enqueue \/ Crash \/ UNCHANGED vars
  <2>1. UNCHANGED flash
    BY <1>17 DEF Begin, ScanSegment, Enqueue, Crash, PowerLoss, vars, flash
  <2> QED BY <1>5, <2>1
<1> QED
  BY <1>7, <1>8, <1>9, <1>11, <1>12, <1>13, <1>14, <1>15, <1>16, <1>17
     DEF Next, BeginSteps, EnqueueSteps, PopSteps, PopIfMatches, Environment

\* The heads and counters of RAM: nothing is counted below zero.
LEMMA RamTypeStep == TInv /\ [Next]_vars => RamType'
<1> SUFFICES ASSUME TInv, [Next]_vars PROVE RamType'
  OBVIOUS
<1>1. FlashType /\ RamType
  BY DEF TInv, TypeOK
<1>2. /\ file \in [Segments -> Seq(Cell)]
      /\ active \in Segments /\ cur \in Segments
      /\ head \in [Segments -> Nat] /\ tail \in [Segments -> Nat]
      /\ count \in [Segments -> Nat]
      /\ dropped \in 0 .. CounterMaximum /\ reserved \in {0, 1}
      /\ corruptionEvents \in Nat /\ quarantinedBytes \in Nat
  BY <1>1 DEF FlashType, RamType
<1>3. \A s \in Segments : /\ Other(s) \in Segments
                           /\ Len(file[s]) \in Nat
                           /\ head[s] \in Nat /\ tail[s] \in Nat /\ count[s] \in Nat
  BY <1>2 DEF Segments, Other
<1>4. Zero \in [Segments -> Nat]
  BY DEF Zero
<1>5. CASE UNCHANGED metadata /\ UNCHANGED <<tail, count>> /\ cur' \in Segments
  BY <1>1, <1>5 DEF RamType, metadata
<1>6. CASE /\ UNCHANGED <<dropped, reserved, corruptionEvents, quarantinedBytes>>
           /\ active' \in Segments /\ cur' \in Segments
           /\ head' \in [Segments -> Nat] /\ tail' \in [Segments -> Nat]
           /\ count' \in [Segments -> Nat]
  BY <1>1, <1>6 DEF RamType
<1>7. ScanNext => cur' \in Segments
  BY <1>2 DEF ScanNext, Segments
<1>8. CASE Begin
  <2>1. CASE LoadMetadata /\ cur' = 0 /\ UNCHANGED <<tail, count>>
    <3>1. cur' \in Segments
      BY <2>1 DEF Segments
    <3>2. CASE HasMetadata
      <4>1. metadataFile \in MetadataFile
        BY <1>1 DEF FlashType
      <4>2. /\ metadataFile.active \in Segments
            /\ metadataFile.head \in [Segments -> Nat]
            /\ metadataFile.dropped \in 0 .. CounterMaximum
            /\ metadataFile.reserved \in {0, 1}
            /\ metadataFile.corruptionEvents \in Nat
            /\ metadataFile.quarantinedBytes \in Nat
        BY <4>1 DEF MetadataFile
      <4>3. /\ corruptionEvents' \in Nat /\ quarantinedBytes' \in Nat
            /\ reserved' \in {0, 1}
        BY <2>1, <3>2, <4>2 DEF LoadMetadata
      <4>4. /\ active' = metadataFile.active /\ head' = metadataFile.head
            /\ dropped' = metadataFile.dropped
        BY <2>1, <3>2 DEF LoadMetadata
      <4> QED BY <1>2, <2>1, <3>1, <4>2, <4>3, <4>4 DEF RamType
    <3>3. CASE ~HasMetadata
      <4>1. Cardinality(QuarantineFiles) \in Nat
        <5>1. 0 \in Int /\ 1 \in Int
          OBVIOUS
        <5>2. IsFiniteSet(0 .. 1)
          BY <5>1, FS_Interval, Zenon
        <5>3. QuarantineFiles \subseteq 0 .. 1
          BY DEF QuarantineFiles, Segments
        <5> QED BY <5>2, <5>3, FS_Subset, FS_CardinalityType
      <4>2. Len(quarantine[0]) + Len(quarantine[1]) \in Nat
        BY <1>1 DEF FlashType, Segments
      <4>3. 0 \in Segments /\ 0 \in 0 .. CounterMaximum
        BY ConstantsAssumption DEF Segments
      <4>4. reserved' \in {0, 1}
        BY <2>1, <3>3 DEF LoadMetadata
      <4> QED BY <1>2, <1>4, <2>1, <3>1, <3>3, <4>1, <4>2, <4>3, <4>4
              DEF LoadMetadata, RamType
    <3> QED BY <3>2, <3>3
  <2> QED BY <1>2, <1>5, <1>8, <2>1 DEF Begin
<1>9. CASE CreateSegment
  <2>1. /\ head' \in [Segments -> Nat] /\ tail' \in [Segments -> Nat]
        /\ count' \in [Segments -> Nat]
    <3>1. \/ UNCHANGED <<head, tail, count>>
          \/ /\ head' = [head EXCEPT ![cur] = 0]
             /\ tail' = [tail EXCEPT ![cur] = 0]
             /\ count' = [count EXCEPT ![cur] = 0]
      BY <1>9 DEF CreateSegment, metadata
    <3>2. \A f \in [Segments -> Nat] : [f EXCEPT ![cur] = 0] \in [Segments -> Nat]
      OBVIOUS
    <3>3. /\ head \in [Segments -> Nat] /\ tail \in [Segments -> Nat]
          /\ count \in [Segments -> Nat]
      BY <1>2
    <3> QED BY <3>1, <3>2, <3>3
  <2>2. /\ UNCHANGED <<active, dropped, reserved, corruptionEvents, quarantinedBytes>>
        /\ cur' \in Segments
    BY <1>2, <1>7, <1>9 DEF CreateSegment, metadata
  <2> QED BY <1>2, <1>6, <2>1, <2>2
<1>10. CASE ScanSegment
  <2> DEFINE h == Lesser(head[cur], Len(file[cur]))
  <2>1. h \in Nat /\ h <= Len(file[cur])
    BY <1>2, <1>3 DEF Lesser
  <2> HIDE DEF h
  <2>2. PICK end \in h .. Len(file[cur]) :
          /\ head' = [head EXCEPT ![cur] = h]
          /\ tail' = [tail EXCEPT ![cur] = end]
          /\ count' = [count EXCEPT ![cur] = end - h]
    BY <1>10 DEF ScanSegment, h
  <2>3. end \in Nat /\ end - h \in Nat
    BY <1>2, <1>3, <2>1
  <2>4. cur' \in Segments
    BY <1>2, <1>7, <1>10 DEF ScanSegment
  <2>5. UNCHANGED <<active, dropped, reserved, corruptionEvents, quarantinedBytes>>
    BY <1>10 DEF ScanSegment
  <2> QED BY <1>2, <1>6, <2>1, <2>2, <2>3, <2>4, <2>5
<1>11. CASE QuarantineSuffix \/ BeginSave \/ Enqueue \/ RotateSave
            \/ PopReclaimSave \/ MetadataLoss \/ Decay \/ UNCHANGED vars
  <2>1. UNCHANGED metadata /\ UNCHANGED <<tail, count, cur>>
    BY <1>11 DEF QuarantineSuffix, BeginSave, Enqueue, RotateSave, PopReclaimSave,
                 MetadataLoss, Decay, vars, ram
  <2> QED BY <1>2, <1>5, <2>1
<1>12. CASE RepairSegment
  <2>0. /\ tail[cur] \in Nat /\ Len(file[cur]) \in Nat
        /\ quarantinedBytes \in Nat /\ corruptionEvents \in Nat
    BY <1>2, <1>3
  <2>1. tail[cur] < Len(file[cur])
    BY <1>12 DEF RepairSegment, TInv, RepairSound
  <2>2. /\ quarantinedBytes + Len(file[cur]) - tail[cur] \in Nat
        /\ corruptionEvents + 1 \in Nat
    BY <2>0, <2>1
  <2>3. corruptionEvents' \in Nat /\ quarantinedBytes' \in Nat
    BY <1>12, <2>0, <2>2 DEF RepairSegment
  <2>4. cur' \in Segments
    BY <1>2, <1>7, <1>12 DEF RepairSegment
  <2> QED BY <1>2, <1>12, <2>3, <2>4 DEF RepairSegment, RamType
<1>13. CASE ScanReclaim \/ RotateTruncate \/ PopReclaim
  <2>1. /\ UNCHANGED <<dropped, reserved, corruptionEvents, quarantinedBytes>>
        /\ active' \in Segments /\ cur' \in Segments
    BY <1>2, <1>7, <1>13 DEF ScanReclaim, RotateTruncate, PopReclaim
  <2>2. TruncateSegment(cur) \/ UNCHANGED <<head, tail, count>>
    BY <1>13 DEF ScanReclaim, RotateTruncate, PopReclaim
  <2>3. /\ head' \in [Segments -> Nat] /\ tail' \in [Segments -> Nat]
        /\ count' \in [Segments -> Nat]
    BY <1>2, <2>2 DEF TruncateSegment
  <2> QED BY <1>6, <2>1, <2>3
<1>14. CASE RotateCount
  <2>1. /\ cur' \in Segments
        /\ UNCHANGED <<active, head, reserved, corruptionEvents, quarantinedBytes,
                       tail, count>>
    BY <1>2, <1>3, <1>14 DEF RotateCount
  <2>2. dropped' \in 0 .. CounterMaximum
    BY <1>2, <1>3, <1>14, SaturatingAddFacts DEF RotateCount
  <2> QED BY <1>2, <2>1, <2>2 DEF RamType
<1>15. CASE AppendRecord
  <2>1. UNCHANGED metadata /\ cur' = cur
    BY <1>15 DEF AppendRecord
  <2>2. tail[active] + 1 \in Nat /\ count[active] + 1 \in Nat
    <3>1. tail[active] \in Nat /\ count[active] \in Nat
      BY <1>2, <1>3
    <3> QED BY <3>1
  <2>3. tail' \in [Segments -> Nat] /\ count' \in [Segments -> Nat]
    BY <1>2, <1>15, <2>2 DEF AppendRecord
  <2> QED BY <1>2, <2>1, <2>3 DEF RamType, metadata
<1>16. CASE \E d \in BOOLEAN : Pop(d)
  <2>1. PICK d \in BOOLEAN : Pop(d)
    BY <1>16
  <2>2. oldestSegment \in Segments
    BY <1>2, <1>3 DEF oldestSegment
  <2>3. count[oldestSegment] > 0
    BY <1>2, <1>3, <2>1 DEF Pop, oldestSegment, pendingRecords, Segments, Other
  <2>4. head[oldestSegment] + 1 \in Nat /\ count[oldestSegment] - 1 \in Nat
    BY <1>3, <2>2, <2>3
  <2>5. /\ head' \in [Segments -> Nat] /\ count' \in [Segments -> Nat]
        /\ cur' \in Segments
    BY <1>2, <2>1, <2>2, <2>4 DEF Pop
  <2>6. dropped' \in 0 .. CounterMaximum
    <3>1. dropped \in 0 .. CounterMaximum /\ 1 \in Nat
      BY <1>2
    <3>2. SaturatingAdd(dropped, 1) \in 0 .. CounterMaximum
      BY <3>1, SaturatingAddFacts, Zenon
    <3>3. dropped' = dropped \/ dropped' = SaturatingAdd(dropped, 1)
      BY <2>1 DEF Pop
    <3> QED BY <3>1, <3>2, <3>3
  <2> QED BY <1>2, <2>1, <2>5, <2>6 DEF Pop, RamType
<1>17. CASE PowerLoss
  <2>1. 0 \in Segments /\ 0 \in 0 .. CounterMaximum
    BY ConstantsAssumption DEF Segments
  <2> QED BY <1>4, <1>17, <2>1 DEF PowerLoss, RamType
<1> QED
  BY <1>8, <1>9, <1>10, <1>11, <1>12, <1>13, <1>14, <1>15, <1>16, <1>17
     DEF Next, BeginSteps, EnqueueSteps, PopSteps, PopIfMatches, Environment,
         Crash, CrashInAppend

\* An operation is only interrupted at one of its writes.
LEMMA ControlTypeStep == TInv /\ [Next]_vars => ControlType'
<1> SUFFICES ASSUME TInv, [Next]_vars PROVE ControlType'
  OBVIOUS
<1>1. ControlType
  BY DEF TInv, TypeOK
<1>2. CASE BeginSteps
  BY <1>2 DEF BeginSteps, Begin, CreateSegment, ScanSegment, QuarantineSuffix,
              RepairSegment, ScanReclaim, BeginSave, ScanNext, ControlType
<1>3. CASE EnqueueSteps
  BY <1>3 DEF EnqueueSteps, Enqueue, RotateCount, RotateTruncate, RotateSave,
              AppendRecord, ControlType
<1>4. CASE PopSteps
  BY <1>1, <1>4 DEF PopSteps, PopIfMatches, Pop, PopReclaim, PopReclaimSave, ControlType
<1>5. CASE Environment
  BY <1>1, <1>5 DEF Environment, Crash, CrashInAppend, PowerLoss, MetadataLoss,
                    Decay, ram, ControlType
<1>6. CASE UNCHANGED vars
  BY <1>1, <1>6 DEF vars, ram, ControlType
<1> QED BY <1>2, <1>3, <1>4, <1>5, <1>6 DEF Next

\* Only offered records are accepted and only accepted ones are popped: the
\* head that pop reads holds a record that enqueue wrote.
LEMMA HistoryTypeStep == TInv /\ [Next]_vars => HistoryType'
<1> SUFFICES ASSUME TInv, [Next]_vars PROVE HistoryType'
  OBVIOUS
<1>1. FlashType /\ RamType /\ HistoryType
  BY DEF TInv, TypeOK
<1>2. CASE UNCHANGED history
  BY <1>1, <1>2 DEF history, HistoryType
<1>3. CASE Enqueue
  BY <1>1, <1>3, ConstantsAssumption DEF Enqueue, HistoryType
<1>4. CASE AppendRecord
  <2>1. next > 0
    BY <1>4 DEF AppendRecord, TInv, OfferSound
  <2>2. accepted' \subseteq accepted \cup {next} /\ accepted \subseteq accepted'
        /\ UNCHANGED <<next, resolved, crashes>>
    BY <1>4 DEF AppendRecord
  <2> QED BY <1>1, <2>1, <2>2 DEF HistoryType
<1>5. CASE \E d \in BOOLEAN : Pop(d)
  <2>1. PICK d \in BOOLEAN : Pop(d)
    BY <1>5
  <2>2. oldestSegment \in Segments
    BY <1>1 DEF oldestSegment, Other, Segments, RamType
  <2>3. /\ head[oldestSegment] \in Nat /\ Len(file[oldestSegment]) \in Nat
    BY <1>1, <2>2 DEF RamType, FlashType
  <2>4. /\ head[oldestSegment] < Len(file[oldestSegment])
        /\ file[oldestSegment][head[oldestSegment] + 1].ok
    BY <2>1 DEF Pop, HeadReadable
  <2>5. head[oldestSegment] + 1 \in 1 .. Len(file[oldestSegment])
    BY <2>3, <2>4
  <2>6. HeadRecord(oldestSegment) \in accepted
    BY <2>2, <2>4, <2>5 DEF HeadRecord, TInv, CellsSound
  <2>7. resolved' \subseteq resolved \cup {HeadRecord(oldestSegment)}
        /\ UNCHANGED <<next, accepted, crashes>>
    BY <2>1 DEF Pop
  <2> QED BY <1>1, <2>6, <2>7 DEF HistoryType
<1>6. CASE PowerLoss
  BY <1>1, <1>6, ConstantsAssumption DEF PowerLoss, HistoryType
<1>7. CASE BeginSteps \/ RotateCount \/ RotateTruncate \/ RotateSave
           \/ PopReclaim \/ PopReclaimSave \/ MetadataLoss \/ Decay \/ UNCHANGED vars
  <2>1. UNCHANGED history
    BY <1>7 DEF BeginSteps, Begin, CreateSegment, ScanSegment, QuarantineSuffix,
                RepairSegment, ScanReclaim, BeginSave, RotateCount, RotateTruncate,
                RotateSave, PopReclaim, PopReclaimSave, MetadataLoss, Decay, vars
  <2> QED BY <1>2, <2>1
<1> QED
  BY <1>3, <1>4, <1>5, <1>6, <1>7
     DEF Next, EnqueueSteps, PopSteps, PopIfMatches, Environment, Crash, CrashInAppend

\* What a step writes into a segment: nothing, one more cell at the end, a
\* prefix of it, or a cell that is no longer readable.
LEMMA CellsSoundStep == TInv /\ [Next]_vars => CellsSound'
<1> SUFFICES ASSUME TInv, [Next]_vars PROVE CellsSound'
  OBVIOUS
<1>1. FlashType /\ RamType /\ HistoryType
  BY DEF TInv, TypeOK
<1>2. /\ file \in [Segments -> Seq(Cell)]
      /\ active \in Segments /\ cur \in Segments
  BY <1>1 DEF FlashType, RamType
<1>3. \A s \in Segments : Len(file[s]) \in Nat /\ file[s] \in Seq(Cell)
  BY <1>2
<1>4. CellsSound
  BY DEF TInv
<1>5. CASE UNCHANGED <<file, accepted>>
  BY <1>4, <1>5 DEF CellsSound
<1>6. CASE file' = [file EXCEPT ![cur] = <<>>] /\ accepted' = accepted
  BY <1>2, <1>4, <1>6 DEF CellsSound
<1>7. CASE RepairSegment
  <2>1. tail[cur] \in Nat /\ tail[cur] < Len(file[cur])
    BY <1>1, <1>2, <1>7 DEF RepairSegment, RamType, TInv, RepairSound
  <2>2. /\ Len(SubSeq(file[cur], 1, tail[cur])) = tail[cur]
        /\ \A i \in 1 .. tail[cur] : SubSeq(file[cur], 1, tail[cur])[i] = file[cur][i]
    BY <1>2, <1>3, <2>1
  <2>3. accepted' = accepted
    BY <1>7 DEF RepairSegment, history
  <2>4. file' = file \/ file' = [file EXCEPT ![cur] = SubSeq(file[cur], 1, tail[cur])]
    BY <1>7 DEF RepairSegment
  <2>5. CASE file' = [file EXCEPT ![cur] = SubSeq(file[cur], 1, tail[cur])]
    <3>1. \A s \in Segments : /\ Len(file'[s]) <= Len(file[s])
                               /\ Len(file'[s]) \in Nat
                               /\ \A i \in 1 .. Len(file'[s]) : file'[s][i] = file[s][i]
      BY <1>2, <1>3, <2>1, <2>2, <2>5
    <3> QED BY <1>3, <1>4, <2>3, <3>1 DEF CellsSound
  <2> QED BY <1>5, <2>3, <2>4, <2>5
<1>8. ASSUME NEW c, c.ok => c.id # 0, c.id # 0 => c.id \in accepted',
             file' = [file EXCEPT ![active] = Append(@, c)], accepted \subseteq accepted'
      PROVE  CellsSound'
  <2>1. \A s \in Segments : \A i \in 1 .. Len(file'[s]) :
           file'[s][i] = c \/ (i \in 1 .. Len(file[s]) /\ file'[s][i] = file[s][i])
    BY <1>2, <1>3, <1>8
  <2> QED BY <1>4, <1>8, <2>1 DEF CellsSound
<1>9. CASE AppendRecord
  <2>1. Torn.ok = FALSE /\ Torn.id = 0 /\ Complete(next).ok /\ Complete(next).id = next
    BY DEF Torn, Complete
  <2>2. next # 0
    BY <1>1, <1>9 DEF AppendRecord, TInv, OfferSound, HistoryType
  <2> QED BY <1>5, <1>8, <1>9, <2>1, <2>2 DEF AppendRecord
<1>10. CASE CrashInAppend
  BY <1>8, <1>10 DEF CrashInAppend, PowerLoss, Torn
<1>11. CASE Decay
  <2>1. PICK s \in Segments : \E i \in 1 .. Len(file[s]) :
            file' = [file EXCEPT ![s][i].ok = FALSE]
    BY <1>11 DEF Decay
  <2>2. PICK i \in 1 .. Len(file[s]) :
            file' = [file EXCEPT ![s][i].ok = FALSE]
    BY <2>1
  <2>3. accepted' = accepted
    BY <1>11 DEF Decay, history
  <2>4. file[s][i] \in Cell
    BY <1>3
  <2>5. [file[s][i] EXCEPT !.ok = FALSE].ok = FALSE
        /\ [file[s][i] EXCEPT !.ok = FALSE].id = file[s][i].id
    BY <2>4 DEF Cell
  <2>6. /\ file'[s] = [file[s] EXCEPT ![i] = [file[s][i] EXCEPT !.ok = FALSE]]
        /\ \A t \in Segments : t # s => file'[t] = file[t]
    BY <1>2, <2>2
  <2>7. /\ Len(file'[s]) = Len(file[s])
        /\ file'[s][i] = [file[s][i] EXCEPT !.ok = FALSE]
        /\ \A j \in 1 .. Len(file[s]) : j # i => file'[s][j] = file[s][j]
    BY <1>3, <2>6
  <2>8. SUFFICES ASSUME NEW t \in Segments, NEW j \in 1 .. Len(file'[t])
                 PROVE  /\ file'[t][j].ok => file'[t][j].id # 0
                        /\ file'[t][j].id # 0 => file'[t][j].id \in accepted'
    BY DEF CellsSound
  <2>9. j \in 1 .. Len(file[t])
    BY <2>6, <2>7, <2>8
  <2>10. /\ file[t][j].ok => file[t][j].id # 0
         /\ file[t][j].id # 0 => file[t][j].id \in accepted
    BY <1>4, <2>9 DEF CellsSound
  <2>11. CASE t = s /\ j = i
    BY <2>3, <2>5, <2>7, <2>10, <2>11
  <2>12. CASE ~(t = s /\ j = i)
    <3>1. file'[t][j] = file[t][j]
      BY <2>6, <2>7, <2>9, <2>12
    <3> QED BY <2>3, <2>10, <3>1
  <2> QED BY <2>11, <2>12
<1>12. CASE ScanReclaim \/ RotateTruncate \/ PopReclaim
  <2>1. accepted' = accepted
    BY <1>12 DEF ScanReclaim, RotateTruncate, PopReclaim, history
  <2>2. file' = file \/ file' = [file EXCEPT ![cur] = <<>>]
    BY <1>12 DEF ScanReclaim, RotateTruncate, PopReclaim, TruncateSegment
  <2> QED BY <1>5, <1>6, <2>1, <2>2
<1>13. CASE Begin \/ CreateSegment \/ ScanSegment \/ QuarantineSuffix \/ BeginSave
            \/ Enqueue \/ RotateCount \/ RotateSave
            \/ (\E d \in BOOLEAN : Pop(d)) \/ PopReclaimSave
            \/ Crash \/ MetadataLoss \/ UNCHANGED vars
  <2>1. UNCHANGED <<file, accepted>>
    BY <1>13 DEF Begin, CreateSegment, ScanSegment, QuarantineSuffix, BeginSave,
                 Enqueue, RotateCount, RotateSave, Pop, PopReclaimSave, Crash,
                 PowerLoss, MetadataLoss, vars, flash, history
  <2> QED BY <1>5, <2>1
<1> QED
  BY <1>7, <1>9, <1>10, <1>11, <1>12, <1>13
     DEF Next, BeginSteps, EnqueueSteps, PopSteps, PopIfMatches, Environment

\* A record that enqueue is writing has been offered.
LEMMA OfferSoundStep == TInv /\ [Next]_vars => OfferSound'
<1> SUFFICES ASSUME TInv, [Next]_vars PROVE OfferSound'
  OBVIOUS
<1>1. OfferSound /\ next \in Nat
  BY DEF TInv, TypeOK, HistoryType
<1>2. CASE BeginSteps
  BY <1>2 DEF BeginSteps, Begin, CreateSegment, ScanSegment, QuarantineSuffix,
              RepairSegment, ScanReclaim, BeginSave, ScanNext, OfferSound
<1>3. CASE EnqueueSteps
  BY <1>1, <1>3 DEF EnqueueSteps, Enqueue, RotateCount, RotateTruncate, RotateSave,
                    AppendRecord, OfferSound, history
<1>4. CASE PopSteps
  BY <1>1, <1>4 DEF PopSteps, PopIfMatches, Pop, PopReclaim, PopReclaimSave, OfferSound
<1>5. CASE Environment
  BY <1>1, <1>5 DEF Environment, Crash, CrashInAppend, PowerLoss, MetadataLoss,
                    Decay, ram, history, OfferSound
<1>6. CASE UNCHANGED vars
  BY <1>1, <1>6 DEF vars, ram, history, OfferSound
<1> QED BY <1>2, <1>3, <1>4, <1>5, <1>6 DEF Next

\* scanSegment: the suffix after the last valid record is in the quarantine
\* file before the segment is replaced by its valid prefix.
LEMMA RepairSoundStep == TInv /\ [Next]_vars => RepairSound'
<1> SUFFICES ASSUME TInv, [Next]_vars PROVE RepairSound'
  OBVIOUS
<1>1. FlashType /\ RamType
  BY DEF TInv, TypeOK
<1>2. /\ file \in [Segments -> Seq(Cell)] /\ cur \in Segments
      /\ quarantine \in [Segments -> Seq(0 .. MaxRecords)]
      /\ head \in [Segments -> Nat] /\ tail \in [Segments -> Nat]
      /\ count \in [Segments -> Nat]
  BY <1>1 DEF FlashType, RamType
<1>3. /\ Len(file[cur]) \in Nat /\ head[cur] \in Nat /\ tail[cur] \in Nat
      /\ file[cur] \in Seq(Cell)
  BY <1>2
<1>4. CASE pc' \notin {"quarantine", "repair", "scanReclaim"}
  BY <1>4 DEF RepairSound
<1>5. CASE UNCHANGED <<file, quarantine, head, tail, count, pc, cur>>
  <2>1. Quarantined' = Quarantined
    BY <1>5 DEF Quarantined
  <2>2. RepairSound
    BY DEF TInv
  <2> QED BY <1>5, <2>1, <2>2 DEF RepairSound
<1>6. CASE ScanSegment
  <2> DEFINE h == Lesser(head[cur], Len(file[cur]))
  <2>1. h \in Nat /\ h <= Len(file[cur])
    BY <1>3 DEF Lesser
  <2>2. PICK end \in h .. Len(file[cur]) :
          /\ \A i \in h + 1 .. end : file[cur][i].ok
          /\ head' = [head EXCEPT ![cur] = h]
          /\ tail' = [tail EXCEPT ![cur] = end]
          /\ count' = [count EXCEPT ![cur] = end - h]
          /\ CASE end < Len(file[cur]) -> pc' = "quarantine" /\ cur' = cur
               [] end = Len(file[cur]) /\ end = h -> pc' = "scanReclaim" /\ cur' = cur
               [] OTHER -> ScanNext
    BY <1>6 DEF ScanSegment
  <2> HIDE DEF h
  <2>3. file' = file
    BY <1>6 DEF ScanSegment, flash
  <2>4. head'[cur] = h /\ tail'[cur] = end /\ count'[cur] = end - h
    BY <1>2, <2>2
  <2>5. CASE end < Len(file[cur])
    <3>1. pc' = "quarantine" /\ cur' = cur
      BY <2>2, <2>5
    <3> QED BY <2>1, <2>2, <2>3, <2>4, <2>5, <3>1 DEF RepairSound
  <2>6. CASE end = Len(file[cur]) /\ end = h
    <3>1. pc' = "scanReclaim" /\ cur' = cur
      BY <1>3, <2>2, <2>6
    <3> QED BY <2>3, <2>4, <2>6, <3>1 DEF RepairSound
  <2>7. CASE end = Len(file[cur]) /\ end # h
    <3>1. ScanNext
      BY <1>3, <2>2, <2>7
    <3> QED BY <1>4, <3>1 DEF ScanNext
  <2> QED BY <1>3, <2>1, <2>5, <2>6, <2>7
<1>7. CASE QuarantineSuffix
  <2>1. CASE pc' = "unavailable"
    BY <1>4, <2>1
  <2>2. CASE pc' = "repair"
    <3>1. /\ UNCHANGED <<file, head, tail, count, cur>>
          /\ pc = "quarantine"
      BY <1>7 DEF QuarantineSuffix, metadata
    <3>2. /\ head[cur] <= tail[cur] /\ tail[cur] < Len(file[cur])
          /\ count[cur] = tail[cur] - head[cur]
          /\ \A i \in head[cur] + 1 .. tail[cur] : file[cur][i].ok
      BY <3>1 DEF TInv, RepairSound
    <3>3. \A i \in tail[cur] + 1 .. Len(file[cur]) : file[cur][i].id \in Quarantined'
      <4> DEFINE suffix == SubSeq(file[cur], tail[cur] + 1, Len(file[cur]))
                 ids == [i \in 1 .. Len(suffix) |-> suffix[i].id]
      <4>1. quarantine' = [quarantine EXCEPT ![cur] = @ \o ids]
        BY <1>7, <2>2 DEF QuarantineSuffix
      <4>2. quarantine'[cur] = quarantine[cur] \o ids
        <5> HIDE DEF ids
        <5> QED BY <1>2, <4>1
      <4>3. /\ suffix \in Seq(Cell)
            /\ Len(suffix) = Len(file[cur]) - tail[cur]
            /\ \A i \in 1 .. Len(file[cur]) - tail[cur] :
                   suffix[i] = file[cur][tail[cur] + i]
        <5>1. /\ tail[cur] + 1 \in Int /\ Len(file[cur]) \in Int
              /\ \A i \in tail[cur] + 1 .. Len(file[cur]) : file[cur][i] \in Cell
          BY <1>3
        <5>2. /\ suffix \in Seq(Cell)
              /\ Len(suffix) = IF tail[cur] + 1 <= Len(file[cur])
                               THEN Len(file[cur]) - (tail[cur] + 1) + 1 ELSE 0
              /\ \A i \in 1 .. Len(file[cur]) - (tail[cur] + 1) + 1 :
                     suffix[i] = file[cur][tail[cur] + 1 + i - 1]
          BY <5>1, SubSeqProperties
        <5> HIDE DEF suffix
        <5>3. Len(suffix) = Len(file[cur]) - tail[cur]
          BY <1>3, <3>2, <5>2
        <5>4. ASSUME NEW i \in 1 .. Len(file[cur]) - tail[cur]
              PROVE  suffix[i] = file[cur][tail[cur] + i]
          <6>1. i \in 1 .. Len(file[cur]) - (tail[cur] + 1) + 1
                /\ tail[cur] + 1 + i - 1 = tail[cur] + i
            BY <1>3
          <6> QED BY <5>2, <6>1
        <5> QED BY <5>2, <5>3, <5>4
      <4>4. ids \in Seq(0 .. MaxRecords) /\ Len(ids) = Len(suffix)
        <5> HIDE DEF suffix
        <5>1. Len(suffix) \in Nat /\ \A i \in 1 .. Len(suffix) : suffix[i] \in Cell
          BY <4>3
        <5>2. \A c \in Cell : c.id \in 0 .. MaxRecords
          BY DEF Cell
        <5> QED BY <5>1, <5>2
      <4> SUFFICES ASSUME NEW i \in tail[cur] + 1 .. Len(file[cur])
                   PROVE  file[cur][i].id \in Quarantined'
        OBVIOUS
      <4> DEFINE k == i - tail[cur]
      <4>5. k \in 1 .. Len(file[cur]) - tail[cur] /\ tail[cur] + k = i
        BY <1>3
      <4>6. k \in 1 .. Len(suffix) /\ ids[k] = file[cur][i].id
        <5> HIDE DEF suffix, k
        <5> QED BY <4>3, <4>5
      <4> HIDE DEF suffix, ids, k
      <4>7. quarantine[cur] \in Seq(0 .. MaxRecords)
        BY <1>2
      <4>8. /\ Len(quarantine[cur]) + k \in 1 .. Len(quarantine'[cur])
            /\ quarantine'[cur][Len(quarantine[cur]) + k] = ids[k]
        BY <4>2, <4>4, <4>6, <4>7
      <4> QED BY <1>2, <4>6, <4>8 DEF Quarantined
    <3> QED BY <2>2, <3>1, <3>2, <3>3 DEF RepairSound
  <2> QED BY <1>7, <2>1, <2>2 DEF QuarantineSuffix
<1>8. CASE RepairSegment
  <2>1. CASE pc' # "scanReclaim"
    BY <1>4, <1>8, <2>1 DEF RepairSegment, ScanNext
  <2>2. CASE pc' = "scanReclaim"
    <3>1. /\ cur' = cur /\ head' = head /\ count[cur] = 0 /\ pc = "repair"
          /\ file' = [file EXCEPT ![cur] = SubSeq(@, 1, tail[cur])]
      BY <1>8, <2>2 DEF RepairSegment, ScanNext
    <3>2. head[cur] = tail[cur] /\ tail[cur] < Len(file[cur])
      BY <1>3, <3>1 DEF TInv, RepairSound
    <3>3. file'[cur] = SubSeq(file[cur], 1, tail[cur])
      BY <1>2, <3>1
    <3>4. Len(file'[cur]) = tail[cur]
      BY <1>3, <3>2, <3>3
    <3> QED BY <2>2, <3>1, <3>2, <3>4 DEF RepairSound
  <2> QED BY <2>1, <2>2
<1>9. CASE Begin \/ CreateSegment \/ ScanReclaim \/ BeginSave
  BY <1>4, <1>9 DEF Begin, CreateSegment, ScanReclaim, BeginSave, ScanNext
<1>10. CASE EnqueueSteps
  BY <1>4, <1>10 DEF EnqueueSteps, Enqueue, RotateCount, RotateTruncate, RotateSave,
                     AppendRecord
<1>11. CASE PopSteps
  BY <1>4, <1>11 DEF PopSteps, PopIfMatches, Pop, PopReclaim, PopReclaimSave
<1>12. CASE Environment
  BY <1>4, <1>12 DEF Environment, Crash, CrashInAppend, PowerLoss, MetadataLoss,
                     Decay, ram
<1>13. CASE UNCHANGED vars
  BY <1>5, <1>13 DEF vars, flash, ram, metadata
<1> QED BY <1>6, <1>7, <1>8, <1>9, <1>10, <1>11, <1>12, <1>13 DEF Next, BeginSteps

LEMMA InitTInv == Init => TInv
<1> SUFFICES ASSUME Init PROVE TInv
  OBVIOUS
<1>1. TypeOK
  BY InitType
<1>2. OfferSound /\ RepairSound
  BY DEF Init, OfferSound, RepairSound
<1>3. CellsSound
  <2>1. Complete(1).ok /\ Complete(1).id = 1
    BY DEF Complete
  <2> QED BY <2>1 DEF Init, CellsSound
<1> QED BY <1>1, <1>2, <1>3 DEF TInv

LEMMA TInvStep == TInv /\ [Next]_vars => TInv'
BY RamTypeStep, FlashTypeStep, ControlTypeStep, HistoryTypeStep, CellsSoundStep,
   OfferSoundStep, RepairSoundStep
   DEF TInv, TypeOK

-----------------------------------------------------------------------------

\* Whichever calls of the filesystem fail and wherever a reset falls, every
\* operation of StoreForwardQueue keeps the files, the heads and the counters
\* in their types: no count_ below zero, no head outside of Nat, no drop
\* counter beyond its width, no pop of a record that enqueue never wrote.
THEOREM TypeCorrect == Spec => []TypeOK
<1>1. TInv => TypeOK
  BY DEF TInv
<1> QED BY <1>1, InitTInv, TInvStep, PTL DEF Spec

-----------------------------------------------------------------------------
(* Files *)

\* The queue is usable, and begin is scanning the segments.
Running == {"ready", "rotate", "rotateTruncate", "rotateSave", "append",
            "reclaim", "reclaimSave"}
Scanning == {"scan", "quarantine", "repair", "scanReclaim", "beginSave"}

\* Files that do not exist are empty, and the scan has created them when it is
\* done with them.
FilesMade ==
    /\ \A s \in Segments : s \notin made => file[s] = <<>>
    /\ pc \in Running \cup {"beginSave"} => made = Segments
    /\ pc \in Scanning => \A s \in Segments : s < cur => s \in made
    /\ pc \in {"quarantine", "repair", "scanReclaim"} => cur \in made

\* The next segment to scan, or the commit.
LEMMA ScanNextMade ==
    ASSUME TypeOK, FilesMade, ScanNext, pc \in Scanning \ {"beginSave"},
           made' \subseteq Segments, made \cup {cur} \subseteq made',
           \A s \in Segments : s \notin made' => file'[s] = <<>>
    PROVE  FilesMade'
<1>1. pc' = "scan" \/ pc' = "beginSave"
  BY DEF ScanNext
<1>2. \A s \in Segments : pc' = "beginSave" \/ s < cur' => s \in made'
  BY DEF ScanNext, Segments, FilesMade, TypeOK, RamType
<1> QED BY <1>1, <1>2 DEF FilesMade, Running, Scanning

\* Every step of begin keeps track of the files, and no other makes one.
LEMMA FilesMadeStep == TInv /\ TypeOK' /\ FilesMade /\ [Next]_vars => FilesMade'
<1> SUFFICES ASSUME TInv, TypeOK', FilesMade, [Next]_vars PROVE FilesMade'
  OBVIOUS
<1>1. TypeOK /\ made' \subseteq Segments /\ cur \in Segments /\ active \in Segments
      /\ file \in [Segments -> Seq(Cell)]
  BY DEF TInv, TypeOK, FlashType, RamType
<1>2. \A s \in Segments : s \notin made => file[s] = <<>>
  BY DEF FilesMade
<1>3. CASE Begin
  <2>1. /\ UNCHANGED <<file, made>>
        /\ pc' = "unavailable" \/ (pc' = "scan" /\ \A s \in Segments : ~(s < cur'))
    BY <1>3 DEF Begin, flash, Segments
  <2> QED BY <1>2, <2>1 DEF FilesMade, Running, Scanning
<1>4. CASE CreateSegment
  <2>1. pc = "scan" /\ UNCHANGED file /\ made \subseteq made'
        /\ (pc' = "unavailable" \/ (ScanNext /\ cur \in made'))
    BY <1>4 DEF CreateSegment
  <2>2. CASE pc' = "unavailable"
    BY <1>2, <2>1, <2>2 DEF FilesMade, Running, Scanning
  <2>3. CASE ScanNext /\ cur \in made'
    BY <1>1, <1>2, <2>1, <2>3, ScanNextMade DEF Scanning
  <2> QED BY <2>1, <2>2, <2>3
<1>5. CASE ScanSegment
  <2>1. /\ UNCHANGED <<file, made>> /\ pc = "scan" /\ cur \in made
        /\ (pc' \in {"quarantine", "scanReclaim"} /\ cur' = cur) \/ ScanNext
    BY <1>5 DEF ScanSegment, flash
  <2>2. CASE pc' \in {"quarantine", "scanReclaim"} /\ cur' = cur
    BY <2>1, <2>2 DEF FilesMade, Running, Scanning
  <2>3. CASE ScanNext
    BY <1>1, <1>2, <2>1, <2>3, ScanNextMade DEF Scanning
  <2> QED BY <2>1, <2>2, <2>3
<1>6. CASE QuarantineSuffix
  <2>1. UNCHANGED <<file, made, cur>> /\ pc = "quarantine" /\ pc' \in {"unavailable", "repair"}
    BY <1>6 DEF QuarantineSuffix
  <2> QED BY <2>1 DEF FilesMade, Running, Scanning
<1>7. CASE RepairSegment \/ ScanReclaim
  <2>1. /\ UNCHANGED made /\ pc \in {"repair", "scanReclaim"}
        /\ \/ file' = file \/ file' = [file EXCEPT ![cur] = <<>>]
           \/ file' = [file EXCEPT ![cur] = SubSeq(@, 1, tail[cur])]
        /\ pc' = "unavailable" \/ ScanNext \/ (pc' = "scanReclaim" /\ cur' = cur)
    BY <1>7 DEF RepairSegment, ScanReclaim, TruncateSegment
  <2>2. cur \in made
    BY <2>1 DEF FilesMade
  <2>3. \A s \in Segments : s \notin made' => file'[s] = <<>>
    BY <1>1, <1>2, <2>1, <2>2
  <2>4. CASE ScanNext
    BY <1>1, <2>1, <2>2, <2>3, <2>4, ScanNextMade DEF Scanning
  <2>5. CASE ~ScanNext
    BY <2>1, <2>2, <2>3, <2>5 DEF FilesMade, Running, Scanning
  <2> QED BY <2>4, <2>5
<1>8. CASE BeginSave
  <2>1. UNCHANGED <<file, made, cur>> /\ pc = "beginSave" /\ pc' \in {"unavailable", "ready"}
    BY <1>8 DEF BeginSave
  <2> QED BY <2>1 DEF FilesMade, Running, Scanning
<1>9. CASE EnqueueSteps \/ PopSteps \/ UNCHANGED vars
  <2>1. UNCHANGED made /\ ((pc \in Running /\ pc' \in Running) \/ UNCHANGED <<file, pc, cur>>)
    BY <1>9 DEF EnqueueSteps, Enqueue, RotateCount, RotateTruncate, RotateSave, AppendRecord,
                PopSteps, PopIfMatches, Pop, PopReclaim, PopReclaimSave, vars, flash, ram, Running
  <2>2. CASE UNCHANGED <<file, pc, cur>>
    BY <2>1, <2>2 DEF FilesMade
  <2>3. CASE pc \in Running /\ pc' \in Running
    BY <2>1, <2>3 DEF FilesMade, Running, Scanning
  <2> QED BY <2>1, <2>2, <2>3
<1>10. CASE Crash \/ MetadataLoss
  <2>1. UNCHANGED <<file, made>> /\ pc' = "off"
    BY <1>10 DEF Crash, PowerLoss, MetadataLoss, ram
  <2> QED BY <2>1 DEF FilesMade, Running, Scanning
<1>11. CASE CrashInAppend
  <2>1. pc = "append" /\ pc' = "off" /\ UNCHANGED made
    BY <1>11 DEF CrashInAppend, PowerLoss
  <2> QED BY <2>1 DEF FilesMade, Running, Scanning
<1>12. CASE Decay
  <2>1. PICK s \in Segments : \E i \in 1 .. Len(file[s]) : file' = [file EXCEPT ![s][i].ok = FALSE]
    BY <1>12 DEF Decay
  <2>2. PICK i \in 1 .. Len(file[s]) : file' = [file EXCEPT ![s][i].ok = FALSE]
    BY <2>1
  <2>3. file[s] # <<>> /\ \A t \in Segments : t # s => file'[t] = file[t]
    BY <1>1, <2>2
  <2>4. UNCHANGED <<made, pc, cur>>
    BY <1>12 DEF Decay, ram
  <2> QED BY <2>3, <2>4 DEF FilesMade
<1> QED BY <1>3, <1>4, <1>5, <1>6, <1>7, <1>8, <1>9, <1>10, <1>11, <1>12
        DEF Next, BeginSteps, Environment

\* Initially the files are there or not.
LEMMA InitFilesMade == Init => FilesMade
BY DEF Init, FilesMade, Running, Scanning, Segments

-----------------------------------------------------------------------------
(* Replay *)

\* A step leaves a cell where it is, removes it, or writes one at the end of
\* the active segment: torn bytes, or the record that enqueue was offered.
CellsKept ==
    \A s \in Segments : \A i \in 1 .. Len(file'[s]) :
        \/ i \in 1 .. Len(file[s]) /\ file'[s][i].id = file[s][i].id
        \/ file'[s][i].id = 0
        \/ /\ pc = "append" /\ s = active
           /\ file'[s][i].id = next /\ i = Len(file[s]) + 1

LEMMA CellsKeptStep == TInv /\ [Next]_vars => CellsKept
<1> SUFFICES ASSUME TInv, [Next]_vars PROVE CellsKept
  OBVIOUS
<1>1. FlashType /\ RamType /\ HistoryType
  BY DEF TInv, TypeOK
<1>2. /\ file \in [Segments -> Seq(Cell)]
      /\ active \in Segments /\ cur \in Segments
  BY <1>1 DEF FlashType, RamType
<1>3. \A s \in Segments : Len(file[s]) \in Nat /\ file[s] \in Seq(Cell)
  BY <1>2
<1>4. CASE UNCHANGED file
  BY <1>4 DEF CellsKept
<1>5. CASE file' = [file EXCEPT ![cur] = <<>>]
  BY <1>2, <1>5 DEF CellsKept
<1>6. CASE pc = "repair" /\ file' = [file EXCEPT ![cur] = SubSeq(file[cur], 1, tail[cur])]
  <2>1. tail[cur] \in Nat /\ tail[cur] < Len(file[cur])
    BY <1>1, <1>2, <1>6 DEF RamType, TInv, RepairSound
  <2>2. /\ Len(SubSeq(file[cur], 1, tail[cur])) = tail[cur]
        /\ \A i \in 1 .. tail[cur] : SubSeq(file[cur], 1, tail[cur])[i] = file[cur][i]
    BY <1>2, <1>3, <2>1
  <2>3. \A s \in Segments : /\ Len(file'[s]) <= Len(file[s])
                             /\ Len(file'[s]) \in Nat
                             /\ \A i \in 1 .. Len(file'[s]) : file'[s][i] = file[s][i]
    BY <1>2, <1>3, <1>6, <2>1, <2>2
  <2> QED BY <1>3, <2>3 DEF CellsKept
<1>7. ASSUME NEW c, pc = "append", c.id \in {0, next},
             file' = [file EXCEPT ![active] = Append(@, c)]
      PROVE  CellsKept
  <2>1. \A s \in Segments : \A i \in 1 .. Len(file'[s]) :
           \/ i \in 1 .. Len(file[s]) /\ file'[s][i] = file[s][i]
           \/ s = active /\ file'[s][i] = c /\ i = Len(file[s]) + 1
    BY <1>2, <1>3, <1>7
  <2> QED BY <1>7, <2>1 DEF CellsKept
<1>8. CASE AppendRecord \/ CrashInAppend
  <2>1. Torn.id = 0 /\ Complete(next).id = next
    BY DEF Torn, Complete
  <2> QED BY <1>4, <1>7, <1>8, <2>1 DEF AppendRecord, CrashInAppend
<1>9. CASE Decay
  <2>1. PICK s \in Segments : \E i \in 1 .. Len(file[s]) :
            file' = [file EXCEPT ![s][i].ok = FALSE]
    BY <1>9 DEF Decay
  <2>2. PICK i \in 1 .. Len(file[s]) :
            file' = [file EXCEPT ![s][i].ok = FALSE]
    BY <2>1
  <2>3. file[s][i] \in Cell
    BY <1>3
  <2>4. [file[s][i] EXCEPT !.ok = FALSE].id = file[s][i].id
    BY <2>3 DEF Cell
  <2>5. /\ file'[s] = [file[s] EXCEPT ![i] = [file[s][i] EXCEPT !.ok = FALSE]]
        /\ \A t \in Segments : t # s => file'[t] = file[t]
    BY <1>2, <2>2
  <2>6. /\ Len(file'[s]) = Len(file[s])
        /\ file'[s][i] = [file[s][i] EXCEPT !.ok = FALSE]
        /\ \A j \in 1 .. Len(file[s]) : j # i => file'[s][j] = file[s][j]
    BY <1>3, <2>5
  <2> QED BY <2>4, <2>5, <2>6 DEF CellsKept
<1>10. /\ file' = file \/ file' = [file EXCEPT ![cur] = <<>>]
          \/ (pc = "repair" /\ file' = [file EXCEPT ![cur] = SubSeq(file[cur], 1, tail[cur])])
       \/ AppendRecord \/ CrashInAppend \/ Decay
  BY DEF Next, BeginSteps, Begin, CreateSegment, ScanSegment, QuarantineSuffix,
         RepairSegment, ScanReclaim, BeginSave, EnqueueSteps, Enqueue, RotateCount,
         RotateTruncate, RotateSave, PopSteps, PopIfMatches, Pop, PopReclaim,
         PopReclaimSave, Environment, Crash, PowerLoss, MetadataLoss, TruncateSegment,
         vars, flash
<1> QED BY <1>4, <1>5, <1>6, <1>8, <1>9, <1>10

\* Each record is in one place.
Distinct ==
    \A s, t \in Segments : \A i \in 1 .. Len(file[s]), j \in 1 .. Len(file[t]) :
        file[s][i].id = file[t][j].id /\ file[s][i].id # 0 => s = t /\ i = j

\* The popped records lie before the replay heads h.
HeadsPast(h) ==
    \A s \in Segments : \A i \in 1 .. Len(file[s]) :
        file[s][i].id \in resolved => i <= h[s]

\* No heads were forgotten: drops are known, or flash does not lose metadata.
Remembered(unknown) == unknown = 0 \/ "metadataLoss" \notin Faults

\* A record is offered once, stored in one place and, once popped, before the
\* heads in RAM and on flash, as long as these were not forgotten.
ReplaySound ==
    /\ pc \in {"rotate", "rotateTruncate", "rotateSave", "append"} => next \notin accepted
    /\ metadataFile.format = "v1" => metadataFile.reserved = 0
    /\ metadataFile.format = "none" => resolved = {}
    /\ metadataFile.format = "bad" => "metadataLoss" \in Faults
    /\ Distinct
    /\ HasMetadata /\ Remembered(metadataFile.reserved) => HeadsPast(metadataFile.head)
    /\ pc \in Running \cup Scanning /\ Remembered(reserved) => HeadsPast(head)

\* A new record differs from the stored ones, and the others stay.
LEMMA DistinctStep ==
    ASSUME TInv, ReplaySound, CellsKept
    PROVE  Distinct'
<1>1. /\ \A s \in Segments : \A i \in 1 .. Len(file[s]) :
            file[s][i].id # 0 => file[s][i].id \in accepted
      /\ pc = "append" => next \notin accepted
  BY DEF TInv, CellsSound, ReplaySound
<1> SUFFICES ASSUME NEW s \in Segments, NEW t \in Segments,
                    NEW i \in 1 .. Len(file'[s]), NEW j \in 1 .. Len(file'[t]),
                    file'[s][i].id = file'[t][j].id, file'[s][i].id # 0
             PROVE  s = t /\ i = j
  BY DEF Distinct
<1>2. CASE /\ i \in 1 .. Len(file[s]) /\ file'[s][i].id = file[s][i].id
           /\ j \in 1 .. Len(file[t]) /\ file'[t][j].id = file[t][j].id
  <2>1. file[s][i].id = file[t][j].id /\ file[s][i].id # 0
    BY <1>2
  <2>2. Distinct
    BY DEF ReplaySound
  <2> QED BY <1>2, <2>1, <2>2 DEF Distinct
<1> QED BY <1>1, <1>2 DEF CellsKept

\* What was before the heads stays there, unless a pop takes a further record.
LEMMA HeadsPastKept ==
    ASSUME TInv, ReplaySound, CellsKept, resolved' = resolved, NEW h, HeadsPast(h)
    PROVE  \A s \in Segments : \A i \in 1 .. Len(file'[s]) :
               file'[s][i].id \in resolved => i <= h[s] /\ i \in 1 .. Len(file[s])
<1>1. 0 \notin resolved /\ resolved \subseteq accepted
  BY DEF TInv, TypeOK, HistoryType
<1>2. pc = "append" => next \notin accepted
  BY DEF ReplaySound
<1> QED BY <1>1, <1>2 DEF CellsKept, HeadsPast

\* The heads in RAM do not move back over a cell.
HeadsKept ==
    /\ pc \in Running \cup Scanning
    /\ UNCHANGED <<reserved, resolved>>
    /\ \A s \in Segments : head'[s] # head[s] =>
          \/ file'[s] = <<>>
          \/ head'[s] = Lesser(head[s], Len(file[s]))

LEMMA HeadsKeptPast ==
    ASSUME TInv, ReplaySound, CellsKept, HeadsKept, Remembered(reserved')
    PROVE  HeadsPast(head)'
<1>1. HeadsPast(head) /\ resolved' = resolved
  BY DEF ReplaySound, HeadsKept
<1>2. \A s \in Segments : head[s] \in Nat /\ Len(file[s]) \in Nat
  BY DEF TInv, TypeOK, RamType, FlashType
<1> SUFFICES ASSUME NEW s \in Segments, NEW i \in 1 .. Len(file'[s]), file'[s][i].id \in resolved
             PROVE  i <= head'[s]
  BY <1>1 DEF HeadsPast
<1>3. i <= head[s] /\ i \in 1 .. Len(file[s])
  BY <1>1, HeadsPastKept
<1>4. file'[s] # <<>>
  OBVIOUS
<1> QED BY <1>2, <1>3, <1>4 DEF HeadsKept, Lesser

\* begin starts from the heads on flash, or declares earlier drops unknown.
LEMMA BeginPast ==
    ASSUME TInv, FilesMade, ReplaySound, Begin, Remembered(reserved'), pc' # "unavailable"
    PROVE  HeadsPast(head)'
<1>1. LoadMetadata /\ UNCHANGED <<file, resolved>>
  BY DEF Begin, flash, history
<1>2. CASE HasMetadata
  <2>1. head' = metadataFile.head /\ Remembered(metadataFile.reserved)
    BY <1>1, <1>2 DEF LoadMetadata, HasMetadata, Remembered, ReplaySound
  <2> QED BY <1>1, <1>2, <2>1 DEF ReplaySound, HeadsPast
<1>3. CASE ~HasMetadata /\ "metadataLoss" \notin Faults
  <2>1. metadataFile.format = "none"
    BY <1>3 DEF HasMetadata, ReplaySound, TInv, TypeOK, FlashType, MetadataFile
  <2> QED BY <1>1, <2>1 DEF ReplaySound, HeadsPast
<1>4. CASE ~HasMetadata /\ reserved' = 0
  <2>0. ~AnyQueueFile
    <3>1. reserved' = IF AnyQueueFile THEN 1 ELSE 0
      BY <1>1, <1>4 DEF LoadMetadata
    <3> QED BY <1>4, <3>1
  <2>1. made = {}
    BY <2>0 DEF AnyQueueFile
  <2>2. \A s \in Segments : file'[s] = <<>>
    BY <1>1, <2>1 DEF FilesMade
  <2> QED BY <2>2 DEF HeadsPast
<1> QED BY <1>2, <1>3, <1>4 DEF Remembered

\* pop moves the head over the record that it resolves, and that record is
\* nowhere else.
LEMMA PopPast ==
    ASSUME TInv, ReplaySound, NEW d \in BOOLEAN, Pop(d), Remembered(reserved')
    PROVE  HeadsPast(head)'
<1>1. /\ pc \in Running /\ UNCHANGED <<file, reserved>>
      /\ HeadReadable(oldestSegment)
      /\ \/ /\ head' = [head EXCEPT ![oldestSegment] = @ + 1]
            /\ resolved' = resolved \cup {HeadRecord(oldestSegment)}
         \/ UNCHANGED <<head, resolved>>
  BY DEF Pop, Running
<1>2. HeadsPast(head)
  BY <1>1 DEF ReplaySound
<1>3. CASE UNCHANGED <<head, resolved>>
  BY <1>1, <1>2, <1>3 DEF HeadsPast
<1>4. CASE /\ head' = [head EXCEPT ![oldestSegment] = @ + 1]
           /\ resolved' = resolved \cup {HeadRecord(oldestSegment)}
  <2>1. oldestSegment \in Segments
    BY DEF oldestSegment, Other, Segments, TInv, TypeOK, RamType
  <2> DEFINE o == oldestSegment
  <2>2. head \in [Segments -> Nat] /\ Len(file[o]) \in Nat
    BY <2>1 DEF TInv, TypeOK, RamType, FlashType
  <2> HIDE DEF o
  <2>3. /\ o \in Segments /\ head[o] + 1 \in 1 .. Len(file[o])
        /\ file[o][head[o] + 1].ok
        /\ resolved' = resolved \cup {file[o][head[o] + 1].id}
        /\ head' = [head EXCEPT ![o] = head[o] + 1]
    BY <1>1, <1>4, <2>1, <2>2 DEF HeadReadable, HeadRecord, o
  <2>4. file[o][head[o] + 1].id # 0
    BY <2>3 DEF TInv, CellsSound
  <2>5. \A s \in Segments : head'[s] \in Nat /\ head'[s] >= head[s]
    BY <2>2, <2>3
  <2>6. head'[o] = head[o] + 1
    BY <2>2, <2>3
  <2> SUFFICES ASSUME NEW s \in Segments, NEW i \in 1 .. Len(file[s]), file[s][i].id \in resolved'
               PROVE  i <= head'[s]
    BY <1>1 DEF HeadsPast
  <2>7. CASE file[s][i].id \in resolved
    BY <1>2, <2>2, <2>5, <2>7 DEF HeadsPast
  <2>8. CASE file[s][i].id = file[o][head[o] + 1].id
    <3>1. s = o /\ i = head[o] + 1
      BY <2>3, <2>4, <2>8 DEF ReplaySound, Distinct
    <3> QED BY <2>2, <2>6, <3>1
  <2> QED BY <2>3, <2>7, <2>8
<1> QED BY <1>1, <1>3, <1>4

\* A record is taken from the caller before it is written.
LEMMA FreshStep ==
    ASSUME TInv, ReplaySound, [Next]_vars
    PROVE  pc' \in {"rotate", "rotateTruncate", "rotateSave", "append"} => next' \notin accepted'
<1> DEFINE offering == {"rotate", "rotateTruncate", "rotateSave", "append"}
<1> SUFFICES ASSUME pc' \in offering PROVE next' \notin accepted'
  OBVIOUS
<1>1. next \in Nat /\ accepted \subseteq 1 .. next
  BY DEF TInv, TypeOK, HistoryType
<1>2. \/ next' = next + 1 /\ accepted' = accepted
      \/ pc \in offering /\ UNCHANGED <<next, accepted>>
  BY DEF Next, BeginSteps, Begin, CreateSegment, ScanSegment, QuarantineSuffix,
         RepairSegment, ScanReclaim, BeginSave, ScanNext, EnqueueSteps, Enqueue, RotateCount,
         RotateTruncate, RotateSave, AppendRecord, PopSteps, PopIfMatches, Pop, PopReclaim,
         PopReclaimSave, Environment, Crash, CrashInAppend, PowerLoss, MetadataLoss, Decay,
         vars, ram, history
<1> QED BY <1>1, <1>2 DEF ReplaySound

\* RAM: every step but begin's first and a pop keeps the heads, or ends the
\* operation of the queue.
LEMMA HeadsStep ==
    ASSUME TInv, FilesMade, ReplaySound, [Next]_vars, CellsKept,
           pc' \in Running \cup Scanning, Remembered(reserved')
    PROVE  HeadsPast(head)'
<1>1. head \in [Segments -> Nat] /\ cur \in Segments /\ file \in [Segments -> Seq(Cell)]
  BY DEF TInv, TypeOK, RamType, FlashType
<1>2. CASE Begin
  BY <1>2, BeginPast DEF Running, Scanning
<1>3. CASE \E d \in BOOLEAN : Pop(d)
  BY <1>3, PopPast
<1>4. CASE CreateSegment
  <2>1. /\ pc = "scan" /\ cur \notin made /\ UNCHANGED <<reserved, resolved, file>>
        /\ head' = head \/ head' = [head EXCEPT ![cur] = 0]
    BY <1>4 DEF CreateSegment, history, metadata
  <2>2. file[cur] = <<>>
    BY <1>1, <2>1 DEF FilesMade
  <2>3. HeadsKept
    BY <1>1, <2>1, <2>2 DEF HeadsKept, Scanning
  <2> QED BY <2>3, HeadsKeptPast
<1>5. CASE ScanSegment
  <2>1. /\ pc = "scan" /\ UNCHANGED <<reserved, resolved>>
        /\ head' = [head EXCEPT ![cur] = Lesser(head[cur], Len(file[cur]))]
    BY <1>5 DEF ScanSegment, history
  <2>2. HeadsKept
    BY <1>1, <2>1 DEF HeadsKept, Scanning
  <2> QED BY <2>2, HeadsKeptPast
<1>6. CASE ScanReclaim \/ RotateTruncate \/ PopReclaim
  <2>1. /\ pc \in Running \cup Scanning /\ UNCHANGED <<reserved, resolved>>
        /\ \/ head' = head
           \/ /\ head' = [head EXCEPT ![cur] = 0]
              /\ file' = [file EXCEPT ![cur] = <<>>]
    BY <1>6 DEF ScanReclaim, RotateTruncate, PopReclaim, TruncateSegment, Running, Scanning, history
  <2>2. HeadsKept
    BY <1>1, <2>1 DEF HeadsKept
  <2> QED BY <2>2, HeadsKeptPast
<1>7. CASE \/ QuarantineSuffix \/ RepairSegment \/ BeginSave \/ Enqueue \/ RotateCount
           \/ RotateSave \/ AppendRecord \/ PopReclaimSave \/ Decay \/ UNCHANGED vars
  <2>1. pc \in Running \cup Scanning /\ UNCHANGED <<reserved, resolved, head>>
    BY <1>7 DEF QuarantineSuffix, RepairSegment, BeginSave, Enqueue, RotateCount, RotateSave,
                AppendRecord, PopReclaimSave, Decay, vars, ram, metadata, history, Running, Scanning
  <2>2. HeadsKept
    BY <2>1 DEF HeadsKept
  <2> QED BY <2>2, HeadsKeptPast
<1>8. CASE Crash \/ CrashInAppend \/ MetadataLoss
  BY <1>8 DEF Crash, CrashInAppend, PowerLoss, MetadataLoss, ram, Running, Scanning
<1> QED BY <1>2, <1>3, <1>4, <1>5, <1>6, <1>7, <1>8
        DEF Next, BeginSteps, EnqueueSteps, PopSteps, PopIfMatches, Environment

\* /sfq.meta: it is left alone, it is lost, or what is in RAM is committed.
LEMMA CommitStep ==
    ASSUME TInv, [Next]_vars
    PROVE  \/ UNCHANGED <<metadataFile, resolved>>
           \/ metadataFile'.format = "bad" /\ "metadataLoss" \in Faults
           \/ SaveMetadata /\ pc' \in Running
<1>1. CASE BeginSteps
  BY <1>1 DEF BeginSteps, Begin, CreateSegment, ScanSegment, QuarantineSuffix,
              RepairSegment, ScanReclaim, BeginSave, Running, flash, history
<1>2. CASE EnqueueSteps
  BY <1>2 DEF EnqueueSteps, Enqueue, RotateCount, RotateTruncate, RotateSave, AppendRecord,
              Running, flash, history
<1>3. CASE PopSteps
  BY <1>3 DEF PopSteps, PopIfMatches, Pop, PopReclaim, PopReclaimSave, Running, history
<1>4. CASE Environment
  <2>1. CASE MetadataLoss
    <3>1. metadataFile'.format = "bad"
      BY <2>1 DEF MetadataLoss, TInv, TypeOK, FlashType, MetadataFile
    <3> QED BY <2>1, <3>1 DEF MetadataLoss
  <2> QED BY <1>4, <2>1 DEF Environment, Crash, CrashInAppend, PowerLoss, Decay, history
<1>5. CASE UNCHANGED vars
  BY <1>5 DEF vars, flash, history
<1> QED BY <1>1, <1>2, <1>3, <1>4, <1>5 DEF Next

LEMMA ReplayStep == TInv /\ FilesMade /\ ReplaySound /\ [Next]_vars => ReplaySound'
<1> SUFFICES ASSUME TInv, FilesMade, ReplaySound, [Next]_vars PROVE ReplaySound'
  OBVIOUS
<1>1. CellsKept
  BY CellsKeptStep
<1>2. Distinct'
  BY <1>1, DistinctStep
<1>3. (pc \in Running \cup Scanning /\ Remembered(reserved) => HeadsPast(head))'
  BY <1>1, HeadsStep DEF Remembered
<1>4. /\ (metadataFile.format = "v1" => metadataFile.reserved = 0)'
      /\ (metadataFile.format = "none" => resolved = {})'
      /\ (metadataFile.format = "bad" => "metadataLoss" \in Faults)'
  BY CommitStep DEF ReplaySound, SaveMetadata
<1>5. (HasMetadata /\ Remembered(metadataFile.reserved) => HeadsPast(metadataFile.head))'
  <2> SUFFICES ASSUME HasMetadata', Remembered(metadataFile'.reserved)
               PROVE  HeadsPast(metadataFile.head)'
    BY DEF Remembered
  <2>1. CASE UNCHANGED <<metadataFile, resolved>>
    <3>1. HeadsPast(metadataFile.head)
      BY <2>1 DEF ReplaySound, Remembered, HasMetadata
    <3>2. \A s \in Segments : \A i \in 1 .. Len(file'[s]) :
             file'[s][i].id \in resolved => i <= metadataFile.head[s]
      BY <1>1, <2>1, <3>1, HeadsPastKept
    <3> QED BY <2>1, <3>2 DEF HeadsPast
  <2>2. CASE SaveMetadata /\ pc' \in Running
    <3>1. metadataFile'.head = head' /\ Remembered(reserved')
      BY <2>2 DEF SaveMetadata
    <3> QED BY <1>3, <2>2, <3>1 DEF HeadsPast, Remembered
  <2> QED BY <2>1, <2>2, CommitStep DEF HasMetadata
<1> QED BY <1>2, <1>3, <1>4, <1>5, FreshStep DEF ReplaySound

LEMMA InitReplay == Init => ReplaySound
<1> SUFFICES ASSUME Init PROVE ReplaySound
  OBVIOUS
<1>1. /\ pc = "off" /\ metadataFile.reserved = 0 /\ metadataFile.format # "bad"
      /\ metadataFile.format = "none" => resolved = {}
  BY DEF Init, FileOf
<1>2. CASE \A s \in Segments : file[s] = <<>>
  BY <1>1, <1>2 DEF ReplaySound, Distinct, HeadsPast, Running, Scanning
<1>3. CASE /\ file = [s \in Segments |-> IF s = 0 THEN <<Complete(1)>> ELSE <<>>]
           /\ \/ resolved = {}
              \/ metadataFile = FileOf("v1", [Zero EXCEPT ![0] = 1])
  <2>1. \A s \in Segments : \A i \in 1 .. Len(file[s]) : s = 0 /\ i = 1
    BY <1>3
  <2>2. Distinct
    BY <2>1 DEF Distinct
  <2>3. HeadsPast(metadataFile.head)
    <3>1. CASE resolved = {}
      BY <3>1 DEF HeadsPast
    <3>2. CASE metadataFile = FileOf("v1", [Zero EXCEPT ![0] = 1])
      <4>1. metadataFile.head[0] = 1
        BY <3>2 DEF FileOf, Zero, Segments
      <4> QED BY <2>1, <4>1 DEF HeadsPast
    <3> QED BY <1>3, <3>1, <3>2
  <2> QED BY <1>1, <2>2, <2>3 DEF ReplaySound, Running, Scanning
<1> QED BY <1>2, <1>3 DEF Init

\* A pop that pop() committed to /sfq.meta is never undone: whichever calls of
\* the filesystem fail, whichever record decays and wherever a reset falls in a
\* rotation, a reclaim or a repair, begin() replays no resolved record, unless
\* the metadata were lost and drops are declared unknown.
THEOREM NoReplayAfterCommit == Spec => []CommittedNotReplayed
<1>1. TInv /\ ReplaySound => CommittedNotReplayed
  <2> SUFFICES ASSUME TInv, ReplaySound, DropsKnown, NEW r \in resolved, r \in InSegments
               PROVE  FALSE
    BY DEF CommittedNotReplayed
  <2>1. PICK s \in Segments : r \in IdsAfter(s, DurableHead(s))
    BY DEF InSegments
  <2>2. PICK i \in DurableHead(s) + 1 .. Len(file[s]) : file[s][i].id = r
    BY <2>1 DEF IdsAfter
  <2>3. metadataFile.head[s] \in Nat /\ Len(file[s]) \in Nat
    BY DEF TInv, TypeOK, FlashType, MetadataFile
  <2>4. DurableHead(s) = Lesser(metadataFile.head[s], Len(file[s]))
    BY DEF DropsKnown, DurableHead
  <2>5. i \in 1 .. Len(file[s]) /\ i > metadataFile.head[s]
    BY <2>2, <2>3, <2>4 DEF Lesser
  <2> QED BY <2>2, <2>3, <2>5 DEF DropsKnown, Remembered, ReplaySound, HeadsPast
<1>2. Spec => [](TInv /\ FilesMade /\ ReplaySound)
  <2>1. TInv' => TypeOK'
    BY DEF TInv
  <2> QED BY <2>1, InitTInv, InitFilesMade, InitReplay, TInvStep, FilesMadeStep, ReplayStep, PTL
          DEF Spec
<1> QED BY <1>1, <1>2, PTL

-----------------------------------------------------------------------------
(* Evidence of repairs *)

Evidence == Len(quarantine[0]) + Len(quarantine[1])

\* RAM and flash count what the quarantine files hold at most, also what a
\* repair is about to count.
EvidenceSound ==
    /\ QuarantineNotOverstated
    /\ pc \in Running \cup Scanning =>
          quarantinedBytes <= Evidence /\ corruptionEvents <= Evidence
    /\ pc = "repair" =>
          /\ quarantinedBytes + Len(file[cur]) - tail[cur] <= Evidence
          /\ corruptionEvents + 1 <= Evidence

LEMMA EvidenceType == TypeOK => Evidence \in Nat
BY DEF TypeOK, FlashType, Evidence, Segments

\* Nothing is counted and nothing removed from the evidence.
LEMMA EvidenceKept ==
    ASSUME EvidenceSound,
           UNCHANGED <<quarantine, metadataFile, quarantinedBytes, corruptionEvents>>,
           pc' # "repair",
           pc' \in Running \cup Scanning => pc \in Running \cup Scanning
    PROVE  EvidenceSound'
BY DEF EvidenceSound, QuarantineNotOverstated, Evidence

\* A commit of the counters in RAM.
LEMMA EvidenceSaved ==
    ASSUME EvidenceSound, SaveMetadata, pc \in Running \cup Scanning, pc' # "repair",
           UNCHANGED <<quarantine, quarantinedBytes, corruptionEvents>>
    PROVE  EvidenceSound'
BY DEF EvidenceSound, QuarantineNotOverstated, Evidence, SaveMetadata

\* begin without metadata counts the quarantine files, each with a record.
LEMMA FilesAreEvidence ==
    TypeOK => /\ Cardinality(QuarantineFiles) \in Nat
              /\ Cardinality(QuarantineFiles) <= Evidence
<1> SUFFICES ASSUME TypeOK
             PROVE  Cardinality(QuarantineFiles) \in Nat /\ Cardinality(QuarantineFiles) <= Evidence
  OBVIOUS
<1>1. /\ quarantine[0] \in Seq(0 .. MaxRecords) /\ quarantine[1] \in Seq(0 .. MaxRecords)
  BY DEF TypeOK, FlashType, Segments
<1>2. /\ Len(quarantine[0]) \in Nat /\ Len(quarantine[1]) \in Nat
      /\ quarantine[0] # <<>> => Len(quarantine[0]) >= 1
      /\ quarantine[1] # <<>> => Len(quarantine[1]) >= 1
  BY <1>1
<1>9. /\ Evidence \in Nat
      /\ quarantine[0] # <<>> => Evidence >= 1
      /\ quarantine[1] # <<>> => Evidence >= 1
      /\ quarantine[0] # <<>> /\ quarantine[1] # <<>> => Evidence >= 2
  <2>1. PICK a \in Nat, b \in Nat : a = Len(quarantine[0]) /\ b = Len(quarantine[1])
    BY <1>2
  <2>2. Evidence = a + b /\ (quarantine[0] # <<>> => a >= 1) /\ (quarantine[1] # <<>> => b >= 1)
    BY <1>2, <2>1 DEF Evidence
  <2> QED BY <2>2
<1>3. QuarantineFiles = {s \in {0, 1} : quarantine[s] # <<>>}
  BY DEF QuarantineFiles, Segments
<1>4. /\ Cardinality({}) = 0 /\ Cardinality({0}) = 1 /\ Cardinality({1}) = 1
      /\ Cardinality({0, 1}) = 2
  <2>1. Cardinality({0}) = 1 /\ Cardinality({1}) = 1 /\ Cardinality({}) = 0 /\ IsFiniteSet({0})
    BY FS_Singleton, FS_EmptySet
  <2>2. Cardinality({0} \cup {1}) = Cardinality({0}) + 1
    BY <2>1, FS_AddElement
  <2>3. {0} \cup {1} = {0, 1}
    OBVIOUS
  <2> QED BY <2>1, <2>2, <2>3
<1>5. CASE quarantine[0] = <<>> /\ quarantine[1] = <<>>
  <2>1. QuarantineFiles = {}
    BY <1>3, <1>5
  <2> QED BY <1>4, <1>9, <2>1
<1>6. CASE quarantine[0] # <<>> /\ quarantine[1] = <<>>
  <2>1. QuarantineFiles = {0}
    BY <1>3, <1>6
  <2> QED BY <1>4, <1>6, <1>9, <2>1
<1>7. CASE quarantine[0] = <<>> /\ quarantine[1] # <<>>
  <2>1. QuarantineFiles = {1}
    BY <1>3, <1>7
  <2> QED BY <1>4, <1>7, <1>9, <2>1
<1>8. CASE quarantine[0] # <<>> /\ quarantine[1] # <<>>
  <2>1. QuarantineFiles = {0, 1}
    BY <1>3, <1>8
  <2> QED BY <1>4, <1>8, <1>9, <2>1
<1> QED BY <1>5, <1>6, <1>7, <1>8

\* The segment under repair
LEMMA UnderRepair ==
    ASSUME TInv, pc \in {"quarantine", "repair"}
    PROVE  /\ tail[cur] \in Nat /\ Len(file[cur]) \in Nat /\ tail[cur] < Len(file[cur])
           /\ file[cur] \in Seq(Cell) /\ cur \in Segments
           /\ quarantine \in [Segments -> Seq(0 .. MaxRecords)]
<1>1. /\ tail \in [Segments -> Nat] /\ cur \in Segments
      /\ file \in [Segments -> Seq(Cell)]
      /\ quarantine \in [Segments -> Seq(0 .. MaxRecords)]
  BY DEF TInv, TypeOK, FlashType, RamType
<1>2. tail[cur] < Len(file[cur])
  BY DEF TInv, RepairSound
<1> QED BY <1>1, <1>2

\* The copy is made before it is counted.
LEMMA EvidenceCopied ==
    ASSUME TInv, TypeOK', EvidenceSound, QuarantineSuffix
    PROVE  EvidenceSound'
<1>1. pc = "quarantine" /\ pc' \in {"unavailable", "repair"}
      /\ UNCHANGED <<file, metadataFile, quarantinedBytes, corruptionEvents, tail, cur>>
  BY DEF QuarantineSuffix, metadata
<1>2. /\ tail[cur] \in Nat /\ Len(file[cur]) \in Nat /\ tail[cur] < Len(file[cur])
      /\ file[cur] \in Seq(Cell) /\ cur \in Segments
  BY <1>1, UnderRepair
<1> DEFINE suffix == SubSeq(file[cur], tail[cur] + 1, Len(file[cur]))
           ids == [i \in 1 .. Len(suffix) |-> suffix[i].id]
<1>3. quarantine' = quarantine \/ quarantine' = [quarantine EXCEPT ![cur] = @ \o ids]
  BY DEF QuarantineSuffix
<1>4. pc' = "repair" => quarantine' = [quarantine EXCEPT ![cur] = @ \o ids]
  BY DEF QuarantineSuffix
<1>5. Len(suffix) = Len(file[cur]) - tail[cur]
  <2>1. \A i \in tail[cur] + 1 .. Len(file[cur]) : file[cur][i] \in Cell
    BY <1>2
  <2>2. Len(suffix) = IF tail[cur] + 1 <= Len(file[cur])
                      THEN Len(file[cur]) - (tail[cur] + 1) + 1 ELSE 0
    BY <1>2, <2>1, SubSeqProperties
  <2> QED BY <1>2, <2>2
<1>6. \A i \in 1 .. Len(suffix) : suffix[i].id \in 0 .. MaxRecords
  <2>1. \A i \in tail[cur] + 1 .. Len(file[cur]) : file[cur][i] \in Cell
    BY <1>2
  <2>2. suffix \in Seq(Cell)
    BY <1>2, <2>1, SubSeqProperties
  <2>3. \A i \in 1 .. Len(suffix) : suffix[i] \in Cell
    BY <2>2
  <2> QED BY <2>3 DEF Cell
<1> HIDE DEF suffix
<1>7. ids \in Seq(0 .. MaxRecords) /\ Len(ids) = Len(file[cur]) - tail[cur]
  <2>1. Len(suffix) \in Nat
    BY <1>2, <1>5
  <2>2. ids \in Seq(0 .. MaxRecords)
    BY <1>6, <2>1
  <2>3. Len(ids) = Len(suffix)
    BY <2>1
  <2> QED BY <1>5, <2>2, <2>3
<1> HIDE DEF ids
<1>8. /\ quarantine \in [Segments -> Seq(0 .. MaxRecords)]
      /\ quarantine[0] \in Seq(0 .. MaxRecords) /\ quarantine[1] \in Seq(0 .. MaxRecords)
  BY DEF TInv, TypeOK, FlashType, Segments
<1>9. CASE quarantine' = quarantine /\ pc' # "repair"
  BY <1>1, <1>9, EvidenceKept DEF Scanning
<1>10. CASE quarantine' = [quarantine EXCEPT ![cur] = @ \o ids]
  <2>1. Evidence' = Evidence + Len(file[cur]) - tail[cur]
    <3>1. CASE cur = 0
      <4>1. quarantine'[0] = quarantine[0] \o ids /\ quarantine'[1] = quarantine[1]
        BY <1>8, <1>10, <3>1 DEF Segments
      <4>2. Len(quarantine'[0]) = Len(quarantine[0]) + Len(ids)
        BY <1>7, <1>8, <4>1, ConcatProperties
      <4>3. /\ Evidence = Len(quarantine[0]) + Len(quarantine[1])
            /\ Evidence' = Len(quarantine'[0]) + Len(quarantine'[1])
            /\ Len(quarantine[0]) \in Nat /\ Len(quarantine[1]) \in Nat
        BY <1>8 DEF Evidence
      <4>4. PICK a \in Nat, b \in Nat : a = Len(quarantine[0]) /\ b = Len(quarantine[1])
        BY <4>3
      <4>5. Len(quarantine'[1]) = b /\ Len(quarantine'[0]) = a + Len(ids)
        BY <4>1, <4>2, <4>4
      <4>6. Evidence = a + b
        BY <4>3, <4>4
      <4>7. Len(ids) \in Int
        BY <1>2, <1>7
      <4>8. Evidence' = a + b + Len(ids)
        BY <4>3, <4>5, <4>7
      <4> QED BY <1>2, <1>7, <4>6, <4>8
    <3>2. CASE cur = 1
      <4>1. quarantine'[1] = quarantine[1] \o ids /\ quarantine'[0] = quarantine[0]
        BY <1>8, <1>10, <3>2 DEF Segments
      <4>2. Len(quarantine'[1]) = Len(quarantine[1]) + Len(ids)
        BY <1>7, <1>8, <4>1, ConcatProperties
      <4>3. /\ Evidence = Len(quarantine[0]) + Len(quarantine[1])
            /\ Evidence' = Len(quarantine'[0]) + Len(quarantine'[1])
            /\ Len(quarantine[0]) \in Nat /\ Len(quarantine[1]) \in Nat
        BY <1>8 DEF Evidence
      <4>4. PICK a \in Nat, b \in Nat : a = Len(quarantine[0]) /\ b = Len(quarantine[1])
        BY <4>3
      <4>5. Len(quarantine'[0]) = a /\ Len(quarantine'[1]) = b + Len(ids)
        BY <4>1, <4>2, <4>4
      <4>6. Evidence = a + b
        BY <4>3, <4>4
      <4>7. Len(ids) \in Int
        BY <1>2, <1>7
      <4>8. Evidence' = a + b + Len(ids)
        BY <4>3, <4>5, <4>7
      <4> QED BY <1>2, <1>7, <4>6, <4>8
    <3> QED BY <1>2, <3>1, <3>2 DEF Segments
  <2>2. Evidence \in Nat /\ quarantinedBytes \in Nat /\ corruptionEvents \in Nat
        /\ metadataFile.quarantinedBytes \in Nat /\ metadataFile.corruptionEvents \in Nat
    BY EvidenceType DEF TInv, TypeOK, RamType, FlashType, MetadataFile
  <2>3. /\ quarantinedBytes <= Evidence /\ corruptionEvents <= Evidence
        /\ metadataFile.quarantinedBytes <= Evidence /\ metadataFile.corruptionEvents <= Evidence
    BY <1>1 DEF EvidenceSound, Scanning, QuarantineNotOverstated, Evidence
  <2>4. QuarantineNotOverstated'
    <3>1. QuarantineNotOverstated' <=> /\ metadataFile'.quarantinedBytes <= Evidence'
                                      /\ metadataFile'.corruptionEvents <= Evidence'
      BY DEF QuarantineNotOverstated, Evidence
    <3>2. metadataFile.quarantinedBytes <= Evidence' /\ metadataFile.corruptionEvents <= Evidence'
      BY <1>2, <2>1, <2>2, <2>3
    <3> QED BY <1>1, <3>1, <3>2
  <2>5. /\ quarantinedBytes' + Len(file'[cur']) - tail'[cur'] <= Evidence'
        /\ corruptionEvents' + 1 <= Evidence'
        /\ quarantinedBytes' <= Evidence' /\ corruptionEvents' <= Evidence'
    BY <1>1, <1>2, <2>1, <2>2, <2>3
  <2> QED BY <2>4, <2>5 DEF EvidenceSound
<1> QED BY <1>3, <1>4, <1>9, <1>10

LEMMA EvidenceStep == TInv /\ TypeOK' /\ EvidenceSound /\ [Next]_vars => EvidenceSound'
<1> SUFFICES ASSUME TInv, TypeOK', EvidenceSound, [Next]_vars PROVE EvidenceSound'
  OBVIOUS
<1>1. CASE Begin
  <2>1. /\ UNCHANGED <<quarantine, metadataFile>> /\ pc' # "repair" /\ pc = "off"
        /\ pc' = "unavailable" \/ LoadMetadata
    BY <1>1 DEF Begin, flash
  <2>2. CASE pc' = "unavailable"
    BY <2>1, <2>2 DEF EvidenceSound, QuarantineNotOverstated, Running, Scanning
  <2>3. CASE LoadMetadata
    <3>1. /\ metadataFile.quarantinedBytes <= Evidence
          /\ metadataFile.corruptionEvents <= Evidence
          /\ Evidence \in Nat
      BY EvidenceType DEF EvidenceSound, QuarantineNotOverstated, Evidence, TInv
    <3>2. quarantinedBytes' <= Evidence /\ corruptionEvents' <= Evidence
      <4>1. CASE HasMetadata
        BY <2>3, <3>1, <4>1 DEF LoadMetadata
      <4>2. CASE ~HasMetadata
        <5>1. quarantinedBytes' = Evidence /\ corruptionEvents' = Cardinality(QuarantineFiles)
          BY <2>3, <4>2 DEF LoadMetadata, Evidence
        <5> QED BY <3>1, <5>1, FilesAreEvidence DEF TInv
      <4> QED BY <4>1, <4>2
    <3> QED BY <2>1, <3>2 DEF EvidenceSound, QuarantineNotOverstated, Evidence
  <2> QED BY <2>1, <2>2, <2>3
<1>2. CASE QuarantineSuffix
  BY <1>2, EvidenceCopied
<1>3. CASE RepairSegment
  <2>1. /\ pc = "repair" /\ UNCHANGED <<quarantine, metadataFile>> /\ pc' # "repair"
        /\ \/ UNCHANGED <<quarantinedBytes, corruptionEvents>>
           \/ /\ quarantinedBytes' = quarantinedBytes + Len(file[cur]) - tail[cur]
              /\ corruptionEvents' = corruptionEvents + 1
    BY <1>3 DEF RepairSegment, ScanNext
  <2>2. CASE UNCHANGED <<quarantinedBytes, corruptionEvents>>
    BY <2>1, <2>2, EvidenceKept DEF Scanning
  <2>3. CASE /\ quarantinedBytes' = quarantinedBytes + Len(file[cur]) - tail[cur]
             /\ corruptionEvents' = corruptionEvents + 1
    BY <2>1, <2>3 DEF EvidenceSound, QuarantineNotOverstated, Evidence
  <2> QED BY <2>1, <2>2, <2>3
<1>4. CASE \/ CreateSegment \/ ScanSegment \/ ScanReclaim \/ Enqueue \/ RotateTruncate
           \/ AppendRecord \/ PopReclaim \/ Decay
  <2>1. /\ UNCHANGED <<quarantine, metadataFile, quarantinedBytes, corruptionEvents>>
        /\ pc' # "repair"
        /\ pc' \in Running \cup Scanning => pc \in Running \cup Scanning
    BY <1>4 DEF CreateSegment, ScanSegment, ScanReclaim, ScanNext, Enqueue, RotateTruncate,
                AppendRecord, PopReclaim, Decay, flash, ram, metadata, Running, Scanning
  <2> QED BY <2>1, EvidenceKept
<1>5. CASE BeginSave \/ RotateCount \/ RotateSave \/ (\E d \in BOOLEAN : Pop(d)) \/ PopReclaimSave
  <2>1. /\ UNCHANGED <<quarantine, quarantinedBytes, corruptionEvents>>
        /\ pc' # "repair" /\ pc \in Running \cup Scanning
        /\ SaveMetadata \/ UNCHANGED metadataFile
    BY <1>5 DEF BeginSave, RotateCount, RotateSave, Pop, PopReclaimSave, metadata, Running, Scanning
  <2> QED BY <2>1, EvidenceKept, EvidenceSaved
<1>6. CASE Crash \/ CrashInAppend
  <2>1. UNCHANGED <<quarantine, metadataFile>> /\ pc' = "off"
    BY <1>6 DEF Crash, CrashInAppend, PowerLoss
  <2> QED BY <2>1 DEF EvidenceSound, QuarantineNotOverstated, Running, Scanning
<1>7. CASE MetadataLoss
  <2>1. /\ UNCHANGED quarantine /\ pc' = "off"
        /\ metadataFile'.quarantinedBytes = metadataFile.quarantinedBytes
        /\ metadataFile'.corruptionEvents = metadataFile.corruptionEvents
    BY <1>7 DEF MetadataLoss, ram, TInv, TypeOK, FlashType, MetadataFile
  <2> QED BY <2>1 DEF EvidenceSound, QuarantineNotOverstated, Running, Scanning
<1>8. CASE UNCHANGED vars
  BY <1>8 DEF vars, flash, ram, metadata, EvidenceSound, QuarantineNotOverstated, Evidence
<1> QED BY <1>1, <1>2, <1>3, <1>4, <1>5, <1>6, <1>7, <1>8
        DEF Next, BeginSteps, EnqueueSteps, PopSteps, PopIfMatches, Environment

\* scanSegment copies a corrupt suffix before it replaces the segment and
\* counts it after: wherever a reset falls between the two and whichever call
\* fails, the status report shows no more quarantined bytes and no more
\* corruption events than the .corrupt files are evidence of.
THEOREM RepairsNotOverstated == Spec => []QuarantineNotOverstated
<1>1. Init => EvidenceSound
  BY DEF Init, FileOf, EvidenceSound, QuarantineNotOverstated, Running, Scanning, Segments
<1>2. TInv' => TypeOK'
  BY DEF TInv
<1>3. Spec => [](TInv /\ EvidenceSound)
  BY <1>1, <1>2, InitTInv, TInvStep, EvidenceStep, PTL DEF Spec
<1>4. EvidenceSound => QuarantineNotOverstated
  BY DEF EvidenceSound
<1> QED BY <1>3, <1>4, PTL

-----------------------------------------------------------------------------
(* Incomplete records *)

\* The filesystem reports the length it wrote, and stored bytes stay as they
\* are: incomplete records come from resets only.
WholeAppends == Faults \cap {"shortAppend", "decay"} = {}

Intact(cells) == \A i \in 1 .. Len(cells) : cells[i].ok

\* A torn cell is the last of its file.
TornLast ==
    \A s \in Segments : \A i \in 1 .. Len(file[s]) :
        ~file[s][i].ok => i = Len(file[s]) /\ file[s][i].id = 0

\* Only torn cells were ever copied.
TornCopies == \A s \in Segments : \A i \in 1 .. Len(quarantine[s]) : quarantine[s][i] = 0

\* A torn cell is removed before anything is written behind it, and nothing
\* else is.
TornSound ==
    /\ TornLast /\ TornCopies
    /\ pc \in Running \cup {"beginSave"} => \A s \in Segments : Intact(file[s])
    /\ pc \in Scanning => \A s \in Segments : s < cur => Intact(file[s])
    /\ pc \in {"quarantine", "repair"} => ~file[cur][tail[cur] + 1].ok

\* The scan is done with a segment that holds complete records only.
LEMMA TornScanned ==
    ASSUME TypeOK, ScanNext, TornLast', TornCopies',
           \A s \in Segments : s <= cur => Intact(file'[s])
    PROVE  TornSound'
<1>1. pc' = "scan" \/ pc' = "beginSave"
  BY DEF ScanNext
<1>2. \A s \in Segments : pc' = "beginSave" \/ s < cur' => s <= cur
  BY DEF ScanNext, Segments, TypeOK, RamType
<1> QED BY <1>1, <1>2 DEF TornSound, Running, Scanning

\* Files and quarantine as they are
LEMMA TornSame ==
    ASSUME TornSound, UNCHANGED <<file, quarantine>>
    PROVE  TornLast' /\ TornCopies'
BY DEF TornSound, TornLast, TornCopies

\* A segment is emptied or keeps a complete prefix.
LEMMA TornRemoved ==
    ASSUME TInv, TornSound, UNCHANGED quarantine, NEW n \in Nat, n < Len(file[cur]) \/ n = 0,
           NEW prefix, Len(prefix) = n, \A i \in 1 .. n : prefix[i] = file[cur][i],
           file' = [file EXCEPT ![cur] = prefix]
    PROVE  /\ TornLast' /\ TornCopies' /\ Intact(file'[cur])
           /\ \A s \in Segments : Intact(file[s]) => Intact(file'[s])
<1>1. file'[cur] = prefix /\ (\A s \in Segments : s # cur => file'[s] = file[s]) /\ cur \in Segments
      /\ Len(file[cur]) \in Nat
  BY DEF TInv, TypeOK, FlashType, RamType
<1>2. Intact(prefix)
  <2> SUFFICES ASSUME NEW i \in 1 .. n, ~file[cur][i].ok PROVE FALSE
    BY DEF Intact
  <2>1. i \in 1 .. Len(file[cur]) /\ i # Len(file[cur])
    BY <1>1
  <2> QED BY <1>1, <2>1 DEF TornSound, TornLast
<1>3. TornLast'
  BY <1>1, <1>2 DEF TornSound, TornLast, Intact
<1> QED BY <1>1, <1>2, <1>3 DEF TornSound, TornCopies

\* begin: the scan of a segment
LEMMA TornScan ==
    ASSUME TInv, TornSound, ScanSegment
    PROVE  TornSound'
<1>1. pc = "scan" /\ UNCHANGED <<file, quarantine>> /\ cur \in Segments
      /\ head[cur] \in Nat /\ Len(file[cur]) \in Nat /\ tail \in [Segments -> Nat]
  BY DEF ScanSegment, flash, TInv, TypeOK, RamType, FlashType
<1> DEFINE h == Lesser(head[cur], Len(file[cur]))
<1>2. PICK end \in h .. Len(file[cur]) :
         /\ \A i \in h + 1 .. end : file[cur][i].ok
         /\ end < Len(file[cur]) => ~file[cur][end + 1].ok
         /\ tail' = [tail EXCEPT ![cur] = end]
         /\ CASE end < Len(file[cur]) -> pc' = "quarantine" /\ cur' = cur
              [] end = Len(file[cur]) /\ end = h -> pc' = "scanReclaim" /\ cur' = cur
              [] OTHER -> ScanNext
  BY DEF ScanSegment
<1>3. h \in Nat /\ h <= Len(file[cur]) /\ end \in Nat /\ end <= Len(file[cur]) /\ h <= end
  BY <1>1, <1>2 DEF Lesser
<1> HIDE DEF h
<1>4. TornLast' /\ TornCopies'
  BY <1>1, TornSame
<1>5. \A s \in Segments : s < cur => Intact(file[s])
  BY <1>1 DEF TornSound, Scanning
<1>6. CASE end < Len(file[cur])
  <2>1. pc' = "quarantine" /\ cur' = cur /\ tail'[cur] = end
    BY <1>1, <1>2, <1>6
  <2> QED BY <1>1, <1>2, <1>4, <1>5, <1>6, <2>1 DEF TornSound, Running, Scanning
<1>7. CASE end = Len(file[cur]) /\ end = h
  <2>1. pc' = "scanReclaim" /\ cur' = cur
    BY <1>2, <1>7
  <2> QED BY <1>1, <1>4, <1>5, <2>1 DEF TornSound, Running, Scanning
<1>8. CASE end = Len(file[cur]) /\ end # h
  <2>1. ScanNext
    BY <1>2, <1>8
  <2>2. \A i \in 1 .. Len(file[cur]) : file[cur][i].ok
    <3> SUFFICES ASSUME NEW i \in 1 .. Len(file[cur]), ~file[cur][i].ok PROVE FALSE
      OBVIOUS
    <3>1. i = Len(file[cur])
      BY <1>1 DEF TornSound, TornLast
    <3>2. i \in h + 1 .. end
      BY <1>3, <1>8, <3>1
    <3> QED BY <1>2, <3>2
  <2>3. \A s \in Segments : s <= cur => Intact(file[s])
    BY <1>1, <1>5, <2>2 DEF Intact, Segments
  <2> QED BY <1>1, <1>4, <2>1, <2>3, TornScanned DEF TInv
<1> QED BY <1>3, <1>6, <1>7, <1>8

\* begin: what is copied is the torn cell.
LEMMA TornCopied ==
    ASSUME TInv, TornSound, QuarantineSuffix
    PROVE  TornSound'
<1>1. pc = "quarantine" /\ pc' \in {"unavailable", "repair"} /\ UNCHANGED <<file, tail, cur>>
  BY DEF QuarantineSuffix
<1>2. /\ tail[cur] \in Nat /\ Len(file[cur]) \in Nat /\ tail[cur] < Len(file[cur])
      /\ file[cur] \in Seq(Cell) /\ cur \in Segments
      /\ quarantine \in [Segments -> Seq(0 .. MaxRecords)]
  BY <1>1, UnderRepair
<1>3. ~file[cur][tail[cur] + 1].ok /\ tail[cur] + 1 \in 1 .. Len(file[cur])
  BY <1>1, <1>2 DEF TornSound
<1>4. tail[cur] + 1 = Len(file[cur]) /\ file[cur][Len(file[cur])].id = 0
  BY <1>2, <1>3 DEF TornSound, TornLast
<1> DEFINE suffix == SubSeq(file[cur], tail[cur] + 1, Len(file[cur]))
           ids == [i \in 1 .. Len(suffix) |-> suffix[i].id]
<1>5. quarantine' = quarantine \/ quarantine' = [quarantine EXCEPT ![cur] = @ \o ids]
  BY DEF QuarantineSuffix
<1>6. Len(suffix) = 1 /\ suffix[1] = file[cur][Len(file[cur])]
  <2>1. \A i \in tail[cur] + 1 .. Len(file[cur]) : file[cur][i] \in Cell
    BY <1>2
  <2>2. /\ Len(suffix) = IF tail[cur] + 1 <= Len(file[cur])
                         THEN Len(file[cur]) - (tail[cur] + 1) + 1 ELSE 0
        /\ \A i \in 1 .. Len(file[cur]) - (tail[cur] + 1) + 1 :
              suffix[i] = file[cur][(tail[cur] + 1) + i - 1]
    <3>1. tail[cur] + 1 \in Int /\ Len(file[cur]) \in Int
      BY <1>2
    <3> QED BY <2>1, <3>1, SubSeqProperties
  <2>3. Len(file[cur]) - (tail[cur] + 1) + 1 = 1 /\ (tail[cur] + 1) + 1 - 1 = Len(file[cur])
    BY <1>2, <1>4
  <2> HIDE DEF suffix
  <2>4. Len(suffix) = 1
    BY <1>2, <1>4, <2>2, <2>3
  <2>5. suffix[1] = file[cur][(tail[cur] + 1) + 1 - 1]
    BY <2>2, <2>3
  <2> QED BY <2>3, <2>4, <2>5
<1> HIDE DEF suffix
<1>7. ids = <<0>>
  BY <1>4, <1>6
<1> HIDE DEF ids
<1>8. TornCopies'
  <2>1. CASE quarantine' = quarantine
    BY <2>1 DEF TornSound, TornCopies
  <2>2. CASE quarantine' = [quarantine EXCEPT ![cur] = @ \o ids]
    <3>1. \A s \in Segments : \A i \in 1 .. Len(quarantine[s]) : quarantine[s][i] = 0
      BY DEF TornSound, TornCopies
    <3>2. quarantine'[cur] = quarantine[cur] \o <<0>>
          /\ \A s \in Segments : s # cur => quarantine'[s] = quarantine[s]
      BY <1>2, <1>7, <2>2
    <3>3. \A i \in 1 .. Len(quarantine'[cur]) : quarantine'[cur][i] = 0
      <4>1. quarantine[cur] \in Seq(0 .. MaxRecords) /\ <<0>> \in Seq(0 .. MaxRecords)
        BY <1>2, ConstantsAssumption
      <4>2. /\ Len(quarantine'[cur]) = Len(quarantine[cur]) + Len(<<0>>)
            /\ \A i \in 1 .. Len(quarantine[cur]) + Len(<<0>>) :
                  quarantine'[cur][i] = IF i <= Len(quarantine[cur]) THEN quarantine[cur][i]
                                        ELSE <<0>>[i - Len(quarantine[cur])]
        BY <3>2, <4>1, ConcatProperties
      <4>3. Len(quarantine[cur]) \in Nat /\ Len(<<0>>) = 1
        BY <4>1
      <4>4. ASSUME NEW i \in 1 .. Len(quarantine[cur]) + 1 PROVE quarantine'[cur][i] = 0
        <5>1. CASE i <= Len(quarantine[cur])
          BY <1>2, <3>1, <4>2, <4>3, <5>1
        <5>2. CASE i = Len(quarantine[cur]) + 1
          <6>1. i - Len(quarantine[cur]) = 1 /\ ~(i <= Len(quarantine[cur]))
            BY <4>3, <5>2
          <6> QED BY <4>2, <4>3, <6>1
        <5> QED BY <4>3, <5>1, <5>2
      <4> QED BY <4>2, <4>3, <4>4
    <3>4. \A s \in Segments : \A i \in 1 .. Len(quarantine'[s]) : quarantine'[s][i] = 0
      BY <3>1, <3>2, <3>3
    <3> QED BY <3>4 DEF TornCopies
  <2> QED BY <1>5, <2>1, <2>2
<1>9. TornLast' /\ \A s \in Segments : s < cur => Intact(file'[s])
  BY <1>1 DEF TornSound, TornLast, Intact, Scanning
<1> QED BY <1>1, <1>3, <1>8, <1>9 DEF TornSound, Running, Scanning

\* begin: the repaired prefix is complete.
LEMMA TornRepaired ==
    ASSUME TInv, TornSound, RepairSegment
    PROVE  TornSound'
<1>1. /\ pc = "repair" /\ UNCHANGED quarantine /\ cur \in Segments
      /\ tail[cur] \in Nat /\ Len(file[cur]) \in Nat /\ tail[cur] < Len(file[cur])
      /\ file[cur] \in Seq(Cell)
  BY UnderRepair DEF RepairSegment
<1>2. \A s \in Segments : s < cur => Intact(file[s])
  BY <1>1 DEF TornSound, Scanning
<1>3. CASE pc' = "unavailable" /\ UNCHANGED file
  BY <1>1, <1>3, TornSame DEF TornSound, Running, Scanning
<1>4. CASE /\ file' = [file EXCEPT ![cur] = SubSeq(file[cur], 1, tail[cur])]
           /\ ScanNext \/ (pc' = "scanReclaim" /\ cur' = cur)
  <2>1. /\ Len(SubSeq(file[cur], 1, tail[cur])) = tail[cur]
        /\ \A i \in 1 .. tail[cur] : SubSeq(file[cur], 1, tail[cur])[i] = file[cur][i]
    BY <1>1
  <2>2. /\ TornLast' /\ TornCopies' /\ Intact(file'[cur])
        /\ \A s \in Segments : Intact(file[s]) => Intact(file'[s])
    BY <1>1, <1>4, <2>1, TornRemoved
  <2>3. \A s \in Segments : s <= cur => Intact(file'[s])
    BY <1>1, <1>2, <2>2 DEF Segments
  <2>4. CASE ScanNext
    BY <2>2, <2>3, <2>4, TornScanned DEF TInv
  <2>5. CASE pc' = "scanReclaim" /\ cur' = cur
    BY <1>2, <2>2, <2>5 DEF TornSound, Running, Scanning
  <2> QED BY <1>4, <2>4, <2>5
<1> QED BY <1>3, <1>4 DEF RepairSegment

\* A segment without pending records is emptied.
LEMMA TornReclaimed ==
    ASSUME TInv, TornSound, ScanReclaim \/ RotateTruncate \/ PopReclaim
    PROVE  TornSound'
<1>1. /\ UNCHANGED quarantine /\ cur \in Segments
      /\ file' = file \/ file' = [file EXCEPT ![cur] = <<>>]
  BY DEF ScanReclaim, RotateTruncate, PopReclaim, TruncateSegment, TInv, TypeOK, RamType
<1>2. /\ TornLast' /\ TornCopies'
      /\ file' # file => Intact(file'[cur])
      /\ \A s \in Segments : Intact(file[s]) => Intact(file'[s])
  <2>1. CASE file' = file
    BY <1>1, <2>1, TornSame
  <2>2. CASE file' = [file EXCEPT ![cur] = <<>>]
    <3> DEFINE none == <<>>
    <3>1. /\ Len(none) = 0 /\ \A i \in 1 .. 0 : none[i] = file[cur][i]
          /\ file' = [file EXCEPT ![cur] = none]
      BY <2>2
    <3> HIDE DEF none
    <3>2. /\ TornLast' /\ TornCopies' /\ Intact(file'[cur])
          /\ \A s \in Segments : Intact(file[s]) => Intact(file'[s])
      <4>1. 0 \in Nat /\ (0 < Len(file[cur]) \/ 0 = 0) /\ UNCHANGED quarantine
        BY <1>1
      <4> QED BY <3>1, <4>1, TornRemoved
    <3> QED BY <3>2
  <2> QED BY <1>1, <2>1, <2>2
<1>3. CASE ScanReclaim
  <2>1. /\ pc = "scanReclaim"
        /\ pc' = "unavailable" \/ (file' = [file EXCEPT ![cur] = <<>>] /\ ScanNext)
    BY <1>3 DEF ScanReclaim, TruncateSegment
  <2>2. CASE pc' = "unavailable"
    BY <1>2, <2>2 DEF TornSound, Running, Scanning
  <2>3. CASE file' = [file EXCEPT ![cur] = <<>>] /\ ScanNext
    <3>1. file'[cur] = <<>>
      BY <1>1, <2>3 DEF TInv, TypeOK, FlashType
    <3>2. Intact(file'[cur])
      BY <3>1 DEF Intact
    <3>3. \A s \in Segments : s <= cur => Intact(file'[s])
      BY <1>1, <1>2, <2>1, <3>2 DEF TornSound, Scanning, Segments
    <3> QED BY <1>2, <2>3, <3>3, TornScanned DEF TInv
  <2> QED BY <2>1, <2>2, <2>3
<1>4. CASE RotateTruncate \/ PopReclaim
  <2>1. pc \in Running /\ pc' \in Running
    BY <1>4 DEF RotateTruncate, PopReclaim, Running
  <2>2. \A s \in Segments : Intact(file'[s])
    BY <1>2, <2>1 DEF TornSound
  <2> QED BY <1>2, <2>1, <2>2 DEF TornSound, Running, Scanning
<1> QED BY <1>3, <1>4

\* A record is appended to complete ones; a reset may tear it.
LEMMA TornAppended ==
    ASSUME WholeAppends, TInv, TornSound, AppendRecord \/ CrashInAppend
    PROVE  TornSound'
<1>1. /\ pc = "append" /\ UNCHANGED quarantine /\ active \in Segments
      /\ file \in [Segments -> Seq(Cell)]
      /\ \A s \in Segments : Intact(file[s])
  BY DEF AppendRecord, CrashInAppend, PowerLoss, TInv, TypeOK, RamType, FlashType,
         TornSound, Running
<1>2. TornCopies'
  BY <1>1 DEF TornSound, TornCopies
<1>3. CASE pc' = "ready" /\ UNCHANGED file
  BY <1>1, <1>2, <1>3, TornSame DEF TornSound, Running, Scanning
<1>4. ASSUME NEW c \in {Torn, Complete(next)}, file' = [file EXCEPT ![active] = Append(@, c)]
      PROVE  TornLast' /\ (c = Complete(next) => \A s \in Segments : Intact(file'[s]))
  <2>1. \A s \in Segments : \A i \in 1 .. Len(file'[s]) :
           \/ i \in 1 .. Len(file[s]) /\ file'[s][i] = file[s][i]
           \/ s = active /\ file'[s][i] = c /\ i = Len(file'[s])
    BY <1>1, <1>4
  <2>2. Torn.id = 0 /\ Complete(next).ok
    BY DEF Torn, Complete
  <2> QED BY <1>1, <1>4, <2>1, <2>2 DEF TornLast, Intact
<1>5. CASE pc' = "ready" /\ file' = [file EXCEPT ![active] = Append(@, Complete(next))]
  BY <1>2, <1>4, <1>5 DEF TornSound, Running, Scanning
<1>6. CASE pc' = "off" /\ file' = [file EXCEPT ![active] = Append(@, Torn)]
  BY <1>2, <1>4, <1>6 DEF TornSound, Running, Scanning
<1>7. "shortAppend" \notin Faults
  BY DEF WholeAppends
<1> QED BY <1>3, <1>5, <1>6, <1>7 DEF AppendRecord, CrashInAppend, PowerLoss

LEMMA TornStep ==
    ASSUME WholeAppends
    PROVE  TInv /\ FilesMade /\ TornSound /\ [Next]_vars => TornSound'
<1> SUFFICES ASSUME TInv, FilesMade, TornSound, [Next]_vars PROVE TornSound'
  OBVIOUS
<1>1. CASE Begin \/ Crash \/ MetadataLoss
  <2>1. /\ UNCHANGED <<file, quarantine>>
        /\ pc' \in {"unavailable", "off"} \/ (pc' = "scan" /\ \A s \in Segments : ~(s < cur'))
    BY <1>1 DEF Begin, Crash, PowerLoss, MetadataLoss, flash, ram, Segments
  <2> QED BY <2>1, TornSame DEF TornSound, Running, Scanning
<1>2. CASE CreateSegment
  <2>1. /\ pc = "scan" /\ UNCHANGED <<file, quarantine>> /\ cur \notin made /\ cur \in Segments
        /\ pc' = "unavailable" \/ ScanNext
    BY <1>2 DEF CreateSegment, TInv, TypeOK, RamType
  <2>2. CASE pc' = "unavailable"
    BY <2>1, <2>2, TornSame DEF TornSound, Running, Scanning
  <2>3. CASE ScanNext
    <3>1. file[cur] = <<>>
      BY <2>1 DEF FilesMade
    <3>2. Intact(file[cur])
      BY <3>1 DEF Intact
    <3>3. \A s \in Segments : s <= cur => Intact(file'[s])
      BY <2>1, <3>2 DEF TornSound, Scanning, Segments
    <3> QED BY <2>1, <2>3, <3>3, TornSame, TornScanned DEF TInv
  <2> QED BY <2>1, <2>2, <2>3
<1>3. CASE BeginSave \/ Enqueue \/ RotateCount \/ RotateSave \/ (\E d \in BOOLEAN : Pop(d))
           \/ PopReclaimSave
  <2>1. /\ UNCHANGED <<file, quarantine>> /\ pc \in Running \cup {"beginSave"}
        /\ pc' \in Running \cup {"unavailable"}
    BY <1>3 DEF BeginSave, Enqueue, RotateCount, RotateSave, Pop, PopReclaimSave, flash, Running
  <2> QED BY <2>1, TornSame DEF TornSound, Running, Scanning
<1>4. CASE UNCHANGED vars
  <2>1. UNCHANGED <<file, quarantine, pc, cur, tail>>
    BY <1>4 DEF vars, flash, ram
  <2> QED BY <2>1, TornSame DEF TornSound
<1>5. ~Decay
  BY DEF Decay, WholeAppends
<1> QED BY <1>1, <1>2, <1>3, <1>4, <1>5, TornScan, TornCopied, TornRepaired, TornReclaimed,
           TornAppended
        DEF Next, BeginSteps, EnqueueSteps, PopSteps, PopIfMatches, Environment

LEMMA InitTorn == Init => TornSound
<1> SUFFICES ASSUME Init PROVE TornSound
  OBVIOUS
<1>1. pc = "off" /\ TornCopies
  BY DEF Init, TornCopies
<1>2. \A s \in Segments : \A i \in 1 .. Len(file[s]) : file[s][i].ok
  <2>1. Complete(1).ok
    BY DEF Complete
  <2> QED BY <2>1 DEF Init
<1> QED BY <1>1, <1>2 DEF TornSound, TornLast, Running, Scanning

\* When every append that returns has written all of its bytes and flash keeps
\* them, tail repair takes only the bytes of an append that a reset cut off,
\* wherever in a rotation, a repair or a reclaim the resets fall and whichever
\* other call fails.  A short write that returns breaks this: enqueue goes on
\* behind it (queue_short_append.cfg).
THEOREM OnlyTornQuarantined ==
    ASSUME WholeAppends
    PROVE  Spec => []OnlyIncompleteQuarantined
<1>1. Init => TornSound
  BY InitTorn
<1>2. TInv' => TypeOK'
  BY DEF TInv
<1>3. Spec => [](TInv /\ FilesMade /\ TornSound)
  BY <1>1, <1>2, InitTInv, InitFilesMade, TInvStep, FilesMadeStep, TornStep, PTL DEF Spec
<1>4. TInv /\ TornSound => OnlyIncompleteQuarantined
  BY DEF TInv, TypeOK, HistoryType, TornSound, TornCopies, OnlyIncompleteQuarantined, Quarantined
<1> QED BY <1>3, <1>4, PTL

-----------------------------------------------------------------------------
(***************************************************************************)
(* NoSilentLoss, when every call of the filesystem may fail but two.       *)
(***************************************************************************)

\* The two commits whose failure the code does not undo in RAM: rotateSegment's
\* last saveMetadata and the one that pop makes after it emptied a segment.
SafeFaults == Faults \cap {"rotateSave", "reclaimSave"} = {}

\* Positions of segment s that hold a record which a reset would find.
Live(s) == {i \in DurableHead(s) + 1 .. Len(file[s]) : file[s][i].id # 0}

\* Without metadata there are no records, and version 1 metadata had no
\* reserved flag.
FilesSound ==
    /\ FilesMade
    /\ metadataFile.format = "none" => accepted = {}
    /\ metadataFile.format = "v1" => metadataFile.reserved = 0

\* A ready queue: RAM and flash agree on the counters and on the heads, except
\* for a segment that was emptied and whose head is committed next.
ReadySound ==
    pc \in Running =>
        /\ metadataFile.format = "v2"
        /\ metadataFile.dropped = dropped
        /\ metadataFile.reserved = reserved
        /\ \A s \in Segments :
              /\ head[s] <= Len(file[s])
              /\ \/ metadataFile.head[s] = head[s]
                 \/ /\ pc \in {"rotateSave", "reclaimSave"}
                    /\ s = cur
                    /\ file[s] = <<>>
              /\ count[s] = Cardinality(Live(s))
        /\ pc = "reclaim" => count[cur] = 0

\* begin: what was loaded, and what the scan has established so far.
ScanSound ==
    pc \in Scanning =>
        /\ IF metadataFile.format \in {"v1", "v2"}
           THEN /\ dropped = metadataFile.dropped
                /\ reserved = metadataFile.reserved
           ELSE reserved = 1 \/ accepted = {}
        /\ \A s \in Segments :
              DurableHead(s) = Lesser(head[s], Len(file[s]))
        /\ \A s \in Segments : pc = "beginSave" \/ s < cur =>
              /\ head[s] <= Len(file[s])
              /\ count[s] = Cardinality(Live(s))

\* rotateSegment: the records about to be erased are in the committed counter.
RotationCounted ==
    pc = "rotateTruncate" /\ reserved = 0 =>
        \/ Cardinality(Lost) + count[cur] <= dropped
        \/ dropped = CounterMaximum

\* What the accounting of losses rests on, under SafeFaults.
LossInv == FilesSound /\ ReadySound /\ ScanSound /\ RotationCounted /\ NoSilentLoss

IInv == TInv /\ LossInv

-----------------------------------------------------------------------------
(* Facts about the files *)

\* The head that a reset starts from lies within the segment.
LEMMA DurableHeadFacts ==
    TypeOK => \A s \in Segments :
        /\ DurableHead(s) \in Nat
        /\ DurableHead(s) <= Len(file[s])
<1> SUFFICES ASSUME TypeOK, NEW s \in Segments
             PROVE  DurableHead(s) \in Nat /\ DurableHead(s) <= Len(file[s])
  OBVIOUS
<1>1. Len(file[s]) \in Nat
  BY DEF TypeOK, FlashType
<1>2. metadataFile.head[s] \in Nat
  BY DEF TypeOK, FlashType, MetadataFile
<1> QED BY <1>1, <1>2 DEF DurableHead, Lesser

\* A record is lost if it was written, not popped, and is at no position that
\* a reset reads and in no quarantine file.
LEMMA LostFacts ==
    \A r : r \in Lost <=>
              /\ r \in accepted
              /\ r \notin resolved
              /\ r \notin Quarantined
              /\ \A s \in Segments :
                    \A i \in DurableHead(s) + 1 .. Len(file[s]) : file[s][i].id # r
BY DEF Lost, InSegments, IdsAfter

\* Only finitely many records were ever written.
LostCounted == IsFiniteSet(Lost) /\ Cardinality(Lost) \in Nat

LEMMA LostFinite == TypeOK => LostCounted
<1> SUFFICES ASSUME TypeOK
             PROVE  IsFiniteSet(Lost) /\ Cardinality(Lost) \in Nat
  BY DEF LostCounted
<1>1. IsFiniteSet(1 .. next)
  BY FS_Interval DEF TypeOK, HistoryType
<1>2. Lost \subseteq 1 .. next
  BY DEF Lost, TypeOK, HistoryType
<1> QED BY <1>1, <1>2, FS_Subset, FS_CardinalityType


\* A record is somewhere that a reset, or the quarantine, still finds it, or
\* it was popped: then it is not lost now if it was not lost before.
LEMMA LostShrinks ==
    ASSUME accepted' = accepted,
           resolved \subseteq resolved',
           Quarantined \subseteq Quarantined',
           \A s \in Segments : \A i \in DurableHead(s) + 1 .. Len(file[s]) :
              \/ file[s][i].id \notin accepted
              \/ file[s][i].id \in resolved' \cup Quarantined'
              \/ \E t \in Segments :
                   \E j \in DurableHead(t)' + 1 .. Len(file'[t]) :
                      file'[t][j].id = file[s][i].id
    PROVE  Lost' \subseteq Lost
<1> SUFFICES ASSUME NEW r \in Lost', r \notin Lost PROVE FALSE
  OBVIOUS
<1>1. /\ r \in accepted /\ r \notin resolved' /\ r \notin Quarantined'
      /\ \A t \in Segments : \A j \in DurableHead(t)' + 1 .. Len(file'[t]) :
            file'[t][j].id # r
  BY DEF Lost, InSegments, IdsAfter
<1>2. \E s \in Segments : \E i \in DurableHead(s) + 1 .. Len(file[s]) : file[s][i].id = r
  BY <1>1 DEF Lost, InSegments, IdsAfter
<1> QED BY <1>1, <1>2

\* Nothing changes in what a reset would find.
LEMMA LostSame ==
    ASSUME UNCHANGED <<file, quarantine, accepted, resolved>>,
           \A s \in Segments : DurableHead(s)' = DurableHead(s)
    PROVE  /\ Lost' = Lost
           /\ \A s \in Segments : Live(s)' = Live(s)
<1>1. Quarantined' = Quarantined
  BY DEF Quarantined
<1>2. InSegments' = InSegments
  BY DEF InSegments, IdsAfter
<1> QED BY <1>1, <1>2 DEF Lost, Live

\* A step that loses nothing and does not lower the drop counter.
LEMMA AccountingKept ==
    ASSUME TypeOK, TypeOK', NoSilentLoss, Lost' \subseteq Lost,
           DropsKnown' => DropsKnown,
           metadataFile'.dropped >= metadataFile.dropped
    PROVE  NoSilentLoss'
<1>1. /\ IsFiniteSet(Lost) /\ Cardinality(Lost) \in Nat
      /\ IsFiniteSet(Lost') /\ Cardinality(Lost') \in Nat
  <2>1. TypeOK' => LostCounted'
    BY LostFinite, PTL
  <2> QED BY <2>1, LostFinite DEF LostCounted
<1>2. Cardinality(Lost') <= Cardinality(Lost)
  BY <1>1, FS_Subset
<1>3. /\ metadataFile.dropped \in 0 .. CounterMaximum
      /\ metadataFile'.dropped \in 0 .. CounterMaximum
  BY DEF TypeOK, FlashType, MetadataFile
<1> QED BY <1>1, <1>2, <1>3, ConstantsAssumption DEF NoSilentLoss

\* While the queue runs, a reset would start from the heads in RAM.
LEMMA ReadyHead ==
    TypeOK /\ ReadySound /\ pc \in Running =>
        \A s \in Segments : DurableHead(s) = head[s] /\ head[s] <= Len(file[s])
<1> SUFFICES ASSUME TypeOK, ReadySound, pc \in Running, NEW s \in Segments
             PROVE  DurableHead(s) = head[s] /\ head[s] <= Len(file[s])
  OBVIOUS
<1>1. Len(file[s]) \in Nat /\ head[s] \in Nat /\ metadataFile.head[s] \in Nat
  BY DEF TypeOK, FlashType, RamType, MetadataFile
<1>2. head[s] <= Len(file[s]) /\ metadataFile.format = "v2"
  BY DEF ReadySound
<1>3. metadataFile.head[s] = head[s] \/ Len(file[s]) = 0
  BY DEF ReadySound
<1> QED BY <1>1, <1>2, <1>3 DEF DurableHead, HasMetadata, Lesser

LEMMA LiveFinite == TypeOK => \A s \in Segments : IsFiniteSet(Live(s))
<1> SUFFICES ASSUME TypeOK, NEW s \in Segments PROVE IsFiniteSet(Live(s))
  OBVIOUS
<1>1. DurableHead(s) + 1 \in Int /\ Len(file[s]) \in Int
  <2>1. Len(file[s]) \in Nat
    BY DEF TypeOK, FlashType
  <2>2. DurableHead(s) \in Nat
    BY DurableHeadFacts
  <2> QED BY <2>1, <2>2
<1>2. IsFiniteSet(DurableHead(s) + 1 .. Len(file[s]))
  BY <1>1, FS_Interval
<1> QED BY <1>2, FS_Subset DEF Live

\* Nothing changes on flash.
LEMMA SameFlash ==
    ASSUME UNCHANGED <<file, quarantine, metadataFile, accepted, resolved>>
    PROVE  /\ Lost' = Lost
           /\ \A s \in Segments : Live(s)' = Live(s) /\ DurableHead(s)' = DurableHead(s)
           /\ NoSilentLoss => NoSilentLoss'
<1>1. \A s \in Segments : DurableHead(s)' = DurableHead(s)
  BY DEF DurableHead, HasMetadata
<1>2. /\ Lost' = Lost
      /\ \A s \in Segments : Live(s)' = Live(s)
  BY <1>1, LostSame
<1> QED BY <1>1, <1>2 DEF NoSilentLoss, DropsKnown, HasMetadata

\* An empty segment has no live positions.
EmptyNotLive ==
    \A s \in Segments : file[s] = <<>> =>
        Live(s) = {} /\ Cardinality(Live(s)) = 0 /\ DurableHead(s) = 0

LEMMA EmptyLive == TypeOK => EmptyNotLive
<1> SUFFICES ASSUME TypeOK, NEW s \in Segments, file[s] = <<>>
             PROVE  Live(s) = {} /\ Cardinality(Live(s)) = 0 /\ DurableHead(s) = 0
  BY DEF EmptyNotLive
<1>1. DurableHead(s) \in Nat /\ DurableHead(s) <= 0
  BY DurableHeadFacts
<1>2. Live(s) = {}
  BY <1>1 DEF Live
<1> QED BY <1>1, <1>2, FS_EmptySet

-----------------------------------------------------------------------------
(* begin *)

LEMMA BeginStep == IInv /\ Begin => LossInv'
<1> SUFFICES ASSUME IInv, Begin PROVE LossInv'
  OBVIOUS
<1>1. UNCHANGED <<file, made, quarantine, metadataFile, accepted, resolved>>
  BY DEF Begin, flash, history
<1>2. /\ \A s \in Segments : DurableHead(s)' = DurableHead(s)
      /\ NoSilentLoss'
  BY <1>1, SameFlash DEF IInv, LossInv
<1>3. pc' = "unavailable" \/ (pc' = "scan" /\ cur' = 0 /\ LoadMetadata)
  BY DEF Begin
<1>4. FilesSound'
  <2>1. FilesSound
    BY DEF IInv, LossInv
  <2>2. \A s \in Segments : ~(s < 0)
    BY DEF Segments
  <2> QED BY <1>1, <1>3, <2>1, <2>2 DEF FilesSound, FilesMade, Running, Scanning
<1>5. ReadySound' /\ RotationCounted'
  BY <1>3 DEF ReadySound, RotationCounted, Running
<1>6. ScanSound'
  <2>1. CASE pc' = "unavailable"
    BY <2>1 DEF ScanSound, Scanning
  <2>2. CASE pc' = "scan" /\ cur' = 0 /\ LoadMetadata
    <3>1. IF metadataFile.format \in {"v1", "v2"}
          THEN dropped' = metadataFile.dropped /\ reserved' = metadataFile.reserved
          ELSE reserved' = 1 \/ accepted = {}
      BY <2>2 DEF LoadMetadata, HasMetadata, AnyQueueFile, IInv, LossInv, FilesSound, FilesMade
    <3>2. \A s \in Segments : DurableHead(s) = Lesser(head'[s], Len(file[s]))
      <4> SUFFICES ASSUME NEW s \in Segments
                   PROVE  DurableHead(s) = Lesser(head'[s], Len(file[s]))
        OBVIOUS
      <4>1. CASE HasMetadata
        BY <2>2, <4>1 DEF LoadMetadata, DurableHead
      <4>2. CASE ~HasMetadata
        <5>1. head'[s] = 0
          BY <2>2, <4>2 DEF LoadMetadata, Zero
        <5>2. Len(file[s]) \in Nat
          BY DEF IInv, TInv, TypeOK, FlashType
        <5> QED BY <4>2, <5>1, <5>2 DEF DurableHead, Lesser
      <4> QED BY <4>1, <4>2
    <3>3. \A s \in Segments : ~(pc' = "beginSave" \/ s < cur')
      BY <2>2 DEF Segments
    <3> QED BY <1>1, <1>2, <3>1, <3>2, <3>3 DEF ScanSound
  <2> QED BY <1>3, <2>1, <2>2
<1> QED BY <1>2, <1>4, <1>5, <1>6 DEF LossInv

\* What remains of the scan once a segment is done: its head lies in the file
\* and its pending records are counted.
LEMMA ScanDone ==
    ASSUME TypeOK, FilesSound, ScanSound, pc \in Scanning, ScanNext,
           NEW c \in Segments, c = cur,
           UNCHANGED <<metadataFile, dropped, reserved, accepted>>,
           \A s \in Segments : s # c =>
               /\ head'[s] = head[s] /\ count'[s] = count[s] /\ file'[s] = file[s],
           made' = made \cup {c},
           head'[c] <= Len(file'[c]),
           DurableHead(c)' = head'[c],
           count'[c] = Cardinality(Live(c)')
    PROVE  FilesSound' /\ ReadySound' /\ ScanSound' /\ RotationCounted'
<1>1. \A s \in Segments : s # c =>
         DurableHead(s)' = DurableHead(s) /\ Live(s)' = Live(s)
  BY DEF DurableHead, HasMetadata, Live
<1>2. /\ pc' \in {"scan", "beginSave"}
      /\ \A s \in Segments : pc' = "beginSave" \/ s < cur' => s = c \/ s < cur
  BY DEF ScanNext, Segments
<1>3. FilesSound'
  <2>1. \A s \in Segments : s < cur => s \in made
    BY DEF FilesSound, FilesMade
  <2>2. \A s \in Segments : s \notin made' => file'[s] = <<>>
    BY DEF FilesSound, FilesMade
  <2>3. \A s \in Segments : pc' = "beginSave" \/ s < cur' => s \in made'
    BY <1>2, <2>1
  <2>4. /\ metadataFile'.format = "none" => accepted' = {}
        /\ metadataFile'.format = "v1" => metadataFile'.reserved = 0
    BY DEF FilesSound, FilesMade
  <2>5. made' \subseteq Segments
    BY DEF TypeOK, FlashType
  <2> QED BY <1>2, <2>2, <2>3, <2>4, <2>5 DEF FilesSound, FilesMade, Running, Scanning
<1>4. ReadySound' /\ RotationCounted'
  BY <1>2 DEF ReadySound, RotationCounted, Running
<1>5. ScanSound'
  <2>1. IF metadataFile'.format \in {"v1", "v2"}
        THEN dropped' = metadataFile'.dropped /\ reserved' = metadataFile'.reserved
        ELSE reserved' = 1 \/ accepted' = {}
    BY DEF ScanSound
  <2>2. \A s \in Segments : DurableHead(s)' = Lesser(head'[s], Len(file'[s]))
    <3>1. DurableHead(c)' = Lesser(head'[c], Len(file'[c]))
      BY DEF Lesser
    <3>2. \A s \in Segments : s # c =>
             DurableHead(s)' = Lesser(head'[s], Len(file'[s]))
      BY <1>1 DEF ScanSound
    <3> QED BY <3>1, <3>2
  <2>3. \A s \in Segments : pc' = "beginSave" \/ s < cur' =>
           head'[s] <= Len(file'[s]) /\ count'[s] = Cardinality(Live(s)')
    <3>1. \A s \in Segments : s < cur /\ s # c =>
             head'[s] <= Len(file'[s]) /\ count'[s] = Cardinality(Live(s)')
      BY <1>1 DEF ScanSound
    <3> QED BY <1>2, <3>1
  <2> QED BY <2>1, <2>2, <2>3 DEF ScanSound
<1> QED BY <1>3, <1>4, <1>5

LEMMA CreateStep == IInv /\ CreateSegment => LossInv'
<1> SUFFICES ASSUME IInv, CreateSegment PROVE LossInv'
  OBVIOUS
<1>1. UNCHANGED <<file, quarantine, metadataFile, accepted, resolved>>
  BY DEF CreateSegment, history
<1>2. /\ \A s \in Segments : Live(s)' = Live(s) /\ DurableHead(s)' = DurableHead(s)
      /\ NoSilentLoss'
  BY <1>1, SameFlash DEF IInv, LossInv
<1>3. /\ TypeOK /\ FilesSound /\ ScanSound /\ cur \in Segments
      /\ head \in [Segments -> Nat] /\ count \in [Segments -> Nat]
  BY DEF IInv, TInv, LossInv, TypeOK, RamType
<1>4. CASE pc' = "unavailable" /\ made' = made
  BY <1>1, <1>2, <1>3, <1>4
     DEF LossInv, FilesSound, FilesMade, ReadySound, ScanSound, RotationCounted, Running, Scanning
<1>5. CASE /\ ScanNext /\ made' = made \cup {cur}
           /\ head' = [head EXCEPT ![cur] = 0] /\ count' = [count EXCEPT ![cur] = 0]
  <2>0. PICK c \in Segments : c = cur
    BY <1>3
  <2>1. file[c] = <<>>
    BY <1>3, <2>0 DEF CreateSegment, FilesSound, FilesMade
  <2>2. Cardinality(Live(c)) = 0 /\ DurableHead(c) = 0
    BY <1>3, <2>1, EmptyLive DEF EmptyNotLive
  <2>3. head'[c] = 0 /\ count'[c] = 0
        /\ \A s \in Segments : s # c => head'[s] = head[s] /\ count'[s] = count[s]
    BY <1>3, <1>5, <2>0
  <2>4. UNCHANGED <<dropped, reserved>> /\ pc \in Scanning
    BY <1>5 DEF CreateSegment, metadata, Scanning
  <2>5. /\ head'[c] <= Len(file'[c]) /\ DurableHead(c)' = head'[c]
        /\ count'[c] = Cardinality(Live(c)')
    BY <1>1, <1>2, <2>1, <2>2, <2>3
  <2>6. \A s \in Segments : s # c =>
               /\ head'[s] = head[s] /\ count'[s] = count[s] /\ file'[s] = file[s]
    BY <1>1, <2>3
  <2>7. FilesSound' /\ ReadySound' /\ ScanSound' /\ RotationCounted'
    BY <1>1, <1>3, <1>5, <2>0, <2>4, <2>5, <2>6, ScanDone
  <2> QED BY <1>2, <2>7 DEF LossInv
<1> QED BY <1>4, <1>5 DEF CreateSegment

\* A queue that gave up in begin, or that is off: only the files count.
LEMMA QueueDown ==
    ASSUME FilesSound, pc' \in {"off", "unavailable"},
           UNCHANGED <<made, accepted>>,
           metadataFile'.format = "none" => accepted' = {},
           metadataFile'.format = "v1" => metadataFile'.reserved = 0,
           \A s \in Segments : s \notin made => file'[s] = <<>>,
           NoSilentLoss'
    PROVE  LossInv'
BY DEF LossInv, FilesSound, FilesMade, ReadySound, ScanSound, RotationCounted, Running, Scanning

\* The scan goes on with the same segment.
LEMMA ScanStays ==
    ASSUME FilesSound, ScanSound, pc \in Scanning, pc # "beginSave",
           pc' \in {"quarantine", "repair", "scanReclaim"}, cur' = cur,
           NEW c \in Segments, c = cur, c \in made,
           UNCHANGED <<metadataFile, made, dropped, reserved, accepted>>,
           \A s \in Segments : s # c =>
               /\ head'[s] = head[s] /\ count'[s] = count[s] /\ file'[s] = file[s],
           DurableHead(c)' = Lesser(head'[c], Len(file'[c]))
    PROVE  FilesSound' /\ ReadySound' /\ ScanSound' /\ RotationCounted'
<1>1. \A s \in Segments : s # c =>
         DurableHead(s)' = DurableHead(s) /\ Live(s)' = Live(s)
  BY DEF DurableHead, HasMetadata, Live
<1>2. FilesSound'
  BY DEF FilesSound, FilesMade, Running, Scanning
<1>3. ReadySound' /\ RotationCounted'
  BY DEF ReadySound, RotationCounted, Running
<1>4. ScanSound'
  <2>1. IF metadataFile'.format \in {"v1", "v2"}
        THEN dropped' = metadataFile'.dropped /\ reserved' = metadataFile'.reserved
        ELSE reserved' = 1 \/ accepted' = {}
    BY DEF ScanSound
  <2>2. \A s \in Segments : DurableHead(s)' = Lesser(head'[s], Len(file'[s]))
    BY <1>1 DEF ScanSound
  <2>3. \A s \in Segments : s < cur' =>
           head'[s] <= Len(file'[s]) /\ count'[s] = Cardinality(Live(s)')
    <3>1. \A s \in Segments : s < cur => s # c
      BY DEF Segments
    <3> QED BY <1>1, <3>1 DEF ScanSound
  <2>4. pc' # "beginSave"
    OBVIOUS
  <2> QED BY <2>1, <2>2, <2>3, <2>4 DEF ScanSound
<1> QED BY <1>2, <1>3, <1>4

\* If every cell after the head is readable, the live positions are counted by
\* subtraction, as scanSegment does.
ReadableCounted ==
    \A s \in Segments :
        (\A i \in DurableHead(s) + 1 .. Len(file[s]) : file[s][i].ok)
            => Cardinality(Live(s)) = Len(file[s]) - DurableHead(s)

LEMMA CountReadable == TypeOK /\ CellsSound => ReadableCounted
<1> SUFFICES ASSUME TypeOK, CellsSound, NEW s \in Segments,
                    \A i \in DurableHead(s) + 1 .. Len(file[s]) : file[s][i].ok
             PROVE  Cardinality(Live(s)) = Len(file[s]) - DurableHead(s)
  BY DEF ReadableCounted
<1>1. Len(file[s]) \in Nat /\ DurableHead(s) \in Nat /\ DurableHead(s) <= Len(file[s])
  BY DurableHeadFacts DEF TypeOK, FlashType
<1>2. Live(s) = DurableHead(s) + 1 .. Len(file[s])
  BY <1>1 DEF Live, CellsSound
<1>3. DurableHead(s) + 1 \in Int /\ Len(file[s]) \in Int
  BY <1>1
<1>4. Cardinality(Live(s)) = IF DurableHead(s) + 1 > Len(file[s]) THEN 0
                             ELSE Len(file[s]) - (DurableHead(s) + 1) + 1
  BY <1>2, <1>3, FS_Interval
<1> QED BY <1>1, <1>4

LEMMA ScanStep == IInv /\ ScanSegment => LossInv'
<1> SUFFICES ASSUME IInv, ScanSegment PROVE LossInv'
  OBVIOUS
<1>1. /\ UNCHANGED <<file, made, quarantine, metadataFile, dropped, reserved,
                     accepted, resolved>>
      /\ pc = "scan" /\ cur \in made
  BY DEF ScanSegment, flash, history
<1>2. /\ \A s \in Segments : Live(s)' = Live(s) /\ DurableHead(s)' = DurableHead(s)
      /\ NoSilentLoss'
  BY <1>1, SameFlash DEF IInv, LossInv
<1>3. /\ TypeOK /\ CellsSound /\ FilesSound /\ ScanSound /\ cur \in Segments
      /\ head \in [Segments -> Nat] /\ count \in [Segments -> Nat]
      /\ file \in [Segments -> Seq(Cell)]
  BY DEF IInv, TInv, LossInv, TypeOK, RamType, FlashType
<1>4. PICK c \in Segments : c = cur
  BY <1>3
<1>5. Len(file[c]) \in Nat /\ head[c] \in Nat
  BY <1>3
<1> DEFINE h == Lesser(head[c], Len(file[c]))
<1>6. h \in Nat /\ h <= Len(file[c]) /\ h = Lesser(h, Len(file[c]))
  BY <1>5 DEF Lesser
<1>7. DurableHead(c) = h
  BY <1>1, <1>3 DEF ScanSound, Scanning
<1>8. PICK end \in h .. Len(file[c]) :
        /\ \A i \in h + 1 .. end : file[c][i].ok
        /\ head' = [head EXCEPT ![c] = h]
        /\ count' = [count EXCEPT ![c] = end - h]
        /\ CASE end < Len(file[c]) -> pc' = "quarantine" /\ cur' = cur
             [] end = Len(file[c]) /\ end = h -> pc' = "scanReclaim" /\ cur' = cur
             [] OTHER -> ScanNext
  BY <1>4 DEF ScanSegment
<1> HIDE DEF h
<1>9. head'[c] = h /\ count'[c] = end - h
      /\ \A s \in Segments : s # c =>
            /\ head'[s] = head[s] /\ count'[s] = count[s] /\ file'[s] = file[s]
  BY <1>1, <1>3, <1>8
<1>10. pc \in Scanning /\ pc # "beginSave" /\ c \in made
  BY <1>1, <1>4 DEF Scanning
<1>11. DurableHead(c)' = Lesser(head'[c], Len(file'[c])) /\ DurableHead(c)' = head'[c]
       /\ head'[c] <= Len(file'[c])
  BY <1>1, <1>2, <1>6, <1>7, <1>9
<1>12. CASE end < Len(file[c]) \/ end = h
  <2>1. pc' \in {"quarantine", "repair", "scanReclaim"} /\ cur' = cur
    BY <1>5, <1>6, <1>8, <1>12
  <2>2. FilesSound' /\ ReadySound' /\ ScanSound' /\ RotationCounted'
    BY <1>1, <1>3, <1>4, <1>9, <1>10, <1>11, <2>1, ScanStays
  <2> QED BY <1>2, <2>2 DEF LossInv
<1>13. CASE end = Len(file[c]) /\ end # h
  <2>1. ScanNext
    BY <1>5, <1>8, <1>13
  <2>2. ReadableCounted
    BY <1>3, CountReadable
  <2>3. count'[c] = Cardinality(Live(c)')
    BY <1>2, <1>7, <1>8, <1>9, <1>13, <2>2 DEF ReadableCounted
  <2>4. made' = made \cup {c}
    BY <1>1, <1>10
  <2>5. FilesSound' /\ ReadySound' /\ ScanSound' /\ RotationCounted'
    BY <1>1, <1>3, <1>4, <1>9, <1>10, <1>11, <2>1, <2>3, <2>4, ScanDone
  <2> QED BY <1>2, <2>5 DEF LossInv
<1> QED BY <1>5, <1>6, <1>12, <1>13

LEMMA QuarantineStep == IInv /\ TypeOK' /\ QuarantineSuffix => LossInv'
<1> SUFFICES ASSUME IInv, TypeOK', QuarantineSuffix PROVE LossInv'
  OBVIOUS
<1>1. /\ UNCHANGED <<file, made, metadataFile, head, count, dropped, reserved, cur,
                     accepted, resolved>>
      /\ pc = "quarantine"
  BY DEF QuarantineSuffix, metadata, history
<1>2. /\ TypeOK /\ FilesSound /\ ScanSound /\ NoSilentLoss /\ cur \in Segments
      /\ quarantine \in [Segments -> Seq(0 .. MaxRecords)]
  BY DEF IInv, TInv, LossInv, TypeOK, RamType, FlashType
<1>3. \A s \in Segments : DurableHead(s)' = DurableHead(s)
  BY <1>1 DEF DurableHead, HasMetadata
<1>4. Quarantined \subseteq Quarantined'
  <2> DEFINE suffix == SubSeq(file[cur], tail[cur] + 1, Len(file[cur]))
             ids == [i \in 1 .. Len(suffix) |-> suffix[i].id]
  <2>1. quarantine' = quarantine \/ quarantine' = [quarantine EXCEPT ![cur] = @ \o ids]
    BY DEF QuarantineSuffix
  <2>2. CASE quarantine' = quarantine
    BY <2>2 DEF Quarantined
  <2>3. CASE quarantine' = [quarantine EXCEPT ![cur] = @ \o ids]
    <3>1. Len(suffix) \in Nat
      <4>1. file[cur] \in Seq(Cell) /\ tail[cur] \in Nat
        BY <1>2 DEF TypeOK, FlashType, RamType
      <4>2. /\ tail[cur] + 1 \in Int /\ Len(file[cur]) \in Int
            /\ \A i \in tail[cur] + 1 .. Len(file[cur]) : file[cur][i] \in Cell
        BY <4>1
      <4>3. suffix \in Seq(Cell)
        BY <4>2, SubSeqProperties
      <4> HIDE DEF suffix
      <4> QED BY <4>3
    <3> DEFINE Ids == {suffix[i].id : i \in 1 .. Len(suffix)}
    <3>2. ids \in Seq(Ids)
      <4> HIDE DEF suffix
      <4> QED BY <3>1
    <3> HIDE DEF ids, Ids
    <3>3. \A s \in Segments :
             /\ Len(quarantine'[s]) \in Nat
             /\ Len(quarantine[s]) <= Len(quarantine'[s])
             /\ \A i \in 1 .. Len(quarantine[s]) : quarantine'[s][i] = quarantine[s][i]
      BY <1>2, <2>3, <3>2
    <3> QED BY <1>2, <3>3 DEF Quarantined
  <2> HIDE DEF ids
  <2> QED BY <2>1, <2>2, <2>3
<1>5. Lost' \subseteq Lost
  BY <1>1, <1>3, <1>4, LostShrinks
<1>6. NoSilentLoss'
  <2>1. /\ DropsKnown' => DropsKnown
        /\ metadataFile'.dropped >= metadataFile.dropped
    BY <1>1, <1>2 DEF DropsKnown, HasMetadata, TypeOK, FlashType, MetadataFile
  <2> QED BY <1>2, <1>5, <2>1, AccountingKept
<1>7. CASE pc' = "unavailable"
  BY <1>1, <1>2, <1>6, <1>7, QueueDown DEF FilesSound, FilesMade
<1>8. CASE pc' = "repair"
  <2>1. PICK c \in Segments : c = cur
    BY <1>2
  <2>2. DurableHead(c)' = Lesser(head'[c], Len(file'[c]))
    BY <1>1, <1>2, <1>3 DEF ScanSound, Scanning
  <2>3. pc \in Scanning /\ pc # "beginSave" /\ c \in made
    BY <1>1, <1>2, <2>1 DEF Scanning, FilesSound, FilesMade
  <2>4. FilesSound' /\ ReadySound' /\ ScanSound' /\ RotationCounted'
    BY <1>1, <1>2, <1>8, <2>1, <2>2, <2>3, ScanStays
  <2> QED BY <1>6, <2>4 DEF LossInv
<1> QED BY <1>7, <1>8 DEF QuarantineSuffix

LEMMA RepairStep == IInv /\ TypeOK' /\ CellsSound' /\ RepairSegment => LossInv'
<1> SUFFICES ASSUME IInv, TypeOK', CellsSound', RepairSegment PROVE LossInv'
  OBVIOUS
<1>1. /\ UNCHANGED <<made, quarantine, metadataFile, head, tail, count, dropped,
                     reserved, accepted, resolved>>
      /\ pc = "repair"
  BY DEF RepairSegment, history
<1>2. /\ TypeOK /\ FilesSound /\ ScanSound /\ RepairSound /\ NoSilentLoss
      /\ cur \in Segments /\ file \in [Segments -> Seq(Cell)]
  BY DEF IInv, TInv, LossInv, TypeOK, RamType, FlashType
<1>3. /\ DropsKnown' => DropsKnown
      /\ metadataFile'.dropped >= metadataFile.dropped
  BY <1>1, <1>2 DEF DropsKnown, HasMetadata, TypeOK, FlashType, MetadataFile
<1>4. CASE pc' = "unavailable" /\ file' = file
  <2>1. NoSilentLoss'
    BY <1>1, <1>2, <1>4, SameFlash
  <2> QED BY <1>1, <1>2, <1>4, <2>1, QueueDown DEF FilesSound, FilesMade
<1>5. CASE /\ file' = [file EXCEPT ![cur] = SubSeq(@, 1, tail[cur])]
           /\ IF count[cur] = 0 THEN pc' = "scanReclaim" /\ cur' = cur ELSE ScanNext
  <2>1. PICK c \in Segments : c = cur
    BY <1>2
  <2>2. /\ file[c] \in Seq(Cell) /\ Len(file[c]) \in Nat
        /\ head[c] \in Nat /\ tail[c] \in Nat /\ metadataFile.head[c] \in Nat
    BY <1>2 DEF TypeOK, RamType, FlashType, MetadataFile
  <2>3. /\ head[c] <= tail[c] /\ tail[c] < Len(file[c])
        /\ count[c] = tail[c] - head[c]
        /\ \A i \in head[c] + 1 .. tail[c] : file[c][i].ok
        /\ \A i \in tail[c] + 1 .. Len(file[c]) : file[c][i].id \in Quarantined
    BY <1>1, <1>2, <2>1 DEF RepairSound
  <2>4. /\ file'[c] = SubSeq(file[c], 1, tail[c])
        /\ \A s \in Segments : s # c => file'[s] = file[s]
    BY <1>2, <1>5, <2>1
  <2>5. /\ Len(file'[c]) = tail[c]
        /\ \A i \in 1 .. tail[c] : file'[c][i] = file[c][i]
    BY <2>2, <2>3, <2>4
  <2>6. DurableHead(c) = head[c]
    BY <1>1, <1>2, <2>2, <2>3 DEF ScanSound, Scanning, Lesser
  <2>7. DurableHead(c)' = head[c]
    <3>1. CASE HasMetadata
      BY <1>1, <2>2, <2>3, <2>5, <2>6, <3>1 DEF DurableHead, HasMetadata, Lesser
    <3>2. CASE ~HasMetadata
      BY <1>1, <2>6, <3>2 DEF DurableHead, HasMetadata
    <3> QED BY <3>1, <3>2
  <2>8. /\ head'[c] <= Len(file'[c]) /\ DurableHead(c)' = head'[c]
        /\ DurableHead(c)' = Lesser(head'[c], Len(file'[c]))
    BY <1>1, <2>2, <2>3, <2>5, <2>7 DEF Lesser
  <2>9. \A s \in Segments : s # c => DurableHead(s)' = DurableHead(s)
    BY <1>1, <2>4 DEF DurableHead, HasMetadata
  <2>10. Quarantined' = Quarantined
    BY <1>1 DEF Quarantined
  <2>11. Lost' \subseteq Lost
    <3>1. ASSUME NEW s \in Segments, NEW i \in DurableHead(s) + 1 .. Len(file[s])
          PROVE  \/ file[s][i].id \in Quarantined'
                 \/ \E t \in Segments :
                      \E j \in DurableHead(t)' + 1 .. Len(file'[t]) :
                         file'[t][j].id = file[s][i].id
      <4>1. CASE s # c
        BY <2>4, <2>9, <3>1, <4>1
      <4>2. CASE s = c /\ i <= tail[c]
        <5>1. i \in DurableHead(c)' + 1 .. Len(file'[c]) /\ i \in 1 .. tail[c]
          BY <2>2, <2>5, <2>6, <2>7, <3>1, <4>2
        <5> QED BY <2>5, <4>2, <5>1
      <4>3. CASE s = c /\ ~(i <= tail[c])
        <5>1. i \in tail[c] + 1 .. Len(file[c])
          BY <2>2, <2>6, <3>1, <4>3
        <5> QED BY <2>3, <2>10, <4>3, <5>1
      <4> QED BY <4>1, <4>2, <4>3
    <3>2. resolved \subseteq resolved' /\ Quarantined \subseteq Quarantined'
      BY <1>1, <2>10
    <3> QED BY <1>1, <3>1, <3>2, LostShrinks
  <2>12. NoSilentLoss'
    BY <1>2, <1>3, <2>11, AccountingKept
  <2>13. \A s \in Segments : s # c =>
            /\ head'[s] = head[s] /\ count'[s] = count[s] /\ file'[s] = file[s]
    BY <1>1, <2>4
  <2>14. pc \in Scanning /\ pc # "beginSave" /\ c \in made
    BY <1>1, <1>2, <2>1 DEF Scanning, FilesSound, FilesMade
  <2>15. CASE pc' = "scanReclaim" /\ cur' = cur
    <3>1. FilesSound' /\ ReadySound' /\ ScanSound' /\ RotationCounted'
      BY <1>1, <1>2, <2>1, <2>8, <2>13, <2>14, <2>15, ScanStays
    <3> QED BY <2>12, <3>1 DEF LossInv
  <2>16. CASE ScanNext
    <3>1. ReadableCounted'
      BY CountReadable, PTL
    <3>2. \A i \in DurableHead(c)' + 1 .. Len(file'[c]) : file'[c][i].ok
      <4> SUFFICES ASSUME NEW i \in head[c] + 1 .. tail[c] PROVE file'[c][i].ok
        BY <2>5, <2>7
      <4>1. i \in 1 .. tail[c]
        BY <2>2
      <4> QED BY <2>3, <2>5, <4>1
    <3>3. count'[c] = Cardinality(Live(c)')
      BY <1>1, <2>3, <2>5, <2>7, <3>1, <3>2 DEF ReadableCounted
    <3>4. made' = made \cup {c}
      BY <1>1, <2>14
    <3>5. FilesSound' /\ ReadySound' /\ ScanSound' /\ RotationCounted'
      BY <1>1, <1>2, <2>1, <2>8, <2>13, <2>14, <2>16, <3>3, <3>4, ScanDone
    <3> QED BY <2>12, <3>5 DEF LossInv
  <2> QED BY <1>5, <2>15, <2>16
<1> QED BY <1>4, <1>5 DEF RepairSegment

LEMMA ReclaimStep == IInv /\ TypeOK' /\ ScanReclaim => LossInv'
<1> SUFFICES ASSUME IInv, TypeOK', ScanReclaim PROVE LossInv'
  OBVIOUS
<1>1. /\ UNCHANGED <<made, quarantine, metadataFile, dropped, reserved,
                     accepted, resolved>>
      /\ pc = "scanReclaim"
  BY DEF ScanReclaim, history
<1>2. /\ TypeOK /\ FilesSound /\ ScanSound /\ RepairSound /\ NoSilentLoss
      /\ cur \in Segments /\ file \in [Segments -> Seq(Cell)]
      /\ head \in [Segments -> Nat] /\ count \in [Segments -> Nat]
  BY DEF IInv, TInv, LossInv, TypeOK, RamType, FlashType
<1>3. /\ DropsKnown' => DropsKnown
      /\ metadataFile'.dropped >= metadataFile.dropped
  BY <1>1, <1>2 DEF DropsKnown, HasMetadata, TypeOK, FlashType, MetadataFile
<1>4. CASE pc' = "unavailable" /\ file' = file
  <2>1. NoSilentLoss'
    BY <1>1, <1>2, <1>4, SameFlash
  <2> QED BY <1>1, <1>2, <1>4, <2>1, QueueDown DEF FilesSound, FilesMade
<1>5. CASE TruncateSegment(cur) /\ ScanNext
  <2>1. PICK c \in Segments : c = cur
    BY <1>2
  <2>2. /\ file'[c] = <<>> /\ head'[c] = 0 /\ count'[c] = 0
        /\ \A s \in Segments : s # c =>
              /\ head'[s] = head[s] /\ count'[s] = count[s] /\ file'[s] = file[s]
    BY <1>2, <1>5, <2>1 DEF TruncateSegment
  <2>3. EmptyNotLive'
    BY EmptyLive, PTL
  <2>4. DurableHead(c)' = 0 /\ Cardinality(Live(c)') = 0
    BY <2>2, <2>3 DEF EmptyNotLive
  <2>5. DurableHead(c) = Len(file[c]) /\ Len(file[c]) \in Nat
    BY <1>1, <1>2, <2>1 DEF ScanSound, Scanning, RepairSound, Lesser
  <2>6. \A s \in Segments : s # c => DurableHead(s)' = DurableHead(s)
    BY <1>1, <2>2 DEF DurableHead, HasMetadata
  <2>7. Lost' \subseteq Lost
    <3>1. ASSUME NEW s \in Segments, NEW i \in DurableHead(s) + 1 .. Len(file[s])
          PROVE  \E t \in Segments :
                    \E j \in DurableHead(t)' + 1 .. Len(file'[t]) :
                       file'[t][j].id = file[s][i].id
      <4>1. s # c
        BY <2>5, <3>1
      <4> QED BY <2>2, <2>6, <3>1, <4>1
    <3>2. resolved \subseteq resolved' /\ Quarantined \subseteq Quarantined'
      BY <1>1 DEF Quarantined
    <3> QED BY <1>1, <3>1, <3>2, LostShrinks
  <2>8. NoSilentLoss'
    BY <1>2, <1>3, <2>7, AccountingKept
  <2>9. pc \in Scanning /\ made' = made \cup {c}
    BY <1>1, <1>2, <2>1 DEF Scanning, FilesSound, FilesMade
  <2>10. head'[c] <= Len(file'[c]) /\ DurableHead(c)' = head'[c]
         /\ count'[c] = Cardinality(Live(c)')
    BY <2>2, <2>4
  <2>11. FilesSound' /\ ReadySound' /\ ScanSound' /\ RotationCounted'
    BY <1>1, <1>2, <1>5, <2>1, <2>2, <2>9, <2>10, ScanDone
  <2> QED BY <2>8, <2>11 DEF LossInv
<1> QED BY <1>4, <1>5 DEF ScanReclaim

LEMMA BeginSaveStep == IInv /\ TypeOK' /\ BeginSave => LossInv'
<1> SUFFICES ASSUME IInv, TypeOK', BeginSave PROVE LossInv'
  OBVIOUS
<1>1. /\ UNCHANGED <<file, made, quarantine, head, count, dropped, reserved, cur,
                     accepted, resolved>>
      /\ pc = "beginSave"
  BY DEF BeginSave, metadata, history
<1>2. /\ TypeOK /\ FilesSound /\ ScanSound /\ NoSilentLoss
  BY DEF IInv, TInv, LossInv
<1>3. CASE pc' = "unavailable" /\ metadataFile' = metadataFile
  <2>1. NoSilentLoss'
    BY <1>1, <1>2, <1>3, SameFlash
  <2> QED BY <1>1, <1>2, <1>3, <2>1, QueueDown DEF FilesSound, FilesMade
<1>4. CASE SaveMetadata /\ pc' = "ready"
  <2>1. /\ metadataFile'.format = "v2" /\ metadataFile'.dropped = dropped
        /\ metadataFile'.reserved = reserved /\ metadataFile'.head = head
    BY <1>1, <1>4 DEF SaveMetadata
  <2>2. \A s \in Segments : DurableHead(s)' = DurableHead(s)
    BY <1>1, <1>2, <2>1 DEF ScanSound, Scanning, DurableHead, HasMetadata
  <2>3. Lost' = Lost /\ \A s \in Segments : Live(s)' = Live(s)
    BY <1>1, <2>2, LostSame
  <2>4. NoSilentLoss'
    <3>1. CASE metadataFile.format \in {"v1", "v2"}
      BY <1>1, <1>2, <2>1, <2>3, <3>1
         DEF NoSilentLoss, DropsKnown, HasMetadata, ScanSound, Scanning
    <3>2. CASE metadataFile.format \notin {"v1", "v2"}
      <4>1. reserved = 1 \/ accepted = {}
        BY <1>1, <1>2, <3>2 DEF ScanSound, Scanning
      <4>2. CASE reserved = 1
        BY <2>1, <4>2 DEF NoSilentLoss, DropsKnown
      <4>3. CASE accepted = {}
        <5>1. Lost' = {}
          BY <2>3, <4>3 DEF Lost
        <5>2. Cardinality(Lost') = 0
          BY <5>1, FS_EmptySet
        <5>3. metadataFile'.dropped \in Nat
          BY DEF TypeOK, FlashType, MetadataFile
        <5> QED BY <5>2, <5>3 DEF NoSilentLoss
      <4> QED BY <4>1, <4>2, <4>3
    <3> QED BY <3>1, <3>2
  <2>5. FilesSound'
    BY <1>1, <1>2, <1>4, <2>1 DEF FilesSound, FilesMade, Running, Scanning
  <2>6. ReadySound'
    <3>1. \A s \in Segments : head[s] <= Len(file[s]) /\ count[s] = Cardinality(Live(s))
      BY <1>1, <1>2 DEF ScanSound, Scanning
    <3> QED BY <1>1, <1>4, <2>1, <2>3, <3>1 DEF ReadySound
  <2>7. ScanSound' /\ RotationCounted'
    BY <1>4 DEF ScanSound, Scanning, RotationCounted
  <2> QED BY <2>4, <2>5, <2>6, <2>7 DEF LossInv
<1> QED BY <1>3, <1>4 DEF BeginSave

-----------------------------------------------------------------------------
(* enqueue *)

\* The queue keeps running and a reset would find the same records.
LEMMA RunningSame ==
    ASSUME TypeOK, FilesSound, ReadySound, pc \in Running, pc' \in Running,
           pc' \notin {"rotateTruncate", "reclaim"},
           UNCHANGED <<file, made, quarantine, metadataFile, head, count, dropped,
                       reserved, accepted, resolved>>,
           \A s \in Segments : metadataFile.head[s] = head[s],
           NoSilentLoss
    PROVE  LossInv'
<1>1. /\ \A s \in Segments : Live(s)' = Live(s)
      /\ NoSilentLoss'
  BY SameFlash
<1>2. FilesSound'
  BY DEF FilesSound, FilesMade, Running, Scanning
<1>3. ReadySound'
  BY <1>1 DEF ReadySound
<1>4. ScanSound' /\ RotationCounted'
  BY DEF ScanSound, RotationCounted, Running, Scanning
<1> QED BY <1>1, <1>2, <1>3, <1>4 DEF LossInv

LEMMA EnqueueStep == IInv /\ Enqueue => LossInv'
<1> SUFFICES ASSUME IInv, Enqueue PROVE LossInv'
  OBVIOUS
<1>1. /\ UNCHANGED <<file, made, quarantine, metadataFile, head, count, dropped,
                     reserved, accepted, resolved>>
      /\ pc \in Running /\ pc' \in Running /\ pc' \notin {"rotateTruncate", "reclaim"}
      /\ pc = "ready"
  BY DEF Enqueue, flash, metadata, Running
<1>2. /\ TypeOK /\ FilesSound /\ ReadySound /\ NoSilentLoss
  BY DEF IInv, TInv, LossInv
<1>3. \A s \in Segments : metadataFile.head[s] = head[s]
  BY <1>1, <1>2 DEF ReadySound
<1> QED BY <1>1, <1>2, <1>3, RunningSame

\* A commit while the queue runs: a reset then starts from the same heads.
LEMMA RunningSave ==
    ASSUME TypeOK, TypeOK', ReadySound, pc \in Running, SaveMetadata,
           UNCHANGED <<file, quarantine, head, reserved, accepted, resolved>>,
           dropped' >= dropped, NoSilentLoss
    PROVE  /\ \A s \in Segments : DurableHead(s)' = DurableHead(s) /\ Live(s)' = Live(s)
           /\ \A s \in Segments : metadataFile'.head[s] = head'[s]
           /\ metadataFile'.format = "v2" /\ metadataFile'.dropped = dropped'
           /\ metadataFile'.reserved = reserved'
           /\ Lost' = Lost
           /\ NoSilentLoss'
<1>1. /\ metadataFile'.format = "v2" /\ metadataFile'.dropped = dropped'
      /\ metadataFile'.reserved = reserved' /\ metadataFile'.head = head'
  BY DEF SaveMetadata
<1>2. \A s \in Segments : DurableHead(s) = head[s] /\ head[s] <= Len(file[s])
  BY ReadyHead
<1>3. \A s \in Segments : DurableHead(s)' = DurableHead(s)
  BY <1>1, <1>2 DEF DurableHead, HasMetadata, Lesser
<1>4. Lost' = Lost /\ \A s \in Segments : Live(s)' = Live(s)
  BY <1>3, LostSame
<1>5. /\ metadataFile.format = "v2" /\ metadataFile.dropped = dropped
      /\ metadataFile.reserved = reserved
  BY DEF ReadySound
<1>6. NoSilentLoss'
  BY <1>1, <1>4, <1>5, AccountingKept DEF DropsKnown, HasMetadata
<1> QED BY <1>1, <1>3, <1>4, <1>6

LEMMA RotateCountStep == IInv /\ TypeOK' /\ RotateCount => LossInv'
<1> SUFFICES ASSUME IInv, TypeOK', RotateCount PROVE LossInv'
  OBVIOUS
<1>1. /\ UNCHANGED <<file, made, quarantine, head, count, reserved, accepted, resolved>>
      /\ pc = "rotate" /\ pc \in Running /\ cur' = Other(active)
  BY DEF RotateCount, history, Running
<1>2. /\ TypeOK /\ FilesSound /\ ReadySound /\ NoSilentLoss
      /\ dropped \in 0 .. CounterMaximum /\ active \in Segments
      /\ count \in [Segments -> Nat]
  BY DEF IInv, TInv, LossInv, TypeOK, RamType
<1>3. /\ \A s \in Segments : metadataFile.head[s] = head[s]
      /\ metadataFile.format = "v2" /\ metadataFile.dropped = dropped
      /\ metadataFile.reserved = reserved
  BY <1>1, <1>2 DEF ReadySound
<1>4. PICK n \in Segments : n = Other(active)
  BY <1>2 DEF Other, Segments
<1>5. count[n] \in Nat /\ Cardinality(Lost) \in Nat
  BY <1>2, LostFinite DEF LostCounted
<1>6. reserved = 0 => Cardinality(Lost) <= dropped \/ dropped = CounterMaximum
  BY <1>2, <1>3 DEF NoSilentLoss, DropsKnown, HasMetadata
<1>7. CASE /\ count[n] = 0 /\ pc' = "rotateTruncate"
           /\ UNCHANGED <<dropped, metadataFile>>
  <2>1. Lost' = Lost /\ NoSilentLoss' /\ \A s \in Segments : Live(s)' = Live(s)
    BY <1>1, <1>2, <1>7, SameFlash
  <2>2. FilesSound' /\ ScanSound'
    BY <1>1, <1>2, <1>7 DEF FilesSound, FilesMade, ScanSound, Running, Scanning
  <2>3. ReadySound'
    BY <1>1, <1>2, <1>7, <2>1 DEF ReadySound
  <2>4. RotationCounted'
    <3>1. count'[cur'] = 0
      BY <1>1, <1>4, <1>7
    <3> QED BY <1>1, <1>2, <1>5, <1>6, <1>7, <2>1, <3>1 DEF RotationCounted
  <2> QED BY <2>1, <2>2, <2>3, <2>4 DEF LossInv
<1>8. CASE /\ dropped' = SaturatingAdd(dropped, count[n])
           /\ SaveMetadata /\ pc' = "rotateTruncate"
  <2>1. /\ dropped' \in 0 .. CounterMaximum /\ dropped <= dropped'
        /\ dropped' = dropped + count[n] \/ dropped' = CounterMaximum
    BY <1>2, <1>5, <1>8, SaturatingAddFacts
  <2>2. dropped' >= dropped
    BY <1>2, <2>1, ConstantsAssumption
  <2>3. /\ \A s \in Segments : Live(s)' = Live(s)
        /\ \A s \in Segments : metadataFile'.head[s] = head'[s]
        /\ metadataFile'.format = "v2" /\ metadataFile'.dropped = dropped'
        /\ metadataFile'.reserved = reserved'
        /\ Lost' = Lost /\ NoSilentLoss'
    BY <1>1, <1>2, <1>8, <2>2, RunningSave
  <2>4. FilesSound' /\ ScanSound'
    BY <1>1, <1>2, <1>8, <2>3 DEF FilesSound, FilesMade, ScanSound, Running, Scanning
  <2>5. ReadySound'
    <3>1. \A s \in Segments : head[s] <= Len(file[s]) /\ count[s] = Cardinality(Live(s))
      BY <1>1, <1>2 DEF ReadySound
    <3> QED BY <1>1, <1>8, <2>3, <3>1 DEF ReadySound
  <2>6. RotationCounted'
    <3>1. count'[cur'] = count[n] /\ Cardinality(Lost') = Cardinality(Lost)
      BY <1>1, <1>4, <2>3
    <3>2. reserved = 0 =>
            Cardinality(Lost) + count[n] <= dropped' \/ dropped' = CounterMaximum
      BY <1>2, <1>5, <1>6, <2>1, ConstantsAssumption
    <3> QED BY <1>1, <3>1, <3>2 DEF RotationCounted
  <2> QED BY <2>3, <2>4, <2>5, <2>6 DEF LossInv
<1>9. CASE pc' = "ready" /\ UNCHANGED <<dropped, metadataFile>>
  <2>1. pc' \in Running /\ pc' \notin {"rotateTruncate", "reclaim"}
    BY <1>9 DEF Running
  <2> QED BY <1>1, <1>2, <1>3, <1>9, <2>1, RunningSame
<1> QED BY <1>4, <1>7, <1>8, <1>9 DEF RotateCount

\* A running queue empties segment cur and commits its head next.
LEMMA RunningTruncate ==
    ASSUME TypeOK, TypeOK', FilesSound, ReadySound, pc \in Running,
           pc' \in {"rotateSave", "reclaimSave"}, cur' = cur, TruncateSegment(cur),
           UNCHANGED <<made, metadataFile, dropped, reserved, accepted>>,
           \A s \in Segments : metadataFile.head[s] = head[s],
           NoSilentLoss'
    PROVE  LossInv'
<1>1. /\ cur \in Segments /\ file \in [Segments -> Seq(Cell)]
      /\ head \in [Segments -> Nat] /\ count \in [Segments -> Nat]
  BY DEF TypeOK, RamType, FlashType
<1>2. PICK c \in Segments : c = cur
  BY <1>1
<1>3. /\ file'[c] = <<>> /\ head'[c] = 0 /\ count'[c] = 0
      /\ \A s \in Segments : s # c =>
            /\ head'[s] = head[s] /\ count'[s] = count[s] /\ file'[s] = file[s]
  BY <1>1, <1>2 DEF TruncateSegment
<1>4. EmptyNotLive'
  BY EmptyLive, PTL
<1>5. \A s \in Segments : s # c => Live(s)' = Live(s)
  BY <1>3 DEF Live, DurableHead, HasMetadata
<1>6. FilesSound' /\ ScanSound' /\ RotationCounted'
  BY <1>3
       DEF FilesSound, FilesMade, ScanSound, RotationCounted, Running, Scanning
<1>7. ReadySound'
  <2>1. /\ metadataFile'.format = "v2" /\ metadataFile'.dropped = dropped'
        /\ metadataFile'.reserved = reserved'
    BY DEF ReadySound
  <2>2. \A s \in Segments : head'[s] <= Len(file'[s]) /\ count'[s] = Cardinality(Live(s)')
    <3>1. head'[c] <= Len(file'[c]) /\ count'[c] = Cardinality(Live(c)')
      BY <1>3, <1>4 DEF EmptyNotLive
    <3>2. \A s \in Segments : s # c =>
             head'[s] <= Len(file'[s]) /\ count'[s] = Cardinality(Live(s)')
      BY <1>3, <1>5 DEF ReadySound
    <3> QED BY <3>1, <3>2
  <2>3. \A s \in Segments :
           metadataFile'.head[s] = head'[s] \/ (s = cur' /\ file'[s] = <<>>)
    BY <1>2, <1>3
  <2> QED BY <2>1, <2>2, <2>3 DEF ReadySound
<1> QED BY <1>6, <1>7 DEF LossInv

LEMMA RotateTruncateStep == IInv /\ TypeOK' /\ RotateTruncate => LossInv'
<1> SUFFICES ASSUME IInv, TypeOK', RotateTruncate PROVE LossInv'
  OBVIOUS
<1>1. /\ UNCHANGED <<made, quarantine, metadataFile, dropped, reserved, cur,
                     accepted, resolved>>
      /\ pc = "rotateTruncate" /\ pc \in Running
  BY DEF RotateTruncate, history, Running
<1>2. /\ TypeOK /\ FilesSound /\ ReadySound /\ RotationCounted /\ NoSilentLoss
      /\ cur \in Segments /\ file \in [Segments -> Seq(Cell)]
      /\ dropped \in 0 .. CounterMaximum /\ count \in [Segments -> Nat]
  BY DEF IInv, TInv, LossInv, TypeOK, RamType, FlashType
<1>3. /\ \A s \in Segments : metadataFile.head[s] = head[s]
      /\ metadataFile.format = "v2" /\ metadataFile.dropped = dropped
      /\ metadataFile.reserved = reserved
  BY <1>1, <1>2 DEF ReadySound
<1>4. CASE pc' = "ready" /\ UNCHANGED <<file, active, head, tail, count>>
  <2>1. pc' \in Running /\ pc' \notin {"rotateTruncate", "reclaim"}
    BY <1>4 DEF Running
  <2> QED BY <1>1, <1>2, <1>3, <1>4, <2>1, RunningSame
<1>5. CASE TruncateSegment(cur) /\ pc' = "rotateSave"
  <2>1. PICK c \in Segments : c = cur
    BY <1>2
  <2>2. /\ file'[c] = <<>>
        /\ \A s \in Segments : s # c => file'[s] = file[s]
    BY <1>2, <1>5, <2>1 DEF TruncateSegment
  <2>3. \A s \in Segments : s # c => DurableHead(s)' = DurableHead(s)
    BY <1>1, <2>2 DEF DurableHead, HasMetadata
  <2> DEFINE Erased == {file[c][i].id : i \in Live(c)}
  <2>4. Lost' \subseteq Lost \cup Erased
    <3> SUFFICES ASSUME NEW r \in Lost', r \notin Lost PROVE r \in Erased
      OBVIOUS
    <3>1. /\ r \in accepted /\ r \notin resolved /\ r \notin Quarantined
          /\ \A t \in Segments : \A j \in DurableHead(t)' + 1 .. Len(file'[t]) :
                file'[t][j].id # r
      BY <1>1 DEF Lost, InSegments, IdsAfter, Quarantined
    <3>2. PICK s \in Segments : \E i \in DurableHead(s) + 1 .. Len(file[s]) : file[s][i].id = r
      BY <3>1 DEF Lost, InSegments, IdsAfter
    <3>3. PICK i \in DurableHead(s) + 1 .. Len(file[s]) : file[s][i].id = r
      BY <3>2
    <3>4. s = c
      BY <2>2, <2>3, <3>1, <3>3
    <3>5. r # 0
      BY <1>2, <3>1 DEF TypeOK, HistoryType
    <3> QED BY <3>3, <3>4, <3>5 DEF Live
  <2>5. IsFiniteSet(Erased) /\ Cardinality(Erased) <= count[c]
    <3> DEFINE f == [i \in Live(c) |-> file[c][i].id]
    <3>1. f \in Surjection(Live(c), Erased)
      BY DEF Surjection
    <3>2. IsFiniteSet(Live(c))
      BY <1>2, LiveFinite
    <3>3. count[c] = Cardinality(Live(c))
      BY <1>1, <1>2 DEF ReadySound
    <3> HIDE DEF f, Erased
    <3> QED BY <3>1, <3>2, <3>3, FS_Surjection
  <2> HIDE DEF Erased
  <2>6. IsFiniteSet(Lost) /\ Cardinality(Lost) \in Nat
    BY <1>2, LostFinite DEF LostCounted
  <2>7. /\ IsFiniteSet(Lost \cup Erased)
        /\ Cardinality(Lost \cup Erased) =
              Cardinality(Lost) + Cardinality(Erased) - Cardinality(Lost \cap Erased)
    BY <2>5, <2>6, FS_Union
  <2>8. Cardinality(Erased) \in Nat /\ Cardinality(Lost \cap Erased) \in Nat
    BY <2>5, <2>6, FS_Intersection, FS_CardinalityType
  <2>9. Cardinality(Lost') <= Cardinality(Lost \cup Erased) /\ Cardinality(Lost') \in Nat
    BY <2>4, <2>7, FS_Subset, FS_CardinalityType
  <2>10. count[c] \in Nat /\ dropped \in Nat
    BY <1>2
  <2>11. Cardinality(Lost') <= Cardinality(Lost) + count[c]
    BY <2>5, <2>6, <2>7, <2>8, <2>9, <2>10
  <2>12. NoSilentLoss'
    <3>1. reserved = 0 => \/ Cardinality(Lost) + count[c] <= dropped
                          \/ dropped = CounterMaximum
      BY <1>1, <1>2, <2>1 DEF RotationCounted
    <3>2. reserved = 0 => Cardinality(Lost') <= dropped \/ dropped = CounterMaximum
      BY <2>6, <2>9, <2>10, <2>11, <3>1
    <3> QED BY <1>1, <1>3, <3>2 DEF NoSilentLoss, DropsKnown
  <2> QED BY <1>1, <1>2, <1>3, <1>5, <2>12, RunningTruncate
<1> QED BY <1>4, <1>5 DEF RotateTruncate

\* The commits that end a rotation and a reclaim.
LEMMA RunningSaveStep ==
    ASSUME IInv, TypeOK', pc \in Running, pc' \in {"append", "ready"}, SaveMetadata,
           UNCHANGED <<file, made, quarantine, head, count, dropped, reserved,
                       accepted, resolved>>
    PROVE  LossInv'
<1>1. TypeOK /\ FilesSound /\ ReadySound /\ NoSilentLoss /\ dropped \in Nat
  BY DEF IInv, TInv, LossInv, TypeOK, RamType
<1>2. dropped' >= dropped
  BY <1>1
<1>3. /\ \A s \in Segments : Live(s)' = Live(s)
      /\ \A s \in Segments : metadataFile'.head[s] = head'[s]
      /\ metadataFile'.format = "v2" /\ metadataFile'.dropped = dropped'
      /\ metadataFile'.reserved = reserved'
      /\ NoSilentLoss'
  BY <1>1, <1>2, RunningSave
<1>4. FilesSound' /\ ScanSound' /\ RotationCounted'
  BY <1>1, <1>3
       DEF FilesSound, FilesMade, ScanSound, RotationCounted, Running, Scanning
<1>5. ReadySound'
  <2>1. \A s \in Segments : head[s] <= Len(file[s]) /\ count[s] = Cardinality(Live(s))
    BY <1>1 DEF ReadySound
  <2> QED BY <1>3, <2>1 DEF ReadySound
<1> QED BY <1>3, <1>4, <1>5 DEF LossInv

LEMMA RotateSaveStep == SafeFaults /\ IInv /\ TypeOK' /\ RotateSave => LossInv'
<1> SUFFICES ASSUME SafeFaults, IInv, TypeOK', RotateSave PROVE LossInv'
  OBVIOUS
<1>1. /\ UNCHANGED <<file, made, quarantine, head, count, dropped, reserved,
                     accepted, resolved>>
      /\ pc \in Running /\ SaveMetadata /\ pc' \in {"append", "ready"}
  BY DEF RotateSave, metadata, history, Running, SafeFaults
<1> QED BY <1>1, RunningSaveStep

LEMMA AppendStep == IInv /\ TypeOK' /\ AppendRecord => LossInv'
<1> SUFFICES ASSUME IInv, TypeOK', AppendRecord PROVE LossInv'
  OBVIOUS
<1>1. /\ UNCHANGED <<made, quarantine, metadataFile, head, dropped, reserved, resolved>>
      /\ pc = "append" /\ pc \in Running /\ pc' = "ready" /\ pc' \in Running
  BY DEF AppendRecord, metadata, Running
<1>2. /\ TypeOK /\ FilesSound /\ ReadySound /\ NoSilentLoss
      /\ active \in Segments /\ file \in [Segments -> Seq(Cell)]
      /\ count \in [Segments -> Nat]
  BY DEF IInv, TInv, LossInv, TypeOK, RamType, FlashType
<1>3. /\ \A s \in Segments : metadataFile.head[s] = head[s] /\ head[s] <= Len(file[s])
                              /\ count[s] = Cardinality(Live(s))
      /\ metadataFile.format = "v2" /\ metadataFile.dropped = dropped
      /\ metadataFile.reserved = reserved
  BY <1>1, <1>2 DEF ReadySound
<1>4. CASE UNCHANGED <<file, count, accepted>>
  <2>1. pc' \notin {"rotateTruncate", "reclaim"}
    BY <1>1
  <2> QED BY <1>1, <1>2, <1>3, <1>4, <2>1, RunningSame
<1>5. ASSUME NEW c, file' = [file EXCEPT ![active] = Append(@, c)],
             \/ c.id = 0 /\ UNCHANGED <<count, accepted>>
             \/ /\ c.id # 0 /\ accepted' = accepted \cup {c.id}
                /\ count' = [count EXCEPT ![active] = @ + 1]
      PROVE  LossInv'
  <2>1. PICK a \in Segments : a = active
    BY <1>2
  <2>2. /\ Len(file[a]) \in Nat /\ head[a] \in Nat /\ count[a] \in Nat
        /\ file[a] \in Seq(Cell)
    BY <1>2 DEF TypeOK, RamType
  <2>3. /\ file'[a] = Append(file[a], c)
        /\ \A s \in Segments : s # a => file'[s] = file[s]
    BY <1>2, <1>5, <2>1
  <2>4. /\ Len(file'[a]) = Len(file[a]) + 1
        /\ file'[a][Len(file[a]) + 1] = c
        /\ \A i \in 1 .. Len(file[a]) : file'[a][i] = file[a][i]
    BY <2>2, <2>3
  <2>5. DurableHead(a) = head[a] /\ DurableHead(a)' = head[a] /\ head[a] <= Len(file[a])
    BY <1>1, <1>3, <2>2, <2>4 DEF DurableHead, HasMetadata, Lesser
  <2>6. \A s \in Segments : s # a => DurableHead(s)' = DurableHead(s) /\ Live(s)' = Live(s)
    BY <1>1, <2>3 DEF DurableHead, HasMetadata, Live
  <2>7. Live(a)' = IF c.id = 0 THEN Live(a) ELSE Live(a) \cup {Len(file[a]) + 1}
    <3>1. \A i : i \in Live(a)' <=>
             i \in head[a] + 1 .. Len(file[a]) + 1 /\ file'[a][i].id # 0
      BY <2>4, <2>5 DEF Live
    <3>2. \A i : i \in Live(a) <=> i \in head[a] + 1 .. Len(file[a]) /\ file[a][i].id # 0
      BY <2>5 DEF Live
    <3>3. \A i \in head[a] + 1 .. Len(file[a]) : file'[a][i] = file[a][i]
      BY <2>2, <2>4
    <3>4. \A i : i \in head[a] + 1 .. Len(file[a]) + 1 <=>
                 i \in head[a] + 1 .. Len(file[a]) \/ i = Len(file[a]) + 1
      BY <2>2, <2>5
    <3> QED BY <2>4, <3>1, <3>2, <3>3, <3>4
  <2>8. count'[a] = Cardinality(Live(a)')
    <3>1. CASE c.id = 0
      BY <1>3, <1>5, <2>7, <3>1
    <3>2. CASE c.id # 0
      <4>1. IsFiniteSet(Live(a))
        BY <1>2, LiveFinite
      <4>2. Len(file[a]) + 1 \notin Live(a)
        BY <2>2, <2>5 DEF Live
      <4>3. Cardinality(Live(a) \cup {Len(file[a]) + 1}) = Cardinality(Live(a)) + 1
        BY <4>1, <4>2, FS_AddElement
      <4>4. count'[a] = count[a] + 1
        BY <1>2, <1>5, <2>1, <3>2
      <4> QED BY <1>3, <2>7, <3>2, <4>3, <4>4
    <3> QED BY <3>1, <3>2
  <2>9. \A s \in Segments : s # a => count'[s] = count[s]
    BY <1>2, <1>5, <2>1
  <2>10. ReadySound'
    <3>1. \A s \in Segments : head'[s] <= Len(file'[s]) /\ count'[s] = Cardinality(Live(s)')
                               /\ metadataFile'.head[s] = head'[s]
      <4>1. head'[a] <= Len(file'[a]) /\ count'[a] = Cardinality(Live(a)')
        BY <1>1, <2>2, <2>4, <2>5, <2>8
      <4> QED BY <1>1, <1>3, <2>3, <2>6, <2>9, <4>1
    <3> QED BY <1>1, <1>3, <3>1 DEF ReadySound
  <2>11. Lost' \subseteq Lost
    <3> SUFFICES ASSUME NEW r \in Lost', r \notin Lost PROVE FALSE
      OBVIOUS
    <3>1. /\ r \in accepted' /\ r \notin resolved /\ r \notin Quarantined
          /\ \A t \in Segments : \A j \in DurableHead(t)' + 1 .. Len(file'[t]) :
                file'[t][j].id # r
      BY <1>1 DEF Lost, InSegments, IdsAfter, Quarantined
    <3>2. Len(file[a]) + 1 \in DurableHead(a)' + 1 .. Len(file'[a])
      BY <2>2, <2>4, <2>5
    <3>3. r # c.id
      BY <2>4, <3>1, <3>2
    <3>4. r \in accepted
      BY <1>5, <3>1, <3>3
    <3>5. PICK s \in Segments : \E i \in DurableHead(s) + 1 .. Len(file[s]) : file[s][i].id = r
      BY <3>1, <3>4 DEF Lost, InSegments, IdsAfter
    <3>6. PICK i \in DurableHead(s) + 1 .. Len(file[s]) : file[s][i].id = r
      BY <3>5
    <3>7. CASE s = a
      <4>1. i \in DurableHead(a)' + 1 .. Len(file'[a]) /\ i \in 1 .. Len(file[a])
        BY <2>2, <2>4, <2>5, <3>6, <3>7
      <4> QED BY <2>4, <3>1, <3>6, <3>7, <4>1
    <3>8. CASE s # a
      BY <2>3, <2>6, <3>1, <3>6, <3>8
    <3> QED BY <3>7, <3>8
  <2>12. NoSilentLoss'
    <3>1. /\ DropsKnown' => DropsKnown
          /\ metadataFile'.dropped >= metadataFile.dropped
      BY <1>1, <1>2 DEF DropsKnown, HasMetadata, TypeOK, FlashType, MetadataFile
    <3> QED BY <1>2, <2>11, <3>1, AccountingKept
  <2>13. FilesSound' /\ ScanSound' /\ RotationCounted'
    <3>1. made = Segments /\ made' = Segments
      BY <1>1, <1>2 DEF FilesSound, FilesMade
    <3> QED BY <1>1, <1>3, <3>1
       DEF FilesSound, FilesMade, ScanSound, RotationCounted, Running, Scanning
  <2> QED BY <2>10, <2>12, <2>13 DEF LossInv
<1>6. Torn.id = 0 /\ Complete(next).id = next /\ next # 0
  BY <1>1 DEF Torn, Complete, IInv, TInv, OfferSound, TypeOK, HistoryType
<1>7. CASE /\ file' = [file EXCEPT ![active] = Append(@, Torn)]
           /\ UNCHANGED <<tail, count, accepted>>
  BY <1>5, <1>6, <1>7
<1>8. CASE /\ file' = [file EXCEPT ![active] = Append(@, Complete(next))]
           /\ count' = [count EXCEPT ![active] = @ + 1]
           /\ accepted' = accepted \cup {next}
  BY <1>5, <1>6, <1>8
<1> QED BY <1>4, <1>7, <1>8 DEF AppendRecord

-----------------------------------------------------------------------------
(* pop *)

LEMMA PopStep == ASSUME NEW d \in BOOLEAN PROVE IInv /\ TypeOK' /\ Pop(d) => LossInv'
<1> SUFFICES ASSUME IInv, TypeOK', Pop(d) PROVE LossInv'
  OBVIOUS
<1>1. /\ UNCHANGED <<file, made, quarantine, reserved, accepted>>
      /\ pc = "ready" /\ pc \in Running
  BY DEF Pop, Running
<1>2. /\ TypeOK /\ CellsSound /\ FilesSound /\ ReadySound /\ NoSilentLoss
      /\ file \in [Segments -> Seq(Cell)] /\ head \in [Segments -> Nat]
      /\ count \in [Segments -> Nat] /\ dropped \in 0 .. CounterMaximum
      /\ active \in Segments
  BY DEF IInv, TInv, LossInv, TypeOK, RamType, FlashType
<1>3. /\ \A s \in Segments : metadataFile.head[s] = head[s] /\ head[s] <= Len(file[s])
                              /\ count[s] = Cardinality(Live(s))
      /\ metadataFile.format = "v2" /\ metadataFile.dropped = dropped
      /\ metadataFile.reserved = reserved
  BY <1>1, <1>2 DEF ReadySound
<1>4. CASE UNCHANGED <<head, dropped, metadataFile, count, resolved, pc, cur>>
  <2>1. pc' \in Running /\ pc' \notin {"rotateTruncate", "reclaim"}
    BY <1>1, <1>4
  <2> QED BY <1>1, <1>2, <1>3, <1>4, <2>1, RunningSame
<1>5. PICK a \in Segments : a = oldestSegment
  BY <1>2 DEF oldestSegment, Other, Segments
<1>6. CASE /\ head' = [head EXCEPT ![a] = @ + 1]
           /\ dropped' = IF d THEN SaturatingAdd(dropped, 1) ELSE dropped
           /\ SaveMetadata
           /\ count' = [count EXCEPT ![a] = @ - 1]
           /\ resolved' = resolved \cup {HeadRecord(a)}
           /\ pc' = IF count[a] = 1 THEN "reclaim" ELSE "ready"
           /\ cur' = a
  <2>1. /\ Len(file[a]) \in Nat /\ head[a] \in Nat /\ count[a] \in Nat
    BY <1>2
  <2>2. head[a] < Len(file[a]) /\ file[a][head[a] + 1].ok
    BY <1>5 DEF Pop, HeadReadable
  <2>3. /\ head'[a] = head[a] + 1 /\ count'[a] = count[a] - 1
        /\ \A s \in Segments : s # a => head'[s] = head[s] /\ count'[s] = count[s]
    BY <1>2, <1>6
  <2>4. /\ metadataFile'.format = "v2" /\ metadataFile'.dropped = dropped'
        /\ metadataFile'.reserved = reserved' /\ metadataFile'.head = head'
    BY <1>6 DEF SaveMetadata
  <2>5. DurableHead(a) = head[a] /\ DurableHead(a)' = head[a] + 1
    BY <1>1, <1>3, <2>1, <2>2, <2>3, <2>4 DEF DurableHead, HasMetadata, Lesser
  <2>6. \A s \in Segments : s # a => DurableHead(s)' = DurableHead(s) /\ Live(s)' = Live(s)
    <3>1. \A s \in Segments : s # a => DurableHead(s)' = DurableHead(s)
      BY <1>1, <1>3, <2>3, <2>4 DEF DurableHead, HasMetadata
    <3> QED BY <1>1, <3>1 DEF Live
  <2>7. head[a] + 1 \in Live(a)
    <3>1. head[a] + 1 \in 1 .. Len(file[a]) /\ head[a] + 1 \in head[a] + 1 .. Len(file[a])
      BY <2>1, <2>2
    <3>2. file[a][head[a] + 1].id # 0
      BY <1>2, <2>2, <3>1 DEF CellsSound
    <3> QED BY <2>5, <3>1, <3>2 DEF Live
  <2>8. Live(a)' = Live(a) \ {head[a] + 1}
    <3>1. \A i : i \in Live(a)' <=>
             i \in head[a] + 1 + 1 .. Len(file[a]) /\ file[a][i].id # 0
      BY <1>1, <2>5 DEF Live
    <3>2. \A i : i \in Live(a) <=> i \in head[a] + 1 .. Len(file[a]) /\ file[a][i].id # 0
      BY <2>5 DEF Live
    <3>3. \A i : i \in head[a] + 1 + 1 .. Len(file[a]) <=>
                 i \in head[a] + 1 .. Len(file[a]) /\ i # head[a] + 1
      BY <2>1
    <3> QED BY <3>1, <3>2, <3>3
  <2>9. count'[a] = Cardinality(Live(a)')
    <3>1. IsFiniteSet(Live(a))
      BY <1>2, LiveFinite
    <3>2. Cardinality(Live(a) \ {head[a] + 1}) = Cardinality(Live(a)) - 1
      BY <2>7, <3>1, FS_RemoveElement
    <3> QED BY <1>3, <2>3, <2>8, <3>2
  <2>10. ReadySound'
    <3>1. \A s \in Segments : head'[s] <= Len(file'[s]) /\ count'[s] = Cardinality(Live(s)')
      <4>1. head'[a] <= Len(file'[a])
        BY <1>1, <2>1, <2>2, <2>3
      <4> QED BY <1>1, <1>3, <2>3, <2>6, <2>9, <4>1
    <3>2. pc' = "reclaim" => count'[cur'] = 0
      BY <1>6, <2>3
    <3> QED BY <2>4, <3>1, <3>2 DEF ReadySound
  <2>11. Lost' \subseteq Lost
    <3>1. ASSUME NEW s \in Segments, NEW i \in DurableHead(s) + 1 .. Len(file[s])
          PROVE  \/ file[s][i].id \in resolved'
                 \/ \E t \in Segments :
                      \E j \in DurableHead(t)' + 1 .. Len(file'[t]) :
                         file'[t][j].id = file[s][i].id
      <4>1. CASE s # a
        BY <1>1, <2>6, <3>1, <4>1
      <4>2. CASE s = a /\ i = head[a] + 1
        BY <1>6, <4>2 DEF HeadRecord
      <4>3. CASE s = a /\ i # head[a] + 1
        <5>1. i \in DurableHead(a)' + 1 .. Len(file'[a])
          BY <1>1, <2>1, <2>5, <3>1, <4>3
        <5> QED BY <1>1, <4>3, <5>1
      <4> QED BY <4>1, <4>2, <4>3
    <3>2. resolved \subseteq resolved' /\ Quarantined \subseteq Quarantined'
      BY <1>1, <1>6 DEF Quarantined
    <3> QED BY <1>1, <3>1, <3>2, LostShrinks
  <2>12. NoSilentLoss'
    <3>1. dropped' >= dropped
      <4>1. 1 \in Nat
        OBVIOUS
      <4>2. SaturatingAdd(dropped, 1) \in 0 .. CounterMaximum
            /\ dropped <= SaturatingAdd(dropped, 1)
        BY <1>2, <4>1, SaturatingAddFacts, Zenon
      <4> QED BY <1>2, <1>6, <4>2, ConstantsAssumption
    <3>2. /\ DropsKnown' => DropsKnown
          /\ metadataFile'.dropped >= metadataFile.dropped
      BY <1>1, <1>3, <2>4, <3>1 DEF DropsKnown, HasMetadata
    <3> QED BY <1>2, <2>11, <3>2, AccountingKept
  <2>13. FilesSound' /\ ScanSound' /\ RotationCounted'
    BY <1>1, <1>2, <1>6, <2>4
       DEF FilesSound, FilesMade, ScanSound, RotationCounted, Running, Scanning
  <2> QED BY <2>10, <2>12, <2>13 DEF LossInv
<1> QED BY <1>4, <1>5, <1>6 DEF Pop

LEMMA PopReclaimStep == IInv /\ TypeOK' /\ PopReclaim => LossInv'
<1> SUFFICES ASSUME IInv, TypeOK', PopReclaim PROVE LossInv'
  OBVIOUS
<1>1. /\ UNCHANGED <<made, quarantine, metadataFile, dropped, reserved, cur,
                     accepted, resolved>>
      /\ pc = "reclaim" /\ pc \in Running
  BY DEF PopReclaim, history, Running
<1>2. /\ TypeOK /\ FilesSound /\ ReadySound /\ NoSilentLoss
      /\ cur \in Segments /\ file \in [Segments -> Seq(Cell)]
  BY DEF IInv, TInv, LossInv, TypeOK, RamType, FlashType
<1>3. \A s \in Segments : metadataFile.head[s] = head[s]
  BY <1>1, <1>2 DEF ReadySound
<1>4. CASE pc' = "ready" /\ UNCHANGED <<file, head, tail, count>>
  <2>1. pc' \in Running /\ pc' \notin {"rotateTruncate", "reclaim"}
    BY <1>4 DEF Running
  <2> QED BY <1>1, <1>2, <1>3, <1>4, <2>1, RunningSame
<1>5. CASE TruncateSegment(cur) /\ pc' = "reclaimSave"
  <2>1. PICK c \in Segments : c = cur
    BY <1>2
  <2>2. \A s \in Segments : s # c => file'[s] = file[s]
    BY <1>2, <1>5, <2>1 DEF TruncateSegment
  <2>3. \A s \in Segments : s # c => DurableHead(s)' = DurableHead(s)
    BY <1>1, <2>2 DEF DurableHead, HasMetadata
  <2>4. Live(c) = {}
    <3>1. Cardinality(Live(c)) = 0
      BY <1>1, <1>2, <2>1 DEF ReadySound
    <3>2. IsFiniteSet(Live(c))
      BY <1>2, LiveFinite
    <3> QED BY <3>1, <3>2, FS_EmptySet
  <2>5. Lost' \subseteq Lost
    <3>1. ASSUME NEW s \in Segments, NEW i \in DurableHead(s) + 1 .. Len(file[s])
          PROVE  \/ file[s][i].id \notin accepted
                 \/ \E t \in Segments :
                      \E j \in DurableHead(t)' + 1 .. Len(file'[t]) :
                         file'[t][j].id = file[s][i].id
      <4>1. CASE s # c
        BY <2>2, <2>3, <3>1, <4>1
      <4>2. CASE s = c
        <5>1. file[s][i].id = 0
          BY <2>4, <3>1, <4>2 DEF Live
        <5>2. 0 \notin accepted
          BY <1>2 DEF TypeOK, HistoryType
        <5> QED BY <5>1, <5>2
      <4> QED BY <4>1, <4>2
    <3>2. resolved \subseteq resolved' /\ Quarantined \subseteq Quarantined'
      BY <1>1 DEF Quarantined
    <3> QED BY <1>1, <3>1, <3>2, LostShrinks
  <2>6. NoSilentLoss'
    <3>1. /\ DropsKnown' => DropsKnown
          /\ metadataFile'.dropped >= metadataFile.dropped
      BY <1>1, <1>2 DEF DropsKnown, HasMetadata, TypeOK, FlashType, MetadataFile
    <3> QED BY <1>2, <2>5, <3>1, AccountingKept
  <2> QED BY <1>1, <1>2, <1>3, <1>5, <2>6, RunningTruncate
<1> QED BY <1>4, <1>5 DEF PopReclaim

LEMMA PopReclaimSaveStep == SafeFaults /\ IInv /\ TypeOK' /\ PopReclaimSave => LossInv'
<1> SUFFICES ASSUME SafeFaults, IInv, TypeOK', PopReclaimSave PROVE LossInv'
  OBVIOUS
<1>1. /\ UNCHANGED <<file, made, quarantine, head, count, dropped, reserved,
                     accepted, resolved>>
      /\ pc \in Running /\ SaveMetadata /\ pc' \in {"append", "ready"}
  BY DEF PopReclaimSave, metadata, history, Running, SafeFaults
<1> QED BY <1>1, RunningSaveStep

-----------------------------------------------------------------------------
(* The environment *)

LEMMA CrashStep == IInv /\ Crash => LossInv'
<1> SUFFICES ASSUME IInv, Crash PROVE LossInv'
  OBVIOUS
<1>1. UNCHANGED <<file, made, quarantine, metadataFile, accepted, resolved>> /\ pc' = "off"
  BY DEF Crash, PowerLoss
<1>2. FilesSound /\ NoSilentLoss
  BY DEF IInv, LossInv
<1>3. NoSilentLoss'
  BY <1>1, <1>2, SameFlash
<1> QED BY <1>1, <1>2, <1>3, QueueDown DEF FilesSound, FilesMade

LEMMA CrashInAppendStep == IInv /\ TypeOK' /\ CrashInAppend => LossInv'
<1> SUFFICES ASSUME IInv, TypeOK', CrashInAppend PROVE LossInv'
  OBVIOUS
<1>1. /\ UNCHANGED <<made, quarantine, metadataFile, accepted, resolved>>
      /\ pc = "append" /\ pc \in Running /\ pc' = "off"
      /\ file' = [file EXCEPT ![active] = Append(@, Torn)]
  BY DEF CrashInAppend, PowerLoss, Running
<1>2. /\ TypeOK /\ FilesSound /\ ReadySound /\ NoSilentLoss
      /\ active \in Segments /\ file \in [Segments -> Seq(Cell)]
  BY DEF IInv, TInv, LossInv, TypeOK, RamType, FlashType
<1>3. PICK a \in Segments : a = active
  BY <1>2
<1>4. /\ metadataFile.head[a] = head[a] /\ head[a] <= Len(file[a])
      /\ metadataFile.format = "v2"
  BY <1>1, <1>2 DEF ReadySound
<1>5. Len(file[a]) \in Nat /\ head[a] \in Nat /\ file[a] \in Seq(Cell)
  BY <1>2 DEF TypeOK, RamType
<1>6. /\ file'[a] = Append(file[a], Torn)
      /\ \A s \in Segments : s # a => file'[s] = file[s]
  BY <1>1, <1>2, <1>3
<1>7. /\ Len(file'[a]) = Len(file[a]) + 1
      /\ \A i \in 1 .. Len(file[a]) : file'[a][i] = file[a][i]
  BY <1>5, <1>6
<1>8. DurableHead(a) = head[a] /\ DurableHead(a)' = head[a]
  BY <1>1, <1>4, <1>5, <1>7 DEF DurableHead, HasMetadata, Lesser
<1>9. \A s \in Segments : s # a => DurableHead(s)' = DurableHead(s)
  BY <1>1, <1>6 DEF DurableHead, HasMetadata
<1>10. Lost' \subseteq Lost
  <2>1. ASSUME NEW s \in Segments, NEW i \in DurableHead(s) + 1 .. Len(file[s])
        PROVE  \E t \in Segments :
                  \E j \in DurableHead(t)' + 1 .. Len(file'[t]) :
                     file'[t][j].id = file[s][i].id
    <3>1. CASE s # a
      BY <1>6, <1>9, <2>1, <3>1
    <3>2. CASE s = a
      <4>1. i \in DurableHead(a)' + 1 .. Len(file'[a]) /\ i \in 1 .. Len(file[a])
        BY <1>5, <1>7, <1>8, <2>1, <3>2
      <4> QED BY <1>7, <3>2, <4>1
    <3> QED BY <3>1, <3>2
  <2>2. resolved \subseteq resolved' /\ Quarantined \subseteq Quarantined'
    BY <1>1 DEF Quarantined
  <2> QED BY <1>1, <2>1, <2>2, LostShrinks
<1>11. NoSilentLoss'
  <2>1. /\ DropsKnown' => DropsKnown
        /\ metadataFile'.dropped >= metadataFile.dropped
    BY <1>1, <1>2 DEF DropsKnown, HasMetadata, TypeOK, FlashType, MetadataFile
  <2> QED BY <1>2, <1>10, <2>1, AccountingKept
<1>12. made = Segments
  BY <1>1, <1>2 DEF FilesSound, FilesMade
<1> QED BY <1>1, <1>2, <1>4, <1>11, <1>12, QueueDown

LEMMA MetadataLossStep == IInv /\ MetadataLoss => LossInv'
<1> SUFFICES ASSUME IInv, MetadataLoss PROVE LossInv'
  OBVIOUS
<1>1. /\ UNCHANGED <<file, made, accepted>> /\ pc' = "off"
      /\ metadataFile' = [metadataFile EXCEPT !.format = "bad"]
  BY DEF MetadataLoss, ram, history
<1>2. FilesSound /\ metadataFile \in MetadataFile
  BY DEF IInv, LossInv, TInv, TypeOK, FlashType
<1>3. metadataFile'.format = "bad"
  BY <1>1, <1>2 DEF MetadataFile
<1>4. NoSilentLoss'
  BY <1>3 DEF NoSilentLoss, DropsKnown, HasMetadata
<1> QED BY <1>1, <1>2, <1>3, <1>4, QueueDown DEF FilesSound, FilesMade

LEMMA DecayStep == IInv /\ Decay => LossInv'
<1> SUFFICES ASSUME IInv, Decay PROVE LossInv'
  OBVIOUS
<1>1. /\ UNCHANGED <<made, quarantine, metadataFile, head, count, dropped, reserved,
                     pc, cur, accepted, resolved>>
      /\ pc \in {"off", "ready"}
  BY DEF Decay, ram, metadata, history
<1>2. /\ TypeOK /\ FilesSound /\ ReadySound /\ NoSilentLoss
      /\ file \in [Segments -> Seq(Cell)]
  BY DEF IInv, TInv, LossInv, TypeOK, FlashType
<1>3. PICK d \in Segments : \E i \in 1 .. Len(file[d]) :
          file' = [file EXCEPT ![d][i].ok = FALSE]
  BY DEF Decay
<1>4. PICK k \in 1 .. Len(file[d]) : file' = [file EXCEPT ![d][k].ok = FALSE]
  BY <1>3
<1>5. file[d] \in Seq(Cell) /\ file[d][k] \in Cell
  BY <1>2
<1>6. [file[d][k] EXCEPT !.ok = FALSE].id = file[d][k].id
  BY <1>5 DEF Cell
<1>7. /\ file'[d] = [file[d] EXCEPT ![k] = [file[d][k] EXCEPT !.ok = FALSE]]
      /\ \A s \in Segments : s # d => file'[s] = file[s]
  BY <1>2, <1>4
<1>8. /\ Len(file'[d]) = Len(file[d])
      /\ file'[d][k] = [file[d][k] EXCEPT !.ok = FALSE]
      /\ \A j \in 1 .. Len(file[d]) : j # k => file'[d][j] = file[d][j]
  BY <1>5, <1>7
<1>9. \A s \in Segments : /\ Len(file'[s]) = Len(file[s])
                           /\ \A j \in 1 .. Len(file[s]) : file'[s][j].id = file[s][j].id
  BY <1>6, <1>7, <1>8
<1>10. \A s \in Segments : /\ DurableHead(s)' = DurableHead(s)
                            /\ DurableHead(s) \in Nat
  BY <1>1, <1>2, <1>9, DurableHeadFacts DEF DurableHead, HasMetadata
<1>11. \A s \in Segments : \A j \in DurableHead(s) + 1 .. Len(file[s]) :
          file'[s][j].id = file[s][j].id
  BY <1>9, <1>10
<1>12. \A s \in Segments : Live(s)' = Live(s)
  BY <1>9, <1>10, <1>11 DEF Live
<1>13. Lost' = Lost
  <2>1. InSegments' = InSegments
    <3>1. \A s \in Segments :
            {file'[s][j].id : j \in DurableHead(s)' + 1 .. Len(file'[s])}
              = {file[s][j].id : j \in DurableHead(s) + 1 .. Len(file[s])}
      BY <1>9, <1>10, <1>11
    <3>2. \A s \in Segments : IdsAfter(s, DurableHead(s))' = IdsAfter(s, DurableHead(s))
      BY <3>1 DEF IdsAfter
    <3> QED BY <3>2 DEF InSegments
  <2> QED BY <1>1, <2>1 DEF Lost, Quarantined
<1>14. NoSilentLoss'
  BY <1>1, <1>2, <1>13 DEF NoSilentLoss, DropsKnown, HasMetadata
<1>15. \A s \in Segments : s \notin made => file'[s] = <<>>
  BY <1>2, <1>7, <1>8 DEF FilesSound, FilesMade
<1>16. CASE pc = "off"
  BY <1>1, <1>2, <1>14, <1>15, <1>16, QueueDown DEF FilesSound, FilesMade
<1>17. CASE pc = "ready"
  <2>1. FilesSound' /\ ScanSound' /\ RotationCounted'
    BY <1>1, <1>2, <1>15, <1>17
       DEF FilesSound, FilesMade, ScanSound, RotationCounted, Running, Scanning
  <2>2. ReadySound'
    BY <1>1, <1>2, <1>9, <1>12, <1>17 DEF ReadySound, Running
  <2> QED BY <1>14, <2>1, <2>2 DEF LossInv
<1> QED BY <1>1, <1>16, <1>17

-----------------------------------------------------------------------------

LEMMA InitLoss == Init => LossInv
<1> SUFFICES ASSUME Init PROVE LossInv
  OBVIOUS
<1>1. ReadySound /\ ScanSound /\ RotationCounted
  BY DEF Init, ReadySound, ScanSound, RotationCounted, Running, Scanning
<1>2. FilesSound
  BY DEF Init, FilesSound, FilesMade, FileOf, Running, Scanning, Segments
<1>3. NoSilentLoss
  <2>1. accepted \subseteq {1} /\ metadataFile.dropped = 0
    BY DEF Init, FileOf
  <2>2. 1 \notin Lost
    <3>1. CASE accepted = {}
      BY <3>1 DEF Lost
    <3>2. CASE resolved = {1}
      BY <3>2 DEF Lost
    <3>3. CASE /\ metadataFile = FileOf("v1", Zero)
               /\ file = [s \in Segments |-> IF s = 0 THEN <<Complete(1)>> ELSE <<>>]
      <4>1. 0 \in Segments /\ file[0] = <<Complete(1)>>
        BY <3>3 DEF Segments
      <4>2. Len(file[0]) = 1 /\ file[0][1] = Complete(1)
        BY <4>1
      <4>3. DurableHead(0) = 0
        BY <3>3, <4>1, <4>2 DEF DurableHead, HasMetadata, FileOf, Zero, Lesser
      <4>4. 1 \in DurableHead(0) + 1 .. Len(file[0]) /\ file[0][1].id = 1
        BY <4>2, <4>3 DEF Complete
      <4>5. 1 \in IdsAfter(0, DurableHead(0))
        BY <4>4 DEF IdsAfter
      <4> QED BY <4>1, <4>5 DEF Lost, InSegments
    <3> QED BY <3>1, <3>2, <3>3 DEF Init
  <2>3. Lost = {}
    BY <2>1, <2>2 DEF Lost
  <2>4. Cardinality(Lost) = 0
    BY <2>3, FS_EmptySet
  <2> QED BY <2>1, <2>4 DEF NoSilentLoss
<1> QED BY <1>1, <1>2, <1>3 DEF LossInv

LEMMA LossStep == SafeFaults /\ IInv /\ TypeOK' /\ CellsSound' /\ [Next]_vars => LossInv'
<1> SUFFICES ASSUME SafeFaults, IInv, TypeOK', CellsSound', [Next]_vars PROVE LossInv'
  OBVIOUS
<1>1. CASE BeginSteps
  BY <1>1, BeginStep, CreateStep, ScanStep, QuarantineStep, RepairStep, ReclaimStep,
     BeginSaveStep
     DEF BeginSteps
<1>2. CASE EnqueueSteps
  BY <1>2, EnqueueStep, RotateCountStep, RotateTruncateStep, RotateSaveStep, AppendStep
     DEF EnqueueSteps
<1>3. CASE PopSteps
  BY <1>3, PopStep, PopReclaimStep, PopReclaimSaveStep DEF PopSteps, PopIfMatches
<1>4. CASE Environment
  BY <1>4, CrashStep, CrashInAppendStep, MetadataLossStep, DecayStep DEF Environment
<1>5. CASE UNCHANGED vars
  <2>1. /\ UNCHANGED <<file, made, quarantine, metadataFile, accepted, resolved>>
        /\ UNCHANGED <<head, count, dropped, reserved, pc, cur>>
    BY <1>5 DEF vars, flash, ram, metadata, history
  <2>2. /\ Lost' = Lost
        /\ \A s \in Segments : Live(s)' = Live(s) /\ DurableHead(s)' = DurableHead(s)
        /\ NoSilentLoss'
    BY <2>1, SameFlash DEF IInv, LossInv
  <2>3. FilesSound /\ ReadySound /\ ScanSound /\ RotationCounted
    BY DEF IInv, LossInv
  <2>4. FilesSound' /\ RotationCounted'
    BY <2>1, <2>2, <2>3 DEF FilesSound, FilesMade, RotationCounted
  <2>5. ReadySound'
    BY <2>1, <2>2, <2>3 DEF ReadySound
  <2>6. ScanSound'
    BY <2>1, <2>2, <2>3 DEF ScanSound
  <2> QED BY <2>2, <2>4, <2>5, <2>6 DEF LossInv
<1> QED BY <1>1, <1>2, <1>3, <1>4, <1>5 DEF Next

\* "It cannot silently erase records without incrementing the counter": for
\* every capacity, every number of records, resets and failing calls, decay of
\* records and loss of the metadata included, every completely written record
\* is popped, found by the next begin, quarantined or counted, provided that the
\* two commits whose failure the code does not undo succeed.
THEOREM LossesAreCounted ==
    ASSUME SafeFaults
    PROVE  Spec => []NoSilentLoss
<1>1. Init => IInv
  BY InitLoss, InitTInv DEF IInv
<1>2. IInv /\ [Next]_vars => IInv'
  <2> SUFFICES ASSUME IInv, [Next]_vars PROVE IInv'
    OBVIOUS
  <2>1. TInv'
    BY TInvStep DEF IInv
  <2>2. LossInv'
    BY <2>1, LossStep DEF TInv
  <2> QED BY <2>1, <2>2 DEF IInv
<1>3. IInv => NoSilentLoss
  BY DEF IInv, LossInv
<1> QED BY <1>1, <1>2, <1>3, PTL DEF Spec

-----------------------------------------------------------------------------
(***************************************************************************)
(* The queue implements DurableFifo, when appends write all or nothing but *)
(* for resets, flash keeps what it holds and the two commits that RAM does *)
(* not undo succeed.                                                       *)
(***************************************************************************)

\* The filesystem calls that the code recovers from: all but short writes that
\* return, spontaneous changes of flash and the two commits of SafeFaults.
RecoverableFaults ==
    Faults \cap {"shortAppend", "decay", "metadataLoss", "rotateSave", "reclaimSave"} = {}

\* begin works with the order of the segments and the counter that it loaded.
\* A ready queue has them on flash too, until a rotation has emptied the segment
\* that becomes the active one.
OrderSound ==
    /\ pc \in Scanning => active = DurableActive /\ dropped = DurableDropped
    /\ pc \in Running => active = IF pc = "rotateSave" THEN Other(metadataFile.active)
                                                       ELSE metadataFile.active
    /\ pc = "rotateTruncate" => cur = Other(active)
    /\ pc = "rotateSave" => cur = active /\ file[cur] = <<>>

\* n more losses than there are would still be announced.
Announced(n) ==
    Cardinality(Lost) + n <= DurableDropped \/ DurableDropped = CounterMaximum

\* The losses are announced, and those that rotateSegment is about to cause.
AnnouncedSound == Announced(0) /\ (pc = "rotateTruncate" => Announced(count[cur]))

\* What the implementation rests on; the announcements follow step by step.
QInv == IInv /\ ReplaySound /\ TornSound /\ OrderSound

-----------------------------------------------------------------------------
(* What begin will replay *)

\* The readable cells behind the head are an interval, and replayed in order.
ReplayFacts ==
    \A s \in Segments :
        /\ ReplayEnd(s) \in DurableHead(s) .. Len(file[s])
        /\ \A i \in DurableHead(s) + 1 .. Len(file[s]) : file[s][i].ok <=> i <= ReplayEnd(s)
        /\ \A e \in DurableHead(s) .. Len(file[s]) :
              (\A i \in DurableHead(s) + 1 .. Len(file[s]) : file[s][i].ok <=> i <= e)
                  => e = ReplayEnd(s)
        /\ Replayable(s) \in Seq(Nat)
        /\ Len(Replayable(s)) = ReplayEnd(s) - DurableHead(s)
        /\ \A i \in 1 .. Len(Replayable(s)) :
              Replayable(s)[i] = file[s][DurableHead(s) + i].id

LEMMA ReplayFound == TypeOK /\ TornLast => ReplayFacts
<1> SUFFICES ASSUME TypeOK, TornLast, NEW s \in Segments
             PROVE  /\ ReplayEnd(s) \in DurableHead(s) .. Len(file[s])
                    /\ \A i \in DurableHead(s) + 1 .. Len(file[s]) :
                          file[s][i].ok <=> i <= ReplayEnd(s)
                    /\ \A e \in DurableHead(s) .. Len(file[s]) :
                          (\A i \in DurableHead(s) + 1 .. Len(file[s]) : file[s][i].ok <=> i <= e)
                              => e = ReplayEnd(s)
                    /\ Replayable(s) \in Seq(Nat)
                    /\ Len(Replayable(s)) = ReplayEnd(s) - DurableHead(s)
                    /\ \A i \in 1 .. Len(Replayable(s)) :
                          Replayable(s)[i] = file[s][DurableHead(s) + i].id
  BY DEF ReplayFacts
<1> DEFINE h == DurableHead(s)
           n == Len(file[s])
           End(e) == /\ \A i \in h + 1 .. e : file[s][i].ok
                     /\ e < n => ~file[s][e + 1].ok
<1>1. h \in Nat /\ n \in Nat /\ h <= n
  <2>1. file[s] \in Seq(Cell)
    BY DEF TypeOK, FlashType
  <2> QED BY <2>1, DurableHeadFacts
<1>2. \A i \in 1 .. n : ~file[s][i].ok => i = n
  BY DEF TornLast
<1>3. \A i \in 1 .. n : file[s][i].id \in Nat
  <2>1. file[s] \in Seq(Cell)
    BY DEF TypeOK, FlashType
  <2>2. \A i \in 1 .. n : file[s][i] \in Cell
    BY <2>1
  <2> QED BY <2>2, ConstantsAssumption DEF Cell
<1>4. ReplayEnd(s) = CHOOSE e \in h .. n : End(e)
  BY DEF ReplayEnd
<1> HIDE DEF h, n
<1>5. \E e \in h .. n : End(e)
  <2>1. CASE h < n /\ ~file[s][n].ok
    <3>1. n - 1 \in h .. n /\ \A i \in h + 1 .. n - 1 : file[s][i].ok
      BY <1>1, <1>2, <2>1
    <3>2. ~file[s][(n - 1) + 1].ok
      BY <1>1, <2>1
    <3> QED BY <3>1, <3>2
  <2>2. CASE ~(h < n /\ ~file[s][n].ok)
    <3>1. n \in h .. n /\ \A i \in h + 1 .. n : file[s][i].ok
      BY <1>1, <1>2, <2>2
    <3> QED BY <1>1, <3>1
  <2> QED BY <2>1, <2>2
<1>6. ReplayEnd(s) \in h .. n /\ End(ReplayEnd(s))
  BY <1>4, <1>5
<1>7. PICK e \in h .. n : e = ReplayEnd(s)
  BY <1>6
<1>8. e \in Nat /\ h <= e /\ e <= n
  BY <1>1, <1>7
<1>9. \A i \in h + 1 .. n : file[s][i].ok <=> i <= e
  <2> SUFFICES ASSUME NEW i \in h + 1 .. n PROVE file[s][i].ok <=> i <= e
    OBVIOUS
  <2>1. i <= e => file[s][i].ok
    BY <1>1, <1>6, <1>7, <1>8
  <2>2. ASSUME i > e PROVE ~file[s][i].ok
    <3>1. e + 1 \in 1 .. n /\ ~file[s][e + 1].ok
      BY <1>1, <1>6, <1>7, <1>8, <2>2
    <3>2. e + 1 = n
      BY <1>2, <3>1
    <3> QED BY <1>1, <1>8, <2>2, <3>1, <3>2
  <2> QED BY <1>1, <1>8, <2>1, <2>2
<1>10. Replayable(s) = [i \in 1 .. e - h |-> file[s][h + i].id]
  BY <1>7 DEF Replayable, h
<1>11. e - h \in Nat /\ \A i \in 1 .. e - h : file[s][h + i].id \in Nat
  BY <1>1, <1>3, <1>8
<1>12. /\ Replayable(s) \in Seq(Nat) /\ Len(Replayable(s)) = e - h
       /\ \A i \in 1 .. e - h : Replayable(s)[i] = file[s][h + i].id
  BY <1>10, <1>11
<1>13. ASSUME NEW k \in h .. n, \A i \in h + 1 .. n : file[s][i].ok <=> i <= k PROVE k = e
  <2>1. k \in Nat /\ h <= k /\ k <= n
    BY <1>1
  <2>2. CASE k < e
    BY <1>1, <1>8, <1>9, <1>13, <2>1, <2>2
  <2>3. CASE k > e
    BY <1>1, <1>8, <1>9, <1>13, <2>1, <2>3
  <2> QED BY <1>8, <2>1, <2>2, <2>3
<1> QED BY <1>6, <1>7, <1>9, <1>12, <1>13 DEF h, n

\* What begin will replay is what was written and neither popped nor lost.
LostIsRest ==
    \A r : r \in Lost <=>
              /\ r \in accepted
              /\ r \notin resolved
              /\ \A s \in Segments : \A i \in 1 .. Len(Replayable(s)) : Replayable(s)[i] # r

LEMMA LostRest == TInv /\ TornLast /\ TornCopies => LostIsRest
<1> SUFFICES ASSUME TInv, TornLast, TornCopies, NEW r \in accepted, r \notin resolved
             PROVE  r \in Lost <=>
                       \A s \in Segments : \A i \in 1 .. Len(Replayable(s)) : Replayable(s)[i] # r
  BY LostFacts DEF LostIsRest
<1>1. r # 0
  BY DEF TInv, TypeOK, HistoryType
<1>2. r \notin Quarantined
  BY <1>1 DEF Quarantined, TornCopies
<1>3. ReplayFacts /\ TypeOK
  BY ReplayFound DEF TInv
<1>4. \A s \in Segments : DurableHead(s) \in Nat /\ Len(file[s]) \in Nat
  BY <1>3, DurableHeadFacts DEF TypeOK, FlashType
<1>5. ASSUME NEW s \in Segments
      PROVE  (\A i \in DurableHead(s) + 1 .. Len(file[s]) : file[s][i].id # r)
             <=> (\A i \in 1 .. Len(Replayable(s)) : Replayable(s)[i] # r)
  <2> DEFINE h == DurableHead(s)
             e == ReplayEnd(s)
             q == Replayable(s)
  <2>1. /\ e \in h .. Len(file[s]) /\ Len(q) = e - h
        /\ \A i \in h + 1 .. Len(file[s]) : file[s][i].ok <=> i <= e
        /\ \A i \in 1 .. Len(q) : q[i] = file[s][h + i].id
    BY <1>3 DEF ReplayFacts
  <2>2. h \in Nat /\ Len(file[s]) \in Nat
    BY <1>4
  <2> HIDE DEF h, e, q
  <2>3. ASSUME NEW i \in 1 .. Len(q), q[i] = r
        PROVE  \E j \in h + 1 .. Len(file[s]) : file[s][j].id = r
    <3>1. h + i \in h + 1 .. Len(file[s])
      BY <2>1, <2>2
    <3> QED BY <2>1, <2>3, <3>1
  <2>4. ASSUME NEW j \in h + 1 .. Len(file[s]), file[s][j].id = r
        PROVE  \E i \in 1 .. Len(q) : q[i] = r
    <3>1. j \in 1 .. Len(file[s])
      BY <2>2
    <3>2. file[s][j].ok
      BY <1>1, <2>4, <3>1 DEF TornLast
    <3>3. j <= e
      BY <2>1, <3>2
    <3>4. j - h \in 1 .. Len(q) /\ h + (j - h) = j
      BY <2>1, <2>2, <3>3
    <3> QED BY <2>1, <2>4, <3>4
  <2> QED BY <2>3, <2>4 DEF h, q
<1> QED BY <1>2, <1>5, LostFacts

\* The same readable cells behind the same head: begin will replay the same.
LEMMA ReplayKept ==
    ASSUME ReplayFacts, ReplayFacts', TypeOK, TypeOK', NEW s \in Segments,
           DurableHead(s)' = DurableHead(s),
           \A i \in DurableHead(s) + 1 .. Len(file[s]) : file[s][i].ok =>
               i <= Len(file'[s]) /\ file'[s][i] = file[s][i],
           \A i \in DurableHead(s) + 1 .. Len(file'[s]) : file'[s][i].ok =>
               i <= Len(file[s]) /\ file[s][i] = file'[s][i]
    PROVE  Replayable(s)' = Replayable(s)
<1> DEFINE h == DurableHead(s)
           e == ReplayEnd(s)
           d == ReplayEnd(s)'
           n == Len(file[s])
           m == Len(file'[s])
<1>1. /\ h \in Nat /\ n \in Nat /\ m \in Nat
  BY DurableHeadFacts DEF TypeOK, FlashType
<1>2. /\ e \in h .. n /\ d \in h .. m
      /\ \A i \in h + 1 .. n : file[s][i].ok <=> i <= e
      /\ \A i \in h + 1 .. m : file'[s][i].ok <=> i <= d
  BY DEF ReplayFacts
<1>3. /\ \A i \in h + 1 .. n : file[s][i].ok => i <= m /\ file'[s][i] = file[s][i]
      /\ \A i \in h + 1 .. m : file'[s][i].ok => i <= n /\ file[s][i] = file'[s][i]
  OBVIOUS
<1>4. Replayable(s) = [i \in 1 .. e - h |-> file[s][h + i].id]
  BY DEF Replayable
<1>5. Replayable(s)' = [i \in 1 .. d - h |-> file'[s][h + i].id]
  BY DEF Replayable
<1> HIDE DEF h, e, d, n, m
<1>6. e = d
  <2>1. ~(e < d)
    <3> SUFFICES ASSUME e < d PROVE FALSE
      OBVIOUS
    <3>1. e + 1 \in h + 1 .. m /\ e + 1 <= d
      BY <1>1, <1>2
    <3>2. e + 1 <= n /\ file[s][e + 1].ok
      BY <1>2, <1>3, <3>1
    <3> QED BY <1>1, <1>2, <3>1, <3>2
  <2>2. ~(d < e)
    <3> SUFFICES ASSUME d < e PROVE FALSE
      OBVIOUS
    <3>1. d + 1 \in h + 1 .. n /\ d + 1 <= e
      BY <1>1, <1>2
    <3>2. d + 1 <= m /\ file'[s][d + 1].ok
      BY <1>2, <1>3, <3>1
    <3> QED BY <1>1, <1>2, <3>1, <3>2
  <2> QED BY <1>1, <1>2, <2>1, <2>2
<1>7. \A i \in 1 .. e - h : file'[s][h + i].id = file[s][h + i].id
  <2> SUFFICES ASSUME NEW i \in 1 .. e - h PROVE file'[s][h + i] = file[s][h + i]
    OBVIOUS
  <2>1. h + i \in h + 1 .. n /\ h + i <= e
    BY <1>1, <1>2
  <2> QED BY <1>2, <1>3, <2>1
<1> QED BY <1>4, <1>5, <1>6, <1>7

\* A head at the end of its segment: nothing to replay.
NothingLeft == \A s \in Segments : DurableHead(s) = Len(file[s]) => Replayable(s) = <<>>

LEMMA NoneLeft == TypeOK /\ ReplayFacts => NothingLeft
<1> SUFFICES ASSUME TypeOK, ReplayFacts, NEW s \in Segments, DurableHead(s) = Len(file[s])
             PROVE  Replayable(s) = <<>>
  BY DEF NothingLeft
<1>1. Len(file[s]) \in Nat
  BY DEF TypeOK, FlashType
<1>2. Replayable(s) \in Seq(Nat) /\ Len(Replayable(s)) = 0
  BY <1>1 DEF ReplayFacts
<1> QED BY <1>2

-----------------------------------------------------------------------------
(* The order of the segments *)

LEMMA BeginOrder == ASSUME QInv, BeginSteps PROVE OrderSound'
<1>1. OrderSound /\ cur \in Segments
  BY DEF QInv, IInv, TInv, TypeOK, RamType
<1>2. CASE Begin
  <2>1. UNCHANGED metadataFile /\ pc' \in {"unavailable", "scan"}
    BY <1>2 DEF Begin, flash
  <2>2. pc' = "scan" => LoadMetadata
    BY <1>2 DEF Begin
  <2>3. pc' = "scan" => active' = DurableActive /\ dropped' = DurableDropped
    BY <2>2 DEF LoadMetadata, DurableActive, DurableDropped
  <2> QED BY <2>1, <2>3 DEF OrderSound, Running, Scanning, DurableActive, DurableDropped, HasMetadata
<1>3. CASE \/ CreateSegment \/ ScanSegment \/ QuarantineSuffix \/ RepairSegment \/ ScanReclaim
  <2>1. /\ UNCHANGED <<metadataFile, active, dropped>>
        /\ pc \in Scanning /\ pc' \in Scanning \cup {"unavailable"}
    BY <1>3 DEF CreateSegment, ScanSegment, QuarantineSuffix, RepairSegment, ScanReclaim,
                ScanNext, flash, metadata, Scanning
  <2> QED BY <1>1, <2>1
          DEF OrderSound, Running, Scanning, DurableActive, DurableDropped, HasMetadata
<1>4. CASE BeginSave
  <2>1. \/ pc' = "unavailable"
        \/ pc' = "ready" /\ SaveMetadata
    BY <1>4 DEF BeginSave
  <2> QED BY <2>1 DEF OrderSound, SaveMetadata, Running, Scanning
<1> QED BY <1>2, <1>3, <1>4 DEF BeginSteps

LEMMA EnqueueOrder == ASSUME RecoverableFaults, QInv, EnqueueSteps PROVE OrderSound'
<1>1. /\ OrderSound /\ cur \in Segments /\ active \in Segments
      /\ file \in [Segments -> Seq(Cell)] /\ metadataFile.active \in Segments
  BY DEF QInv, IInv, TInv, TypeOK, RamType, FlashType, MetadataFile
<1>2. CASE Enqueue \/ AppendRecord
  <2>1. /\ pc \in {"ready", "append"} /\ pc' \in {"rotate", "append", "ready"}
        /\ UNCHANGED <<metadataFile, active>>
    BY <1>2 DEF Enqueue, AppendRecord, flash, metadata
  <2> QED BY <1>1, <2>1 DEF OrderSound, Running, Scanning
<1>3. CASE RotateCount
  <2>1. /\ pc = "rotate" /\ pc' \in {"rotateTruncate", "ready"} /\ UNCHANGED active
        /\ UNCHANGED metadataFile \/ SaveMetadata
        /\ cur' = Other(active)
    BY <1>3 DEF RotateCount
  <2> QED BY <1>1, <2>1 DEF OrderSound, SaveMetadata, Running, Scanning
<1>4. CASE RotateTruncate
  <2>1. /\ pc = "rotateTruncate" /\ UNCHANGED <<metadataFile, cur>>
        /\ \/ pc' = "ready" /\ UNCHANGED active
           \/ pc' = "rotateSave" /\ active' = cur /\ file' = [file EXCEPT ![cur] = <<>>]
    BY <1>4 DEF RotateTruncate, TruncateSegment
  <2>2. active = metadataFile.active /\ cur = Other(active)
    BY <1>1, <2>1 DEF OrderSound, Running
  <2> QED BY <1>1, <2>1, <2>2 DEF OrderSound, Running, Scanning
<1>5. CASE RotateSave
  <2>1. pc' = "append" /\ SaveMetadata
    BY <1>5 DEF RotateSave, RecoverableFaults
  <2> QED BY <2>1 DEF OrderSound, SaveMetadata, Running, Scanning
<1> QED BY <1>2, <1>3, <1>4, <1>5 DEF EnqueueSteps

LEMMA OrderStep == RecoverableFaults /\ QInv /\ [Next]_vars => OrderSound'
<1> SUFFICES ASSUME RecoverableFaults, QInv, [Next]_vars PROVE OrderSound'
  OBVIOUS
<1>1. OrderSound
  BY DEF QInv
<1>2. CASE PopSteps
  <2>1. /\ pc \in {"ready", "reclaim", "reclaimSave"} /\ pc' \in {"ready", "reclaim", "reclaimSave"}
        /\ UNCHANGED active
        /\ UNCHANGED metadataFile \/ SaveMetadata
    BY <1>2 DEF PopSteps, PopIfMatches, Pop, PopReclaim, PopReclaimSave, metadata
  <2> QED BY <1>1, <2>1 DEF OrderSound, SaveMetadata, Running, Scanning
<1>3. CASE Environment
  <2>1. pc' = "off"
    BY <1>3 DEF Environment, Crash, CrashInAppend, PowerLoss, MetadataLoss, Decay, RecoverableFaults
  <2> QED BY <2>1 DEF OrderSound, Running, Scanning
<1>4. CASE UNCHANGED vars
  BY <1>1, <1>4 DEF OrderSound, vars, flash, ram, metadata, DurableActive, DurableDropped, HasMetadata
<1> QED BY <1>2, <1>3, <1>4, BeginOrder, EnqueueOrder DEF Next

LEMMA InitQueue == Init => QInv
<1> SUFFICES ASSUME Init PROVE QInv
  OBVIOUS
<1>1. IInv /\ ReplaySound
  BY InitLoss, InitTInv, InitReplay DEF IInv
<1>2. pc = "off"
  BY DEF Init
<1>3. OrderSound
  BY <1>2 DEF OrderSound, Running, Scanning
<1>4. TornSound
  BY InitTorn
<1> QED BY <1>1, <1>3, <1>4 DEF QInv

LEMMA QueueStep == RecoverableFaults /\ QInv /\ [Next]_vars => QInv'
<1> SUFFICES ASSUME RecoverableFaults, QInv, [Next]_vars PROVE QInv'
  OBVIOUS
<1>1. IInv /\ TInv /\ ReplaySound /\ TornSound /\ FilesMade
  BY DEF QInv, IInv, LossInv, FilesSound
<1>2. SafeFaults /\ WholeAppends
  BY DEF RecoverableFaults, SafeFaults, WholeAppends
<1>3. TInv'
  BY <1>1, TInvStep
<1>4. LossInv'
  BY <1>1, <1>2, <1>3, LossStep DEF TInv
<1>5. ReplaySound' /\ TornSound' /\ OrderSound'
  BY <1>1, <1>2, ReplayStep, TornStep, OrderStep
<1> QED BY <1>3, <1>4, <1>5 DEF QInv, IInv

-----------------------------------------------------------------------------
(* Steps that begin would not notice *)

Rest == ReplayFacts /\ LostIsRest /\ NothingLeft

LEMMA RestFacts == QInv => Rest
BY ReplayFound, LostRest, NoneLeft DEF QInv, IInv, TInv, TornSound, Rest

\* Begin would replay the same records, and no other is lost.
Unnoticed == UNCHANGED <<ReplayQueue, Cardinality(Lost)>>

LEMMA SameReplay ==
    ASSUME QInv, QInv', UNCHANGED <<accepted, resolved>>,
           \A s \in Segments : Replayable(s)' = Replayable(s),
           \/ DurableActive' = DurableActive
           \/ /\ DurableActive' = Other(DurableActive)
              /\ Replayable(Other(DurableActive)) = <<>>
    PROVE  Unnoticed
<1>1. Rest /\ Rest'
  BY RestFacts, PTL
<1>2. Lost' = Lost
  BY <1>1 DEF Rest, LostIsRest
<1>3. DurableActive \in Segments /\ Other(DurableActive) \in Segments
      /\ Other(Other(DurableActive)) = DurableActive
  <2>1. metadataFile.active \in Segments
    BY DEF QInv, IInv, TInv, TypeOK, FlashType, MetadataFile
  <2>2. DurableActive \in {0, 1}
    BY <2>1 DEF DurableActive, Segments
  <2> QED BY <2>2 DEF Segments, Other
<1>4. ReplayQueue = Replayable(Other(DurableActive)) \o Replayable(DurableActive)
  BY DEF ReplayQueue
<1>5. PICK a \in Segments : a = DurableActive'
  BY <1>3
<1>6. ReplayQueue' = Replayable(Other(a)) \o Replayable(a)
  <2>1. ReplayQueue' = Replayable(Other(a))' \o Replayable(a)'
    BY <1>5 DEF ReplayQueue, Other
  <2>2. Other(a) \in Segments
    BY DEF Other, Segments
  <2> QED BY <2>1, <2>2
<1>7. CASE DurableActive' = DurableActive
  BY <1>2, <1>4, <1>5, <1>6, <1>7 DEF Unnoticed
<1>8. CASE DurableActive' = Other(DurableActive) /\ Replayable(Other(DurableActive)) = <<>>
  <2>1. Replayable(DurableActive) \in Seq(Nat)
    BY <1>1, <1>3 DEF Rest, ReplayFacts
  <2>2. ReplayQueue = <<>> \o Replayable(DurableActive)
    BY <1>4, <1>8
  <2>3. ReplayQueue' = Replayable(DurableActive) \o <<>>
    BY <1>3, <1>5, <1>6, <1>8
  <2>4. ReplayQueue' = ReplayQueue
    BY <2>1, <2>2, <2>3, ConcatEmptySeq
  <2> QED BY <1>2, <2>4 DEF Unnoticed
<1> QED BY <1>7, <1>8

\* Files and metadata as they are
LEMMA SameFiles ==
    ASSUME QInv, QInv', UNCHANGED <<file, metadataFile, accepted, resolved>>
    PROVE  Unnoticed /\ DurableDropped' = DurableDropped
<1>1. DurableActive' = DurableActive /\ DurableDropped' = DurableDropped
  BY DEF DurableActive, DurableDropped, HasMetadata
<1>2. \A s \in Segments : Replayable(s)' = Replayable(s)
  BY DEF Replayable, ReplayEnd, DurableHead, HasMetadata
<1> QED BY <1>1, <1>2, SameReplay

\* The files as they are, and heads that start the replay where it would
LEMMA SameHeads ==
    ASSUME QInv, QInv', UNCHANGED <<file, accepted, resolved>>,
           \A s \in Segments : DurableHead(s)' = DurableHead(s),
           \/ DurableActive' = DurableActive
           \/ /\ DurableActive' = Other(DurableActive)
              /\ Replayable(Other(DurableActive)) = <<>>
    PROVE  Unnoticed
<1>1. ReplayFacts /\ ReplayFacts' /\ TypeOK /\ TypeOK'
  <2>1. Rest /\ Rest'
    BY RestFacts, PTL
  <2> QED BY <2>1 DEF Rest, QInv, IInv, TInv
<1>2. \A s \in Segments : DurableHead(s) \in Nat /\ Len(file[s]) \in Nat
  BY <1>1, DurableHeadFacts DEF TypeOK, FlashType
<1>3. ASSUME NEW s \in Segments PROVE Replayable(s)' = Replayable(s)
  <2>1. \A i \in DurableHead(s) + 1 .. Len(file[s]) : i <= Len(file'[s]) /\ file'[s][i] = file[s][i]
    BY <1>2
  <2>2. \A i \in DurableHead(s) + 1 .. Len(file'[s]) : i <= Len(file[s]) /\ file[s][i] = file'[s][i]
    BY <1>2
  <2> QED BY <1>1, <2>1, <2>2, ReplayKept
<1> QED BY <1>3, SameReplay

\* The order and the counter that begin will load
LEMMA SameMetadata ==
    ASSUME UNCHANGED metadataFile
    PROVE  /\ DurableActive' = DurableActive /\ DurableDropped' = DurableDropped
           /\ \A s : file'[s] = file[s] => DurableHead(s)' = DurableHead(s)
BY DEF DurableActive, DurableDropped, DurableHead, HasMetadata

\* One segment changes where begin would not look.
LEMMA SameRecords ==
    ASSUME QInv, QInv', UNCHANGED <<metadataFile, accepted, resolved>>,
           NEW c \in Segments, \A s \in Segments : s # c => file'[s] = file[s],
           Replayable(c)' = Replayable(c)
    PROVE  Unnoticed /\ DurableDropped' = DurableDropped
<1>1. ASSUME NEW s \in Segments, s # c PROVE Replayable(s)' = Replayable(s)
  <2>1. file'[s] = file[s]
    BY <1>1
  <2>2. DurableHead(s)' = DurableHead(s)
    BY <2>1, SameMetadata
  <2>3. ReplayEnd(s)' = ReplayEnd(s)
    BY <2>1, <2>2 DEF ReplayEnd
  <2> QED BY <2>1, <2>2, <2>3 DEF Replayable
<1> QED BY <1>1, SameReplay, SameMetadata

\* A segment without records to replay is emptied.
LEMMA SameEmptied ==
    ASSUME QInv, QInv', UNCHANGED <<metadataFile, accepted, resolved>>,
           TruncateSegment(cur), DurableHead(cur) = Len(file[cur])
    PROVE  Unnoticed /\ DurableDropped' = DurableDropped
<1>1. PICK c \in Segments : c = cur
  BY DEF QInv, IInv, TInv, TypeOK, RamType
<1>2. /\ file'[c] = <<>>
      /\ \A s \in Segments : s # c => file'[s] = file[s]
  BY <1>1 DEF TruncateSegment, QInv, IInv, TInv, TypeOK, FlashType
<1>3. EmptyNotLive'
  BY EmptyLive, PTL DEF QInv, IInv, TInv
<1>4. DurableHead(c)' = 0 /\ Len(file'[c]) = 0
  BY <1>2, <1>3 DEF EmptyNotLive
<1>5. Rest /\ Rest'
  BY RestFacts, PTL
<1>6. Replayable(c) = <<>> /\ Replayable(c)' = <<>>
  BY <1>1, <1>4, <1>5 DEF Rest, NothingLeft
<1> QED BY <1>2, <1>6, SameRecords

\* begin: the torn cell is cut off.
LEMMA RepairReplay ==
    ASSUME QInv, QInv', pc = "repair", UNCHANGED <<metadataFile, accepted, resolved>>,
           file' = [file EXCEPT ![cur] = SubSeq(@, 1, tail[cur])]
    PROVE  Unnoticed /\ DurableDropped' = DurableDropped
<1>1. PICK c \in Segments : c = cur
  BY DEF QInv, IInv, TInv, TypeOK, RamType
<1>2. TypeOK /\ TypeOK' /\ ReplayFacts /\ ReplayFacts'
  <2>1. Rest /\ Rest'
    BY RestFacts, PTL
  <2> QED BY <2>1 DEF Rest, QInv, IInv, TInv
<1>3. /\ file[c] \in Seq(Cell) /\ head[c] \in Nat /\ tail[c] \in Nat
      /\ metadataFile.head[c] \in Nat
  BY <1>2 DEF TypeOK, FlashType, RamType, MetadataFile
<1>4. /\ head[c] <= tail[c] /\ tail[c] < Len(file[c])
      /\ ~file[c][tail[c] + 1].ok
      /\ DurableHead(c) = Lesser(head[c], Len(file[c]))
  BY <1>1 DEF QInv, IInv, TInv, RepairSound, TornSound, LossInv, ScanSound, Scanning
<1>5. /\ file'[c] = SubSeq(file[c], 1, tail[c])
      /\ \A s \in Segments : s # c => file'[s] = file[s]
  BY <1>1, <1>2 DEF TypeOK, FlashType
<1>6. /\ Len(file'[c]) = tail[c]
      /\ \A i \in 1 .. tail[c] : file'[c][i] = file[c][i]
  <2>1. /\ Len(SubSeq(file[c], 1, tail[c])) = tail[c]
        /\ \A i \in 1 .. tail[c] : SubSeq(file[c], 1, tail[c])[i] = file[c][i]
    BY <1>3, <1>4
  <2> QED BY <1>5, <2>1
<1>7. DurableHead(c) = head[c] /\ DurableHead(c)' = head[c]
  <2>1. DurableHead(c) = head[c]
    BY <1>3, <1>4 DEF Lesser
  <2>2. CASE HasMetadata
    <3>1. Lesser(metadataFile.head[c], Len(file[c])) = head[c]
      BY <2>1, <2>2 DEF DurableHead
    <3>2. metadataFile.head[c] = head[c]
      BY <1>3, <1>4, <3>1 DEF Lesser
    <3>3. DurableHead(c)' = Lesser(metadataFile.head[c], tail[c])
      BY <1>6, <2>2 DEF DurableHead, HasMetadata
    <3> QED BY <1>3, <1>4, <2>1, <3>2, <3>3 DEF Lesser
  <2>3. CASE ~HasMetadata
    BY <2>1, <2>3 DEF DurableHead, HasMetadata
  <2> QED BY <2>2, <2>3
<1>8. tail[c] + 1 = Len(file[c])
  <2>1. tail[c] + 1 \in 1 .. Len(file[c])
    BY <1>3, <1>4
  <2> QED BY <1>4, <2>1 DEF QInv, TornSound, TornLast
<1>9. /\ \A i \in DurableHead(c) + 1 .. Len(file[c]) : file[c][i].ok =>
             i <= Len(file'[c]) /\ file'[c][i] = file[c][i]
      /\ \A i \in DurableHead(c) + 1 .. Len(file'[c]) : file'[c][i].ok =>
             i <= Len(file[c]) /\ file[c][i] = file'[c][i]
  <2>1. ASSUME NEW i \in head[c] + 1 .. tail[c] + 1, file[c][i].ok
        PROVE  i <= tail[c] /\ file'[c][i] = file[c][i]
    <3>1. i # tail[c] + 1
      BY <1>4, <2>1
    <3>2. i \in 1 .. tail[c]
      BY <1>3, <3>1
    <3> QED BY <1>3, <1>6, <3>2
  <2>2. ASSUME NEW i \in head[c] + 1 .. tail[c]
        PROVE  i <= tail[c] + 1 /\ file[c][i] = file'[c][i]
    <3>1. i \in 1 .. tail[c]
      BY <1>3
    <3> QED BY <1>3, <1>6, <3>1
  <2> QED BY <1>6, <1>7, <1>8, <2>1, <2>2
<1>10. Replayable(c)' = Replayable(c)
  BY <1>2, <1>7, <1>9, ReplayKept
<1> QED BY <1>5, <1>10, SameRecords

\* begin, from mounting to the commit, whatever fails on the way: the queue that
\* the next begin would find is the same.
LEMMA BeginUnnoticed ==
    ASSUME QInv, QInv', BeginSteps
    PROVE  Unnoticed /\ DurableDropped' = DurableDropped
<1>1. CASE \/ Begin \/ CreateSegment \/ ScanSegment \/ QuarantineSuffix
  <2>1. UNCHANGED <<file, metadataFile, accepted, resolved>>
    BY <1>1 DEF Begin, CreateSegment, ScanSegment, QuarantineSuffix, flash, history
  <2> QED BY <2>1, SameFiles
<1>2. CASE RepairSegment
  <2>1. pc = "repair" /\ UNCHANGED <<metadataFile, accepted, resolved>>
    BY <1>2 DEF RepairSegment, history
  <2>2. UNCHANGED file \/ file' = [file EXCEPT ![cur] = SubSeq(@, 1, tail[cur])]
    BY <1>2 DEF RepairSegment
  <2> QED BY <2>1, <2>2, RepairReplay, SameFiles
<1>3. CASE ScanReclaim
  <2>1. /\ pc = "scanReclaim" /\ UNCHANGED <<metadataFile, accepted, resolved>>
        /\ UNCHANGED file \/ TruncateSegment(cur)
    BY <1>3 DEF ScanReclaim, history
  <2>2. DurableHead(cur) = Len(file[cur])
    <3>1. cur \in Segments /\ file \in [Segments -> Seq(Cell)]
      BY DEF QInv, IInv, TInv, TypeOK, RamType, FlashType
    <3>2. head[cur] = Len(file[cur]) /\ DurableHead(cur) = Lesser(head[cur], Len(file[cur]))
      BY <2>1, <3>1 DEF QInv, IInv, TInv, RepairSound, LossInv, ScanSound, Scanning
    <3> QED BY <3>1, <3>2 DEF Lesser
  <2> QED BY <2>1, <2>2, SameEmptied, SameFiles
<1>4. CASE BeginSave
  <2>1. /\ pc = "beginSave" /\ UNCHANGED <<file, head, active, dropped, accepted, resolved>>
        /\ UNCHANGED metadataFile \/ SaveMetadata
    BY <1>4 DEF BeginSave, metadata, history
  <2>2. CASE SaveMetadata
    <3>1. /\ active = DurableActive /\ dropped = DurableDropped
          /\ \A s \in Segments : DurableHead(s) = Lesser(head[s], Len(file[s]))
      BY <2>1 DEF QInv, IInv, LossInv, OrderSound, ScanSound, Scanning
    <3>2. /\ DurableActive' = active /\ DurableDropped' = dropped
          /\ \A s \in Segments : DurableHead(s)' = Lesser(head[s], Len(file[s]))
      BY <2>1, <2>2 DEF SaveMetadata, DurableActive, DurableDropped, DurableHead, HasMetadata
    <3> QED BY <2>1, <3>1, <3>2, SameHeads
  <2> QED BY <2>1, <2>2, SameFiles
<1> QED BY <1>1, <1>2, <1>3, <1>4 DEF BeginSteps

-----------------------------------------------------------------------------
(* A ready queue *)

\* The records that RAM counts, from the head in RAM.
Pending(s) == [i \in 1 .. count[s] |-> file[s][head[s] + i].id]

\* RAM has what begin would find: the order of the segments, the counter and
\* the records.
RunningQueue ==
    pc \in Running =>
        /\ DurableDropped = dropped /\ DurableActive = metadataFile.active
        /\ \A s \in Segments :
              /\ DurableHead(s) = head[s]
              /\ Len(file[s]) = head[s] + count[s]
              /\ Replayable(s) = Pending(s)
              /\ Len(Replayable(s)) = count[s]
              /\ \A i \in 1 .. count[s] :
                    /\ Replayable(s)[i] = file[s][head[s] + i].id
                    /\ Replayable(s)[i] \in accepted

LEMMA RunningFound == QInv => RunningQueue
<1> SUFFICES ASSUME QInv, pc \in Running
             PROVE  RunningQueue
  BY DEF RunningQueue
<1>1. TypeOK /\ CellsSound /\ ReadySound /\ TornSound /\ ReplayFacts
  BY RestFacts DEF Rest, QInv, IInv, TInv, LossInv
<1>2. DurableDropped = dropped /\ DurableActive = metadataFile.active
  BY <1>1 DEF ReadySound, DurableDropped, DurableActive, HasMetadata
<1>3. ASSUME NEW s \in Segments
      PROVE  /\ DurableHead(s) = head[s]
             /\ Len(file[s]) = head[s] + count[s]
             /\ Replayable(s) = Pending(s)
             /\ Len(Replayable(s)) = count[s]
             /\ \A i \in 1 .. count[s] :
                   /\ Replayable(s)[i] = file[s][head[s] + i].id
                   /\ Replayable(s)[i] \in accepted
  <2>1. DurableHead(s) = head[s] /\ head[s] <= Len(file[s])
    BY <1>1, ReadyHead
  <2>2. head[s] \in Nat /\ count[s] \in Nat /\ Len(file[s]) \in Nat
    BY <1>1 DEF TypeOK, RamType, FlashType
  <2>3. \A i \in 1 .. Len(file[s]) : file[s][i].ok /\ file[s][i].id # 0 /\ file[s][i].id \in accepted
    BY <1>1 DEF TornSound, Intact, CellsSound
  <2>4. Live(s) = head[s] + 1 .. Len(file[s])
    BY <2>1, <2>2, <2>3 DEF Live
  <2>5. count[s] = Cardinality(head[s] + 1 .. Len(file[s]))
    BY <1>1, <2>4 DEF ReadySound
  <2>6. Len(file[s]) = head[s] + count[s]
    <3>1. head[s] + 1 \in Int /\ Len(file[s]) \in Int
      BY <2>2
    <3>2. count[s] = IF head[s] + 1 > Len(file[s]) THEN 0 ELSE Len(file[s]) - (head[s] + 1) + 1
      BY <2>5, <3>1, FS_Interval
    <3> QED BY <2>1, <2>2, <3>2
  <2>7. ReplayEnd(s) = Len(file[s])
    <3>1. \A i \in head[s] + 1 .. Len(file[s]) : file[s][i].ok <=> i <= Len(file[s])
      BY <2>2, <2>3
    <3>2. Len(file[s]) \in head[s] .. Len(file[s])
      BY <2>1, <2>2
    <3> QED BY <1>1, <2>1, <3>1, <3>2 DEF ReplayFacts
  <2>8. ReplayEnd(s) - DurableHead(s) = count[s]
    BY <2>1, <2>2, <2>6, <2>7
  <2>9. Replayable(s) = Pending(s)
    BY <2>1, <2>8 DEF Replayable, Pending
  <2>10. Len(Replayable(s)) = count[s]
    BY <1>1, <2>8 DEF ReplayFacts
  <2>11. \A i \in 1 .. count[s] : head[s] + i \in 1 .. Len(file[s])
    BY <2>2, <2>6
  <2> QED BY <2>1, <2>3, <2>6, <2>9, <2>10, <2>11 DEF Pending
<1> QED BY <1>2, <1>3 DEF RunningQueue

\* A segment that the queue does not work on
LEMMA RunningKept ==
    ASSUME RunningQueue, RunningQueue', pc \in Running, pc' \in Running, NEW s \in Segments,
           count'[s] = count[s], file'[s] = file[s], head'[s] = head[s]
    PROVE  Replayable(s)' = Replayable(s)
<1>1. Pending(s)' = Pending(s)
  BY DEF Pending
<1> QED BY <1>1 DEF RunningQueue

\* A commit of the heads that are already on flash, or of an emptied segment's
LEMMA CommitReplay ==
    ASSUME QInv, QInv', pc \in Running, pc' \in Running, SaveMetadata,
           UNCHANGED <<file, head, accepted, resolved>>,
           \/ active' = metadataFile.active
           \/ active' = Other(metadataFile.active) /\ file[active'] = <<>>
    PROVE  Unnoticed
<1>1. RunningQueue /\ RunningQueue' /\ EmptyNotLive /\ Rest
  BY RunningFound, RestFacts, EmptyLive, PTL DEF QInv, IInv, TInv
<1>2. \A s \in Segments : DurableHead(s)' = DurableHead(s)
  BY <1>1 DEF RunningQueue
<1>3. DurableActive = metadataFile.active /\ DurableActive' = active'
  BY <1>1 DEF RunningQueue, SaveMetadata
<1>4. CASE active' = Other(metadataFile.active) /\ file[active'] = <<>>
  <2>1. active' \in Segments
    BY DEF QInv, IInv, TInv, TypeOK, RamType
  <2>2. PICK a \in Segments : a = active'
    BY <2>1
  <2>3. DurableHead(a) = Len(file[a])
    BY <1>1, <1>4, <2>2 DEF EmptyNotLive
  <2>4. Replayable(a) = <<>>
    BY <1>1, <2>3 DEF Rest, NothingLeft
  <2> QED BY <1>2, <1>3, <1>4, <2>2, <2>4, SameHeads
<1> QED BY <1>2, <1>3, <1>4, SameHeads

-----------------------------------------------------------------------------
(* Steps of the FIFO *)

LEMMA TwoSegments ==
    \A a \in Segments : \E b \in Segments :
        b = Other(a) /\ b # a /\ a = Other(b) /\ \A s \in Segments : s = a \/ s = b
BY DEF Other, Segments

\* What is not lost, with the segments spelled out
LEMMA LostOfTwo ==
    ASSUME LostIsRest, NEW a \in Segments, NEW b \in Segments, \A s \in Segments : s = a \/ s = b
    PROVE  \A r : r \in Lost <=>
               /\ r \in accepted /\ r \notin resolved
               /\ \A i \in 1 .. Len(Replayable(a)) : Replayable(a)[i] # r
               /\ \A i \in 1 .. Len(Replayable(b)) : Replayable(b)[i] # r
BY DEF LostIsRest

\* enqueue: a record that fits is written behind all others.
LEMMA AppendAccepts ==
    ASSUME QInv, QInv', pc = "append", pc' = "ready",
           UNCHANGED <<metadataFile, head, resolved, next>>,
           file' = [file EXCEPT ![active] = Append(@, Complete(next))],
           count' = [count EXCEPT ![active] = @ + 1],
           accepted' = accepted \cup {next}
    PROVE  next \in 1 .. MaxRecords /\ Fifo!Accept(next)
<1>1. TypeOK /\ RunningQueue /\ RunningQueue' /\ Rest /\ Rest'
  BY RunningFound, RestFacts, PTL DEF QInv, IInv, TInv
<1>2. /\ file \in [Segments -> Seq(Cell)] /\ count \in [Segments -> Nat]
      /\ head \in [Segments -> Nat] /\ active \in Segments /\ active = metadataFile.active
      /\ pc \in Running /\ pc' \in Running
  BY <1>1 DEF TypeOK, FlashType, RamType, QInv, OrderSound, Running
<1>3. PICK a \in Segments : a = active
  BY <1>2
<1>5. PICK b \in Segments : b = Other(a) /\ b # a /\ \A s \in Segments : s = a \/ s = b
  BY TwoSegments
<1>6. /\ next \in 1 .. MaxRecords /\ next \notin accepted /\ accepted \subseteq 1 .. next
  BY DEF QInv, IInv, TInv, OfferSound, ReplaySound, TypeOK, HistoryType
<1>7. /\ Replayable(a) \in Seq(Nat) /\ Replayable(b) \in Seq(Nat)
      /\ Replayable(a)' \in Seq(Nat) /\ Len(Replayable(a)) \in Nat /\ Len(Replayable(b)) \in Nat
  BY <1>1 DEF Rest, ReplayFacts
<1>8. Replayable(b)' = Replayable(b)
  <2>1. count'[b] = count[b] /\ file'[b] = file[b] /\ head'[b] = head[b]
    BY <1>2, <1>3, <1>5
  <2> QED BY <1>1, <1>2, <2>1, RunningKept
<1>9. Replayable(a)' = Append(Replayable(a), next)
  <2>1. /\ Len(file[a]) = head[a] + count[a] /\ Len(Replayable(a)) = count[a]
        /\ \A i \in 1 .. count[a] : Replayable(a)[i] = file[a][head[a] + i].id
    BY <1>1, <1>2 DEF RunningQueue
  <2>2. /\ count'[a] = count[a] + 1 /\ file'[a] = Append(file[a], Complete(next))
        /\ head[a] \in Nat /\ count[a] \in Nat /\ file[a] \in Seq(Cell)
    BY <1>2, <1>3
  <2>3. /\ Len(Replayable(a)') = count[a] + 1
        /\ \A i \in 1 .. count[a] + 1 : Replayable(a)'[i] = file'[a][head[a] + i].id
    BY <1>1, <1>2, <2>2 DEF RunningQueue
  <2>4. /\ \A i \in 1 .. count[a] : file'[a][head[a] + i] = file[a][head[a] + i]
        /\ file'[a][head[a] + (count[a] + 1)] = Complete(next)
    <3>1. \A j \in 1 .. Len(file[a]) : Append(file[a], Complete(next))[j] = file[a][j]
      BY <2>2
    <3>2. Append(file[a], Complete(next))[Len(file[a]) + 1] = Complete(next)
      BY <2>2
    <3>3. \A i \in 1 .. count[a] : head[a] + i \in 1 .. head[a] + count[a]
      BY <2>2
    <3>4. head[a] + (count[a] + 1) = Len(file[a]) + 1
      BY <2>1, <2>2
    <3> QED BY <2>1, <2>2, <3>1, <3>2, <3>3, <3>4
  <2>5. /\ \A i \in 1 .. count[a] : Replayable(a)'[i] = Replayable(a)[i]
        /\ Replayable(a)'[count[a] + 1] = next
    <3>1. \A i \in 1 .. count[a] : i \in 1 .. count[a] + 1
      BY <2>2
    <3>2. count[a] + 1 \in 1 .. count[a] + 1
      BY <2>2
    <3>3. Complete(next).id = next
      BY DEF Complete
    <3> QED BY <2>1, <2>3, <2>4, <3>1, <3>2, <3>3
  <2>6. /\ Append(Replayable(a), next) \in Seq(Nat)
        /\ Len(Append(Replayable(a), next)) = count[a] + 1
        /\ \A i \in 1 .. count[a] : Append(Replayable(a), next)[i] = Replayable(a)[i]
        /\ Append(Replayable(a), next)[count[a] + 1] = next
    BY <1>6, <1>7, <2>1, AppendProperties
  <2>7. \A i \in 1 .. count[a] + 1 : Replayable(a)'[i] = Append(Replayable(a), next)[i]
    <3>1. \A i \in 1 .. count[a] + 1 : i \in 1 .. count[a] \/ i = count[a] + 1
      BY <2>2
    <3> QED BY <2>5, <2>6, <3>1
  <2> QED BY <1>7, <2>3, <2>6, <2>7, SeqEqual
<1>10. ReplayQueue = Replayable(b) \o Replayable(a) /\ ReplayQueue' = Replayable(b)' \o Replayable(a)'
  <2>1. DurableActive = a /\ DurableActive' = a
    BY <1>1, <1>2, <1>3 DEF RunningQueue
  <2> QED BY <1>5, <2>1 DEF ReplayQueue, Other
<1>11. ReplayQueue' = Append(ReplayQueue, next)
  <2>1. Append(Replayable(a), next) = Replayable(a) \o <<next>>
    BY <1>6, <1>7, AppendIsConcat
  <2>2. ReplayQueue \in Seq(Nat)
    BY <1>7, <1>10, ConcatProperties
  <2>3. Append(ReplayQueue, next) = ReplayQueue \o <<next>>
    BY <1>6, <2>2, AppendIsConcat
  <2>4. <<next>> \in Seq(Nat)
    BY <1>6
  <2> QED BY <1>7, <1>8, <1>9, <1>10, <2>1, <2>3, <2>4, ConcatAssociative
<1>12. \A i \in 1 .. Len(ReplayQueue) : ReplayQueue[i] < next
  <2>1. \A s \in Segments : \A i \in 1 .. Len(Replayable(s)) : Replayable(s)[i] < next
    <3> SUFFICES ASSUME NEW s \in Segments, NEW i \in 1 .. Len(Replayable(s))
                 PROVE  Replayable(s)[i] < next
      OBVIOUS
    <3>1. Replayable(s)[i] \in accepted
      BY <1>1, <1>2 DEF RunningQueue
    <3>2. \A r \in accepted : r < next
      BY <1>6
    <3> QED BY <3>1, <3>2
  <2>2. /\ Len(ReplayQueue) = Len(Replayable(b)) + Len(Replayable(a))
        /\ \A i \in 1 .. Len(Replayable(b)) + Len(Replayable(a)) : ReplayQueue[i] =
              IF i <= Len(Replayable(b)) THEN Replayable(b)[i] ELSE Replayable(a)[i - Len(Replayable(b))]
    BY <1>7, <1>10, ConcatProperties
  <2> SUFFICES ASSUME NEW i \in 1 .. Len(Replayable(b)) + Len(Replayable(a)) PROVE ReplayQueue[i] < next
    BY <2>2
  <2>3. CASE i <= Len(Replayable(b))
    <3>1. i \in 1 .. Len(Replayable(b))
      BY <1>7, <2>3
    <3> QED BY <2>1, <2>2, <2>3, <3>1
  <2>4. CASE ~(i <= Len(Replayable(b)))
    <3>1. i - Len(Replayable(b)) \in 1 .. Len(Replayable(a))
      BY <1>7, <2>4
    <3> QED BY <2>1, <2>2, <2>4, <3>1
  <2> QED BY <2>3, <2>4
<1>13. Lost' = Lost
  <2>1. \A r : (\A i \in 1 .. Len(Replayable(a)') : Replayable(a)'[i] # r)
                <=> r # next /\ \A i \in 1 .. Len(Replayable(a)) : Replayable(a)[i] # r
    <3>1. /\ Len(Replayable(a)') = Len(Replayable(a)) + 1
          /\ \A i \in 1 .. Len(Replayable(a)) : Replayable(a)'[i] = Replayable(a)[i]
          /\ Replayable(a)'[Len(Replayable(a)) + 1] = next
      BY <1>6, <1>7, <1>9, AppendProperties
    <3>2. \A i : i \in 1 .. Len(Replayable(a)) + 1 <=>
                    i \in 1 .. Len(Replayable(a)) \/ i = Len(Replayable(a)) + 1
      BY <1>7
    <3> QED BY <3>1, <3>2
  <2>2. \A r : r \in Lost <=>
           /\ r \in accepted /\ r \notin resolved
           /\ \A i \in 1 .. Len(Replayable(a)) : Replayable(a)[i] # r
           /\ \A i \in 1 .. Len(Replayable(b)) : Replayable(b)[i] # r
    BY <1>1, <1>5 DEF Rest, LostIsRest
  <2>3. \A r : r \in Lost' <=>
           /\ r \in accepted' /\ r \notin resolved'
           /\ \A i \in 1 .. Len(Replayable(a)') : Replayable(a)'[i] # r
           /\ \A i \in 1 .. Len(Replayable(b)') : Replayable(b)'[i] # r
    BY <1>1, <1>5 DEF Rest, LostIsRest
  <2>4. \A r : r \in Lost' <=> r \in Lost
    BY <1>6, <1>8, <2>1, <2>2, <2>3
  <2> QED BY <2>4
<1>14. DurableDropped' = DurableDropped
  BY SameMetadata
<1> QED BY <1>6, <1>11, <1>12, <1>13, <1>14 DEF Fifo!Accept

\* The tail of two sequences is the tail of the first, unless it is empty.
LEMMA ConcatTail ==
    ASSUME NEW p \in Seq(Nat), NEW q \in Seq(Nat), p # <<>>
    PROVE  p \o q # <<>> /\ Tail(p \o q) = Tail(p) \o q
<1>1. /\ p \o q \in Seq(Nat) /\ Len(p \o q) = Len(p) + Len(q)
      /\ \A i \in 1 .. Len(p) + Len(q) : (p \o q)[i] = IF i <= Len(p) THEN p[i] ELSE q[i - Len(p)]
  BY ConcatProperties
<1>2. /\ Tail(p) \in Seq(Nat) /\ Len(Tail(p)) = Len(p) - 1
      /\ \A i \in 1 .. Len(p) - 1 : Tail(p)[i] = p[i + 1]
  BY HeadTailProperties
<1>3. Len(p) \in Nat \ {0} /\ Len(q) \in Nat
  BY EmptySeq
<1>4. /\ Tail(p) \o q \in Seq(Nat) /\ Len(Tail(p) \o q) = Len(p) - 1 + Len(q)
      /\ \A i \in 1 .. Len(p) - 1 + Len(q) :
            (Tail(p) \o q)[i] = IF i <= Len(p) - 1 THEN Tail(p)[i] ELSE q[i - (Len(p) - 1)]
  BY <1>2, ConcatProperties
<1>5. p \o q # <<>>
  BY <1>1, <1>3
<1>6. /\ Tail(p \o q) \in Seq(Nat) /\ Len(Tail(p \o q)) = Len(p) - 1 + Len(q)
      /\ \A i \in 1 .. Len(p) - 1 + Len(q) : Tail(p \o q)[i] = (p \o q)[i + 1]
  BY <1>1, <1>3, <1>5, HeadTailProperties
<1>7. ASSUME NEW i \in 1 .. Len(p) - 1 + Len(q) PROVE Tail(p \o q)[i] = (Tail(p) \o q)[i]
  <2>1. i + 1 \in 1 .. Len(p) + Len(q) /\ (i + 1) - Len(p) = i - (Len(p) - 1)
    BY <1>3
  <2>2. (p \o q)[i + 1] = IF i + 1 <= Len(p) THEN p[i + 1] ELSE q[i - (Len(p) - 1)]
    BY <1>1, <2>1
  <2>3. CASE i <= Len(p) - 1
    <3>1. i \in 1 .. Len(p) - 1 /\ i + 1 <= Len(p)
      BY <1>3, <2>3
    <3> QED BY <1>2, <1>4, <1>6, <2>2, <2>3, <3>1
  <2>4. CASE ~(i <= Len(p) - 1)
    <3>1. ~(i + 1 <= Len(p))
      BY <1>3, <2>4
    <3> QED BY <1>4, <1>6, <2>2, <2>4, <3>1
  <2> QED BY <2>3, <2>4
<1> QED BY <1>4, <1>5, <1>6, <1>7, SeqEqual

\* The second of two sequences is what is left without the first.
LEMMA ConcatRest ==
    ASSUME NEW p \in Seq(Nat), NEW q \in Seq(Nat)
    PROVE  /\ q = SubSeq(p \o q, Len(p) + 1, Len(p \o q))
           /\ Len(p) <= Len(p \o q) /\ Len(p \o q) \in Nat
<1>1. /\ p \o q \in Seq(Nat) /\ Len(p \o q) = Len(p) + Len(q)
      /\ \A i \in 1 .. Len(p) + Len(q) : (p \o q)[i] = IF i <= Len(p) THEN p[i] ELSE q[i - Len(p)]
  BY ConcatProperties
<1>2. Len(p) \in Nat /\ Len(q) \in Nat
  OBVIOUS
<1>3. PICK m \in Nat : m = Len(p)
  BY <1>2
<1>4. PICK n \in Nat : n = Len(q)
  BY <1>2
<1>5. \A i \in 1 .. n : /\ m + i \in 1 .. m + n /\ ~(m + i <= m) /\ (m + i) - m = i
                        /\ (m + 1) + i - 1 = m + i
  OBVIOUS
<1>6. \A i \in 1 .. n : (p \o q)[m + i] = q[i]
  BY <1>1, <1>3, <1>4, <1>5
<1>7. \A i \in m + 1 .. m + n : (p \o q)[i] \in Nat
  <2>1. \A i \in m + 1 .. m + n : i \in 1 .. m + n
    OBVIOUS
  <2> QED BY <1>1, <1>3, <1>4, <2>1, ElementOfSeq
<1> DEFINE r == SubSeq(p \o q, m + 1, m + n)
<1>8. /\ r \in Seq(Nat) /\ Len(r) = IF m + 1 <= m + n THEN (m + n) - (m + 1) + 1 ELSE 0
      /\ \A i \in 1 .. (m + n) - (m + 1) + 1 : r[i] = (p \o q)[(m + 1) + i - 1]
  <2>1. m + 1 \in Int /\ m + n \in Int
    OBVIOUS
  <2> DEFINE t == p \o q
  <2>2. \A i \in m + 1 .. m + n : t[i] \in Nat
    BY <1>7
  <2> HIDE DEF t
  <2>3. /\ SubSeq(t, m + 1, m + n) \in Seq(Nat)
        /\ Len(SubSeq(t, m + 1, m + n)) = IF m + 1 <= m + n THEN (m + n) - (m + 1) + 1 ELSE 0
        /\ \A i \in 1 .. (m + n) - (m + 1) + 1 : SubSeq(t, m + 1, m + n)[i] = t[(m + 1) + i - 1]
    BY <2>1, <2>2, SubSeqProperties
  <2> QED BY <2>3 DEF t
<1>9. /\ (m + n) - (m + 1) + 1 = n /\ Len(r) = n
  BY <1>8
<1>10. \A i \in 1 .. n : r[i] = q[i]
  BY <1>5, <1>6, <1>8, <1>9
<1> HIDE DEF r
<1>11. r = q
  BY <1>4, <1>8, <1>9, <1>10, SeqEqual
<1> QED BY <1>1, <1>3, <1>4, <1>11 DEF r

\* pop: the head of the oldest segment leaves.
LEMMA PopResolves ==
    ASSUME QInv, QInv', NEW d \in BOOLEAN, Pop(d)
    PROVE  [Fifo!FifoNext]_Fifo!fifoVars
<1>1. TypeOK /\ RunningQueue /\ RunningQueue' /\ Rest /\ Rest'
  BY RunningFound, RestFacts, PTL DEF QInv, IInv, TInv
<1>2. CASE UNCHANGED <<file, metadataFile, accepted, resolved>>
  BY <1>2, SameFiles DEF Unnoticed, Fifo!fifoVars
<1>3. CASE /\ head' = [head EXCEPT ![oldestSegment] = @ + 1]
           /\ dropped' = IF d THEN SaturatingAdd(dropped, 1) ELSE dropped
           /\ SaveMetadata
           /\ count' = [count EXCEPT ![oldestSegment] = @ - 1]
           /\ resolved' = resolved \cup {HeadRecord(oldestSegment)}
           /\ pc' = IF count[oldestSegment] = 1 THEN "reclaim" ELSE "ready"
  <2>1. /\ pc = "ready" /\ pendingRecords > 0 /\ UNCHANGED <<file, active, accepted>>
        /\ HeadReadable(oldestSegment)
    BY DEF Pop
  <2>2. /\ active \in Segments /\ active = metadataFile.active /\ count \in [Segments -> Nat]
        /\ head \in [Segments -> Nat] /\ pc \in Running /\ pc' \in Running
        /\ dropped \in 0 .. CounterMaximum
    BY <1>1, <1>3, <2>1 DEF TypeOK, RamType, QInv, OrderSound, Running
  <2>3. PICK a \in Segments : a = active
    BY <2>2
  <2>4. PICK b \in Segments : b = Other(a) /\ b # a /\ a = Other(b) /\ \A s \in Segments : s = a \/ s = b
    BY TwoSegments
  <2>5. PICK o \in Segments : o = oldestSegment /\ o = IF count[b] > 0 THEN b ELSE a
    BY <2>3, <2>4 DEF oldestSegment
  <2>6. PICK t \in Segments : t # o /\ \A s \in Segments : s = o \/ s = t
    BY TwoSegments
  <2>7. /\ Replayable(o) \in Seq(Nat) /\ Replayable(t) \in Seq(Nat)
        /\ Replayable(o)' \in Seq(Nat) /\ Len(Replayable(o)) \in Nat
    BY <1>1 DEF Rest, ReplayFacts
  <2>8. count[o] > 0 /\ count[o] \in Nat /\ head[o] \in Nat
    <3>1. count[a] \in Nat /\ count[b] \in Nat /\ count[a] + count[b] > 0
      BY <2>1, <2>2, <2>4 DEF pendingRecords, Segments
    <3> QED BY <2>2, <2>5, <3>1
  <2>9. /\ Len(Replayable(o)) = count[o]
        /\ \A i \in 1 .. count[o] : Replayable(o)[i] = file[o][head[o] + i].id
    BY <1>1, <2>2 DEF RunningQueue
  <2>10. /\ Len(Replayable(o)') = count[o] - 1
         /\ \A i \in 1 .. count[o] - 1 : Replayable(o)'[i] = file[o][(head[o] + 1) + i].id
    <3>1. count'[o] = count[o] - 1 /\ head'[o] = head[o] + 1 /\ file' = file
      BY <1>3, <2>1, <2>2, <2>5
    <3>2. /\ Len(Replayable(o)') = count'[o]
          /\ \A i \in 1 .. count'[o] : Replayable(o)'[i] = file'[o][head'[o] + i].id
      BY <1>1, <2>2 DEF RunningQueue
    <3> QED BY <3>1, <3>2
  <2>11. Replayable(t)' = Replayable(t)
    <3>1. count'[t] = count[t] /\ file'[t] = file[t] /\ head'[t] = head[t]
      BY <1>3, <2>1, <2>2, <2>5, <2>6
    <3> QED BY <1>1, <2>2, <3>1, RunningKept
  <2>12. \A i \in 1 .. count[o] - 1 : Replayable(o)'[i] = Replayable(o)[i + 1]
    <3> SUFFICES ASSUME NEW i \in 1 .. count[o] - 1 PROVE Replayable(o)'[i] = Replayable(o)[i + 1]
      OBVIOUS
    <3>1. i + 1 \in 1 .. count[o] /\ head[o] + (i + 1) = (head[o] + 1) + i
      BY <2>8
    <3> QED BY <2>9, <2>10, <3>1
  <2>13. Replayable(o) # <<>> /\ Replayable(o)' = Tail(Replayable(o))
    <3>1. Replayable(o) # <<>>
      BY <2>8, <2>9
    <3>2. /\ Tail(Replayable(o)) \in Seq(Nat) /\ Len(Tail(Replayable(o))) = count[o] - 1
          /\ \A i \in 1 .. count[o] - 1 : Tail(Replayable(o))[i] = Replayable(o)[i + 1]
      BY <2>7, <2>9, <3>1, HeadTailProperties
    <3>3. Len(Replayable(o)') = Len(Tail(Replayable(o)))
          /\ \A i \in 1 .. Len(Replayable(o)') : Replayable(o)'[i] = Tail(Replayable(o))[i]
      BY <2>10, <2>12, <3>2
    <3> QED BY <2>7, <3>1, <3>2, <3>3, SeqEqual
  <2>14. Replayable(o)[1] = HeadRecord(o)
    <3>1. 1 \in 1 .. count[o]
      BY <2>8
    <3> QED BY <2>9, <3>1 DEF HeadRecord
  <2>15. DurableActive = a /\ DurableActive' = a /\ DurableDropped = dropped /\ DurableDropped' = dropped'
    <3>1. metadataFile'.active = active'
      BY <1>3 DEF SaveMetadata
    <3> QED BY <1>1, <2>1, <2>2, <2>3, <3>1 DEF RunningQueue
  <2>16. /\ ReplayQueue = Replayable(b) \o Replayable(a)
         /\ ReplayQueue' = Replayable(b)' \o Replayable(a)'
    BY <2>4, <2>15 DEF ReplayQueue, Other
  <2>17. ReplayQueue # <<>> /\ ReplayQueue' = Tail(ReplayQueue)
    <3>1. CASE count[b] > 0
      <4>1. o = b /\ t = a
        BY <2>4, <2>5, <2>6, <3>1
      <4>2. /\ ReplayQueue = Replayable(o) \o Replayable(t)
            /\ ReplayQueue' = Tail(Replayable(o)) \o Replayable(t)
        BY <2>11, <2>13, <2>16, <4>1
      <4>3. /\ Replayable(o) \o Replayable(t) # <<>>
            /\ Tail(Replayable(o) \o Replayable(t)) = Tail(Replayable(o)) \o Replayable(t)
        BY <2>7, <2>13, ConcatTail
      <4> QED BY <4>2, <4>3
    <3>2. CASE ~(count[b] > 0)
      <4>1. o = a /\ t = b
        BY <2>4, <2>5, <2>6, <3>2
      <4>2. Len(Replayable(b)) = 0
        BY <1>1, <2>2, <3>2 DEF RunningQueue
      <4>3. Replayable(b) = <<>>
        BY <2>7, <4>1, <4>2
      <4>4. ReplayQueue = Replayable(o) /\ ReplayQueue' = Replayable(o)'
        BY <2>7, <2>11, <2>16, <4>1, <4>3, ConcatEmptySeq
      <4> QED BY <2>13, <4>4
    <3> QED BY <3>1, <3>2
  <2>18. Lost' = Lost
    <3>1. \A r : (\A i \in 1 .. Len(Replayable(o)) : Replayable(o)[i] # r)
                 <=> r # HeadRecord(o) /\ \A i \in 1 .. Len(Replayable(o)') : Replayable(o)'[i] # r
      <4>1. ASSUME NEW i \in 1 .. count[o]
            PROVE  i = 1 \/ \E j \in 1 .. count[o] - 1 : i = j + 1
        <5>1. i # 1 => i - 1 \in 1 .. count[o] - 1 /\ i = (i - 1) + 1
          BY <2>8
        <5> QED BY <5>1
      <4>2. \A j \in 1 .. count[o] - 1 : j + 1 \in 1 .. count[o]
        BY <2>8
      <4>3. 1 \in 1 .. count[o]
        BY <2>8
      <4>4. ASSUME NEW r, NEW i \in 1 .. count[o], Replayable(o)[i] = r
            PROVE  r = HeadRecord(o) \/ \E j \in 1 .. count[o] - 1 : Replayable(o)'[j] = r
        BY <2>12, <2>14, <4>1, <4>4
      <4>5. ASSUME NEW r, r = HeadRecord(o) \/ \E j \in 1 .. count[o] - 1 : Replayable(o)'[j] = r
            PROVE  \E i \in 1 .. count[o] : Replayable(o)[i] = r
        BY <2>12, <2>14, <4>2, <4>3, <4>5
      <4> QED BY <2>9, <2>10, <4>4, <4>5
    <3>2. /\ resolved' = resolved \cup {HeadRecord(o)} /\ accepted' = accepted
      BY <1>3, <2>1, <2>5
    <3>3. \A r : r \in Lost <=>
             /\ r \in accepted /\ r \notin resolved
             /\ \A i \in 1 .. Len(Replayable(o)) : Replayable(o)[i] # r
             /\ \A i \in 1 .. Len(Replayable(t)) : Replayable(t)[i] # r
      BY <1>1, <2>6, LostOfTwo DEF Rest
    <3>4. \A r : r \in Lost' <=>
             /\ r \in accepted' /\ r \notin resolved'
             /\ \A i \in 1 .. Len(Replayable(o)') : Replayable(o)'[i] # r
             /\ \A i \in 1 .. Len(Replayable(t)') : Replayable(t)'[i] # r
      BY <1>1, <2>6 DEF Rest, LostIsRest
    <3>5. \A r : r \in Lost' <=> r \in Lost
      BY <2>11, <3>1, <3>2, <3>3, <3>4
    <3> QED BY <3>5
  <2>19. DurableDropped' \in {DurableDropped, DurableDropped + 1} /\ DurableDropped' <= CounterMaximum
    BY <1>3, <2>2, <2>15, ConstantsAssumption DEF SaturatingAdd
  <2> QED BY <2>17, <2>18, <2>19 DEF Fifo!FifoNext, Fifo!Resolve
<1> QED BY <1>2, <1>3 DEF Pop

\* rotateSegment: the drop is announced, unless the counter says it cannot.
LEMMA RotateAnnounces ==
    ASSUME QInv, QInv', AnnouncedSound, RotateCount
    PROVE  /\ [Fifo!FifoNext]_Fifo!fifoVars
           /\ pc' = "rotateTruncate" => Announced(count[cur])'
<1>1. TypeOK /\ RunningQueue /\ RunningQueue' /\ LostCounted
  BY RunningFound, LostFinite, PTL DEF QInv, IInv, TInv
<1>2. /\ pc = "rotate" /\ UNCHANGED <<file, head, active, count, accepted, resolved>>
      /\ pc' \in {"rotateTruncate", "ready"} /\ cur' = Other(active)
  BY DEF RotateCount, history
<1>3. /\ active \in Segments /\ active = metadataFile.active
      /\ pc \in Running /\ pc' \in Running /\ dropped \in 0 .. CounterMaximum
  BY <1>1, <1>2 DEF TypeOK, RamType, QInv, OrderSound, Running
<1>4. PICK n \in Segments : n = Other(active)
  BY <1>3, TwoSegments
<1>5. count[n] \in Nat /\ DurableDropped = dropped /\ DurableDropped' = dropped'
  BY <1>1, <1>3 DEF TypeOK, RamType, RunningQueue
<1>6. CASE UNCHANGED <<dropped, metadataFile>> /\ (count[n] = 0 \/ pc' = "ready")
  <2>1. Unnoticed /\ DurableDropped' = DurableDropped
    BY <1>2, <1>6, SameFiles
  <2>2. pc' = "rotateTruncate" => Announced(count[cur])'
    <3>1. Cardinality(Lost') = Cardinality(Lost) /\ count'[cur'] = count[n]
      BY <1>2, <1>4, <2>1 DEF Unnoticed
    <3> QED BY <1>6, <2>1, <3>1 DEF Announced, AnnouncedSound
  <2> QED BY <2>1, <2>2 DEF Unnoticed, Fifo!fifoVars
<1>7. CASE /\ count[n] > 0 /\ SaveMetadata /\ pc' = "rotateTruncate"
           /\ dropped' = SaturatingAdd(dropped, count[n])
  <2>1. Unnoticed
    BY <1>2, <1>3, <1>7, CommitReplay
  <2>2. /\ dropped' \in 0 .. CounterMaximum
        /\ dropped' = dropped + count[n] \/ dropped' = CounterMaximum
    BY <1>3, <1>5, <1>7, SaturatingAddFacts
  <2>3. dropped' = dropped \/ dropped' \in dropped + 1 .. CounterMaximum
    BY <1>3, <1>5, <1>7, <2>2, ConstantsAssumption
  <2>4. [Fifo!FifoNext]_Fifo!fifoVars
    BY <1>5, <2>1, <2>3 DEF Unnoticed, Fifo!fifoVars, Fifo!FifoNext, Fifo!Announce
  <2>5. Announced(count[cur])'
    <3>1. Cardinality(Lost') = Cardinality(Lost) /\ count'[cur'] = count[n]
      BY <1>2, <1>4, <2>1 DEF Unnoticed
    <3>2. Cardinality(Lost) + 0 <= dropped \/ dropped = CounterMaximum
      BY <1>5 DEF AnnouncedSound, Announced
    <3>3. Cardinality(Lost) + count[n] <= dropped' \/ dropped' = CounterMaximum
      BY <1>1, <1>3, <1>5, <1>7, <2>2, <3>2, ConstantsAssumption DEF LostCounted, SaturatingAdd
    <3> QED BY <1>5, <3>1, <3>3 DEF Announced
  <2> QED BY <2>4, <2>5
<1> QED BY <1>4, <1>6, <1>7 DEF RotateCount

\* rotateSegment: the records of the older segment are the oldest, they were
\* neither popped nor lost before, and each is erased once.
LEMMA RotateLoses ==
    ASSUME RecoverableFaults, QInv, QInv', AnnouncedSound, RotateTruncate
    PROVE  [Fifo!FifoNext]_Fifo!fifoVars
<1>1. TypeOK /\ RunningQueue /\ RunningQueue' /\ LostCounted /\ Rest /\ Rest'
  BY RunningFound, LostFinite, RestFacts, PTL DEF QInv, IInv, TInv
<1>2. /\ pc = "rotateTruncate" /\ UNCHANGED <<metadataFile, accepted, resolved>>
      /\ pc' \in {"ready", "rotateSave"}
  BY DEF RotateTruncate, history
<1>3. CASE UNCHANGED file
  BY <1>2, <1>3, SameFiles DEF Unnoticed, Fifo!fifoVars
<1>4. CASE TruncateSegment(cur)
  <2>1. /\ cur \in Segments /\ active \in Segments /\ cur = Other(active)
        /\ active = metadataFile.active /\ pc \in Running /\ pc' \in Running
    BY <1>1, <1>2 DEF TypeOK, RamType, QInv, OrderSound, Running
  <2>2. PICK a \in Segments : a = active
    BY <2>1
  <2>3. PICK c \in Segments : c = cur /\ c = Other(a) /\ c # a /\ \A s \in Segments : s = a \/ s = c
    BY <2>1, <2>2, TwoSegments
  <2>4. /\ file'[c] = <<>> /\ head'[c] = 0 /\ count'[c] = 0
        /\ file'[a] = file[a] /\ head'[a] = head[a] /\ count'[a] = count[a]
    BY <1>1, <1>4, <2>3 DEF TruncateSegment, TypeOK, FlashType, RamType
  <2>5. Replayable(a)' = Replayable(a)
    BY <1>1, <2>1, <2>4, RunningKept
  <2>6. /\ Replayable(a) \in Seq(Nat) /\ Replayable(c) \in Seq(Nat) /\ Replayable(c)' \in Seq(Nat)
    BY <1>1 DEF Rest, ReplayFacts
  <2>7. Replayable(c)' = <<>>
    <3>1. Len(Replayable(c)') = 0
      BY <1>1, <2>1, <2>4 DEF RunningQueue
    <3> QED BY <2>6, <3>1
  <2>8. /\ DurableActive = a /\ DurableActive' = a /\ DurableDropped = dropped
        /\ DurableDropped' = DurableDropped
    BY <1>1, <1>2, <2>1, <2>2, SameMetadata DEF RunningQueue
  <2>9. /\ ReplayQueue = Replayable(c) \o Replayable(a)
        /\ ReplayQueue' = Replayable(c)' \o Replayable(a)'
    BY <2>3, <2>8 DEF ReplayQueue, Other
  <2>10. ReplayQueue' = Replayable(a)
    BY <2>5, <2>6, <2>7, <2>9, ConcatEmptySeq
  <2> DEFINE n == Len(Replayable(c))
             Erased == {Replayable(c)[i] : i \in 1 .. n}
  <2>11. /\ n = count[c] /\ n \in Nat /\ head[c] \in Nat /\ Len(file[c]) = head[c] + n
         /\ \A i \in 1 .. n : /\ Replayable(c)[i] = file[c][head[c] + i].id
                              /\ Replayable(c)[i] \in accepted
    BY <1>1, <2>1 DEF RunningQueue, TypeOK, RamType
  <2>12. \A i \in 1 .. n : head[c] + i \in 1 .. Len(file[c]) /\ ~(head[c] + i <= head[c])
    BY <2>11
  <2>13. \A r \in accepted : r # 0
    BY <1>1 DEF TypeOK, HistoryType
  <2>14. Erased \cap resolved = {}
    <3>1. HeadsPast(head)
      BY <2>1 DEF QInv, ReplaySound, Remembered, RecoverableFaults
    <3> QED BY <2>11, <2>12, <3>1 DEF HeadsPast
  <2>15. ASSUME NEW i \in 1 .. n, NEW j \in 1 .. Len(Replayable(a)) PROVE Replayable(a)[j] # Replayable(c)[i]
    <3>1. /\ Len(file[a]) = head[a] + count[a] /\ head[a] \in Nat /\ count[a] \in Nat
          /\ j \in 1 .. count[a] /\ Replayable(a)[j] = file[a][head[a] + j].id
      BY <1>1, <2>1 DEF RunningQueue, TypeOK, RamType
    <3>2. head[a] + j \in 1 .. Len(file[a])
      BY <3>1
    <3>3. head[c] + i \in 1 .. Len(file[c]) /\ file[c][head[c] + i].id # 0
      BY <2>11, <2>12, <2>13
    <3>4. Distinct
      BY DEF QInv, ReplaySound
    <3>5. file[c][head[c] + i].id # file[a][head[a] + j].id
      BY <2>3, <3>2, <3>3, <3>4 DEF Distinct
    <3> QED BY <2>11, <3>1, <3>5
  <2>16. ASSUME NEW i \in 1 .. n, NEW j \in 1 .. n, Replayable(c)[i] = Replayable(c)[j] PROVE i = j
    <3>1. /\ head[c] + i \in 1 .. Len(file[c]) /\ file[c][head[c] + i].id # 0
          /\ head[c] + j \in 1 .. Len(file[c])
          /\ file[c][head[c] + i].id = file[c][head[c] + j].id
      BY <2>11, <2>12, <2>13, <2>16
    <3>2. Distinct
      BY DEF QInv, ReplaySound
    <3>3. head[c] + i = head[c] + j
      BY <3>1, <3>2 DEF Distinct
    <3> QED BY <2>11, <3>3
  <2>17. IsFiniteSet(Erased) /\ Cardinality(Erased) = n
    <3> DEFINE f == [i \in 1 .. n |-> Replayable(c)[i]]
    <3>1. f \in Surjection(1 .. n, Erased)
      BY DEF Surjection
    <3>2. f \in Injection(1 .. n, Erased)
      BY <2>16 DEF Injection, IsInjective
    <3> HIDE DEF f, Erased, n
    <3>3. IsFiniteSet(1 .. n) /\ Cardinality(1 .. n) = n
      <4>1. 1 \in Int /\ n \in Int
        BY <2>11
      <4>2. IsFiniteSet(1 .. n) /\ Cardinality(1 .. n) = IF 1 > n THEN 0 ELSE n - 1 + 1
        BY <4>1, FS_Interval
      <4> QED BY <2>11, <4>2
    <3> QED BY <3>1, <3>2, <3>3, FS_Surjection
  <2>18. Lost \cap Erased = {}
    BY <1>1, <2>3 DEF Rest, LostIsRest
  <2>19. Lost' = Lost \cup Erased
    <3>1. \A r : r \in Lost <=>
             /\ r \in accepted /\ r \notin resolved
             /\ \A i \in 1 .. Len(Replayable(a)) : Replayable(a)[i] # r
             /\ \A i \in 1 .. n : Replayable(c)[i] # r
      BY <1>1, <2>3, LostOfTwo DEF Rest
    <3>2. \A r : r \in Lost' <=>
             /\ r \in accepted /\ r \notin resolved
             /\ \A i \in 1 .. Len(Replayable(a)) : Replayable(a)[i] # r
      <4>1. \A r : r \in Lost' <=>
               /\ r \in accepted' /\ r \notin resolved'
               /\ \A s \in Segments : \A i \in 1 .. Len(Replayable(s)') : Replayable(s)'[i] # r
        BY <1>1 DEF Rest, LostIsRest
      <4>2. \A i \in 1 .. Len(Replayable(c)') : FALSE
        BY <2>7
      <4> QED BY <1>2, <2>3, <2>5, <4>1, <4>2
    <3>3. \A r \in Erased : r \in Lost'
      BY <2>11, <2>14, <2>15, <3>2
    <3> QED BY <3>1, <3>2, <3>3
  <2> HIDE DEF Erased
  <2>20. Cardinality(Lost') = Cardinality(Lost) + n
    <3>1. Cardinality(Lost \cap Erased) = 0
      BY <2>18, FS_EmptySet
    <3>2. Cardinality(Lost \cup Erased) = Cardinality(Lost) + Cardinality(Erased) - Cardinality(Lost \cap Erased)
      BY <1>1, <2>17, FS_Union DEF LostCounted
    <3> QED BY <1>1, <2>11, <2>17, <2>19, <3>1, <3>2 DEF LostCounted
  <2>21. Cardinality(Lost) + n <= DurableDropped \/ DurableDropped = CounterMaximum
    BY <1>2, <2>3, <2>11 DEF AnnouncedSound, Announced
  <2>22. CASE n = 0
    <3>1. Replayable(c) = <<>>
      BY <2>6, <2>22
    <3>2. ReplayQueue = Replayable(a)
      BY <2>6, <2>9, <3>1, ConcatEmptySeq
    <3>3. Cardinality(Lost') = Cardinality(Lost)
      BY <1>1, <2>20, <2>22 DEF LostCounted
    <3> QED BY <2>8, <2>10, <3>2, <3>3 DEF Fifo!fifoVars
  <2>23. CASE n # 0
    <3>1. ReplayQueue' = SubSeq(ReplayQueue, n + 1, Len(ReplayQueue)) /\ n <= Len(ReplayQueue)
          /\ Len(ReplayQueue) \in Nat
      BY <2>6, <2>9, <2>10, ConcatRest
    <3>2. n \in 1 .. Len(ReplayQueue)
      BY <2>11, <2>23, <3>1
    <3>3. Fifo!Lose(n)
      BY <2>8, <2>20, <2>21, <3>1 DEF Fifo!Lose
    <3> QED BY <3>2, <3>3 DEF Fifo!FifoNext
  <2> QED BY <2>22, <2>23
<1> QED BY <1>3, <1>4 DEF RotateTruncate

\* A reset, also one that tears an append: the queue is what begin would find.
LEMMA ResetUnnoticed ==
    ASSUME RecoverableFaults, QInv, QInv', Environment
    PROVE  Unnoticed /\ DurableDropped' = DurableDropped
<1>1. CASE Crash
  <2>1. UNCHANGED <<file, metadataFile, accepted, resolved>>
    BY <1>1 DEF Crash, PowerLoss
  <2> QED BY <2>1, SameFiles
<1>2. CASE CrashInAppend
  <2>1. /\ pc = "append" /\ pc \in Running /\ UNCHANGED <<metadataFile, accepted, resolved>>
        /\ file' = [file EXCEPT ![active] = Append(@, Torn)]
    BY <1>2 DEF CrashInAppend, PowerLoss, Running
  <2>2. TypeOK /\ TypeOK' /\ RunningQueue /\ Rest /\ Rest'
    BY RunningFound, RestFacts, PTL DEF QInv, IInv, TInv
  <2>3. PICK a \in Segments : a = active
    BY <2>2 DEF TypeOK, RamType
  <2>4. /\ file[a] \in Seq(Cell) /\ head[a] \in Nat /\ file'[a] = Append(file[a], Torn)
        /\ \A s \in Segments : s # a => file'[s] = file[s]
    BY <2>1, <2>2, <2>3 DEF TypeOK, FlashType, RamType
  <2>5. /\ Len(file'[a]) = Len(file[a]) + 1 /\ Len(file[a]) \in Nat
        /\ \A i \in 1 .. Len(file[a]) : file'[a][i] = file[a][i]
        /\ file'[a][Len(file[a]) + 1] = Torn
    BY <2>4
  <2>6. head[a] <= Len(file[a]) /\ metadataFile.head[a] = head[a] /\ HasMetadata
    BY <2>1 DEF QInv, IInv, LossInv, ReadySound, HasMetadata
  <2>7. DurableHead(a) = head[a] /\ DurableHead(a)' = head[a]
    BY <2>1, <2>4, <2>5, <2>6 DEF DurableHead, HasMetadata, Lesser
  <2>8. /\ \A i \in DurableHead(a) + 1 .. Len(file[a]) : file[a][i].ok =>
              i <= Len(file'[a]) /\ file'[a][i] = file[a][i]
        /\ \A i \in DurableHead(a) + 1 .. Len(file'[a]) : file'[a][i].ok =>
              i <= Len(file[a]) /\ file[a][i] = file'[a][i]
    <3>1. ASSUME NEW i \in head[a] + 1 .. Len(file[a])
          PROVE  i <= Len(file[a]) + 1 /\ file'[a][i] = file[a][i]
      BY <2>4, <2>5
    <3>2. ASSUME NEW i \in head[a] + 1 .. Len(file[a]) + 1, file'[a][i].ok
          PROVE  i <= Len(file[a]) /\ file[a][i] = file'[a][i]
      <4>1. i # Len(file[a]) + 1
        BY <2>5, <3>2 DEF Torn
      <4> QED BY <2>4, <2>5, <4>1
    <3> QED BY <2>5, <2>7, <3>1, <3>2
  <2>9. Replayable(a)' = Replayable(a)
    BY <2>2, <2>7, <2>8, ReplayKept DEF Rest
  <2> QED BY <2>1, <2>4, <2>9, SameRecords
<1> QED BY <1>1, <1>2 DEF Environment, MetadataLoss, Decay, RecoverableFaults

\* enqueue, step by step
LEMMA EnqueueImplements ==
    ASSUME RecoverableFaults, QInv, QInv', AnnouncedSound, EnqueueSteps
    PROVE  [Fifo!FifoNext]_Fifo!fifoVars
<1>1. CASE Enqueue
  <2>1. UNCHANGED <<file, metadataFile, accepted, resolved>>
    BY <1>1 DEF Enqueue, flash
  <2> QED BY <2>1, SameFiles DEF Unnoticed, Fifo!fifoVars
<1>2. CASE RotateCount
  BY <1>2, RotateAnnounces
<1>3. CASE RotateTruncate
  BY <1>3, RotateLoses
<1>4. CASE RotateSave
  <2>1. /\ pc = "rotateSave" /\ pc' = "append" /\ SaveMetadata
        /\ UNCHANGED <<file, head, active, dropped, accepted, resolved>>
    BY <1>4 DEF RotateSave, RecoverableFaults, metadata, history
  <2>2. /\ pc \in Running /\ pc' \in Running
        /\ active' = Other(metadataFile.active) /\ file[active'] = <<>>
    BY <2>1 DEF QInv, OrderSound, Running
  <2>3. Unnoticed
    BY <2>1, <2>2, CommitReplay
  <2>4. DurableDropped' = DurableDropped
    <3>1. RunningQueue /\ RunningQueue'
      BY RunningFound, PTL
    <3> QED BY <2>1, <2>2, <3>1 DEF RunningQueue
  <2> QED BY <2>3, <2>4 DEF Unnoticed, Fifo!fifoVars
<1>5. CASE AppendRecord
  <2>1. /\ pc = "append" /\ pc' = "ready"
        /\ UNCHANGED <<metadataFile, head, resolved, next>>
    BY <1>5 DEF AppendRecord, metadata
  <2>2. CASE UNCHANGED <<file, accepted>>
    BY <2>1, <2>2, SameFiles DEF Unnoticed, Fifo!fifoVars
  <2>3. CASE /\ file' = [file EXCEPT ![active] = Append(@, Complete(next))]
             /\ count' = [count EXCEPT ![active] = @ + 1]
             /\ accepted' = accepted \cup {next}
    BY <2>1, <2>3, AppendAccepts DEF Fifo!FifoNext
  <2> QED BY <1>5, <2>2, <2>3 DEF AppendRecord, RecoverableFaults
<1> QED BY <1>1, <1>2, <1>3, <1>4, <1>5 DEF EnqueueSteps

\* pop, step by step
LEMMA PopImplements ==
    ASSUME RecoverableFaults, QInv, QInv', PopSteps
    PROVE  [Fifo!FifoNext]_Fifo!fifoVars
<1>1. RunningQueue /\ RunningQueue'
  BY RunningFound, PTL
<1>2. CASE \E d \in BOOLEAN : Pop(d)
  BY <1>2, PopResolves
<1>3. CASE PopReclaim
  <2>1. /\ pc = "reclaim" /\ pc \in Running /\ UNCHANGED <<metadataFile, accepted, resolved>>
        /\ UNCHANGED file \/ TruncateSegment(cur)
    BY <1>3 DEF PopReclaim, history, Running
  <2>2. DurableHead(cur) = Len(file[cur])
    <3>1. cur \in Segments /\ count[cur] = 0 /\ head[cur] \in Nat
      BY <2>1 DEF QInv, IInv, TInv, TypeOK, RamType, LossInv, ReadySound
    <3> QED BY <1>1, <2>1, <3>1 DEF RunningQueue
  <2> QED BY <2>1, <2>2, SameEmptied, SameFiles DEF Unnoticed, Fifo!fifoVars
<1>4. CASE PopReclaimSave
  <2>1. /\ pc = "reclaimSave" /\ pc' = "ready" /\ SaveMetadata
        /\ UNCHANGED <<file, head, active, dropped, accepted, resolved>>
    BY <1>4 DEF PopReclaimSave, RecoverableFaults, metadata, history
  <2>2. pc \in Running /\ pc' \in Running /\ active' = metadataFile.active
    BY <2>1 DEF QInv, OrderSound, Running
  <2>3. Unnoticed /\ DurableDropped' = DurableDropped
    BY <1>1, <2>1, <2>2, CommitReplay DEF RunningQueue
  <2> QED BY <2>3 DEF Unnoticed, Fifo!fifoVars
<1> QED BY <1>2, <1>3, <1>4 DEF PopSteps, PopIfMatches

\* Every step of the queue is a step of the FIFO or leaves it alone.
LEMMA QueueImplements ==
    ASSUME RecoverableFaults, QInv, QInv', AnnouncedSound, [Next]_vars
    PROVE  [Fifo!FifoNext]_Fifo!fifoVars
<1>1. CASE UNCHANGED vars
  <2>1. UNCHANGED <<file, metadataFile, accepted, resolved>>
    BY <1>1 DEF vars, flash, history
  <2> QED BY <2>1, SameFiles DEF Unnoticed, Fifo!fifoVars
<1>2. CASE BeginSteps \/ Environment
  BY <1>2, BeginUnnoticed, ResetUnnoticed DEF Unnoticed, Fifo!fifoVars
<1> QED BY <1>1, <1>2, EnqueueImplements, PopImplements DEF Next

\* The FIFO announces before it loses, so the queue does; only RotateCount leads
\* to an erasure.
LEMMA AnnouncedStep ==
    ASSUME RecoverableFaults, QInv, QInv', AnnouncedSound, [Next]_vars
    PROVE  AnnouncedSound'
<1>1. /\ Cardinality(Lost) \in Nat /\ Cardinality(Lost') \in Nat
      /\ DurableDropped \in 0 .. CounterMaximum /\ DurableDropped' \in 0 .. CounterMaximum
  <2>1. TypeOK /\ TypeOK' /\ LostCounted /\ LostCounted'
    BY LostFinite, PTL DEF QInv, IInv, TInv
  <2>2. metadataFile.dropped \in 0 .. CounterMaximum /\ metadataFile'.dropped \in 0 .. CounterMaximum
    BY <2>1 DEF TypeOK, FlashType, MetadataFile
  <2> QED BY <2>1, <2>2, ConstantsAssumption DEF LostCounted, DurableDropped
<1>2. Announced(0)'
  <2>1. \/ Cardinality(Lost') = Cardinality(Lost) /\ DurableDropped' >= DurableDropped
        \/ /\ Cardinality(Lost') <= DurableDropped \/ DurableDropped = CounterMaximum
           /\ DurableDropped' = DurableDropped
    BY <1>1, QueueImplements, ConstantsAssumption
       DEF Fifo!FifoNext, Fifo!fifoVars, Fifo!Accept, Fifo!Resolve, Fifo!Announce, Fifo!Lose
  <2> QED BY <1>1, <2>1, ConstantsAssumption DEF AnnouncedSound, Announced
<1>3. CASE RotateCount
  BY <1>2, <1>3, RotateAnnounces DEF AnnouncedSound
<1>4. CASE UNCHANGED vars
  BY <1>2, <1>4 DEF AnnouncedSound, Announced, vars, flash, ram, history, Lost, InSegments,
                    IdsAfter, Quarantined, DurableHead, DurableDropped, HasMetadata
<1>5. CASE Next /\ ~RotateCount
  <2>1. pc' # "rotateTruncate"
    BY <1>5 DEF Next, BeginSteps, Begin, CreateSegment, ScanSegment, QuarantineSuffix,
         RepairSegment, ScanReclaim, BeginSave, ScanNext, EnqueueSteps, Enqueue,
         RotateTruncate, RotateSave, AppendRecord, PopSteps, PopIfMatches, Pop, PopReclaim,
         PopReclaimSave, Environment, Crash, CrashInAppend, PowerLoss, MetadataLoss, Decay,
         ram
  <2> QED BY <1>2, <2>1 DEF AnnouncedSound
<1> QED BY <1>3, <1>4, <1>5

\* A logger that was never used, or what version 1 left in the queue.
LEMMA InitFifo == Init => Fifo!FifoInit /\ AnnouncedSound
<1> SUFFICES ASSUME Init PROVE Fifo!FifoInit /\ AnnouncedSound
  OBVIOUS
<1>1. Rest /\ TypeOK
  BY InitQueue, RestFacts DEF QInv, IInv, TInv
<1>2. DurableDropped = 0 /\ DurableActive = 0 /\ pc = "off"
  BY DEF Init, FileOf, DurableDropped, DurableActive
<1>3. 0 \in Segments /\ 1 \in Segments /\ Other(0) = 1 /\ \A s \in Segments : s = 0 \/ s = 1
  BY DEF Segments, Other
<1>4. ReplayQueue = Replayable(1) \o Replayable(0)
  BY <1>2, <1>3 DEF ReplayQueue
<1>5. Replayable(0) \in Seq(Nat) /\ Replayable(1) \in Seq(Nat)
  BY <1>1, <1>3 DEF Rest, ReplayFacts
<1>6. Replayable(1) = <<>>
  <2>1. file[1] = <<>>
    BY <1>3 DEF Init
  <2>2. DurableHead(1) = Len(file[1])
    BY <1>1, <1>3, <2>1, EmptyLive DEF EmptyNotLive
  <2> QED BY <1>1, <1>3, <2>2 DEF Rest, NothingLeft
<1>7. ReplayQueue = Replayable(0)
  BY <1>4, <1>5, <1>6, ConcatEmptySeq
<1>8. ReplayQueue \in {<<>>, <<1>>} /\ Lost = {}
  <2>1. CASE file = [s \in Segments |-> <<>>] /\ accepted = {}
    <3>1. file[0] = <<>>
      BY <1>3, <2>1
    <3>2. DurableHead(0) = Len(file[0])
      BY <1>1, <1>3, <3>1, EmptyLive DEF EmptyNotLive
    <3>3. Replayable(0) = <<>>
      BY <1>1, <1>3, <3>2 DEF Rest, NothingLeft
    <3> QED BY <1>7, <2>1, <3>3 DEF Lost
  <2>2. CASE /\ file = [s \in Segments |-> IF s = 0 THEN <<Complete(1)>> ELSE <<>>]
             /\ accepted = {1} /\ resolved = {1}
             /\ metadataFile = FileOf("v1", [Zero EXCEPT ![0] = 1])
    <3>1. file[0] = <<Complete(1)>> /\ Len(file[0]) = 1
      BY <1>3, <2>2
    <3>2. metadataFile.head[0] = 1 /\ HasMetadata
      BY <1>3, <2>2 DEF FileOf, Zero, HasMetadata
    <3>3. DurableHead(0) = Len(file[0])
      BY <3>1, <3>2 DEF DurableHead, Lesser
    <3>4. Replayable(0) = <<>>
      BY <1>1, <1>3, <3>3 DEF Rest, NothingLeft
    <3> QED BY <1>7, <2>2, <3>4 DEF Lost
  <2>3. CASE /\ file = [s \in Segments |-> IF s = 0 THEN <<Complete(1)>> ELSE <<>>]
             /\ accepted = {1} /\ metadataFile = FileOf("v1", Zero)
    <3>1. /\ file[0] = <<Complete(1)>> /\ Len(file[0]) = 1
          /\ file[0][1].ok /\ file[0][1].id = 1
      BY <1>3, <2>3 DEF Complete
    <3>2. metadataFile.head[0] = 0 /\ HasMetadata
      BY <1>3, <2>3 DEF FileOf, Zero, HasMetadata
    <3>3. DurableHead(0) = 0
      BY <3>1, <3>2 DEF DurableHead, Lesser
    <3>4. ReplayEnd(0) = 1
      <4>1. 1 \in 0 .. 1 /\ \A i \in 0 + 1 .. 1 : file[0][i].ok <=> i <= 1
        BY <3>1
      <4> QED BY <1>1, <1>3, <3>1, <3>3, <4>1 DEF Rest, ReplayFacts
    <3>5. Len(Replayable(0)) = 1 /\ Replayable(0)[1] = 1
      <4>1. /\ Len(Replayable(0)) = ReplayEnd(0) - DurableHead(0)
            /\ \A i \in 1 .. Len(Replayable(0)) : Replayable(0)[i] = file[0][DurableHead(0) + i].id
        BY <1>1, <1>3 DEF Rest, ReplayFacts
      <4>2. Len(Replayable(0)) = 1 - 0
        BY <3>3, <3>4, <4>1, Zenon
      <4>3. 1 - 0 = 1 /\ 0 + 1 = 1 /\ 1 \in 1 .. 1
        OBVIOUS
      <4>4. Replayable(0)[1] = file[0][0 + 1].id
        BY <3>3, <4>1, <4>2, <4>3, Zenon
      <4> QED BY <3>1, <4>2, <4>3, <4>4, Zenon
    <3>6. Replayable(0) = <<1>>
      BY <1>5, <3>5
    <3>7. 1 \notin Lost
      BY <1>1, <1>3, <3>5 DEF Rest, LostIsRest
    <3> QED BY <1>7, <2>3, <3>6, <3>7 DEF Lost
  <2> QED BY <2>1, <2>2, <2>3 DEF Init
<1>9. Cardinality(Lost) = 0
  BY <1>8, FS_EmptySet
<1> QED BY <1>2, <1>8, <1>9 DEF Fifo!FifoInit, AnnouncedSound, Announced

\* The queue is one FIFO that survives resets: whatever the capacity, wherever
\* resets fall in enqueue, rotation, pop, reclaim and startup repair and
\* whichever of the other calls of the filesystem fail, what begin() would
\* replay grows at its new end, shrinks at its old end, keeps its order, and
\* loses a record only after the drop counter on flash has announced it.
THEOREM QueueIsDurableFifo ==
    ASSUME RecoverableFaults
    PROVE  Spec => ImplementsDurableFifo
<1>1. Init => QInv /\ AnnouncedSound /\ Fifo!FifoInit
  BY InitQueue, InitFifo
<1>2. QInv /\ AnnouncedSound /\ [Next]_vars => QInv' /\ AnnouncedSound'
  BY QueueStep, AnnouncedStep
<1>3. QInv /\ QInv' /\ AnnouncedSound /\ [Next]_vars => [Fifo!FifoNext]_Fifo!fifoVars
  BY QueueImplements
<1>4. Spec => [](QInv /\ AnnouncedSound)
  BY <1>1, <1>2, PTL DEF Spec
<1> QED BY <1>1, <1>3, <1>4, PTL DEF Spec, ImplementsDurableFifo, Fifo!FifoSpec
=============================================================================
