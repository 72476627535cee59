------------------------ MODULE UploadPipelineProofs ------------------------
(***************************************************************************)
(* A snapshot leaves replay only once the server has stored it or the      *)
(* archive holds it, the archive holds it once, and a member of a rejected *)
(* batch is not batched again: for any number of snapshots, resets, slots, *)
(* any batch size and whatever the server refuses.                         *)
(***************************************************************************)
EXTENDS UploadPipeline, SequenceTheorems, TLAPS

\* What an answer proves about the request it answers.
AnswerProves ==
    /\ operation = "Snapshot" /\ response = "accepted" => inFlight \in stored
    /\ operation = "Snapshot" /\ response = "permanent" => inFlight \in Invalid
    /\ operation = "Batch" /\ response = "accepted" => Range(batchRecords) \subseteq stored

\* While a batch is being popped, all of it is stored and nothing is in flight.
DrainProves == batchAcknowledged => Range(batchRecords) \subseteq stored /\ operation = "None"

\* The queue advances past a rejected record after the evidence is durable.
EvidenceProves ==
    pc = "advance" =>
        /\ inFlight \in Range(archive)
        /\ operation = "Snapshot" /\ response = "permanent"

\* The archive's slots hold refused records, each of them once.
Archive ==
    /\ archive \in Seq(Invalid)
    /\ \A i, j \in DOMAIN archive : archive[i] = archive[j] => i = j

\* The inductive invariant.
PInv == AnswerProves /\ DrainProves /\ EvidenceProves /\ Archive /\ LeavesOnlyResolved

\* Initially nothing is in flight, archived or popped.
LEMMA PInit == Init => PInv
<1> SUFFICES ASSUME Init PROVE PInv
  OBVIOUS
<1>1. AnswerProves /\ DrainProves /\ EvidenceProves
  BY DEF Init, Booted, AnswerProves, DrainProves, EvidenceProves
<1>2. archive = <<>> /\ popped = {}
  BY DEF Init
<1>3. Archive /\ LeavesOnlyResolved
  BY <1>2 DEF Archive, LeavesOnlyResolved
<1> QED BY <1>1, <1>3 DEF PInv

\* popIfMatches removes the submitted record or none.
LEMMA PopTakesSubmitted ==
    ASSUME NEW r, NEW advanced \in BOOLEAN, PopIfMatches(r, advanced)
    PROVE  popped' \subseteq popped \cup {r}
BY DEF PopIfMatches

\* Filling a slot adds the record to what the archive holds.
LEMMA RangeAppend ==
    ASSUME NEW s \in Seq(Invalid), NEW r \in Invalid
    PROVE  /\ Append(s, r) \in Seq(Invalid)
           /\ Range(Append(s, r)) = Range(s) \cup {r}
<1>1. Append(s, r) \in Seq(Invalid) /\ DOMAIN Append(s, r) = 1 .. Len(s) + 1
      /\ \A i \in 1 .. Len(s) : Append(s, r)[i] = s[i]
  OBVIOUS
<1>2. Append(s, r)[Len(s) + 1] = r /\ DOMAIN s = 1 .. Len(s) /\ Len(s) \in Nat
  OBVIOUS
<1>3. 1 .. Len(s) + 1 = (1 .. Len(s)) \cup {Len(s) + 1}
  BY <1>2
<1> QED BY <1>1, <1>2, <1>3 DEF Range

\* Steps that leave evidence and answers alone: capture, time, waiting.
LEMMA PQuiet ==
    ASSUME PInv,
           UNCHANGED <<archive, stored, popped, operation, inFlight, batchRecords,
                       batchAcknowledged, response>>,
           pc' # "advance" \/ pc' = pc
    PROVE  PInv'
BY DEF PInv, AnswerProves, DrainProves, EvidenceProves, Archive, LeavesOnlyResolved

\* The server's answers.
LEMMA PServer ==
    ASSUME PInv, Server
    PROVE  PInv'
<1> USE DEF PInv, flash, flight, batchVars, observed
<1>1. /\ response = "waiting" /\ response' \in Answers
      /\ stored \subseteq stored'
      /\ UNCHANGED <<archive, popped, operation, inFlight, batchRecords,
                     batchAcknowledged, pc>>
  BY DEF Server, ServerAccepts, ServerVague, ServerRejects, Answers
<1>2. response' = "accepted" => Carried \subseteq stored'
  BY DEF Server, ServerAccepts, ServerVague, ServerRejects
<1>3. response' = "permanent" /\ operation = "Snapshot" => inFlight \in Invalid
  BY DEF Server, ServerAccepts, ServerVague, ServerRejects
<1>4. /\ operation = "Snapshot" => Carried = {inFlight}
      /\ operation = "Batch" => Carried = Range(batchRecords)
  BY DEF Carried
<1>5. AnswerProves'
  BY <1>1, <1>2, <1>3, <1>4 DEF AnswerProves
<1>6. DrainProves' /\ EvidenceProves' /\ Archive'
  BY <1>1 DEF DrainProves, EvidenceProves, Archive
<1>7. LeavesOnlyResolved'
  BY <1>1 DEF LeavesOnlyResolved
<1> QED BY <1>5, <1>6, <1>7

\* The answers to snapshots: pop, archive and advance.
LEMMA PSnapshot ==
    ASSUME PInv, HandleAccepted \/ HandleRetained \/ HandlePermanent \/ AdvanceRejected
    PROVE  PInv'
<1> USE DEF PInv, flash, flight, batchVars, observed, Finish
<1>1. CASE HandleAccepted
  <2>1. /\ operation = "Snapshot" /\ response = "accepted"
        /\ operation' = "None" /\ pc' = "after"
        /\ UNCHANGED <<archive, stored, batchRecords, batchAcknowledged>>
    BY <1>1 DEF HandleAccepted, Answered
  <2>2. popped' \subseteq popped \cup {inFlight}
    BY <1>1, PopTakesSubmitted DEF HandleAccepted
  <2>3. inFlight \in stored
    BY <2>1 DEF AnswerProves
  <2>4. AnswerProves' /\ DrainProves' /\ EvidenceProves' /\ Archive'
    BY <2>1 DEF AnswerProves, DrainProves, EvidenceProves, Archive
  <2>5. LeavesOnlyResolved'
    BY <2>1, <2>2, <2>3 DEF LeavesOnlyResolved
  <2> QED BY <2>4, <2>5
<1>2. CASE HandleRetained
  <2>1. /\ operation = "Snapshot" /\ operation' = "None" /\ pc' = "after"
        /\ UNCHANGED <<archive, stored, popped, batchRecords, batchAcknowledged>>
    BY <1>2 DEF HandleRetained, Answered
  <2> QED BY <2>1 DEF AnswerProves, DrainProves, EvidenceProves, Archive, LeavesOnlyResolved
<1>3. CASE HandlePermanent
  <2>1. /\ operation = "Snapshot" /\ response = "permanent" /\ pc = "loop"
        /\ UNCHANGED <<stored, popped, batchRecords, batchAcknowledged>>
    BY <1>3 DEF HandlePermanent, Answered
  <2>2. inFlight \in Invalid
    BY <2>1 DEF AnswerProves
  <2>3. CASE PreserveRejected(TRUE) /\ pc' = "advance"
                /\ UNCHANGED <<inFlight, response, operation>>
    <3>1. CASE inFlight \in Range(archive) /\ UNCHANGED archive
      BY <2>1, <2>3, <3>1
         DEF AnswerProves, DrainProves, EvidenceProves, Archive, LeavesOnlyResolved
    <3>2. CASE inFlight \notin Range(archive) /\ archive' = Append(archive, inFlight)
      <4>1. archive \in Seq(Invalid)
        BY DEF Archive
      <4>2. archive' \in Seq(Invalid) /\ Range(archive') = Range(archive) \cup {inFlight}
        BY <2>2, <3>2, <4>1, RangeAppend
      <4>3. \A i \in DOMAIN archive : archive[i] # inFlight
        BY <3>2 DEF Range
      <4>4. \A i, j \in DOMAIN archive' : archive'[i] = archive'[j] => i = j
        BY <2>2, <3>2, <4>1, <4>3 DEF Archive
      <4>5. Archive'
        BY <4>2, <4>4 DEF Archive
      <4>6. AnswerProves' /\ DrainProves' /\ EvidenceProves'
        BY <2>1, <2>3, <4>2 DEF AnswerProves, DrainProves, EvidenceProves
      <4>7. LeavesOnlyResolved'
        BY <2>1, <4>2 DEF LeavesOnlyResolved
      <4> QED BY <4>5, <4>6, <4>7
    <3> QED BY <2>3, <3>1, <3>2 DEF PreserveRejected
  <2>4. CASE PreserveRejected(FALSE) /\ operation' = "None" /\ pc' = "after"
    <3>1. UNCHANGED archive
      BY <2>4 DEF PreserveRejected
    <3> QED BY <2>1, <2>4, <3>1
            DEF AnswerProves, DrainProves, EvidenceProves, Archive, LeavesOnlyResolved
  <2> QED BY <1>3, <2>3, <2>4 DEF HandlePermanent
<1>4. CASE AdvanceRejected
  <2>1. /\ pc = "advance" /\ operation' = "None" /\ pc' = "after"
        /\ UNCHANGED <<archive, stored, batchRecords, batchAcknowledged>>
    BY <1>4 DEF AdvanceRejected
  <2>2. popped' \subseteq popped \cup {inFlight}
    BY <1>4, PopTakesSubmitted DEF AdvanceRejected
  <2>3. inFlight \in Range(archive)
    BY <2>1 DEF EvidenceProves
  <2>4. AnswerProves' /\ DrainProves' /\ EvidenceProves' /\ Archive'
    BY <2>1 DEF AnswerProves, DrainProves, EvidenceProves, Archive
  <2>5. LeavesOnlyResolved'
    BY <2>1, <2>2, <2>3 DEF LeavesOnlyResolved
  <2> QED BY <2>4, <2>5
<1> QED BY <1>1, <1>2, <1>3, <1>4

\* The answers to batches and status requests.
LEMMA PBatchStatus ==
    ASSUME PInv, HandleBatch \/ HandleStatus
    PROVE  PInv'
<1> USE DEF PInv, flash, flight, batchVars, observed, Finish, Answered, ForgetBatch
<1>0. Range(<<>>) = {}
  BY DEF Range
<1>1. CASE HandleBatch
  <2>1. /\ operation = "Batch" /\ operation' = "None" /\ pc' = "after"
        /\ UNCHANGED <<archive, stored, popped>>
    BY <1>1 DEF HandleBatch
  <2>2. /\ ~batchAcknowledged
        /\ \/ UNCHANGED batchAcknowledged
           \/ UNCHANGED batchRecords /\ response = "accepted"
    BY <1>1, <2>1 DEF HandleBatch, BatchAccepted, DrainProves
  <2>3. DrainProves'
    BY <2>1, <2>2 DEF DrainProves, AnswerProves
  <2>4. AnswerProves' /\ EvidenceProves' /\ Archive' /\ LeavesOnlyResolved'
    BY <2>1 DEF AnswerProves, EvidenceProves, Archive, LeavesOnlyResolved
  <2> QED BY <2>3, <2>4
<1>2. CASE HandleStatus
  <2>1. /\ operation = "Status" /\ operation' = "None" /\ pc' = "after"
        /\ UNCHANGED <<archive, stored, popped, batchAcknowledged>>
    BY <1>2 DEF HandleStatus
  <2>2. ~batchAcknowledged
    BY <2>1 DEF DrainProves
  <2> QED BY <2>1, <2>2
          DEF AnswerProves, DrainProves, EvidenceProves, Archive, LeavesOnlyResolved
<1> QED BY <1>1, <1>2

\* The queue and the batch are sequences of snapshots.
PTypes ==
    /\ queue \in Seq(Int)
    /\ batchRecords \in Seq(Int)
    /\ batchAckIndex \in Nat
    /\ captured \in Int

\* popIfMatches leaves a queue.
LEMMA PopTypes ==
    ASSUME NEW r, NEW advanced \in BOOLEAN, queue \in Seq(Int), PopIfMatches(r, advanced)
    PROVE  queue' \in Seq(Int)
<1>1. UNCHANGED queue \/ (queue # <<>> /\ queue' = Tail(queue))
  BY DEF PopIfMatches
<1> QED BY <1>1

\* Every step keeps them so.
LEMMA PTypesStep == PTypes /\ [Next]_vars => PTypes'
<1> SUFFICES ASSUME PTypes, [Next]_vars PROVE PTypes'
  OBVIOUS
<1> USE DEF flash, flight, batchVars, observed
<1>0. <<>> \in Seq(Int)
  OBVIOUS
<1>1. CASE CaptureDurable
  <2>1. captured' \in Int /\ UNCHANGED <<batchRecords, batchAckIndex>>
    BY <1>1 DEF CaptureDurable, PTypes
  <2>2. PICK n \in {0} \cup (1 .. Len(queue) - 1) :
           queue' = Append(SubSeq(queue, n + 1, Len(queue)), captured + 1)
    BY <1>1 DEF CaptureDurable, Enqueue
  <2>3. queue \in Seq(Int) /\ Len(queue) \in Nat /\ n \in Nat
    BY DEF PTypes
  <2>4. SubSeq(queue, n + 1, Len(queue)) \in Seq(Int)
    BY <2>3
  <2>5. queue' \in Seq(Int)
    BY <2>2, <2>4 DEF PTypes
  <2> QED BY <2>1, <2>5 DEF PTypes
<1>2. CASE UNCHANGED <<queue, batchRecords, batchAckIndex>> /\ captured' \in {captured, captured + 1}
  BY <1>2 DEF PTypes
<1>3. CASE HandleAccepted \/ AdvanceRejected
  <2>1. UNCHANGED <<batchRecords, batchAckIndex, captured>>
    BY <1>3 DEF HandleAccepted, AdvanceRejected
  <2>2. UNCHANGED queue \/ \E advanced \in BOOLEAN : PopIfMatches(inFlight, advanced)
    BY <1>3 DEF HandleAccepted, AdvanceRejected
  <2>3. queue' \in Seq(Int)
    BY <2>2, PopTypes DEF PTypes
  <2> QED BY <2>1, <2>3 DEF PTypes
<1>4. CASE DrainBatch
  <2>1. UNCHANGED <<batchRecords, captured>>
    BY <1>4 DEF DrainBatch
  <2>2. PICK advanced \in BOOLEAN :
           /\ PopIfMatches(batchRecords[batchAckIndex + 1], advanced)
           /\ batchAckIndex' = IF advanced THEN batchAckIndex + 1 ELSE batchAckIndex
    BY <1>4 DEF DrainBatch
  <2>3. queue' \in Seq(Int)
    BY <2>2, PopTypes DEF PTypes
  <2>4. batchAckIndex' \in Nat
    BY <2>2 DEF PTypes
  <2> QED BY <2>1, <2>3, <2>4 DEF PTypes
<1>5. CASE SubmitBatch
  <2>1. UNCHANGED <<queue, batchAckIndex, captured>>
    BY <1>5 DEF SubmitBatch
  <2>2. PICK n \in 2 .. BatchMaximum : n <= Len(queue) /\ batchRecords' = SubSeq(queue, 1, n)
    BY <1>5 DEF SubmitBatch
  <2>3. queue \in Seq(Int) /\ n \in Int /\ n >= 2 /\ n <= Len(queue)
    BY <2>2, PipelineAssumption DEF PTypes
  <2>4. batchRecords' \in Seq(Int)
    BY <2>2, <2>3
  <2> QED BY <2>1, <2>4 DEF PTypes
<1>6. CASE SubmitSingle
  <2>1. UNCHANGED <<queue, batchAckIndex, captured>>
    BY <1>6 DEF SubmitSingle
  <2>2. UNCHANGED batchRecords \/ (Pending > 1 /\ batchRecords' = <<Head(queue)>>)
    BY <1>6 DEF SubmitSingle, MayBatch
  <2>3. CASE Pending > 1 /\ batchRecords' = <<Head(queue)>>
    <3>1. queue \in Seq(Int) /\ queue # <<>>
      BY <2>3 DEF Pending, PTypes
    <3>2. Head(queue) \in Int
      BY <3>1
    <3> QED BY <2>1, <2>3, <3>2 DEF PTypes
  <2> QED BY <2>1, <2>2, <2>3 DEF PTypes
<1>7. CASE HandleBatch \/ HandleStatus \/ BatchDrained \/ Crash
  <2>1. UNCHANGED <<queue, captured>>
    BY <1>7 DEF HandleBatch, HandleStatus, BatchDrained, Crash
  <2>2. batchRecords' \in {batchRecords, <<>>}
    BY <1>7 DEF HandleBatch, HandleStatus, BatchDrained, Crash, ForgetBatch
  <2>3. batchAckIndex' \in {batchAckIndex, 0}
    BY <1>7 DEF HandleBatch, HandleStatus, BatchDrained, Crash
  <2>4. batchRecords' \in Seq(Int)
    BY <1>0, <2>2 DEF PTypes
  <2>5. batchAckIndex' \in Nat
    BY <2>3 DEF PTypes
  <2> QED BY <2>1, <2>4, <2>5 DEF PTypes
<1>8. CASE \/ CaptureVolatile \/ Server \/ HandleRetained \/ HandlePermanent
           \/ SubmitStatus \/ ResubmitBatch \/ Idle \/ BackoffEnds \/ StatusDue
           \/ UNCHANGED vars
  <2>1. UNCHANGED <<queue, batchRecords, batchAckIndex>> /\ captured' \in {captured, captured + 1}
    BY <1>8 DEF CaptureVolatile, Server, ServerAccepts, ServerVague, ServerRejects,
                HandleRetained, HandlePermanent, SubmitStatus, ResubmitBatch, Idle, Wait,
                NothingToSend, BackoffEnds, StatusDue, vars
  <2> QED BY <2>1, <1>2
<1> QED BY <1>1, <1>3, <1>4, <1>5, <1>6, <1>7, <1>8 DEF Next, Capture, Handle, Drain, Submit

\* One record of an acknowledged batch leaves the queue, or the batch is done.
LEMMA PDrain ==
    ASSUME PInv, PTypes, Drain
    PROVE  PInv'
<1> USE DEF PInv, flash, flight, batchVars, observed
<1>1. CASE DrainBatch
  <2>1. /\ batchAcknowledged /\ pc' = "loop" /\ batchAckIndex < Len(batchRecords)
        /\ UNCHANGED <<archive, stored, operation, inFlight, batchRecords,
                       batchAcknowledged, response>>
    BY <1>1 DEF DrainBatch
  <2>2. batchAckIndex + 1 \in DOMAIN batchRecords
    BY <2>1 DEF PTypes
  <2>3. batchRecords[batchAckIndex + 1] \in stored
    BY <2>1, <2>2 DEF DrainProves, Range
  <2>4. popped' \subseteq popped \cup {batchRecords[batchAckIndex + 1]}
    BY <1>1, PopTakesSubmitted DEF DrainBatch
  <2>5. AnswerProves' /\ DrainProves' /\ EvidenceProves' /\ Archive'
    BY <2>1 DEF AnswerProves, DrainProves, EvidenceProves, Archive
  <2>6. LeavesOnlyResolved'
    BY <2>1, <2>3, <2>4 DEF LeavesOnlyResolved
  <2> QED BY <2>5, <2>6
<1>2. CASE BatchDrained
  <2>1. /\ batchAcknowledged /\ ~batchAcknowledged' /\ pc' = "after"
        /\ UNCHANGED <<archive, stored, popped, operation, inFlight, response>>
    BY <1>2 DEF BatchDrained
  <2>2. operation = "None"
    BY <2>1 DEF DrainProves
  <2> QED BY <2>1, <2>2
          DEF AnswerProves, DrainProves, EvidenceProves, Archive, LeavesOnlyResolved
<1> QED BY <1>1, <1>2 DEF Drain

\* Submitting a request: nothing is acknowledged and nothing answered yet.
LEMMA PSubmit ==
    ASSUME PInv, Submit
    PROVE  PInv'
<1> USE DEF PInv, flash, flight, batchVars, observed
<1>1. /\ ~batchAcknowledged /\ operation = "None" /\ pc' = "loop"
      /\ UNCHANGED <<archive, stored, popped, batchAcknowledged>>
      /\ response' = "waiting" \/ operation' = "None"
  BY DEF Submit, SubmitStatus, ResubmitBatch, SubmitBatch, SubmitSingle, MayUpload,
         MaySubmit, Submitted, Refused
<1> QED BY <1>1 DEF AnswerProves, DrainProves, EvidenceProves, Archive, LeavesOnlyResolved

\* A reset forgets the request and keeps the evidence.
LEMMA PCrash ==
    ASSUME PInv, Crash
    PROVE  PInv'
<1>1. /\ operation' = "None" /\ ~batchAcknowledged' /\ pc' = "loop"
      /\ stored \subseteq stored' /\ UNCHANGED <<archive, popped>>
  BY DEF Crash, flash
<1>2. AnswerProves' /\ DrainProves' /\ EvidenceProves'
  BY <1>1 DEF AnswerProves, DrainProves, EvidenceProves
<1>3. Archive' /\ LeavesOnlyResolved'
  BY <1>1 DEF PInv, Archive, LeavesOnlyResolved
<1> QED BY <1>2, <1>3 DEF PInv

\* Every step preserves the invariant.
LEMMA PStep == PInv /\ PTypes /\ [Next]_vars => PInv'
<1> SUFFICES ASSUME PInv, PTypes, [Next]_vars PROVE PInv'
  OBVIOUS
<1>1. CASE Capture \/ Idle \/ BackoffEnds \/ StatusDue \/ UNCHANGED vars
  <2>1. /\ UNCHANGED <<archive, stored, popped, operation, inFlight, batchRecords,
                       batchAcknowledged, response>>
        /\ pc' # "advance" \/ pc' = pc
    BY <1>1 DEF Capture, CaptureDurable, CaptureVolatile, Idle, Wait, NothingToSend,
                BackoffEnds, StatusDue, vars, flash, flight, batchVars, observed
  <2> QED BY <2>1, PQuiet
<1>2. CASE Server
  BY <1>2, PServer
<1>3. CASE Handle
  BY <1>3, PSnapshot, PBatchStatus DEF Handle
<1>4. CASE Drain
  BY <1>4, PDrain
<1>5. CASE Submit
  BY <1>5, PSubmit
<1>6. CASE Crash
  BY <1>6, PCrash
<1> QED BY <1>1, <1>2, <1>3, <1>4, <1>5, <1>6 DEF Next

\* Invariance of both.
LEMMA PInvariant == Spec => [](PInv /\ PTypes)
<1>1. Init => PTypes
  BY DEF Init, Booted, PTypes
<1> QED BY <1>1, PInit, PStep, PTypesStep, PTL DEF Spec

\* Whatever answers, rotations, failing commits and resets come in between,
\* serviceHttps lets a snapshot go only once the server has stored it or the
\* recovery archive holds it.
THEOREM NothingLeavesUnresolved == Spec => []LeavesOnlyResolved
<1>1. PInv => LeavesOnlyResolved
  BY DEF PInv
<1> QED BY <1>1, PInvariant, PTL

\* preserveRejected is idempotent across resets and failed commits: whatever
\* the number of slots, a refused snapshot takes one of them, and only refused
\* snapshots do.
THEOREM EvidenceIsUnique == Spec => []ArchivedOnce
<1>1. PInv => ArchivedOnce
  BY DEF PInv, Archive, ArchivedOnce, Range
<1> QED BY <1>1, PInvariant, PTL

-----------------------------------------------------------------------------
(* Records of a rejected batch *)

\* Records are numbered in the order of their capture, and queued in it.
Ordered ==
    /\ \A i \in DOMAIN queue : queue[i] <= captured
    /\ \A i, j \in DOMAIN queue : i < j => queue[i] < queue[j]

\* The members of rejected batches that are still queued are among the first k.
SuspectsAhead(k) == \A i \in DOMAIN queue : queue[i] \in suspects => i <= k

\* The batch is formed from the head of the queue, when no suspect is queued.
BatchSound ==
    /\ operation = "Batch" => batchPayload
    /\ batchPayload =>
          /\ ready /\ singlesRemaining = 0
          /\ \A r \in Range(batchRecords) : r <= captured /\ r \notin suspects
          /\ \A i \in DOMAIN queue : queue[i] \in Range(batchRecords) => i <= Len(batchRecords)

\* The snapshot in flight is the head, or the queue has moved on since.
SingleSound ==
    operation = "Snapshot" /\ ready =>
        /\ durableInFlight
        /\ (queue # <<>> /\ Head(queue) = inFlight) \/ SuspectsAhead(singlesRemaining - 1)

\* Without a queue there are no batches.
Volatile == (~ready => suspects = {}) /\ (volatilePayload # 0 => ~ready)

\* The inductive invariant
RInv ==
    /\ singlesRemaining \in Nat
    /\ \A r \in suspects : r \in Int /\ r <= captured
    /\ Ordered /\ SuspectsAhead(singlesRemaining) /\ BatchSound /\ SingleSound /\ Volatile
\* The queue lost its n oldest records.
Moved(n) == \A i \in DOMAIN queue' : i + n \in DOMAIN queue /\ queue'[i] = queue[i + n]

\* A pop removes the head or nothing; when it reports success without a
\* removal, the head was another record.
LEMMA PopMoves ==
    ASSUME queue \in Seq(Int), NEW r, NEW advanced \in BOOLEAN, PopIfMatches(r, advanced)
    PROVE  \/ Moved(1)
           \/ /\ queue' = queue
              /\ advanced => ~(queue # <<>> /\ Head(queue) = r)
<1>1. CASE queue # <<>> /\ queue' = Tail(queue)
  <2>1. DOMAIN queue' = 1 .. Len(queue) - 1 /\ DOMAIN queue = 1 .. Len(queue) /\ Len(queue) \in Nat
    BY <1>1
  <2>2. \A i \in 1 .. Len(queue) - 1 : queue'[i] = queue[i + 1]
    BY <1>1
  <2> QED BY <2>1, <2>2 DEF Moved
<1> QED BY <1>1 DEF PopIfMatches

\* The positions of what is left
LEMMA MovedSound ==
    ASSUME RInv, PTypes, NEW n \in Nat, Moved(n), PTypes', captured' = captured
    PROVE  /\ Ordered'
           /\ \A i \in DOMAIN queue' : queue'[i] \in suspects => i + n <= singlesRemaining
           /\ batchPayload => \A i \in DOMAIN queue' :
                 queue'[i] \in Range(batchRecords) => i <= Len(batchRecords)
<1>0. /\ DOMAIN queue \subseteq Int /\ DOMAIN queue' \subseteq Int
      /\ \A i \in DOMAIN queue : queue[i] \in Int
      /\ Len(batchRecords) \in Nat /\ singlesRemaining \in Nat
  BY DEF PTypes, RInv
<1>1. Ordered'
  BY <1>0 DEF RInv, Ordered, Moved
<1>2. \A i \in DOMAIN queue' : queue'[i] \in suspects => i + n <= singlesRemaining
  BY DEF RInv, SuspectsAhead, Moved
<1>3. ASSUME batchPayload, NEW i \in DOMAIN queue', queue'[i] \in Range(batchRecords)
      PROVE  i <= Len(batchRecords)
  <2>1. i + n \in DOMAIN queue /\ queue[i + n] \in Range(batchRecords)
    BY <1>3 DEF Moved
  <2>2. i + n <= Len(batchRecords)
    BY <1>3, <2>1 DEF RInv, BatchSound
  <2> QED BY <1>0, <2>2
<1> QED BY <1>1, <1>2, <1>3

\* A step that does not touch the queue or the batches
LEMMA RQuiet ==
    ASSUME RInv, UNCHANGED <<queue, ready, suspects, singlesRemaining, batchRecords, batchPayload,
                             captured>>,
           operation' = "Batch" => batchPayload,
           operation' = "Snapshot" => UNCHANGED <<operation, inFlight, durableInFlight>>,
           volatilePayload' \in {0, volatilePayload}
    PROVE  RInv'
BY DEF RInv, Ordered, SuspectsAhead, BatchSound, SingleSound, Volatile, Range

\* A new record is behind all others, and a rotation moves the others up.
LEMMA RCapture ==
    ASSUME RInv, PTypes, PTypes', Capture
    PROVE  RInv'
<1> USE DEF flash, flight, batchVars, observed
<1>0. captured' = captured + 1 /\ captured \in Int
  BY DEF Capture, CaptureDurable, CaptureVolatile, PTypes
<1>1. CASE CaptureDurable
  <2>1. /\ UNCHANGED <<ready, suspects, singlesRemaining, batchRecords, batchPayload, operation,
                       inFlight, durableInFlight, volatilePayload>>
        /\ ready
    BY <1>1 DEF CaptureDurable
  <2>2. PICK n \in {0} \cup (1 .. Len(queue) - 1) :
           queue' = Append(SubSeq(queue, n + 1, Len(queue)), captured + 1)
    BY <1>1 DEF CaptureDurable, Enqueue
  <2>3. queue \in Seq(Int) /\ Len(queue) \in Nat /\ n \in Nat /\ DOMAIN queue = 1 .. Len(queue)
        /\ (n # 0 => n < Len(queue))
    BY DEF PTypes
  <2>4. PICK m \in Nat : Len(queue) = m + n
    <3>1. Len(queue) - n \in Nat /\ Len(queue) = (Len(queue) - n) + n
      BY <2>3
    <3> QED BY <3>1
  <2>5. /\ SubSeq(queue, n + 1, Len(queue)) \in Seq(Int)
        /\ Len(SubSeq(queue, n + 1, Len(queue))) = m
        /\ \A i \in 1 .. m : SubSeq(queue, n + 1, Len(queue))[i] = queue[i + n]
    <3>1. \A i \in n + 1 .. Len(queue) : queue[i] \in Int
      BY <2>3
    <3>2. n + 1 \in Int /\ Len(queue) \in Int
      BY <2>3
    <3>3. /\ SubSeq(queue, n + 1, Len(queue)) \in Seq(Int)
          /\ Len(SubSeq(queue, n + 1, Len(queue))) =
                IF n + 1 <= Len(queue) THEN Len(queue) - (n + 1) + 1 ELSE 0
          /\ \A i \in 1 .. Len(queue) - (n + 1) + 1 :
                SubSeq(queue, n + 1, Len(queue))[i] = queue[(n + 1) + i - 1]
      BY <3>1, <3>2, SubSeqProperties
    <3>4. \A i \in 1 .. m : (n + 1) + i - 1 = i + n
      BY <2>3
    <3> QED BY <2>3, <2>4, <3>3, <3>4
  <2>6. /\ DOMAIN queue' = 1 .. m + 1 /\ DOMAIN queue = 1 .. m + n
        /\ \A i \in 1 .. m : queue'[i] = queue[i + n]
        /\ queue'[m + 1] = captured + 1
    BY <1>0, <2>2, <2>3, <2>4, <2>5
  <2>7. \A i \in DOMAIN queue : queue[i] \in Int /\ queue[i] <= captured
    BY <2>3 DEF RInv, Ordered
  <2>8. Ordered'
    <3>1. ASSUME NEW i \in DOMAIN queue' PROVE queue'[i] <= captured + 1
      <4>1. CASE i = m + 1
        BY <1>0, <2>6, <4>1
      <4>2. CASE i # m + 1
        <5>1. i \in 1 .. m /\ i + n \in 1 .. m + n
          BY <2>3, <2>6, <4>2
        <5> QED BY <1>0, <2>6, <2>7, <5>1
      <4> QED BY <4>1, <4>2
    <3>2. ASSUME NEW i \in DOMAIN queue', NEW j \in DOMAIN queue', i < j
          PROVE  queue'[i] < queue'[j]
      <4>0. i \in 1 .. m + 1 /\ j \in 1 .. m + 1
        BY <2>6
      <4>1. i \in 1 .. m /\ i + n \in 1 .. m + n
        BY <2>3, <3>2, <4>0
      <4>2. CASE j = m + 1
        BY <1>0, <2>6, <2>7, <4>1, <4>2
      <4>3. CASE j # m + 1
        <5>1. j \in 1 .. m /\ j + n \in 1 .. m + n /\ i + n < j + n
          BY <2>3, <3>2, <4>0, <4>3
        <5> QED BY <2>6, <4>1, <5>1 DEF RInv, Ordered
      <4> QED BY <4>2, <4>3
    <3> QED BY <1>0, <3>1, <3>2 DEF Ordered
  <2>9. \A i \in DOMAIN queue' : queue'[i] \in suspects => i + n <= singlesRemaining
    BY <1>0, <2>3, <2>6 DEF RInv, SuspectsAhead
  <2>10. BatchSound'
    <3>1. ASSUME batchPayload, NEW i \in DOMAIN queue', queue'[i] \in Range(batchRecords)
          PROVE  i <= Len(batchRecords)
      <4>1. queue'[i] # captured + 1
        BY <1>0, <3>1 DEF RInv, BatchSound
      <4>2. i \in 1 .. m
        BY <2>6, <4>1
      <4>3. queue'[i] = queue[i + n]
        BY <2>6, <4>2
      <4>5. i + n \in 1 .. m + n
        BY <2>3, <4>2
      <4>4. i + n <= Len(batchRecords)
        BY <2>6, <3>1, <4>3, <4>5 DEF RInv, BatchSound
      <4> QED BY <2>3, <4>2, <4>4 DEF PTypes
    <3>2. batchPayload => \A r \in Range(batchRecords) : r <= captured + 1
      <4>1. batchPayload => \A r \in Range(batchRecords) : r <= captured /\ r \in Int
        BY DEF RInv, BatchSound, Range, PTypes
      <4> QED BY <1>0, <4>1
    <3> QED BY <1>0, <2>1, <3>1, <3>2 DEF RInv, BatchSound, Range
  <2>11. SingleSound'
    <3>1. CASE n = 0 /\ queue # <<>> /\ Head(queue) = inFlight
      <4>1. Len(queue) # 0 /\ Head(queue) = queue[1]
        BY <2>3, <3>1
      <4>2. queue'[1] = queue[1] /\ 1 \in DOMAIN queue'
        BY <2>3, <2>4, <2>6, <3>1, <4>1
      <4>3. queue' # <<>> /\ Head(queue') = queue'[1]
        BY <4>2 DEF PTypes
      <4> QED BY <2>1, <3>1, <4>1, <4>2, <4>3 DEF RInv, SingleSound
    <3>2. CASE n # 0
      <4>1. SuspectsAhead(singlesRemaining - 1)'
        BY <2>1, <2>3, <2>6, <2>9, <3>2 DEF RInv, SuspectsAhead
      <4> QED BY <2>1, <4>1 DEF RInv, SingleSound
    <3>3. CASE n = 0 /\ SuspectsAhead(singlesRemaining - 1)
      <4>1. SuspectsAhead(singlesRemaining - 1)'
        BY <1>0, <2>1, <2>3, <2>6, <3>3 DEF RInv, SuspectsAhead
      <4> QED BY <2>1, <4>1 DEF RInv, SingleSound
    <3> QED BY <2>1, <2>3, <3>1, <3>2, <3>3 DEF RInv, SingleSound
  <2>12. SuspectsAhead(singlesRemaining)'
    BY <2>1, <2>3, <2>6, <2>9 DEF RInv, SuspectsAhead
  <2>13. \A r \in suspects : r <= captured + 1
    BY <1>0 DEF RInv
  <2> QED BY <1>0, <2>1, <2>8, <2>10, <2>11, <2>12, <2>13 DEF RInv, Volatile
<1>2. CASE CaptureVolatile
  BY <1>0, <1>2 DEF RInv, CaptureVolatile, Ordered, SuspectsAhead, BatchSound, SingleSound, Volatile, Range,
     PTypes
<1> QED BY <1>1, <1>2 DEF Capture

\* A batch is forgotten while nothing is in flight.
LEMMA RForget ==
    ASSUME RInv, UNCHANGED <<queue, ready, suspects, singlesRemaining, captured>>,
           ~batchPayload', operation' = "None", volatilePayload' \in {0, volatilePayload}
    PROVE  RInv'
BY DEF RInv, Ordered, SuspectsAhead, BatchSound, SingleSound, Volatile, Range

\* A single snapshot is resolved.  recordResolved counts it down, and the
\* queue is shorter by one, or the snapshot had left it before.
LEMMA RResolved ==
    ASSUME RInv, PInv, PTypes, PTypes', HandleAccepted \/ AdvanceRejected
    PROVE  RInv'
<1> USE DEF flash, flight, batchVars, observed
<1>1. /\ operation = "Snapshot" /\ operation' = "None"
      /\ UNCHANGED <<ready, suspects, batchRecords, batchPayload, captured>>
      /\ volatilePayload' \in {0, volatilePayload}
  BY DEF HandleAccepted, AdvanceRejected, Answered, Finish, PInv, EvidenceProves
<1>2. PICK advanced \in BOOLEAN :
         /\ RecordResolved(advanced)
         /\ PopIfMatches(inFlight, advanced) \/ (~durableInFlight /\ queue' = queue)
  BY DEF HandleAccepted, AdvanceRejected
<1>3. /\ singlesRemaining \in Nat /\ singlesRemaining' \in Nat
      /\ singlesRemaining' >= singlesRemaining - 1
      /\ ~advanced => singlesRemaining' = singlesRemaining
      /\ singlesRemaining = 0 => singlesRemaining' = 0
  BY <1>2 DEF RInv, RecordResolved
<1>4. Moved(1) \/ queue' = queue
  BY <1>2, PopMoves DEF PTypes
<1>5. /\ Ordered'
      /\ batchPayload => \A i \in DOMAIN queue' :
            queue'[i] \in Range(batchRecords) => i <= Len(batchRecords)
  <2>1. CASE Moved(1)
    BY <1>1, <2>1, MovedSound
  <2>2. CASE queue' = queue
    BY <1>1, <2>2 DEF RInv, Ordered, BatchSound
  <2> QED BY <1>4, <2>1, <2>2
<1>6. SuspectsAhead(singlesRemaining)'
  <2>0. DOMAIN queue' \subseteq Int
    BY DEF PTypes
  <2>1. CASE ~ready
    BY <1>1, <2>1 DEF RInv, Volatile, SuspectsAhead
  <2>2. CASE Moved(1)
    <3>1. \A i \in DOMAIN queue' : queue'[i] \in suspects => i + 1 <= singlesRemaining
      BY <1>1, <2>2, MovedSound
    <3> QED BY <1>1, <1>3, <2>0, <3>1 DEF SuspectsAhead
  <2>3. CASE ready /\ ~Moved(1)
    <3>1. durableInFlight
      BY <1>1, <2>3 DEF RInv, SingleSound
    <3>2. queue' = queue /\ (advanced => ~(queue # <<>> /\ Head(queue) = inFlight))
      BY <1>2, <2>3, <3>1, PopMoves DEF PTypes
    <3>3. CASE ~advanced
      BY <1>1, <1>3, <3>2, <3>3 DEF RInv, SuspectsAhead
    <3>4. CASE advanced
      <4>1. SuspectsAhead(singlesRemaining - 1)
        BY <1>1, <2>3, <3>2, <3>4 DEF RInv, SingleSound
      <4> QED BY <1>1, <1>3, <2>0, <3>2, <4>1 DEF SuspectsAhead
    <3> QED BY <3>3, <3>4
  <2> QED BY <2>1, <2>2, <2>3
<1>7. BatchSound'
  BY <1>1, <1>3, <1>5 DEF RInv, BatchSound, Range
<1>8. SingleSound' /\ Volatile' /\ (\A r \in suspects : r \in Int /\ r <= captured)'
  BY <1>1 DEF RInv, SingleSound, Volatile
<1> QED BY <1>3, <1>5, <1>6, <1>7, <1>8 DEF RInv

\* A record of an acknowledged batch is popped.
LEMMA RDrain ==
    ASSUME RInv, PInv, PTypes, PTypes', DrainBatch
    PROVE  RInv'
<1> USE DEF flash, flight, batchVars, observed
<1>1. /\ batchAcknowledged
      /\ UNCHANGED <<ready, suspects, batchRecords, batchPayload, captured, singlesRemaining,
                     operation, volatilePayload>>
  BY DEF DrainBatch
<1>2. operation = "None"
  BY <1>1 DEF PInv, DrainProves
<1>3. Moved(1) \/ queue' = queue
  BY PopMoves DEF DrainBatch, PTypes
<1>4. CASE queue' = queue
  BY <1>1, <1>2, <1>4, RQuiet
<1>5. CASE Moved(1)
  <2>1. /\ Ordered'
        /\ \A i \in DOMAIN queue' : queue'[i] \in suspects => i + 1 <= singlesRemaining
        /\ batchPayload => \A i \in DOMAIN queue' :
              queue'[i] \in Range(batchRecords) => i <= Len(batchRecords)
    BY <1>1, <1>5, MovedSound
  <2>2. DOMAIN queue' \subseteq Int /\ singlesRemaining \in Nat
    BY DEF PTypes, RInv
  <2>3. SuspectsAhead(singlesRemaining)'
    BY <1>1, <2>1, <2>2 DEF SuspectsAhead
  <2>4. BatchSound'
    BY <1>1, <2>1 DEF RInv, BatchSound, Range
  <2>5. SingleSound' /\ Volatile'
    BY <1>1, <1>2 DEF RInv, SingleSound, Volatile
  <2> QED BY <1>1, <2>1, <2>2, <2>3, <2>4, <2>5 DEF RInv
<1> QED BY <1>3, <1>4, <1>5

\* The answer to a batch: a rejection makes its members suspects, and as many
\* records will be sent singly.
LEMMA RBatch ==
    ASSUME RInv, PTypes, HandleBatch
    PROVE  RInv'
<1> USE DEF flash, flight, batchVars, observed
<1>1. /\ operation = "Batch" /\ operation' = "None"
      /\ UNCHANGED <<queue, ready, captured, volatilePayload>>
  BY DEF HandleBatch, Answered, Finish
<1>2. batchPayload /\ ready /\ singlesRemaining = 0
  BY <1>1 DEF RInv, BatchSound
<1>3. CASE UNCHANGED <<batchRecords, batchPayload, singlesRemaining, suspects>>
  BY <1>1, <1>3, RQuiet
<1>4. CASE ForgetBatch /\ UNCHANGED <<singlesRemaining, suspects>>
  BY <1>1, <1>4, RForget DEF ForgetBatch
<1>5. CASE BatchRejected /\ suspects' = suspects \cup Range(batchRecords) /\ ForgetBatch
  <2>1. singlesRemaining' = Len(batchRecords) /\ singlesRemaining' \in Nat /\ ~batchPayload'
    BY <1>5 DEF BatchRejected, ForgetBatch, PTypes
  <2>2. \A r \in Range(batchRecords) : r \in Int /\ r <= captured
    BY <1>2 DEF RInv, BatchSound, Range, PTypes
  <2>3. \A r \in suspects' : r \in Int /\ r <= captured'
    BY <1>1, <1>5, <2>2 DEF RInv
  <2>4. ASSUME NEW i \in DOMAIN queue, queue[i] \in suspects' PROVE i <= Len(batchRecords)
    <3>1. i \in Int /\ i >= 1
      BY DEF PTypes
    <3>2. queue[i] \notin suspects
      BY <1>2, <3>1 DEF RInv, SuspectsAhead
    <3>3. queue[i] \in Range(batchRecords)
      BY <1>5, <2>4, <3>2
    <3> QED BY <1>2, <3>3 DEF RInv, BatchSound
  <2>5. SuspectsAhead(singlesRemaining)'
    BY <1>1, <2>1, <2>4 DEF SuspectsAhead
  <2>6. Ordered' /\ BatchSound' /\ SingleSound' /\ Volatile'
    BY <1>1, <1>2, <2>1 DEF RInv, Ordered, BatchSound, SingleSound, Volatile
  <2> QED BY <2>1, <2>3, <2>5, <2>6 DEF RInv
<1> QED BY <1>3, <1>4, <1>5 DEF HandleBatch

\* A new batch: recovery_ is over, so none of the queued records is a suspect.
LEMMA RSubmitBatch ==
    ASSUME RInv, PTypes, PTypes', SubmitBatch
    PROVE  RInv'
<1> USE DEF flash, flight, batchVars, observed
<1>1. /\ operation' \in {"Batch", "None"} /\ batchPayload' = TRUE
      /\ UNCHANGED <<queue, ready, suspects, singlesRemaining, captured, volatilePayload>>
      /\ singlesRemaining = 0 /\ ready
  BY DEF SubmitBatch, MayUpload, MaySubmit, MayBatch, Pending, Submitted, Refused
<1>2. PICK n \in 2 .. BatchMaximum : n <= Len(queue) /\ batchRecords' = SubSeq(queue, 1, n)
  BY DEF SubmitBatch
<1>3. queue \in Seq(Int) /\ n \in Int /\ n >= 2 /\ n <= Len(queue) /\ DOMAIN queue = 1 .. Len(queue)
      /\ Len(queue) \in Nat
  BY <1>2, PipelineAssumption DEF PTypes
<1>4. Len(batchRecords') = n /\ DOMAIN batchRecords' = 1 .. n
      /\ \A i \in 1 .. n : batchRecords'[i] = queue[i]
  <2>1. \A i \in 1 .. n : queue[i] \in Int
    BY <1>3
  <2>2. /\ Len(SubSeq(queue, 1, n)) = IF 1 <= n THEN n - 1 + 1 ELSE 0
        /\ \A i \in 1 .. n - 1 + 1 : SubSeq(queue, 1, n)[i] = queue[1 + i - 1]
        /\ SubSeq(queue, 1, n) \in Seq(Int)
    BY <1>3, <2>1, SubSeqProperties
  <2>3. n - 1 + 1 = n /\ \A i \in 1 .. n : 1 + i - 1 = i
    BY <1>3
  <2> QED BY <1>2, <1>3, <2>2, <2>3
<1>5. ASSUME NEW r \in Range(batchRecords')
      PROVE  \E j \in 1 .. n : j \in DOMAIN queue /\ r = queue[j]
  <2>1. PICK j \in 1 .. n : r = batchRecords'[j]
    BY <1>4 DEF Range
  <2>2. j \in DOMAIN queue
    BY <1>3
  <2> QED BY <1>4, <2>1, <2>2
<1>6. ASSUME NEW r \in Range(batchRecords') PROVE r <= captured /\ r \notin suspects
  <2>1. PICK j \in 1 .. n : j \in DOMAIN queue /\ r = queue[j]
    BY <1>5
  <2> QED BY <1>1, <1>3, <2>1 DEF RInv, Ordered, SuspectsAhead
<1>7. ASSUME NEW i \in DOMAIN queue, queue[i] \in Range(batchRecords') PROVE i <= n
  <2>1. PICK j \in 1 .. n : j \in DOMAIN queue /\ queue[i] = queue[j]
    BY <1>5, <1>7
  <2>2. ~(j < i)
    BY <1>3, <2>1 DEF RInv, Ordered
  <2> QED BY <1>3, <2>2
<1>8. BatchSound'
  BY <1>1, <1>4, <1>6, <1>7 DEF BatchSound
<1> QED BY <1>1, <1>8 DEF RInv, Ordered, SuspectsAhead, SingleSound, Volatile

\* A single snapshot is the head of the queue.
LEMMA RSubmitSingle ==
    ASSUME RInv, PTypes, SubmitSingle
    PROVE  RInv'
<1> USE DEF flash, flight, batchVars, observed
<1>1. /\ ~batchPayload /\ ~batchPayload' /\ operation = "None"
      /\ Pending > 0 \/ volatilePayload # 0
      /\ durableInFlight' = (Pending > 0)
      /\ \/ inFlight' = (IF Pending > 0 THEN Head(queue) ELSE volatilePayload) /\ operation' = "Snapshot"
         \/ operation' = "None"
      /\ UNCHANGED <<queue, ready, suspects, singlesRemaining, captured, volatilePayload>>
  BY DEF SubmitSingle, MayUpload, MaySubmit, Submitted, Refused
<1>2. CASE operation' = "None"
  BY <1>1, <1>2, RForget
<1>3. CASE operation' = "Snapshot" /\ inFlight' = IF Pending > 0 THEN Head(queue) ELSE volatilePayload
  <2>1. ready => Pending > 0 /\ queue # <<>>
    BY <1>1 DEF RInv, Volatile, Pending, PTypes
  <2>2. SingleSound'
    BY <1>1, <1>3, <2>1 DEF SingleSound
  <2> QED BY <1>1, <1>3, <2>2 DEF RInv, Ordered, SuspectsAhead, BatchSound, Volatile
<1> QED BY <1>1, <1>2, <1>3

\* A reset forgets the suspects and what was in flight.
LEMMA RCrash ==
    ASSUME RInv, Crash
    PROVE  RInv'
BY DEF RInv, Crash, flash, Ordered, SuspectsAhead, BatchSound, SingleSound, Volatile

\* Every step preserves the invariant.
LEMMA RStep == RInv /\ PInv /\ PTypes /\ PTypes' /\ [Next]_vars => RInv'
<1> SUFFICES ASSUME RInv, PInv, PTypes, PTypes', [Next]_vars PROVE RInv'
  OBVIOUS
<1> USE DEF flash, flight, batchVars, observed
<1>0. operation = "Batch" => batchPayload
  BY DEF RInv, BatchSound
<1>1. CASE Server \/ BackoffEnds \/ StatusDue \/ Idle \/ UNCHANGED vars
  <2>1. UNCHANGED <<queue, ready, suspects, singlesRemaining, batchRecords, batchPayload,
                    captured, operation, inFlight, durableInFlight, volatilePayload>>
    BY <1>1 DEF Server, ServerAccepts, ServerVague, ServerRejects, BackoffEnds, StatusDue, Idle,
                Wait, NothingToSend, vars
  <2> QED BY <1>0, <2>1, RQuiet
<1>2. CASE SubmitStatus \/ ResubmitBatch
  <2>1. /\ UNCHANGED <<queue, ready, suspects, singlesRemaining, batchRecords, batchPayload,
                       captured, volatilePayload>>
        /\ operation' \in {"Status", "None"} \/ (operation' = "Batch" /\ batchPayload)
    BY <1>2 DEF SubmitStatus, ResubmitBatch, MayUpload, MaySubmit, Submitted, Refused
  <2> QED BY <2>1, RQuiet
<1>3. CASE HandleRetained \/ HandlePermanent
  <2>1. /\ UNCHANGED <<queue, ready, suspects, singlesRemaining, batchRecords, batchPayload,
                       captured, volatilePayload>>
        /\ operation' = "None" \/ UNCHANGED <<operation, inFlight, durableInFlight>>
    BY <1>3 DEF HandleRetained, HandlePermanent, Finish
  <2> QED BY <1>0, <2>1, RQuiet
<1>4. CASE HandleStatus
  <2>1. /\ UNCHANGED <<queue, ready, suspects, singlesRemaining, captured, volatilePayload>>
        /\ operation' = "None"
        /\ ~batchPayload' \/ UNCHANGED <<batchRecords, batchPayload>>
    BY <1>4 DEF HandleStatus, Finish, ForgetBatch
  <2> QED BY <2>1, RQuiet, RForget
<1>5. CASE BatchDrained
  <2>1. /\ UNCHANGED <<queue, ready, suspects, singlesRemaining, captured, volatilePayload, operation>>
        /\ ~batchPayload' /\ batchAcknowledged
    BY <1>5 DEF BatchDrained, ForgetBatch
  <2>2. operation = "None"
    BY <2>1 DEF PInv, DrainProves
  <2> QED BY <2>1, <2>2, RForget
<1> QED BY <1>1, <1>2, <1>3, <1>4, <1>5, RCapture, RResolved, RDrain, RBatch, RSubmitBatch,
           RSubmitSingle, RCrash DEF Next, Handle, Drain, Submit

\* Initially the queue is empty and nothing is suspect.
LEMMA RInit == Init => RInv
<1> SUFFICES ASSUME Init PROVE RInv
  OBVIOUS
<1>1. /\ DOMAIN queue = {} /\ suspects = {} /\ ~batchPayload /\ operation = "None"
      /\ singlesRemaining = 0 /\ volatilePayload = 0
  BY DEF Init, Booted
<1> QED BY <1>1 DEF RInv, Ordered, SuspectsAhead, BatchSound, SingleSound, Volatile

\* batchRejected and recordResolved keep singlesRemaining at the number of
\* queue positions that a member of a rejected batch can still have, whatever
\* rotation removes and whichever pop is not committed: serviceHttps forms no
\* batch with such a record in it, for any batch size and queue capacity.
THEOREM RejectedStaySingle == Spec => []RejectedNotRebatched
<1>1. RInv => RejectedNotRebatched
  BY DEF RInv, BatchSound, RejectedNotRebatched
<1>2. Spec => []RInv
  BY RInit, RStep, PInvariant, PTL DEF Spec
<1> QED BY <1>1, <1>2, PTL
=============================================================================
