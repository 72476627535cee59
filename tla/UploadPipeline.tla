--------------------------- MODULE UploadPipeline ---------------------------
(***************************************************************************)
(* Delivery of snapshots to the server over HTTPS: LiveUploadAsync.cpp,    *)
(* UploadRecovery.h and RejectedUploads.cpp.                               *)
(*                                                                         *)
(* The Arduino loop captures snapshots and calls serviceHttps, which       *)
(* handles the answer to the request in flight, pops what the server has   *)
(* accepted and submits the next request.  The queue is the FIFO that      *)
(* DurableFifo specifies, the transport the one of HttpsTransport: a       *)
(* submission may be refused, an answer comes when it comes.  serviceHttps *)
(* is split where it writes to flash, because a reset may come in between. *)
(*                                                                         *)
(* A snapshot is a number, the order of its capture.  Of a response only   *)
(* its class matters, and the server may have stored what it does not      *)
(* acknowledge.                                                            *)
(***************************************************************************)
EXTENDS Integers, Sequences, FiniteSets, Functions

CONSTANTS
    MaxRecords,     \* bound: snapshots captured
    MaxCrashes,     \* bound: resets
    Capacity,       \* records at which the queue must rotate
    BatchMaximum,   \* records of a batch (8 in the code)
    Slots,          \* kRejectedSlots
    Invalid         \* the snapshots that the server will never accept

ASSUME PipelineAssumption ==
    /\ MaxRecords \in Nat
    /\ MaxCrashes \in Nat
    /\ Capacity \in Nat
    /\ BatchMaximum \in Nat
    /\ Slots \in Nat
    /\ Invalid \subseteq Nat \ {0}

VARIABLES
    \* flash
    queue,              \* what storeForwardQueue_ would replay, oldest first
    droppedRecords,     \* its drop counter
    archive,            \* the occupied slots of the recovery archive
    \* the server
    stored,             \* snapshots it has stored
    \* RAM of LiveUpload
    ready,              \* storeForwardQueue_.isReady()
    volatilePayload,    \* the one RAM slot, 0 when empty
    operation,          \* operation_: None, Snapshot, Batch, Status
    inFlight,           \* inFlightPayload_
    durableInFlight,
    batchRecords,
    batchPayload,       \* batchPayload_ is not empty
    batchEnabled,
    batchAcknowledged,
    batchAckIndex,
    singlesRemaining,   \* recovery_
    backoff,            \* backoff_, and the retry interval has not passed
    statusDue,          \* HttpsPacing::next would answer Status
    statusSpaced,       \* data had its turn since the last status request
    response,           \* the class of the answer, "none" without a request
    pc,                 \* where in serviceHttps the loop is
    \* history
    captured,           \* number of captured snapshots
    popped,             \* snapshots that left replay other than by capacity
    lost,               \* snapshots that capacity removed
    suspects,           \* members of rejected batches, in this boot
    crashes

flash == <<queue, droppedRecords, archive>>
batchVars == <<batchRecords, batchPayload, batchEnabled, batchAcknowledged, batchAckIndex>>
pacing == <<backoff, statusDue, statusSpaced>>
flight == <<operation, inFlight, durableInFlight>>
observed == <<captured, popped, lost, suspects, crashes>>
vars == <<flash, stored, ready, volatilePayload, flight, batchVars, singlesRemaining,
          pacing, response, pc, observed>>

-----------------------------------------------------------------------------

\* pendingRecords(): an unavailable queue has none.
Pending == IF ready THEN Len(queue) ELSE 0

Operations == {"None", "Snapshot", "Batch", "Status"}

\* accepted: HTTP 200 and the strict acknowledgement; ambiguous: 200 without
\* it; failed: no answer, authentication, 5xx; rejected: 400, 413, 422;
\* permanent: the same with X-APX-Retryable: false; unsupported: 404, 405.
Answers == {"accepted", "ambiguous", "failed", "rejected", "permanent", "unsupported"}

TypeOK ==
    /\ queue \in Seq(1 .. MaxRecords)
    /\ droppedRecords \in Nat
    /\ archive \in Seq(1 .. MaxRecords) /\ Len(archive) <= Slots
    /\ stored \subseteq 1 .. MaxRecords
    /\ ready \in BOOLEAN
    /\ volatilePayload \in 0 .. MaxRecords
    /\ operation \in Operations
    /\ inFlight \in 0 .. MaxRecords
    /\ durableInFlight \in BOOLEAN
    /\ batchRecords \in Seq(1 .. MaxRecords) /\ Len(batchRecords) <= BatchMaximum
    /\ batchPayload \in BOOLEAN
    /\ batchEnabled \in BOOLEAN
    /\ batchAcknowledged \in BOOLEAN
    /\ batchAckIndex \in 0 .. BatchMaximum
    /\ singlesRemaining \in 0 .. BatchMaximum
    /\ backoff \in BOOLEAN /\ statusDue \in BOOLEAN /\ statusSpaced \in BOOLEAN
    /\ response \in Answers \cup {"none", "waiting"}
    /\ pc \in {"loop", "advance", "after"}
    /\ captured \in 0 .. MaxRecords
    /\ popped \subseteq 1 .. MaxRecords
    /\ lost \subseteq 1 .. MaxRecords
    /\ suspects \subseteq 1 .. MaxRecords
    /\ crashes \in 0 .. MaxCrashes

\* LiveUpload::begin: nothing of an earlier boot is known but what is in flash.
Booted ==
    /\ volatilePayload = 0
    /\ operation = "None" /\ inFlight = 0 /\ durableInFlight = FALSE
    /\ batchRecords = <<>> /\ batchPayload = FALSE /\ batchEnabled = FALSE
    /\ batchAcknowledged = FALSE /\ batchAckIndex = 0
    /\ singlesRemaining = 0
    /\ backoff = FALSE /\ statusDue = TRUE /\ statusSpaced = FALSE
    /\ response = "none" /\ pc = "loop"
    /\ suspects = {}

Init ==
    /\ queue = <<>> /\ droppedRecords = 0 /\ archive = <<>>
    /\ stored = {}
    /\ ready \in BOOLEAN
    /\ Booted
    /\ captured = 0 /\ popped = {} /\ lost = {} /\ crashes = 0

-----------------------------------------------------------------------------
(* The queue as its callers see it *)

\* enqueue.  A rotation may come before the append and removes the oldest
\* records; it must come when the queue is full.
Enqueue(r) ==
    \E n \in {0} \cup (1 .. Len(queue) - 1) :
        /\ Len(queue) >= Capacity => n > 0
        /\ queue' = Append(SubSeq(queue, n + 1, Len(queue)), r)
        /\ droppedRecords' = droppedRecords + n
        /\ lost' = lost \cup {queue[i] : i \in 1 .. n}

\* Mutant: the head is removed without being compared.
PopHead(r, advanced) ==
    /\ queue # <<>> /\ advanced
    /\ queue' = Tail(queue)
    /\ popped' = popped \cup {Head(queue)}

\* popIfMatches: TRUE when r is no longer the head, FALSE when the head could
\* not be read or the pop not committed, or not reported as committed.
PopIfMatches(r, advanced) ==
    \/ /\ IF queue = <<>> THEN TRUE ELSE Head(queue) # r
       /\ advanced
       /\ UNCHANGED <<queue, popped>>
    \/ /\ queue # <<>> /\ ~advanced
       /\ UNCHANGED <<queue, popped>>
    \/ /\ IF queue = <<>> THEN FALSE ELSE Head(queue) = r
       /\ queue' = Tail(queue)
       /\ popped' = popped \cup {r}

\* UploadRecovery::recordResolved
RecordResolved(advanced) ==
    singlesRemaining' =
        IF advanced /\ singlesRemaining > 0 THEN singlesRemaining - 1 ELSE singlesRemaining

-----------------------------------------------------------------------------
(* Capture *)

\* captureHttps with a usable queue
CaptureDurable ==
    /\ pc = "loop" /\ ready /\ captured < MaxRecords
    /\ Enqueue(captured + 1)
    /\ captured' = captured + 1
    /\ UNCHANGED <<archive, stored, ready, volatilePayload, flight, batchVars,
                   singlesRemaining, pacing, response, pc, popped, suspects, crashes>>

\* captureHttps without one: the older sample keeps the slot
CaptureVolatile ==
    /\ pc = "loop" /\ ~ready /\ captured < MaxRecords
    /\ volatilePayload = 0
    /\ volatilePayload' = captured + 1
    /\ captured' = captured + 1
    /\ UNCHANGED <<flash, stored, ready, flight, batchVars, singlesRemaining, pacing,
                   response, pc, popped, lost, suspects, crashes>>

-----------------------------------------------------------------------------
(* The server *)

Valid(S) == S \ Invalid

\* What the request in flight carries.
Carried == CASE operation = "Snapshot" -> {inFlight}
             [] operation = "Batch" -> Range(batchRecords)
             [] OTHER -> {}

\* Everything is stored and acknowledged; a status request is accepted.
ServerAccepts ==
    /\ response = "waiting"
    /\ Carried \cap Invalid = {}
    /\ stored' = stored \cup Carried
    /\ response' = "accepted"
    /\ UNCHANGED <<flash, ready, volatilePayload, flight, batchVars, singlesRemaining,
                   pacing, pc, observed>>

\* Something may be stored, but the answer is lost or does not say so.
ServerVague(answer) ==
    /\ response = "waiting"
    /\ answer \in {"ambiguous", "failed", "unsupported"}
    /\ stored' \in {stored \cup S : S \in SUBSET Valid(Carried)}
    /\ response' = answer
    /\ UNCHANGED <<flash, ready, volatilePayload, flight, batchVars, singlesRemaining,
                   pacing, pc, observed>>

\* The payload is refused; a batch for one of its members or for its envelope.
ServerRejects(answer) ==
    /\ response = "waiting" /\ operation # "Status"
    /\ answer \in {"rejected", "permanent"}
    /\ operation = "Snapshot" => inFlight \in Invalid
    /\ response' = answer
    /\ UNCHANGED <<flash, stored, ready, volatilePayload, flight, batchVars,
                   singlesRemaining, pacing, pc, observed>>

-----------------------------------------------------------------------------
(* serviceHttps: the answer *)

Answered(op) == pc = "loop" /\ operation = op /\ response \in Answers

\* worker.release, and on to the rest of serviceHttps
Finish == response' = "none" /\ operation' = "None" /\ pc' = "after"

ForgetBatch == batchRecords' = <<>> /\ batchPayload' = FALSE

\* BatchAcknowledgement::accepted: every record, of this batch
BatchAccepted == response = "accepted"

\* Mutant: one record too few is sent singly.
BatchRejectedShort == singlesRemaining' = Len(batchRecords) - 1

\* UploadRecovery::batchRejected
BatchRejected == singlesRemaining' = Len(batchRecords)

HandleBatch ==
    /\ Answered("Batch")
    /\ \/ /\ BatchAccepted
          /\ batchAcknowledged' = TRUE /\ batchAckIndex' = 0
          /\ backoff' = FALSE
          /\ UNCHANGED <<batchRecords, batchPayload, batchEnabled, singlesRemaining, suspects>>
       \/ /\ ~BatchAccepted /\ response \in {"rejected", "permanent"}
          /\ BatchRejected
          /\ suspects' = suspects \cup Range(batchRecords)
          /\ ForgetBatch
          /\ backoff' = FALSE
          /\ UNCHANGED <<batchEnabled, batchAcknowledged, batchAckIndex>>
       \/ /\ ~BatchAccepted /\ response = "unsupported"
          /\ batchEnabled' = FALSE
          /\ ForgetBatch
          /\ backoff' = FALSE
          /\ UNCHANGED <<batchAcknowledged, batchAckIndex, singlesRemaining, suspects>>
       \/ /\ ~BatchAccepted /\ response \in {"ambiguous", "failed"}
          /\ backoff' = TRUE
          /\ UNCHANGED <<batchVars, singlesRemaining, suspects>>
    /\ Finish
    /\ UNCHANGED <<flash, stored, ready, volatilePayload, inFlight, durableInFlight,
                   statusDue, statusSpaced, captured, popped, lost, crashes>>

\* An accepted snapshot leaves the queue, or the RAM slot.
HandleAccepted ==
    /\ Answered("Snapshot") /\ response = "accepted"
    /\ \E advanced \in BOOLEAN :
          /\ \/ /\ durableInFlight
                /\ PopIfMatches(inFlight, advanced)
                /\ UNCHANGED volatilePayload
             \/ /\ ~durableInFlight
                /\ advanced = (volatilePayload = inFlight)
                /\ volatilePayload' = IF advanced THEN 0 ELSE volatilePayload
                /\ popped' = IF advanced THEN popped \cup {inFlight} ELSE popped
                /\ UNCHANGED queue
          /\ RecordResolved(advanced)
          /\ backoff' = ~advanced
    /\ inFlight' = 0
    /\ Finish
    /\ UNCHANGED <<droppedRecords, archive, stored, ready, durableInFlight, batchVars,
                   statusDue, statusSpaced, captured, lost, suspects, crashes>>

\* Mutant: the archive is not searched for the record.
PreserveAgain(success) ==
    \/ /\ success /\ ready /\ Len(archive) < Slots
       /\ archive' = Append(archive, inFlight)
    \/ /\ ~success
       /\ UNCHANGED archive

\* preserveRejected: the record is in the archive already, or it is verified
\* and renamed into a free slot; it fails when there is none or a write fails.
PreserveRejected(success) ==
    \/ /\ success /\ ready /\ inFlight \in Range(archive)
       /\ UNCHANGED archive
    \/ /\ success /\ ready /\ inFlight \notin Range(archive) /\ Len(archive) < Slots
       /\ archive' = Append(archive, inFlight)
    \/ /\ ~success /\ ~(ready /\ inFlight \in Range(archive))
       /\ UNCHANGED archive

\* Any answer to a snapshot but an acceptance and a permanent rejection
HandleRetained ==
    /\ Answered("Snapshot") /\ response \notin {"accepted", "permanent"}
    /\ backoff' = TRUE
    /\ inFlight' = 0
    /\ Finish
    /\ UNCHANGED <<flash, stored, ready, volatilePayload, durableInFlight, batchVars,
                   singlesRemaining, statusDue, statusSpaced, observed>>

\* resolveRejected: evidence first
HandlePermanent ==
    /\ Answered("Snapshot") /\ response = "permanent"
    /\ \/ /\ PreserveRejected(TRUE)
          /\ pc' = "advance"
          /\ UNCHANGED <<backoff, inFlight, response, operation>>
       \/ /\ PreserveRejected(FALSE)
          /\ backoff' = TRUE
          /\ inFlight' = 0
          /\ Finish
    /\ UNCHANGED <<queue, droppedRecords, stored, ready, volatilePayload, durableInFlight,
                   batchVars, singlesRemaining, statusDue, statusSpaced, observed>>

\* resolveRejected: then the queue advances.  What is archived came from the
\* queue: without a queue there is no archive either.
AdvanceRejected ==
    /\ pc = "advance"
    /\ \E advanced \in BOOLEAN :
          /\ PopIfMatches(inFlight, advanced)
          /\ RecordResolved(advanced)
          /\ backoff' = ~advanced
    /\ inFlight' = 0
    /\ Finish
    /\ UNCHANGED <<droppedRecords, archive, stored, ready, volatilePayload, durableInFlight,
                   batchVars, statusDue, statusSpaced, captured, lost, suspects, crashes>>

\* Mutant: only an accepted status request counts as an attempt.
HandleStatusAccepted ==
    /\ Answered("Status")
    /\ statusDue' = (response # "accepted") /\ statusSpaced' = FALSE
    /\ backoff' = (response # "accepted")
    /\ Finish
    /\ UNCHANGED <<flash, stored, ready, volatilePayload, inFlight, durableInFlight,
                   batchVars, singlesRemaining, observed>>

\* A status request, and the capability that an accepted one advertises or
\* withdraws; an acknowledged batch is kept.
HandleStatus ==
    /\ Answered("Status")
    /\ statusDue' = FALSE /\ statusSpaced' = FALSE
    /\ backoff' = (response # "accepted")
    /\ \/ /\ response = "accepted"
          /\ batchEnabled' \in BOOLEAN
          /\ IF ~batchEnabled' /\ ~batchAcknowledged
             THEN ForgetBatch
             ELSE UNCHANGED <<batchRecords, batchPayload>>
       \/ /\ response # "accepted"
          /\ UNCHANGED <<batchEnabled, batchRecords, batchPayload>>
    /\ Finish
    /\ UNCHANGED <<flash, stored, ready, volatilePayload, inFlight, durableInFlight,
                   batchAcknowledged, batchAckIndex, singlesRemaining, observed>>

-----------------------------------------------------------------------------
(* serviceHttps: acknowledged batches and the next request *)

\* There is no answer to handle, or it has been handled.
Past == pc = "after" \/ (pc = "loop" /\ response \in {"none", "waiting"})

\* One record of an acknowledged batch per turn; a failed pop is tried again.
DrainBatch ==
    /\ Past /\ batchAcknowledged /\ batchAckIndex < Len(batchRecords)
    /\ \E advanced \in BOOLEAN :
          /\ PopIfMatches(batchRecords[batchAckIndex + 1], advanced)
          /\ batchAckIndex' = IF advanced THEN batchAckIndex + 1 ELSE batchAckIndex
    /\ pc' = "loop"
    /\ UNCHANGED <<droppedRecords, archive, stored, ready, volatilePayload, flight,
                   batchRecords, batchPayload, batchEnabled, batchAcknowledged,
                   singlesRemaining, pacing, response, captured, lost, suspects, crashes>>

BatchDrained ==
    /\ Past /\ batchAcknowledged /\ batchAckIndex >= Len(batchRecords)
    /\ batchAcknowledged' = FALSE
    /\ ForgetBatch
    /\ pc' = "after"
    /\ UNCHANGED <<flash, stored, ready, volatilePayload, flight, batchEnabled,
                   batchAckIndex, singlesRemaining, pacing, response, observed>>

\* Disconnected, the worker occupied, in backoff, or nothing to send
Wait ==
    /\ pc = "after" /\ ~batchAcknowledged
    /\ pc' = "loop"
    /\ UNCHANGED <<flash, stored, ready, volatilePayload, flight, batchVars,
                   singlesRemaining, pacing, response, observed>>

\* HttpsPacing::next does not answer Wait.
MaySubmit == Past /\ ~batchAcknowledged /\ operation = "None" /\ ~backoff

MayUpload == MaySubmit /\ ~statusDue /\ (Pending > 0 \/ volatilePayload # 0)

Submitted(op) == operation' = op /\ response' = "waiting"
Refused == UNCHANGED <<operation, response>>

\* HttpsPacing::next has neither a status nor a snapshot to send.
NothingToSend ==
    /\ MaySubmit /\ ~statusDue /\ Pending = 0 /\ volatilePayload = 0
    /\ pc' = "loop"
    /\ statusSpaced' = TRUE
    /\ UNCHANGED <<flash, stored, ready, volatilePayload, flight, batchVars,
                   singlesRemaining, backoff, statusDue, response, observed>>

SubmitStatus ==
    /\ MaySubmit /\ statusDue
    /\ Submitted("Status")
    /\ pc' = "loop"
    /\ UNCHANGED <<flash, stored, ready, volatilePayload, inFlight, durableInFlight,
                   batchVars, singlesRemaining, pacing, observed>>

\* The same envelope again
ResubmitBatch ==
    /\ MayUpload /\ batchPayload
    /\ Submitted("Batch") \/ Refused
    /\ pc' = "loop"
    /\ statusSpaced' = TRUE
    /\ UNCHANGED <<flash, stored, ready, volatilePayload, inFlight, durableInFlight,
                   batchVars, singlesRemaining, backoff, statusDue, observed>>

MayBatch == batchEnabled /\ singlesRemaining = 0 /\ Pending > 1

\* The oldest n records as one envelope
SubmitBatch ==
    /\ MayUpload /\ ~batchPayload /\ MayBatch
    /\ \E n \in 2 .. BatchMaximum :
          /\ n <= Len(queue)
          /\ batchRecords' = SubSeq(queue, 1, n)
    /\ batchPayload' = TRUE
    /\ Submitted("Batch") \/ Refused
    /\ pc' = "loop"
    /\ statusSpaced' = TRUE
    /\ UNCHANGED <<flash, stored, ready, volatilePayload, inFlight, durableInFlight,
                   batchEnabled, batchAcknowledged, batchAckIndex, singlesRemaining,
                   backoff, statusDue, observed>>

\* The oldest record alone: no batch may be formed, or only the head fits one.
SubmitSingle ==
    /\ MayUpload /\ ~batchPayload
    /\ \/ ~MayBatch /\ UNCHANGED batchRecords
       \/ MayBatch /\ batchRecords' = <<Head(queue)>>
    /\ durableInFlight' = (Pending > 0)
    /\ \/ /\ inFlight' = IF Pending > 0 THEN Head(queue) ELSE volatilePayload
          /\ Submitted("Snapshot")
       \/ /\ inFlight' = 0
          /\ Refused
    /\ pc' = "loop"
    /\ statusSpaced' = TRUE
    /\ UNCHANGED <<flash, stored, ready, volatilePayload, batchPayload, batchEnabled,
                   batchAcknowledged, batchAckIndex, singlesRemaining, backoff, statusDue,
                   observed>>

-----------------------------------------------------------------------------
(* Time and power *)

BackoffEnds ==
    /\ backoff /\ backoff' = FALSE
    /\ UNCHANGED <<flash, stored, ready, volatilePayload, flight, batchVars,
                   singlesRemaining, statusDue, statusSpaced, response, pc, observed>>

\* 30 s after the last status attempt, long enough for the data to have had a
\* turn since then
StatusDue ==
    /\ statusSpaced /\ ~statusDue /\ statusDue' = TRUE
    /\ UNCHANGED <<flash, stored, ready, volatilePayload, flight, batchVars,
                   singlesRemaining, backoff, statusSpaced, response, pc, observed>>

\* A reset.  A request that is under way may still reach the server.
Crash ==
    /\ crashes < MaxCrashes
    /\ crashes' = crashes + 1
    /\ stored' \in {stored, stored \cup Valid(Carried)}
    /\ ready' \in BOOLEAN
    /\ volatilePayload' = 0
    /\ operation' = "None" /\ inFlight' = 0 /\ durableInFlight' = FALSE
    /\ batchRecords' = <<>> /\ batchPayload' = FALSE /\ batchEnabled' = FALSE
    /\ batchAcknowledged' = FALSE /\ batchAckIndex' = 0
    /\ singlesRemaining' = 0
    /\ backoff' = FALSE /\ statusDue' = TRUE /\ statusSpaced' = FALSE
    /\ response' = "none" /\ pc' = "loop"
    /\ suspects' = {}
    /\ UNCHANGED <<flash, captured, popped, lost>>

-----------------------------------------------------------------------------

Capture == CaptureDurable \/ CaptureVolatile

Server ==
    \/ ServerAccepts
    \/ \E answer \in Answers : ServerVague(answer)
    \/ \E answer \in Answers : ServerRejects(answer)

Handle ==
    \/ HandleBatch \/ HandleAccepted \/ HandleRetained
    \/ HandlePermanent \/ AdvanceRejected \/ HandleStatus

Drain == DrainBatch \/ BatchDrained

Submit == SubmitStatus \/ ResubmitBatch \/ SubmitBatch \/ SubmitSingle

Idle == Wait \/ NothingToSend

Next ==
    \/ Capture \/ Server
    \/ Handle \/ Drain \/ Submit \/ Idle
    \/ BackoffEnds \/ StatusDue
    \/ Crash

Spec == Init /\ [][Next]_vars

\* The loop keeps calling serviceHttps, and HttpsTransport grants its
\* requests, which it does as long as no bit is Stranded there.  Of the
\* environment: a server that is asked again and again decides in the end,
\* and a flash write that is tried again and again succeeds in the end.
Fairness ==
    /\ WF_vars(Handle) /\ WF_vars(Drain) /\ WF_vars(Idle) /\ WF_vars(BackoffEnds)
    /\ WF_vars(SubmitStatus)
    /\ SF_vars((SubmitSingle \/ ResubmitBatch \/ SubmitBatch) /\ response' = "waiting")
    /\ WF_vars(Server)
    /\ SF_vars(\/ operation = "Snapshot" /\ (ServerAccepts \/ ServerRejects("permanent"))
               \/ operation = "Batch" /\ (ServerAccepts \/ ServerRejects("rejected")))
    /\ SF_vars(HandlePermanent /\ pc' = "advance")
    /\ SF_vars(\/ (HandleAccepted \/ AdvanceRejected) /\ ~backoff'
               \/ DrainBatch /\ batchAckIndex' # batchAckIndex)

FairSpec == Spec /\ Fairness

-----------------------------------------------------------------------------
(* Properties *)

\* A snapshot leaves replay only after the server has stored it or the
\* recovery archive holds it: late and ambiguous answers, rotation while a
\* request is in flight, failing commits and resets notwithstanding.
LeavesOnlyResolved == popped \subseteq stored \cup Range(archive)

\* The archive holds only what the server permanently refused, each snapshot
\* in one slot, although a reset or a failed commit makes replay repeat it.
ArchivedOnce ==
    /\ Range(archive) \subseteq Invalid
    /\ \A i, j \in DOMAIN archive : archive[i] = archive[j] => i = j

\* A record of a rejected batch goes into no other batch before the next
\* reset: singlesRemaining outlasts the records it stands for, also when
\* rotation removes some of them or a commit fails.
RejectedNotRebatched == batchPayload => Range(batchRecords) \cap suspects = {}

\* Every record of a usable queue is accepted, archived or removed by
\* capacity in the end; neither a rejected batch, a rejecting status endpoint
\* nor a withdrawn batch capability stops the replay.
Drained ==
    \A r \in 1 .. MaxRecords :
        ready /\ r \in Range(queue) ~> ~ready \/ r \notin Range(queue)

\* A rejected record that leaves the queue is counted as a drop.
RejectionsAreCounted ==
    Cardinality(lost) + Cardinality(popped \cap Range(archive)) <= droppedRecords
=============================================================================
