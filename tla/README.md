# TLA+ models of the ApexiLabs logger and dash firmware

This directory holds TLA+ modules of the parts of the firmware whose correctness
depends on the order in which things happen: resets between two writes to flash,
calls that fail half way, answers that come late, two tasks that share one buffer.
`PROJECT.json` maps every definition to the lines it models and lists the runs, the
hazards they are aimed at, and the theorems.

## The system

The *logger* (ESP32, with an ESP8266 legacy build) samples sensors, writes CSV to SD
or flash, serves a web page, uploads snapshots over HTTPS or MQTT and talks to a
*dash* display over BLE/ESP-NOW. One Arduino loop does nearly everything; a FreeRTOS
worker on core 0 executes HTTPS requests.

| Component | State | Operations | Hard behaviour | What makes it correct |
| --- | --- | --- | --- | --- |
| Store-and-forward queue (`StoreForwardQueue.cpp`) | two segment files, `/sfq.meta`, quarantine files; heads, tails and counts in RAM | begin/scan/repair, enqueue, rotate, peek, pop, popIfMatches | a reset or a failing call between any two writes; decay; saturation | nothing accepted disappears uncounted, capacity drops the oldest, replay in capture order, committed pops stay popped |
| Rejected-upload archive (`RejectedUploads.cpp`) | 16 slot files and a temporary | preserveRejected | reset between temp write and rename; retry after a failed pop | a record leaves the queue only with its evidence durable; no second copy |
| HTTPS exchange, arbiter, worker (`HttpsExchange.h`, `HttpsArbiter.h`, `HttpsWorker.cpp`) | one request/result buffer, pending bits | submit, take, complete, collect; grant, cancel | two tasks, three clients for one slot | one owner of the buffer at a time; a result reaches the client that asked; no client starves |
| Upload pipeline (`LiveUpload.cpp`, `LiveUploadAsync.cpp`, `UploadRecovery.h`, `UploadAcknowledgement.h`, `BatchAcknowledgement.h`) | in-flight envelope, batch cursor, volatile slot, backoff | capture, submit, service (accept/reject/retry), drain of an acknowledged batch | late answers, rotation while in flight, one pop per turn, persistence failing after the server accepted | a record is popped only after the server accepted it or its rejection was archived; retries until accepted |
| Bearer rotation (`AppBearerRotation.cpp`) | NVS keys of the old and the candidate bearer | begin, stage, markAcknowledged, promoteCandidate, abandonCandidate, factoryReset | several NVS keys per step, resets in between | there is always one usable bearer; a candidate is promoted only after proof |
| Device authorization (`LoggerAuthorization.cpp`) | record in NVS, request in flight | requestAuthorization, accept, stageRotation, fallback, factoryReset | response for an older request, save failure | the stored credential is the one the server last confirmed |
| Provisioning and owner reset (`DeviceProvisioning.cpp`, `OwnerReset.h`, `OwnerResetNvs.h`) | provisioning keys, reset latch | acceptSerialCommand, factoryResetOwnerCredentials, resume at boot | reset in the middle of the erasure | no owner credential survives a completed reset; an interrupted one is finished |
| Signed OTA (`SignedOta.cpp`, `SignedOtaEsp32.cpp`) | two image slots, boot selection, health deadline | begin, append, finish, confirm, roll back | reset before confirmation, deadline against healthy time, an update over the fallback image | there is always a confirmed image to boot; only a healthy image is confirmed; observation ends |
| System log and dash events (`SystemLog.cpp`, `SystemEvents.h`, `DashLink.cpp`, `dash_main.cpp`) | queues of events on both sides, sequence numbers, the log files | push, frame, receive, acceptDash, write and flush, acknowledge | lost parts and acknowledgements, either side reboots, card absent, short writes | an event leaves the dash only once it is stored, is stored once and in order, and is delivered in the end |
| Dash telemetry (`DashTelemetry.h`, `DashUploadStatus.h`) | last frame, staleness timer | encode, decode, age out | metadata and samples in separate frames | display only: not modelled |
| CSV logging and clock (`CsvLogger.cpp`, `Timekeeper.cpp`) | open file, rows since the last flush, incomplete row; sources of time | logRow, flushIfNeeded, ensureFileOpen, dateStamp, setFromUnixTime | short writes, a date or clock source that changes the file, power loss | an accepted row is a line of its own; a power loss takes at most as many rows as the flush interval |
| Settings and remote configuration (`RuntimeSettings.cpp`, `LiveUpload.cpp`, `WebUi.cpp`) | EEPROM record, pending revision | save, applyRemoteConfig, settings page, report | reset between apply and report, failing commits, migration of old records | what was reported is durable; a version comes with its own settings; the app's newest revision is applied and reported in the end |
| Local UI, sensor drivers, battery (`WebUi.cpp`, `Dashboard.cpp`, `SensorChannel.cpp`, `BatteryMonitor.cpp`) | caches | render, sample | none that several steps decide | not modelled: I/O and formatting |

Interaction: the Arduino loop alone owns queue files, NVS and settings; the worker
shares only the exchange with it. The upload pipeline calls the queue (enqueue, peek,
popIfMatches), the archive (preserveRejected), the arbiter and the exchange; logs and
authorization are the other clients of the arbiter. Owner reset clears what rotation,
authorization and settings keep. An accepted status request is the heartbeat of the
health check; an applied configuration restarts the logger, and a restart rolls back an
image that is not confirmed yet.

## Modules

### StoreForwardQueue

Models `StoreForwardQueue.cpp`. Variables `file`, `made`, `quarantine`,
`metadataFile` are flash; `active`, `head`, `dropped`, `reserved`,
`corruptionEvents`, `quarantinedBytes` are the fields of `metadata_`; `tail` and
`count` are `tail_` and `count_`. `pc` names the write to flash that comes next:
only the loop calls the queue, so operations do not interleave with each other, and
what interrupts them is a reset. Each action is therefore the part of an operation up
to and including one durable write, and `Crash` is enabled between any two. A record
occupies one cell; a cell is readable or not (header, length and checksum together).
`pop` checks the header only, `peek` the checksum too; all callers peek first, so
`Pop` requires a readable head. `Faults` names the calls that may fail, by call site.
`next`, `accepted`, `resolved` and `crashes` are history.

Abstractions: byte offsets are cell indices (every record the same size, so a segment
holds `SegmentMaximum` of them); the checksummed metadata record is one value that is
replaced atomically (temporary file and rename) and is valid, of version 1, missing or
bad; a quarantine file is the sequence of ids copied to it.

`DurableFifo` states what callers are promised, `MCStoreForwardQueue` has the
refinement mapping: the abstract queue is what the next `begin` would replay, the readable
cells behind the durable head of the older segment and then of the active one
(`ReplayQueue`), its counter the one that `begin` would load, its losses `Lost`.

### StoreForwardQueueProofs

`TypeCorrect` (`Spec => []TypeOK`) holds for any set of failing calls. Type
correctness is not inductive: that `count_` stays in Nat and only accepted records are
popped rests on what the cells hold (`CellsSound`), on the range of the segment under
repair (`RepairSound`) and on enqueue having an offered record (`OfferSound`); their
conjunction with `TypeOK` is `TInv`.

`LossesAreCounted` (`Spec => []NoSilentLoss`) assumes `SafeFaults`: every call may
fail but the last commit of a rotation and the commit after a reclaim, whose failures
really do lose records (`queue_rotate_save.cfg`, `queue_reclaim_save.cfg` below). The inductive
invariant `IInv` adds that in a running queue RAM and flash agree on heads and counters except for a segment that was
just emptied (`ReadySound`), what the scan has established (`ScanSound`), which files
exist (`FilesSound`), and that a rotation has counted the records it is about to erase
(`RotationCounted`). `IInv` was checked by TLC before it was proved. The argument: no
step but `RotateTruncate` adds to `Lost`, and what that step adds is bounded by
`count[cur]`, the cardinality of the live positions of the segment.
The assumptions are those of `ConstantsAssumption` only. Decay of records and loss of the
metadata are among the faults it covers; `queue_power` checks the property without them.

`NoReplayAfterCommit` (`CommittedNotReplayed`) and `RepairsNotOverstated`
(`QuarantineNotOverstated`) hold whatever fails, the two commits above included. For the
first, `ReplaySound` says that a record is stored in one place only and that everything
popped lies before the heads, in RAM and on flash: a failed commit leaves flash behind, and
a rotation or reclaim empties a file before its head goes back to zero. For the second,
`EvidenceSound` says that the counters, and what a repair is about to add to them, stay
below the contents of the quarantine files, which are written first.
`OnlyTornQuarantined` (`OnlyIncompleteQuarantined`) assumes `WholeAppends`: no short append
and no decay. `queue_short_append` shows that the property is false without it. `TornSound`
says that a torn cell is the last of its file and is only there until the next `begin` has
repaired it, so no complete record is ever behind one.

`QueueIsDurableFifo` (`Spec => ImplementsDurableFifo`) is the refinement, under
`RecoverableFaults`: no short append, no decay, no loss of metadata, and the two commits
above succeed. These are the failures for which TLC shows that it is false, or that change
flash behind the queue's back; every other call may fail and resets come anywhere. Each
step of the queue is a step of the FIFO or leaves it alone. What `begin` replays is an
interval of each file (`ReplayFacts`), so a step is an `Append`, a `Tail` or a `SubSeq` of
`ReplayQueue`. The inductive invariant `QInv` is `IInv` with `ReplaySound`, which makes
`Lost` exactly what was accepted, not popped and not replayable; with `TornSound`, by which
an unreadable cell is the last one and hides nothing; and with `OrderSound`, by which RAM and flash
agree on which segment is the older one except while a rotation has emptied it. That
a loss is announced first is `AnnouncedSound`. TLC checked both before they were proved.

### HttpsTransport, HttpsTransportProofs

Models `HttpsExchange.h`, `HttpsArbiter.h`, `HttpsWorker.cpp`, and how authorization,
remote logs and telemetry use them. The Arduino loop (`turn`, `lpc`) and the worker task
(`wpc`) interleave at every access to the atomic state or to a shared buffer; a request is
a number and a result names the request whose status and body it holds, so that a stale or
foreign answer can be told from the right one. `Skip` and `GiveUp` are the early returns of
the three clients; `wifi` may go and come back. `HttpsPacing` decides for telemetry.
Authorization may also stop polling in the turn of telemetry: an answer to a status request
that stages, advances or abandons a rotation overwrites `awaiting_approval`
(`LoggerAuthorization.cpp:331`, 348, 370; `EndsPolling`, `Collect`), and nobody cancels the
bit that a refused poll has set (line 297). With that bit (`Stranded`) logs and telemetry are
refused until Authorization asks again, which it may never do. `Served` says that nothing else
blocks a client; `https_stranded.cfg` shows that `ManagementServed`, which is what the comment
of `HttpsArbiter.h` says, fails.

`BuffersAreExclusive` and `AnswersReachTheirClient` are proved from `HInv`: types that do
not depend on the bounds (`HTypes`), what the loop owns at each point (`LoopOwns`), what a
published request means (`WorkerOwns`), that the worker is awake exactly then
(`WorkerAwake`), that at most one client waits (`OneWaits`) and that the answer is its own
(`AnswersAreOwn`). Exclusive access is not inductive without `WorkerAwake`: it must be
excluded that the worker wakes on a notification of an earlier request.

`PriorityIsHonoured` (`BoundedBypass`, no hypothesis) needs `BInv`: a client whose bit is
pending cannot be passed, so what counts is a client that is due and unknown to the arbiter
(`Unheard`). The request that is just being submitted counts against it already
(`Overtaken`), and while it had its turn and a client behind it may still win the exchange
(`Exposed`) its one bypass is not used up. An outage excuses one more, because it hides a
turn of the client from the arbiter.

### UploadPipeline, UploadPipelineProofs

Models `serviceHttps` and the capture path of `LiveUpload`, `UploadRecovery.h`,
`BatchAcknowledgement.h` and `RejectedUploads.cpp`, over the queue that `DurableFifo`
promises (a sequence that keeps its order, may drop the oldest and survives resets) and a
transport that may refuse a submission. `serviceHttps` is split where it writes to flash
(archive, pop). An answer is its class: accepted, permanent or other rejection, retry,
ambiguous; the server may have stored what it does not acknowledge. `statusDue`,
`statusSpaced` and `backoff` stand for the timers. That the transport grants turns is assumed
here (`Fairness`); a bit that is `Stranded` in `HttpsTransport` breaks the assumption.

`NothingLeavesUnresolved` and `EvidenceIsUnique` are proved from `PInv`: what an answer
proves about the request in flight (`AnswerProves`), what an acknowledged batch still
being popped proves (`DrainProves`), that the evidence is durable before the queue
advances (`EvidenceProves`), that the archive holds refused records once (`Archive`).

`RejectedStaySingle` (`RejectedNotRebatched`) is proved from `RInv`: records are queued in
the order of capture (`Ordered`), and those of refused batches that are still queued are
among the first `singlesRemaining` (`SuspectsAhead`). The counter goes down only when the
head has left, or when the head is no longer the snapshot in flight, which means that
rotation has taken at least one record from that end (`SingleSound`).

### OwnerReset, OwnerResetProofs

Models `OwnerReset.h`, `OwnerResetNvs.h`, the record handling of
`DeviceProvisioning.cpp` and the part of `setup()` that calls them. Every action is one
call that touches flash; it may fail, having had its effect or not, and power may be lost
after it. Credentials are named by the reset that preceded them (`epoch`); a store holds
an epoch or 0, the owner record also its `ready` mark and whether its fields are
complete. `requested` and `result` are the coordinator's fields, `ownerResetReady` is
`NetworkAllowed(result)`. `Builds` is the set of
builds a boot may run, production or development. `resume` is called once per boot, so its retry of a request
(line 31) has no action. Secure-boot and flash-encryption checks can only forbid the
network further and are taken to pass.

`FormerOwnersAreGone`, `RecordsFollowErasure` and `NetworkIsConsistent` are proved from
`RInv`. Its core is `LatchCovers`: without the latch every store is empty or of the
present epoch. `ErasureSound` says what the callbacks have emptied so far, `ResultSound`
that a result that allows the network implies a clear latch and no open request,
`LoadedSound` that on the way from there to the network RAM holds the record in flash.
The bounds on resets, failures and power losses play no part in the proof.

### BearerRotation, BearerRotationProofs

Models `AppBearerRotation.cpp` and the status requests of `LiveUploadAsync.cpp` that
drive it, for a USB-provisioned logger (without device authorization). `active`,
`applied`, `ready` and `candidate` are the NVS keys, `activeBearer`, `appliedVersion`,
`staged` and `phase` the fields in RAM. `Persist`, `MarkAcknowledged`, `Promote`,
`Abandon` and `Forget` write or remove one key at a time (`Forget` removes the five keys
that mean nothing without `cand_ready`); a call that fails may have had its effect.
Version, nonce, token and expiry of rotation v are all v; 0 is an absent key, and as a
token the provisioned bearer. The server is external: it honours a new token once its
rotation is acknowledged, takes the first request that carries it for the proof, and may
drop older tokens any time after that, not before (the overlap of `docs/provisioning.md`).
Its answers may carry an old offer, and a permanent rejection may come for no reason.
A removal of `cand_ready` that reports failure although it happened leaves the logger
proving the candidate until the next boot: a second removal of an absent key fails. Its
status requests carry the candidate's bearer meanwhile; snapshots keep the active one
(`LiveUploadAsync.cpp:34-35`).

`BearerNeverLost` (flash), `RunningLoggerNotLockedOut` (RAM), `PromotionFollowsProof` and
`CandidateNeverMixed` are proved from `BInv`,
for any number of rotations, failures and resets, under the hypothesis
`Unreadable = FALSE` (`bearer_unreadable.cfg` shows why). The core of `BInv` is that one token is the
newest that was used (`Newest`) and that the server honours it: flash holds it as the
active bearer together with its version, or as an acknowledged candidate that begin loads
(`FlashSound`), and RAM agrees with flash (`RamSound`). An acknowledged candidate that was
not used yet is the server's latest (`Usable`), so its proof makes it the newest and
nothing else can. `PcSound` says what each step of an operation relies on; `Written` which
keys of the candidate are already the new ones.

### DeviceAuthorization, DeviceAuthorizationProofs

Models `LoggerAuthorization.cpp` and the status requests of `serviceHttps` that rotate its
credential. `rec` is the record in NVS, `mem` the same fields in RAM, `bearer` the token
that the configuration uses since boot; the record is one NVS value, so an action is one
turn of the loop with at most one save, which may fail having reached flash or not.
`req`/`answer` are the request in flight and the class of its answer, `op`/`response` those
of the status request. `Begin`, `RequestAuthorization`, `SendStart`, `SendPoll`,
`SendAcknowledgement`, `Expire`, the `Accept...` actions (one per class of answer and
early return of `accept`), `Stage`, `HandleStatus` and `HandleFallback` are the code's.
The server is external: it opens, approves, closes and acknowledges challenges, offers and
withdraws a rotation, retires bearers once a newer one was acknowledged or used, and
rejects a status for good only when it does not honour the bearer or has withdrawn the
rotation. After a commit has set `restart_` the loop goes on for 1.5 seconds
(`logger_main.cpp:581-585`) and takes up answers without looking at it: every `Accept...`
action and `HandleFallback` is enabled then as before. RAM still has the old token, so what
they save undoes the commit. The run `authorization_late_answer` shows the loss. `lateSave`
is history, set by a save between `restart_` and the restart; `CredentialKept` and
`SessionKept` say that nothing else loses the credential.

Two behaviours are in the model and in no property: an `awaiting_approval` that a rotation
overwrites (lines 331, 348 and 370 set `status_`) stops the polling until the next boot or
request (what that does to the other clients of the transport is `Stranded` above), and a start that is answered with 429 or 5xx is reported as retrying but is not repeated.

`OnlyAcceptedPromoted` and `SavedBelongsToChallenge` are proved from `BaseInv`, without a
hypothesis: what the record in flash and the fields in RAM may hold of what the server has
issued, and what a request in flight and its answer say about them. `CredentialNeverLost`
and `SessionNeverLost` (`CredentialKept`, `SessionKept`, no hypothesis) are proved from the
invariant `~lateSave => AuthInv`: answers that arrive after a commit and change only RAM or
nothing preserve it, a late save ends it for good. `AuthInv` adds to `BaseInv` that one bearer counts (`current`, the last one the server accepted) and that the
record holds it as its active, saved or candidate credential (`HoldsCurrent`), and the ways
in which a save that failed with effect lets flash differ from RAM (`FlashAndRam`).

### DashEvents, DashEventsProofs

Models the way of an event from `dash_main.cpp` over `SystemEvents.h` and `DashLink.cpp`
to the files of `SystemLog.cpp`. `queue`, `part`, `previousSeq`, `eventSeq` and `boot` are the
dash's; `rx`, `received`, `ack` the link's; `pending`, `dashDevice`, `dashBoot`, `dashSeq`
and the two `dashPending...` the logger's; `lines` and `fragment` the card. An event is
its dash, boot and number; part 0 carries the numbers, every part the number modulo
`Modulus`. `SendPart` and `OnAck` are the dash's steps, `Publish` with `AcceptDash` the
reception, `Drain` one call of `SystemLog::loop`: no card, an entry written and flushed,
or half a line that stays. Links break and both sides reboot. `first` marks the first line
of a file: the number of a dash is recovered from the last line of each of its files.
The removal of all but 16 segments is not modelled.

`AcknowledgedEventsAreStored` and `LinesAreInOrder` are proved for one dash (`OneDash`) and
any number of events, parts, reboots, losses and short writes; `dash_two.cfg` shows that
the first is false with two. The inductive invariant `DInv`: the dash offers its oldest
event only, so every line of its boot is at most as new as what it offers (`LinesSound`,
`LinkSound`); at most one of its events waits in the logger's queue and is newer than the
card (`PendingSound`); what the logger remembers of the dash is on the card and covers its
last readable line (`RecoverySound`). What is acknowledged is therefore that line or an
event that was acknowledged before (`AckSound`, `AckedSound`). That the recovered maximum
exists is proved from the well-foundedness of the natural numbers (`Least`, `Greatest`).

### BootHealth, RemoteConfiguration, ManagedDevice, ManagedDeviceProofs

`BootHealth` models `SignedOta.cpp` and `SignedOtaEsp32.cpp` in a production build. At this
commit nothing calls the writer (`docs/production-security.md:80`: it is connected to no
endpoint), so `OtaBegin`, `OtaAppend` and `OtaFinish` are an internal interface that the model
exercises; `logger_main.cpp` runs `OtaBootHealth` only. `slot`, `running`, `selected` are the two images and the boot selection, `ota` and
`received` the writer, `health`, `age`, `healthySince` the state of `OtaBootHealth`. The
bootloader is external (`Started`): a selected new image runs once as pending, and a reset
before it is confirmed aborts it. Posture, size and signature are answers yes or no.

`RemoteConfiguration` models `RuntimeSettings.cpp` with the migrations of `begin`, the
desired state in `LiveUpload.cpp`, the settings page and the part of `loop()` that applies a
revision. `flash`, `ram` and `live` are the record in EEPROM, the applied one and the one
that `LiveUpload` was begun with. A record says which revision its settings come from
(`from`), which is how a version with foreign settings would be seen. The app is external.

`ManagedDevice` composes the two as `logger_main.cpp` does: an accepted status is the
heartbeat, `ApplyConfig`, `Restart`, `PowerLoss` and a roll back restart both. Not
forbidden by any property, because the code does it: a restart for a configuration or for
local settings rolls back a healthy image that is still pending, and a revision that
switches uploads off is never reported back (`docs/status-diagnostics.md` says so too).

`DeviceAlwaysBoots`, `OnlyHealthyConfirmed`, `ReportsAreDurable` and `VersionsNeverMixed`
are proved of the composition, from `HealthInv /\ ConfigInv`. A pending image has a confirmed
one behind it and the writer is idle then (`Fallback`), another slot is selected only when a
whole image is in it (`Selection`), and the healthy time began after the last fault that a
poll saw (`Times`). What was
reported is at most what RAM has, and RAM is at most what the next boot would load,
migrations included (`Ahead`).

### LocalRecording

The proofs are the last part of `ManagedDeviceProofs`; the two modules share nothing else.

Models `CsvLogger.cpp`, the clock of `Timekeeper.cpp` as far as it names files, and
`serviceLocalRecording`, `syncRtcFromNetwork` and `maintainRtcSync` of `logger_main.cpp`.
A file is the sequence of what was printed; a short print leaves an item that is not
whole, and what follows is on the same line. `LogRow` is one call of `logRow` with
`ensureFileOpen`, header, separator and row; its disjuncts are the points where it can fail.
`FlushIfNeeded` is the call that follows an accepted row (`flushDue`), and a power loss may
come between the two. It then takes `FlushRows` accepted rows, and fewer at any other
time: that is `LossBounded`. `left` remembers the fragments that were at the end of a file
when it was closed or the power went: `incompleteRow_` belongs to the logger and not to the
file, so nothing separates them from what is appended later (`csv_reopened.cfg` below).

`RecordingTypes`, `AcceptedRowsWhole` (`RowsStayWhole`) and `UnflushedBounded`
(`LossBounded`) are proved from `RecordingInv`, for every number of dates, rows, short prints
and power losses and every flush interval. `RowsStayWhole` needs to know of every fragment
at the end of a file, before a row follows it: `incompleteRow_` is set and the file is open,
or it is in `left` (`FragmentsKnown`). `LossBounded` needs that only the open file has rows
that are not flushed, that `rowsSinceFlush_` covers them (`UnflushedCounted`) and that
`flushIfNeeded` has been called after every row but the last (`FlushCalled`): the counter is not
reset when another file is opened, only when a header is flushed, and then the other files
have been flushed already. The only assumption is `RecordingAssumption`.

## Runs

| Run | Question | Bounds |
| --- | --- | --- |
| `queue_power` | do resets anywhere and every recoverable failure leave a durable FIFO? | 2 records per segment, 5 records, 2 resets, counter of 3: several rotations, saturation, a reset inside a repair after a reset inside an append |
| `queue_all` | what still holds when every call may fail, records decay and the metadata is lost? | 4 records |
| `queue_short_append` | is only the last incomplete record quarantined after a short append? (violated) | smallest that shows it |
| `https_transport` | do two tasks and three clients share one exchange safely, and is every client answered and, but for a stranded bit, served? | 3 requests, 1 outage: each client can be overtaken by each other one and lose Wi-Fi while it waits or while its request is executed |
| `upload` | is everything that leaves replay on the server or in the archive, once, does a rejected batch stay apart, and is the queue drained in the end? | 4 snapshots, capacity 3, batches of 2, 2 slots, 2 poisonous snapshots, 1 reset: rotation during a request, two rejected batches, a full batch and a short one |
| `owner_reset` | does anything of a former owner reach the network, and is a reset finished? | 3 resets, 3 failing calls, 2 power losses: an erasure interrupted twice, a failure in each of latch, store and read-back |
| `bearer_rotation` | does the logger always hold a bearer that works, and does an acknowledged rotation end? | 2 rotations, 2 failing calls, 2 resets: a second candidate written over the rest of the first, a failed promotion followed by a reset |
| `device_authorization` | does the logger keep a credential that the server honours, and is a saved one decided? | 2 challenges, 1 rotation, 1 failing save, 1 reset: a re-authorization and a rotation at the same time, a challenge that expires while its answer is on the way, answers between a commit and its restart |
| `authorization_late_answer` | does a committed rotation survive the answers that arrive before the restart? (violated) | smallest that shows it: no failing save and no reset |
| `dash_events` | is an acknowledged event stored, once and in order, and is every event delivered? | 1 dash, 2 boots of 2 events in 2 parts, queues of 2, 1 reset, 1 event of the logger, 1 short write: a reboot of either side between storing and acknowledging, a full queue |
| `managed_device` | do configuration and firmware updates of one device stay safe together and come to an end? | 2 revisions, 1 use of the settings page, 1 fault, 2 updates, deadline of 2 ticks: an update over the slot of an earlier one, a restart in every state of an update |
| `local_recording` | does a row that was accepted stay a line, and how much does a power loss take? | 2 dates and the boot file, flush every 2 rows, 6 prints, 2 short ones, 1 power loss: a file left and opened again, a short header, a short row behind a short row |

Deadlock is not checked in the queue runs and in `managed_device`: once the bounds are
used up, the queue is empty or unavailable, or uploads are switched off and no image is
pending, there is nothing left to do.

The type invariant of every module can be added to the `INVARIANTS` line of its configurations;
`queue_all` lists the one whose counter widths are themselves a question.

### Counterexample configurations

`queue_short_append` and `authorization_late_answer` are runs that show a disagreement with
the documentation, with a finding each in `PROJECT.json`. These configurations show others;
each is violated, in the smallest instance that shows it:

| Configuration | Module, property | What it shows |
| --- | --- | --- |
| `queue_rotate_save.cfg` | `MCStoreForwardQueue`, `DropsAreOldest` | the commit that ends a rotation fails (`StoreForwardQueue.cpp:542`): RAM keeps the new active segment, flash the old one, and after a reset the wrong segment counts as the older one |
| `queue_reclaim_save.cfg` | `MCStoreForwardQueue`, `NoSilentLoss` | the commit after a reclaim fails (line 288): flash keeps a head that points into the emptied file, and a record appended later is skipped |
| `upload_rejection_count.cfg` | `UploadPipeline`, `RejectionsAreCounted` | a permanent rejection is archived and not counted as a drop (`LiveUploadAsync.cpp:97`); `docs/store-forward-recovery.md:36` says that it is counted |
| `bearer_unreadable.cfg` | `BearerRotation`, `BearerSurvives` | a store that cannot be opened at one boot (`AppBearerRotation.cpp:54`) puts the provisioned bearer back into use, which the server may have dropped; `docs/provisioning.md:64` |
| `https_stranded.cfg` | `HttpsTransport`, `ManagementServed` | a poll for authorization is refused while a status request is executed (`LoggerAuthorization.cpp:297`), the answer to that request stages a rotation (line 331), and the bit that stays set keeps remote logs from every later turn; the comment of `HttpsArbiter.h:4-5` says that management work must get a turn |
| `dash_two.cfg` | `DashEvents`, `AckedIsStored` | with a second dash the recovered number is never below the one of the dash before (`SystemLog.cpp:58`), so an event that is on no card is acknowledged; the comment at line 72 says that only stored ones are |
| `csv_reopened.cfg` | `LocalRecording`, `EveryRowParses` | after a reset or a change of file the next row lands behind a fragment; `CsvLogger.cpp:53` and `docs/https-replay.md:67` say that subsequent rows stay parseable |

Fairness. `https_transport`: the loop never blocks and goes round its clients, the worker's
HTTP calls have timeouts and therefore end, an outage ends. `upload`: the loop is
fair to `serviceHttps` and to the timers; the status request is paced (30 s), which leaves
data a turn between two of them; of the environment, a server that is asked again and
again decides in the end and a flash write that is retried succeeds in the end (strong
fairness, because refusals may come in between). There is one such assumption for the
transport, one for the server, one for the archive and one for the pops, not one for each call. `owner_reset`: `setup()` has
no unbounded wait and a device is switched on again. Failures are bounded there, which
says that flash works again in the end. `bearer_rotation`: the loop goes on and requests
time out; a server that is asked again and again accepts a proof or an acknowledgement that
it can accept, rejects an obsolete one, and answers a status request with the offer that
stands (strong fairness, because lost answers come in between). `device_authorization`:
the loop calls each part in every turn, requests time out, and a request that is repeated
for ever is answered in the end. `dash_events`: both loops go on; over a link that stays,
each part and the acknowledgement, which are repeated for ever, arrive in the end. The card
takes a line when it is there, short writes are bounded. `managed_device`: the loop goes on,
time passes, the app answers; faults are bounded.

## What is only model-checked

Liveness (`Served`, `Answered`, `Drained`, `ResetFinishes`, `RotationCompletes`,
`SavedIsResolved`, `EventsDelivered`, `ConfigurationConverges`, `PendingResolved`) is out of
the prover's reach. All invariants of the runs, the action property `ConfirmedOnlyHealthy`
and the refinement `ImplementsDurableFifo` are proved. The refinement is proved, as it is
checked, without the failures that `RecoverableFaults` excludes; what still holds with them is
`queue_all`, and `TypeCorrect`, `NoReplayAfterCommit` and `RepairsNotOverstated`.

## What is not modelled

- Drivers, formatting, HTML, TLS, JSON, fonts and drawing: I/O or data conversion. Of
  `WebUi.cpp` only the saving of settings is modelled, of `dash_main.cpp` only the events.
- The MQTT build and the synchronous ESP8266 path of `LiveUpload.cpp`: legacy paths that
  production builds do not contain.
- Telemetry frames to the dash: repeated in every cycle and displayed only.
- Chunked log downloads of `RemoteLogs.cpp`: they read what `SystemLog` wrote; their use
  of the transport is modelled. The removal of old log segments.
- What makes a field, a certificate, a signature or a posture valid: an answer yes or no.
- Host scripts for provisioning and releases.
- The composition of queue, transport and pipeline is by interface: the pipeline uses the
  promise of `DurableFifo`, not `StoreForwardQueue` itself; the two failures that break that
  promise (`queue_rotate_save.cfg`, `queue_reclaim_save.cfg`) are not seen by the pipeline.

## Plan

1. Done: the store-and-forward queue with its abstract FIFO; HTTPS transport; upload
   pipeline; owner reset; bearer rotation; their proofs. Device authorization, dash events,
   boot health and remote configuration with their composition, local recording.
   Every safety property of the runs, and the refinement of `DurableFifo`, is proved.
2. Removal of log segments, and log downloads that run across it.
