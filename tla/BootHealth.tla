------------------------------ MODULE BootHealth ------------------------------
(***************************************************************************)
(* Firmware updates of a production logger: the writer of the inactive     *)
(* slot (SignedOta.cpp, SignedOtaEsp32.cpp) and the health check that      *)
(* confirms or rolls back an image (OtaBootHealth).                        *)
(*                                                                         *)
(* The bootloader and the OTA library of the SDK are external: a selected  *)
(* new image runs once as Pending; if it is reset before it is confirmed,  *)
(* the bootloader aborts it and runs the other slot.                       *)
(*                                                                         *)
(* Signatures, sizes and the secure posture are one answer, yes or no, of  *)
(* each call that asks for them.  Time is counted in ticks, and only while *)
(* an image is pending: nothing else here depends on it.                   *)
(***************************************************************************)
EXTENDS Integers

CONSTANTS
    Deadline,       \* ticks until a pending image is rolled back (120 s)
    HealthyFor,     \* ticks that it has to be healthy (10 s)
    Fresh,          \* ticks that a heartbeat counts (60 s)
    Chunks,         \* chunks of an image
    MaxUpdates      \* bound: images that are delivered

ASSUME HealthAssumption ==
    /\ {Deadline, HealthyFor, Fresh, Chunks} \subseteq Nat \ {0}
    /\ HealthyFor < Deadline /\ MaxUpdates \in Nat

VARIABLES
    slot,           \* the state of the image in either slot
    running,        \* the slot that runs
    selected,       \* the slot that the bootloader tries first
    ota,            \* SignedOta::state_; Failed is Idle, begin takes both
    received,       \* received_, in chunks
    health,         \* OtaBootHealth::state_
    age,            \* now - startedMs_
    healthySince,   \* healthySinceMs_ while healthy_, else NotHealthy
    heartbeat,      \* age of the last accepted status of this boot
    lastSick,       \* history: the last poll that saw a fault, or the boot
    updates

healthVars == <<slot, running, selected, ota, received, health, age, healthySince,
                heartbeat, lastSick, updates>>

Slots == {1, 2}
Inactive == 3 - running
NotHealthy == -1

HealthTypeOK ==
    /\ slot \in [Slots -> {"Empty", "New", "Pending", "Valid", "Invalid"}]
    /\ running \in Slots /\ selected \in Slots
    /\ ota \in {"Idle", "Receiving", "ReadyToReboot"} /\ received \in 0 .. Chunks
    /\ health \in {"Inactive", "Pending", "Confirmed", "RecoveryRequired"}
    /\ age \in 0 .. Deadline /\ healthySince \in NotHealthy .. Deadline
    /\ heartbeat \in 0 .. Fresh /\ lastSick \in 0 .. Deadline /\ updates \in 0 .. MaxUpdates

HealthInit ==
    /\ slot = [s \in Slots |-> IF s = 1 THEN "Valid" ELSE "Empty"]
    /\ running = 1 /\ selected = 1 /\ ota = "Idle" /\ received = 0
    /\ health = "Inactive" /\ age = 0 /\ healthySince = NotHealthy
    /\ heartbeat = Fresh /\ lastSick = 0 /\ updates = 0

-----------------------------------------------------------------------------
(* Boot *)

\* The bootloader: what the slots are and which one runs when the selected
\* one is s.
Started(sl, s) ==
    LET other == 3 - s
    IN IF sl[s] = "New" THEN <<[sl EXCEPT ![s] = "Pending"], s>>
       ELSE IF sl[s] = "Valid" THEN <<sl, s>>
       ELSE <<[sl EXCEPT ![s] = IF @ = "Pending" THEN "Invalid" ELSE @], other>>

\* OtaBootHealth::begin: the state of the image that runs
BeginHealth(state) ==
    CASE state = "Pending" -> "Pending"
      [] state = "Valid"   -> "Inactive"
      [] OTHER             -> "RecoveryRequired"

\* A reset with slots sl, of which s is selected
HealthBoot(sl, s) ==
    LET b == Started(sl, s)
    IN /\ slot' = b[1] /\ running' = b[2] /\ selected' = b[2]
       /\ health' = BeginHealth(b[1][b[2]])
       /\ ota' = "Idle" /\ received' = 0
       /\ age' = 0 /\ healthySince' = NotHealthy /\ heartbeat' = Fresh /\ lastSick' = 0
       /\ UNCHANGED updates

-----------------------------------------------------------------------------
(* SignedOta *)

HealthUntouched == UNCHANGED <<running, health, age, healthySince, heartbeat, lastSick>>

\* Mutant: the state of the running image is not asked for.
MayUpdateAnyway == ota = "Idle"

\* A running image that is not confirmed keeps the slot behind it.
MayUpdate == ota = "Idle" /\ slot[running] = "Valid"

\* fail: the update ends, the boot selection is as it was.
OtaFails == ota' = "Idle" /\ received' = 0 /\ UNCHANGED selected

\* beginInactive erases the slot that does not run.
Erased == [slot EXCEPT ![Inactive] = "Empty"]

\* begin may fail after it has erased the slot; one that is refused changes
\* nothing.
OtaBegin ==
    /\ updates < MaxUpdates /\ updates' = updates + 1
    /\ MayUpdate /\ slot' = Erased
    /\ OtaFails \/ (ota' = "Receiving" /\ received' = 0 /\ UNCHANGED selected)
    /\ HealthUntouched

\* append: a chunk that does not fit or cannot be written ends the update.
OtaAppend ==
    /\ ota = "Receiving"
    /\ OtaFails \/ (received < Chunks /\ received' = received + 1 /\ UNCHANGED <<ota, selected>>)
    /\ UNCHANGED <<slot, updates>> /\ HealthUntouched

\* finishAndVerify and selectVerified: the bootloader will try the image once.
Select == slot' = [slot EXCEPT ![Inactive] = "New"] /\ selected' = Inactive

\* finish, and cancel: the image is selected only when it is complete and
\* verified.
OtaFinish ==
    /\ ota = "Receiving"
    /\ \/ received = Chunks /\ Select /\ ota' = "ReadyToReboot" /\ received' = 0
       \/ OtaFails /\ UNCHANGED slot
    /\ UNCHANGED updates /\ HealthUntouched

-----------------------------------------------------------------------------
(* OtaBootHealth *)

Tick ==
    /\ health = "Pending" /\ age < Deadline /\ age' = age + 1
    /\ heartbeat' = IF heartbeat < Fresh THEN heartbeat + 1 ELSE Fresh
    /\ UNCHANGED <<slot, running, selected, ota, received, health, healthySince, lastSick, updates>>

\* The end of the observation: nothing reads its times any more.
Observed(state) ==
    /\ health' = state /\ age' = 0 /\ healthySince' = NotHealthy /\ heartbeat' = Fresh /\ lastSick' = 0
    /\ UNCHANGED <<running, selected, ota, received, updates>>

\* rollback marks the running image invalid and reboots; it is refused when
\* the other slot has no valid image, and it may fail.
RollBack ==
    \/ slot[Inactive] = "Valid" /\ HealthBoot([slot EXCEPT ![running] = "Invalid"], running)
    \/ Observed("RecoveryRequired") /\ UNCHANGED slot

\* confirmHealthy, and what follows when it fails
ConfirmHealthy ==
    \/ Observed("Confirmed") /\ slot' = [slot EXCEPT ![running] = "Valid"]
    \/ RollBack

\* Mutant: a fault does not start the healthy time afresh.
PollSickKeeps(fit) ==
    /\ healthySince' = healthySince /\ lastSick' = age
    /\ UNCHANGED <<slot, running, selected, ota, received, health, age, heartbeat, updates>>

\* A poll that finds a fault
PollSick(fit) ==
    /\ ~fit /\ healthySince' = NotHealthy /\ lastSick' = age
    /\ UNCHANGED <<slot, running, selected, ota, received, health, age, heartbeat, updates>>

\* Mutant: a poll that finds a fault returns before it looks at the deadline.
ExpiredAfterFault == age >= Deadline /\ healthySince # NotHealthy

\* The deadline comes first: a candidate that becomes healthy then is late.
Expired == age >= Deadline

\* poll: ok stands for posture, sensors, queue and connection.
Poll(ok) ==
    /\ health = "Pending"
    /\ LET fit == ok /\ heartbeat < Fresh
           since == IF healthySince = NotHealthy THEN age ELSE healthySince
       IN \/ Expired /\ RollBack
          \/ ~Expired /\ ~fit /\ PollSick(fit)
          \/ ~Expired /\ fit /\ age - since >= HealthyFor /\ ConfirmHealthy
          \/ /\ ~Expired /\ fit /\ age - since < HealthyFor /\ healthySince' = since
             /\ UNCHANGED <<slot, running, selected, ota, received, health, age, heartbeat,
                            lastSick, updates>>

-----------------------------------------------------------------------------
(* Properties *)

\* Whatever update is written, refused or cut off, the bootloader has an image
\* that was confirmed, and it runs one that is valid or under observation.
BootableImage ==
    /\ \E s \in Slots : slot[s] = "Valid"
    /\ slot[running] \in {"Pending", "Valid"}

\* An image is confirmed only before its deadline, after HealthyFor ticks
\* without a poll that saw a fault, with a heartbeat of this boot that is fresh.
ConfirmedOnlyHealthy ==
    [][\A s \in Slots : slot[s] = "Pending" /\ slot'[s] = "Valid" =>
          /\ age < Deadline /\ age - lastSick >= HealthyFor /\ heartbeat < Fresh]_healthVars
=============================================================================
