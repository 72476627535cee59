------------------------- MODULE ManagedDeviceProofs -------------------------
(***************************************************************************)
(* The safety properties of ManagedDevice for every number of updates,     *)
(* revisions, faults and uses of the settings page, and for every deadline *)
(* and healthy time.                                                       *)
(*                                                                         *)
(* The two halves meet in restarts and heartbeats only, so there is one    *)
(* inductive invariant for each: HealthInv says which slot is the fallback *)
(* at each point of an update, ConfigInv that RAM is never ahead of flash  *)
(* and the app never ahead of RAM.                                         *)
(*                                                                         *)
(* The last part is about the recording beside them, LocalRecording: its   *)
(* properties for every number of days, rows, short prints and power       *)
(* losses and for every flush interval, from RecordingInv.                 *)
(***************************************************************************)
EXTENDS ManagedDevice, LocalRecording, FiniteSetTheorems, SequenceTheorems, TLAPS

-----------------------------------------------------------------------------
(* Images *)

\* The types that do not depend on a bound
HealthTypes ==
    /\ slot \in [Slots -> {"Empty", "New", "Pending", "Valid", "Invalid"}]
    /\ running \in Slots /\ selected \in Slots
    /\ ota \in {"Idle", "Receiving", "ReadyToReboot"}
    /\ health \in {"Inactive", "Pending", "Confirmed", "RecoveryRequired"}
    /\ age \in 0 .. Deadline /\ healthySince \in NotHealthy .. Deadline
    /\ heartbeat \in 0 .. Fresh /\ lastSick \in 0 .. Deadline

\* An image that is not confirmed has a confirmed one behind it, and the writer
\* works only while the running image is confirmed.
Fallback ==
    /\ slot[running] \in {"Pending", "Valid"} /\ slot[Inactive] # "Pending"
    /\ slot[running] = "Pending" => slot[Inactive] = "Valid" /\ ota = "Idle"
    /\ health = "Pending" => slot[running] = "Pending"

\* Another slot is selected only when a whole image is in it.
Selection ==
    selected # running => slot[Inactive] = "New" /\ ota = "ReadyToReboot"

\* The healthy time began after the last fault.
Times ==
    /\ lastSick <= age
    /\ healthySince # NotHealthy => lastSick <= healthySince /\ healthySince <= age

HealthInv == HealthTypes /\ Fallback /\ Selection /\ Times

\* The inactive slot is the other one.
LEMMA OtherSlot ==
    ASSUME running \in Slots
    PROVE  Inactive \in Slots /\ Inactive # running /\ Slots = {running, Inactive}
BY DEF Slots, Inactive

\* A boot of the selected slot, at any moment: what runs is confirmed, or has
\* the confirmed image behind it.
LEMMA BootSafe ==
    ASSUME HealthInv, HealthBoot(slot, selected)
    PROVE  HealthInv'
<1> USE DEF HealthInv, HealthTypes
<1>1. Inactive \in Slots /\ Inactive # running
  BY OtherSlot
<1>2. /\ age' = 0 /\ healthySince' = NotHealthy /\ heartbeat' = Fresh /\ lastSick' = 0
      /\ ota' = "Idle" /\ selected' = running' /\ health' = BeginHealth(slot'[running'])
  BY DEF HealthBoot
<1>3. Times' /\ Selection'
  BY <1>2 DEF Times, Selection
<1>4. HealthTypes' /\ Fallback'
  <2>0. /\ age' \in 0 .. Deadline /\ healthySince' \in NotHealthy .. Deadline
        /\ heartbeat' \in 0 .. Fresh /\ lastSick' \in 0 .. Deadline
    BY <1>2, HealthAssumption DEF NotHealthy
  <2>1. CASE selected # running
    <3>1. selected = Inactive /\ slot[selected] = "New" /\ slot[running] = "Valid"
      BY <2>1 DEF Selection, Fallback, Slots, Inactive
    <3>2. slot' = [slot EXCEPT ![selected] = "Pending"] /\ running' = selected
      BY <3>1 DEF HealthBoot, Started
    <3>3. Inactive' = running
      BY <3>1, <3>2 DEF Inactive, Slots
    <3>4. slot'[running'] = "Pending" /\ slot'[Inactive'] = "Valid"
      BY <2>1, <3>1, <3>2, <3>3
    <3> QED BY <1>2, <2>0, <3>2, <3>4 DEF Fallback, BeginHealth
  <2>2. CASE selected = running /\ slot[running] = "Valid"
    <3>1. slot' = slot /\ running' = running
      BY <2>2 DEF HealthBoot, Started
    <3> QED BY <1>2, <2>0, <2>2, <3>1 DEF Fallback, BeginHealth, Inactive
  <2>3. CASE selected = running /\ slot[running] = "Pending"
    <3>1. slot' = [slot EXCEPT ![running] = "Invalid"] /\ running' = Inactive
      BY <2>3 DEF HealthBoot, Started, Inactive
    <3>2. slot'[running'] = "Valid"
      BY <1>1, <2>3, <3>1 DEF Fallback
    <3>3. Inactive' = running
      BY <3>1 DEF Inactive, Slots
    <3>4. slot'[Inactive'] = "Invalid"
      BY <3>1, <3>3
    <3> QED BY <1>1, <1>2, <2>0, <3>1, <3>2, <3>4 DEF Fallback, BeginHealth
  <2> QED BY <2>1, <2>2, <2>3 DEF Fallback
<1> QED BY <1>3, <1>4

\* A roll back goes to the confirmed image, or nothing but the report changes.
LEMMA RollBackSafe ==
    ASSUME HealthInv, health = "Pending", RollBack
    PROVE  HealthInv'
<1> USE DEF HealthInv, HealthTypes
<1>1. Inactive \in Slots /\ Inactive # running
  BY OtherSlot
<1>2. /\ 0 \in 0 .. Deadline /\ NotHealthy \in NotHealthy .. Deadline /\ Fresh \in 0 .. Fresh
  BY HealthAssumption DEF NotHealthy
<1>3. CASE Observed("RecoveryRequired") /\ UNCHANGED slot
  BY <1>2, <1>3 DEF Observed, Fallback, Selection, Times, Inactive
<1>4. CASE slot[Inactive] = "Valid" /\ HealthBoot([slot EXCEPT ![running] = "Invalid"], running)
  <2>1. /\ slot' = [[slot EXCEPT ![running] = "Invalid"] EXCEPT ![running] = "Invalid"]
        /\ running' = Inactive /\ selected' = Inactive
    BY <1>4 DEF HealthBoot, Started, Inactive
  <2>2. slot'[running'] = "Valid" /\ slot' \in [Slots -> {"Empty", "New", "Pending", "Valid", "Invalid"}]
    BY <1>1, <1>4, <2>1
  <2>3. /\ age' = 0 /\ healthySince' = NotHealthy /\ heartbeat' = Fresh /\ lastSick' = 0
        /\ ota' = "Idle" /\ selected' = running' /\ health' = BeginHealth(slot'[running'])
    BY <1>4 DEF HealthBoot
  <2>4. Inactive' = running
    BY <2>1 DEF Inactive, Slots
  <2>5. slot'[Inactive'] = "Invalid"
    BY <2>1, <2>4
  <2> QED BY <1>1, <1>2, <2>1, <2>2, <2>3, <2>5 DEF Fallback, Selection, Times, BeginHealth
<1> QED BY <1>3, <1>4 DEF RollBack

\* The healthy time that poll has measured when it confirms
LEMMA HealthyTime ==
    ASSUME HealthInv, HealthyFor \in Nat \ {0},
           age - (IF healthySince = NotHealthy THEN age ELSE healthySince) >= HealthyFor
    PROVE  age - lastSick >= HealthyFor
<1> USE DEF HealthInv, HealthTypes
<1>1. age \in Int /\ healthySince \in Int /\ lastSick \in Int
  BY HealthAssumption DEF NotHealthy
<1>2. healthySince # NotHealthy
  BY <1>1
<1> QED BY <1>1, <1>2 DEF Times

\* The four outcomes of a poll
LEMMA PollSafe ==
    ASSUME HealthInv, NEW ok \in BOOLEAN, Poll(ok)
    PROVE  HealthInv'
<1> USE DEF HealthInv, HealthTypes
<1>1. health = "Pending" /\ slot[running] = "Pending" /\ slot[Inactive] = "Valid" /\ ota = "Idle"
  BY DEF Poll, Fallback
<1>2. age \in Int /\ healthySince \in Int /\ lastSick \in Int /\ Deadline \in Nat
  BY HealthAssumption DEF NotHealthy
<1>3. CASE RollBack
  BY <1>1, <1>3, RollBackSafe
<1>4. CASE PollSick(ok /\ heartbeat < Fresh)
  <2>1. healthySince' \in NotHealthy .. Deadline
    BY <1>4, HealthAssumption DEF PollSick, NotHealthy
  <2> QED BY <1>2, <1>4, <2>1 DEF PollSick, Fallback, Selection, Times, Inactive
<1>5. CASE Observed("Confirmed") /\ slot' = [slot EXCEPT ![running] = "Valid"]
  <2>1. 0 \in 0 .. Deadline /\ NotHealthy \in NotHealthy .. Deadline /\ Fresh \in 0 .. Fresh
    BY HealthAssumption DEF NotHealthy
  <2>2. selected = running
    BY <1>1 DEF Selection
  <2>3. Inactive' = Inactive /\ slot'[Inactive] # "Pending"
    BY <1>1, <1>5, OtherSlot DEF Observed, Inactive
  <2> QED BY <1>5, <2>1, <2>2, <2>3 DEF Observed, Fallback, Selection, Times
<1>6. CASE /\ healthySince' = IF healthySince = NotHealthy THEN age ELSE healthySince
           /\ UNCHANGED <<slot, running, selected, ota, received, health, age, heartbeat,
                          lastSick, updates>>
  <2>1. healthySince' \in NotHealthy .. Deadline
    BY <1>2, <1>6, HealthAssumption DEF NotHealthy
  <2> QED BY <1>2, <1>6, <2>1 DEF Fallback, Selection, Times, Inactive
<1> QED BY <1>3, <1>4, <1>5, <1>6 DEF Poll, ConfirmHealthy

\* The writer: it touches the slot that does not run, and only behind a
\* confirmed image.
LEMMA UpdateSafe ==
    ASSUME HealthInv, OtaBegin \/ OtaAppend \/ OtaFinish
    PROVE  HealthInv'
<1> USE DEF HealthInv, HealthTypes
<1>1. Inactive \in Slots /\ Inactive # running
  BY OtherSlot
<1>2. Times' /\ running' = running /\ Inactive' = Inactive /\ health' = health
  BY DEF OtaBegin, OtaAppend, OtaFinish, HealthUntouched, Times, Inactive
<1>3. CASE OtaBegin
  <2>1. slot' = [slot EXCEPT ![Inactive] = "Empty"] /\ slot[running] = "Valid" /\ ota = "Idle"
    BY <1>3 DEF OtaBegin, MayUpdate, Erased
  <2>2. selected = running /\ selected' = selected
    BY <1>3, <2>1 DEF OtaBegin, OtaFails, Selection
  <2>3. ota' \in {"Idle", "Receiving"}
    BY <1>3 DEF OtaBegin, OtaFails
  <2> QED BY <1>1, <1>2, <1>3, <2>1, <2>2, <2>3 DEF OtaBegin, HealthUntouched, Fallback, Selection
<1>4. CASE OtaAppend
  <2>1. ota = "Receiving" /\ ota' \in {"Idle", "Receiving"} /\ slot' = slot /\ selected' = selected
    BY <1>4 DEF OtaAppend, OtaFails
  <2>2. selected = running /\ slot[running] = "Valid"
    BY <2>1 DEF Selection, Fallback
  <2> QED BY <1>2, <1>4, <2>1, <2>2 DEF OtaAppend, HealthUntouched, Fallback, Selection
<1>5. CASE OtaFinish
  <2>1. ota = "Receiving" /\ selected = running /\ slot[running] = "Valid"
    BY <1>5 DEF OtaFinish, Selection, Fallback
  <2>2. CASE Select /\ ota' = "ReadyToReboot"
    BY <1>1, <1>2, <1>5, <2>1, <2>2 DEF OtaFinish, Select, HealthUntouched, Fallback, Selection
  <2>3. CASE OtaFails /\ UNCHANGED slot
    BY <1>1, <1>2, <1>5, <2>1, <2>3 DEF OtaFinish, OtaFails, HealthUntouched, Fallback, Selection
  <2> QED BY <1>5, <2>2, <2>3 DEF OtaFinish
<1> QED BY <1>3, <1>4, <1>5

-----------------------------------------------------------------------------
(* Settings *)

\* A record whose version, if any, comes with its own settings or the page's
Whole(r) == r.applied > 0 => r.from \in {r.applied, Local}

SomeRecord == [format : Int, upload : BOOLEAN, remote : BOOLEAN, applied : Nat, from : Int]
SomeDocument == [version : Int, upload : BOOLEAN, ok : BOOLEAN]

ConfigTypes ==
    /\ flash \in SomeRecord /\ ram \in SomeRecord /\ live \in SomeRecord
    /\ pending \in SomeDocument /\ answer \in SomeDocument /\ desired \in SomeDocument
    /\ request \in Nat \cup {Nothing} /\ known \in Nat

\* LiveUpload reports what RAM has; flash is as far or further, and what was
\* reported, or is on its way, is not beyond RAM.
Ahead ==
    /\ live.applied = ram.applied /\ ram.applied <= Migrated(flash).applied
    /\ known <= ram.applied /\ request <= ram.applied

ConfigInv == ConfigTypes /\ VersionsAreWhole /\ Ahead

\* begin keeps a record whole, and a second migration changes nothing.
LEMMA MigrationWhole ==
    ASSUME NEW r \in SomeRecord, Whole(r)
    PROVE  /\ Migrated(r) \in SomeRecord /\ Whole(Migrated(r))
           /\ Migrated(Migrated(r)) = Migrated(r) /\ Migrated(r).format = 5
<1>1. Migrated(r) \in SomeRecord /\ Migrated(r).format = 5
  <2>1. CASE r.format = 5
    BY <2>1 DEF Migrated
  <2>2. CASE r.format \in {3, 4}
    BY <2>2 DEF Migrated, SomeRecord
  <2>3. Defaults \in SomeRecord /\ Defaults.format = 5 /\ r.upload \in BOOLEAN /\ r.from \in Int
    BY DEF SomeRecord, Defaults
  <2>4. CASE r.format = 2
    BY <2>3, <2>4 DEF Migrated, SomeRecord
  <2>5. CASE r.format = 1
    BY <2>3, <2>5 DEF Migrated, SomeRecord
  <2>6. CASE r.format \notin 1 .. 5
    BY <2>3, <2>6 DEF Migrated, SomeRecord
  <2> QED BY <2>1, <2>2, <2>4, <2>5, <2>6 DEF SomeRecord
<1>2. Whole(Migrated(r))
  BY DEF Migrated, SomeRecord, Defaults, Whole
<1>3. Migrated(Migrated(r)) = Migrated(r)
  BY <1>1 DEF Migrated
<1> QED BY <1>1, <1>2, <1>3

\* A boot from a record that is as far as RAM was
LEMMA ConfigBootSafe ==
    ASSUME ConfigInv, NEW r \in SomeRecord, Whole(r), ram.applied <= Migrated(r).applied,
           ConfigBoot(r)
    PROVE  ConfigInv'
<1> USE DEF ConfigInv
<1>1. /\ ram' = Migrated(r) /\ live' = Migrated(r) /\ flash' \in {r, Migrated(r)}
      /\ pending' = None /\ request' = Nothing /\ answer' = None
      /\ desired' = desired /\ known' = known
  BY DEF ConfigBoot, Apply
<1>2. /\ Migrated(r) \in SomeRecord /\ Whole(Migrated(r))
      /\ Migrated(Migrated(r)) = Migrated(r)
  BY MigrationWhole
<1>3. Whole(flash') /\ Migrated(flash') = Migrated(r) /\ flash' \in SomeRecord
  BY <1>1, <1>2
<1>4. ConfigTypes'
  BY <1>1, <1>2, <1>3 DEF ConfigTypes, SomeDocument, None, Nothing
<1>5. VersionsAreWhole'
  BY <1>1, <1>2, <1>3 DEF VersionsAreWhole, Whole
<1>6. Ahead'
  <2>1. ram.applied \in Nat /\ Migrated(r).applied \in Nat /\ known \in Nat
    BY <1>2 DEF ConfigTypes, SomeRecord
  <2>2. Migrated(flash)' = Migrated(flash')
    BY DEF Migrated, Defaults
  <2>3. Migrated(flash)'.applied = Migrated(r).applied
    BY <1>3, <2>2
  <2> QED BY <1>1, <2>1, <2>3 DEF Ahead, Nothing
<1> QED BY <1>4, <1>5, <1>6

\* A migration never loses a version that flash had in a format that knows one.
LEMMA MigratedIsCurrent ==
    ASSUME NEW r \in SomeRecord, r.format = 5
    PROVE  Migrated(r) = r
BY DEF Migrated

LEMMA AppliedWhole ==
    ASSUME NEW doc \in SomeDocument, doc.version \in Nat
    PROVE  /\ Applied(doc) \in SomeRecord /\ Whole(Applied(doc))
           /\ Migrated(Applied(doc)) = Applied(doc) /\ Applied(doc).applied = doc.version
BY DEF Applied, SomeRecord, SomeDocument, Whole, Migrated

\* Every restart
LEMMA RebootSafe ==
    ASSUME ConfigInv, ApplyConfig \/ ConfigBoot(flash)
    PROVE  ConfigInv'
<1> USE DEF ConfigInv
<1>1. CASE ConfigBoot(flash)
  BY <1>1, ConfigBootSafe DEF ConfigTypes, VersionsAreWhole, Whole, Ahead
<1>2. CASE ApplyConfig
  <2>1. /\ pending \in SomeDocument /\ pending.version > ram.applied
        /\ pending.version \in Int /\ ram.applied \in Nat
    BY <1>2 DEF ApplyConfig, MayApply, ConfigTypes, SomeDocument, SomeRecord
  <2>2. pending.version \in Nat
    BY <2>1
  <2>3. /\ Applied(pending) \in SomeRecord /\ Whole(Applied(pending))
        /\ Migrated(Applied(pending)).applied = pending.version
    BY <2>1, <2>2, AppliedWhole
  <2>4. ConfigBoot(Applied(pending))
    BY <1>2 DEF ApplyConfig
  <2> QED BY <2>1, <2>3, <2>4, ConfigBootSafe
<1> QED BY <1>1, <1>2

\* The settings page and a rejected revision: whatever of a failing commit
\* reached flash, RAM is not ahead of it.
LEMMA SettingsSafe ==
    ASSUME ConfigInv, RejectConfig \/ LocalSave
    PROVE  ConfigInv'
<1> USE DEF ConfigInv
<1>0. ram.applied \in Nat /\ flash \in SomeRecord /\ ram \in SomeRecord /\ live \in SomeRecord
  BY DEF ConfigTypes, SomeRecord
<1>1. CASE RejectConfig
  <2>1. /\ ram' = ram /\ live' = live /\ request' = request /\ answer' = answer
        /\ desired' = desired /\ known' = known /\ pending' = None
    BY <1>1 DEF RejectConfig
  <2>2. CASE flash' = flash
    BY <2>1, <2>2 DEF ConfigTypes, VersionsAreWhole, Ahead, SomeDocument, None, Nothing, Migrated, Defaults
  <2>3. CASE MayApply(pending) /\ flash' = Applied(pending)
    <3>1. pending \in SomeDocument /\ pending.version \in Nat /\ pending.version > ram.applied
      BY <1>0, <2>3 DEF MayApply, ConfigTypes, SomeDocument
    <3>2. flash' \in SomeRecord /\ Whole(flash') /\ Migrated(flash').applied = pending.version
      BY <2>3, <3>1, AppliedWhole
    <3>3. Migrated(flash)' = Migrated(flash')
      BY DEF Migrated, Defaults
    <3> QED BY <1>0, <2>1, <3>1, <3>2, <3>3
            DEF ConfigTypes, VersionsAreWhole, Whole, Ahead, SomeDocument, None, Nothing
  <2> QED BY <1>1, <2>2, <2>3 DEF RejectConfig, SaveFails
<1>2. CASE LocalSave
  <2>1. PICK u \in BOOLEAN, m \in BOOLEAN :
          LET r == [format |-> 5, upload |-> u, remote |-> m, applied |-> ram.applied, from |-> Local]
          IN \/ flash' = r /\ ram' = r
             \/ flash' \in {flash, r} /\ ram' = ram
    BY <1>2 DEF LocalSave, Apply, SaveFails
  <2> DEFINE r == [format |-> 5, upload |-> u, remote |-> m, applied |-> ram.applied, from |-> Local]
  <2>2. /\ live' = live /\ request' = request /\ answer' = answer
        /\ desired' = desired /\ known' = known /\ pending' = pending
    BY <1>2 DEF LocalSave
  <2>3. r \in SomeRecord /\ Whole(r) /\ r.applied = ram.applied /\ Migrated(r).applied = ram.applied
    BY <1>0 DEF SomeRecord, Whole, Local, Migrated
  <2>4. Migrated(flash)' = Migrated(flash')
    BY DEF Migrated, Defaults
  <2>5. ram' \in {ram, r} /\ flash' \in {flash, r}
    BY <2>1
  <2>6. ram'.applied = ram.applied
    BY <2>3, <2>5
  <2>7. ram.applied <= Migrated(flash').applied
    BY <1>0, <2>3, <2>5 DEF Ahead
  <2> HIDE DEF r
  <2>8. ConfigTypes' /\ VersionsAreWhole'
    BY <1>0, <2>2, <2>3, <2>5 DEF ConfigTypes, VersionsAreWhole, Whole
  <2> QED BY <2>2, <2>4, <2>6, <2>7, <2>8 DEF Ahead
<1> QED BY <1>1, <1>2

\* The request, its answer and the app
LEMMA ExchangeSafe ==
    ASSUME ConfigInv, SubmitStatus \/ HandleStatus \/ Desire \/ Answer
    PROVE  ConfigInv'
<1> USE DEF ConfigInv
<1>0. /\ ram.applied \in Nat /\ live.applied \in Nat
      /\ Migrated(flash)' = Migrated(flash')
  BY DEF ConfigTypes, SomeRecord, Migrated, Defaults
<1>1. /\ flash' = flash /\ ram' = ram /\ live' = live
  BY DEF SubmitStatus, HandleStatus, Desire, Answer
<1>2. VersionsAreWhole'
  BY <1>1 DEF VersionsAreWhole
<1>3. CASE SubmitStatus
  <2>1. request' \in {live.applied, 0}
    BY <1>3 DEF SubmitStatus
  <2> QED BY <1>0, <1>1, <1>2, <1>3, <2>1 DEF SubmitStatus, ConfigTypes, Ahead
<1>4. CASE HandleStatus
  <2>1. pending' \in {pending, answer}
    BY <1>4 DEF HandleStatus, Consume
  <2> QED BY <1>0, <1>1, <1>2, <1>4, <2>1
          DEF HandleStatus, ConfigTypes, Ahead, SomeDocument, None, Nothing
<1>5. CASE Desire
  <2>1. desired' \in SomeDocument
    BY <1>5 DEF Desire, ConfigTypes, SomeDocument
  <2> QED BY <1>0, <1>1, <1>2, <1>5, <2>1 DEF Desire, ConfigTypes, Ahead
<1>6. CASE Answer
  <2>1. known' \in {request, known} /\ request \in Nat /\ answer' \in {desired, Failed}
    BY <1>6 DEF Answer, ConfigTypes
  <2>2. ConfigTypes'
    <3>1. Failed \in SomeDocument
      BY DEF SomeDocument, Failed, Nothing
    <3> QED BY <1>1, <1>6, <2>1, <3>1 DEF Answer, ConfigTypes
  <2>3. Ahead'
    BY <1>0, <1>1, <1>6, <2>1 DEF Answer, Ahead
  <2> QED BY <1>2, <2>2, <2>3
<1> QED BY <1>3, <1>4, <1>5, <1>6
-----------------------------------------------------------------------------

-----------------------------------------------------------------------------
(* The device *)

DeviceInv == HealthInv /\ ConfigInv

LEMMA DeviceInit == Init => DeviceInv
<1> SUFFICES ASSUME Init PROVE DeviceInv
  OBVIOUS
<1>1. HealthInv
  <2> USE DEF Init, HealthInit
  <2>1. HealthTypes
    BY HealthAssumption DEF HealthTypes, Slots, NotHealthy
  <2>2. Fallback /\ Selection /\ Times
    BY DEF Fallback, Selection, Times, Slots, NotHealthy, Inactive
  <2> QED BY <2>1, <2>2 DEF HealthInv
<1>2. ConfigInv
  <2>1. PICK f \in Formats :
          LET v == IF f >= 3 THEN 1 ELSE 0
              r == [format |-> f, upload |-> TRUE, remote |-> TRUE, applied |-> v,
                    from |-> IF f = 2 THEN Local ELSE v]
          IN /\ ram = Migrated(r) /\ live = Migrated(r)
             /\ flash \in {r, Migrated(r)}
             /\ known = v /\ desired = [version |-> v, upload |-> TRUE, ok |-> TRUE]
    BY DEF Init, ConfigInit
  <2> DEFINE v == IF f >= 3 THEN 1 ELSE 0
  <2> DEFINE r == [format |-> f, upload |-> TRUE, remote |-> TRUE, applied |-> v,
                   from |-> IF f = 2 THEN Local ELSE v]
  <2>2. r \in SomeRecord /\ Whole(r) /\ v \in Nat
    BY DEF SomeRecord, Whole, Local, Formats
  <2>3. Migrated(r).applied = v
    BY DEF Migrated, Defaults, Formats
  <2>4. ram = Migrated(r) /\ live = Migrated(r) /\ flash \in {r, Migrated(r)} /\ known = v
        /\ desired = [version |-> v, upload |-> TRUE, ok |-> TRUE]
    BY <2>1
  <2>5. pending = None /\ request = Nothing /\ answer = None
    BY DEF Init, ConfigInit
  <2> HIDE DEF r, v
  <2>6. /\ Migrated(r) \in SomeRecord /\ Whole(Migrated(r))
        /\ Migrated(Migrated(r)) = Migrated(r)
    BY <2>2, MigrationWhole
  <2>7. ConfigTypes
    BY <2>2, <2>4, <2>5, <2>6 DEF ConfigTypes, SomeDocument, None, Nothing
  <2>8. VersionsAreWhole
    BY <2>2, <2>4, <2>6 DEF VersionsAreWhole, Whole
  <2>9. Ahead
    BY <2>2, <2>3, <2>4, <2>5, <2>6 DEF Ahead, Nothing
  <2> QED BY <2>7, <2>8, <2>9 DEF ConfigInv
<1> QED BY <1>1, <1>2 DEF DeviceInv

\* A step of the other half
LEMMA HealthKept ==
    ASSUME HealthInv, UNCHANGED healthVars
    PROVE  HealthInv'
BY DEF HealthInv, HealthTypes, Fallback, Selection, Times, Inactive, healthVars

LEMMA ConfigKept ==
    ASSUME ConfigInv, UNCHANGED configVars
    PROVE  ConfigInv'
BY DEF ConfigInv, ConfigTypes, VersionsAreWhole, Ahead, Migrated, Defaults, configVars

LEMMA DeviceStep ==
    ASSUME DeviceInv, [Next]_vars
    PROVE  DeviceInv'
<1> USE DEF DeviceInv
<1>1. CASE Status
  <2>1. ConfigInv'
    BY <1>1, ExchangeSafe DEF Status
  <2>2. HealthInv'
    <3>1. CASE UNCHANGED healthVars
      BY <3>1, HealthKept
    <3>2. CASE /\ heartbeat' \in {0, heartbeat}
               /\ UNCHANGED <<slot, running, selected, ota, received, health, age, healthySince,
                              lastSick, updates>>
      BY <3>2, HealthAssumption
         DEF HealthInv, HealthTypes, Fallback, Selection, Times, Inactive
    <3> QED BY <1>1, <3>1, <3>2 DEF Status
  <2> QED BY <2>1, <2>2
<1>2. CASE App \/ Settings
  BY <1>2, ExchangeSafe, SettingsSafe, HealthKept DEF App, Settings
<1>3. CASE Reboot
  BY <1>3, BootSafe, RebootSafe DEF Reboot, Restart, PowerLoss
<1>4. CASE Update
  BY <1>4, UpdateSafe, ConfigKept DEF Update
<1>5. CASE UpdateReboot
  BY <1>5, BootSafe, RebootSafe DEF UpdateReboot
<1>6. CASE Health
  <2>1. CASE Tick /\ UNCHANGED configVars
    <3>1. /\ age' \in 0 .. Deadline /\ heartbeat' \in 0 .. Fresh /\ lastSick' = lastSick
          /\ lastSick \in Int /\ healthySince \in Int /\ age \in Int /\ age' = age + 1
      BY <2>1, HealthAssumption DEF Tick, HealthInv, HealthTypes, NotHealthy
    <3>2. HealthInv'
      BY <2>1, <3>1 DEF Tick, HealthInv, HealthTypes, Fallback, Selection, Times, Inactive
    <3> QED BY <2>1, <3>2, ConfigKept
  <2>2. CASE \E ok \in BOOLEAN : Poll(ok)
    <3>1. HealthInv'
      BY <2>2, PollSafe
    <3> QED BY <1>6, <2>1, <3>1, RebootSafe, ConfigKept DEF Health
  <2> QED BY <1>6, <2>1, <2>2 DEF Health
<1>7. CASE UNCHANGED vars
  BY <1>7, HealthKept, ConfigKept DEF vars
<1> QED BY <1>1, <1>2, <1>3, <1>4, <1>5, <1>6, <1>7 DEF Next

\* The inductive invariant holds in every reachable state.
THEOREM DeviceInvariant == Spec => []DeviceInv
<1>1. DeviceInv /\ [Next]_vars => DeviceInv'
  BY DeviceStep
<1> QED BY <1>1, DeviceInit, PTL DEF Spec

\* Whatever update is delivered, cut off or refused, and whenever a
\* configuration, the settings page or a power loss restarts the logger, the
\* bootloader has a confirmed image: SignedOta::begin erases the other slot
\* only behind a confirmed one.
THEOREM DeviceAlwaysBoots == Spec => []BootableImage
<1>1. DeviceInv => BootableImage
  <2> SUFFICES ASSUME DeviceInv PROVE BootableImage
    OBVIOUS
  <2>1. running \in Slots /\ Inactive \in Slots
    BY OtherSlot DEF DeviceInv, HealthInv, HealthTypes
  <2> QED BY <2>1 DEF DeviceInv, HealthInv, Fallback, BootableImage
<1> QED BY <1>1, DeviceInvariant, PTL

\* An image is confirmed only in time, after HealthyFor ticks in which no poll
\* saw a fault, and with a fresh heartbeat (OtaBootHealth::poll).
THEOREM OnlyHealthyConfirmed == Spec => ConfirmedOnlyHealthy
<1> DEFINE Confirms ==
      \A s \in Slots : slot[s] = "Pending" /\ slot'[s] = "Valid" =>
          /\ age < Deadline /\ age - lastSick >= HealthyFor /\ heartbeat < Fresh
<1>1. DeviceInv /\ [Next]_vars => [Confirms]_healthVars
  <2> SUFFICES ASSUME DeviceInv, [Next]_vars, NEW s \in Slots,
                      slot[s] = "Pending", slot'[s] = "Valid"
               PROVE  age < Deadline /\ age - lastSick >= HealthyFor /\ heartbeat < Fresh
    OBVIOUS
  <2> USE DEF DeviceInv, HealthInv, HealthTypes
  <2>0. running \in Slots /\ Inactive \in Slots /\ Slots = {running, Inactive}
    BY OtherSlot
  <2>1. s = running
    BY <2>0 DEF Fallback
  <2>2. ASSUME NEW sel \in Slots, HealthBoot(slot, sel) PROVE FALSE
    BY <2>2 DEF HealthBoot, Started, Slots
  <2>3. ~Status /\ ~App /\ ~Settings /\ ~(UNCHANGED vars)
    BY DEF Status, App, Settings, vars, healthVars
  <2>4. ~Reboot /\ ~UpdateReboot
    BY <2>2 DEF Reboot, UpdateReboot
  <2>5. ~Update
    BY <2>1 DEF Update, OtaBegin, OtaAppend, OtaFinish, MayUpdate, Select, Fallback
  <2>6. PICK ok \in BOOLEAN : Poll(ok)
    BY <2>3, <2>4, <2>5 DEF Next, Health, Tick
  <2>7. ~RollBack
    BY <2>1 DEF RollBack, HealthBoot, Started, Observed, Slots
  <2>8. /\ ~Expired /\ heartbeat < Fresh
        /\ age - (IF healthySince = NotHealthy THEN age ELSE healthySince) >= HealthyFor
    BY <2>6, <2>7 DEF Poll, PollSick
  <2>9. age - lastSick >= HealthyFor
    BY <2>8, HealthyTime, HealthAssumption
  <2>10. age < Deadline
    BY <2>8, HealthAssumption DEF Expired
  <2> QED BY <2>8, <2>9, <2>10
<1>2. Spec => [][Confirms]_healthVars
  BY <1>1, DeviceInvariant, PTL DEF Spec
<1> QED BY <1>2 DEF ConfirmedOnlyHealthy

\* A revision that the app was told is applied survives every reset: what is
\* reported was loaded from flash, and no commit that fails half way, no use of
\* the settings page and no migration takes flash behind it.
THEOREM ReportsAreDurable == Spec => []ReportedIsDurable
<1>1. DeviceInv => ReportedIsDurable
  <2> SUFFICES ASSUME DeviceInv PROVE ReportedIsDurable
    OBVIOUS
  <2>1. flash \in SomeRecord /\ Whole(flash) /\ known \in Nat /\ ram.applied \in Nat
    BY DEF DeviceInv, ConfigInv, ConfigTypes, VersionsAreWhole, Whole, SomeRecord
  <2>2. Migrated(flash).applied \in Nat
    BY <2>1, MigrationWhole DEF SomeRecord
  <2> QED BY <2>1, <2>2 DEF DeviceInv, ConfigInv, Ahead, ReportedIsDurable
<1> QED BY <1>1, DeviceInvariant, PTL

\* No record, in flash, in RAM or in a report, claims a version with the
\* settings of another one, those of earlier formats included.
THEOREM VersionsNeverMixed == Spec => []VersionsAreWhole
<1>1. DeviceInv => VersionsAreWhole
  BY DEF DeviceInv, ConfigInv
<1> QED BY <1>1, DeviceInvariant, PTL

-----------------------------------------------------------------------------
(* Local recording *)

\* A fragment at the end of a file is known: logRow will end its line, or it was
\* there when the file was closed or the power was lost.
FragmentsKnown ==
    \A f \in Names : Torn(content[f]) =>
        Len(content[f]) \in left[f] \/ (f = file /\ incompleteRow)

\* Only the open file has rows that were not flushed, as many as logRow counted
\* at most.
UnflushedCounted ==
    /\ \A f \in Names : \A i \in 1 .. Len(content[f]) :
          content[f][i] = Row /\ i > flushed[f] => f = file
    /\ IsFiniteSet(Unflushed) /\ Cardinality(Unflushed) <= rowsSinceFlush

\* flushIfNeeded follows a row, in the file that is open, and leaves less than
\* FlushRows rows waiting.
FlushCalled ==
    /\ flushDue => file \in Names
    /\ ~flushDue => rowsSinceFlush < FlushRows

RecordingInv ==
    RecordingTypeOK /\ RowsStayWhole /\ FragmentsKnown /\ UnflushedCounted /\ FlushCalled

\* RowsStayWhole for one file s, with fragments at the ends l
RowsWhole(s, l) ==
    \A i \in 1 .. Len(s) : s[i] = Row => i > 1 /\ (s[i - 1].whole \/ i - 1 \in l)

LEMMA ItemFacts ==
    /\ Header \in Item /\ Row \in Item /\ Newline \in Item
    /\ Header # Row /\ Newline # Row
    /\ Header.whole /\ Row.whole /\ Newline.whole
    /\ \A x \in Item : [x EXCEPT !.whole = FALSE] \in Item
    /\ \A x \in Item : [x EXCEPT !.whole = FALSE] # Row /\ ~[x EXCEPT !.whole = FALSE].whole
BY DEF Header, Row, Newline, Item

LEMMA FilesTyped ==
    ASSUME RecordingTypeOK, NEW f \in Names
    PROVE  /\ content[f] \in Seq(Item) /\ Len(content[f]) \in Nat /\ DOMAIN content[f] = 1 .. Len(content[f])
           /\ flushed[f] \in Nat /\ flushed[f] <= Len(content[f]) /\ left[f] \in SUBSET Nat
BY LenProperties DEF RecordingTypeOK

LEMMA RowsWholeFacts ==
    ASSUME RecordingTypeOK
    PROVE  RowsStayWhole <=> \A f \in Names : RowsWhole(content[f], left[f])
BY FilesTyped DEF RowsStayWhole, RowsWhole

\* Which rows are not flushed
LEMMA UnflushedFacts ==
    ASSUME RecordingTypeOK
    PROVE  \A u : u \in Unflushed <=>
               \E f \in Names : \E i \in 1 .. Len(content[f]) :
                   u = <<f, i>> /\ content[f][i] = Row /\ i > flushed[f]
<1>1. \A f \in Names : DOMAIN content[f] = 1 .. Len(content[f])
  BY FilesTyped
<1> QED BY <1>1 DEF Unflushed

\* The date names a file.
LEMMA DateNamed == RecordingTypeOK => DateStamp \subseteq Names
BY RecordingAssumption DEF RecordingTypeOK, DateStamp, Names, Boot

\* ensureFileOpen closes another file flushed, and remembers its fragment.
LEMMA ClosedFacts ==
    ASSUME RecordingInv, NEW name \in Names
    PROVE  /\ Closed(name) \in [Names -> Nat]
           /\ \A f \in Names : /\ Closed(name)[f] >= flushed[f] /\ Closed(name)[f] <= Len(content[f])
                               /\ f = file /\ f # name => Closed(name)[f] = Len(content[f])
           /\ Closed(name)[name] = flushed[name]
<1>1. RecordingTypeOK /\ flushed \in [Names -> Nat] /\ file \in Names \cup {NoFile}
  BY DEF RecordingInv, RecordingTypeOK
<1>2. \A f \in Names : Len(content[f]) \in Nat /\ flushed[f] \in Nat /\ flushed[f] <= Len(content[f])
  BY <1>1, FilesTyped
<1>3. NoFile \notin Names
  BY DEF NoFile, Names, Boot
<1> QED BY <1>1, <1>2, <1>3 DEF Closed

LEMMA LeftFacts ==
    ASSUME RecordingInv, NEW name \in Names
    PROVE  /\ Left(name) \in [Names -> SUBSET Nat]
           /\ \A f \in Names : left[f] \subseteq Left(name)[f]
           /\ Left(name)[name] = left[name]
           /\ \A f \in Names : Torn(content[f]) /\ (f # name \/ f # file) =>
                 Len(content[f]) \in Left(name)[f]
<1>1. RecordingTypeOK /\ left \in [Names -> SUBSET Nat] /\ file \in Names \cup {NoFile} /\ FragmentsKnown
  BY DEF RecordingInv, RecordingTypeOK
<1>2. \A f \in Names : Len(content[f]) \in Nat
  BY <1>1, FilesTyped
<1>3. NoFile \notin Names
  BY DEF NoFile, Names, Boot
<1>4. CASE file \in {NoFile, name} \/ ~Torn(content[file])
  <2>1. Left(name) = left
    BY <1>4 DEF Left
  <2> QED BY <1>1, <1>3, <1>4, <2>1 DEF FragmentsKnown
<1>5. CASE ~(file \in {NoFile, name} \/ ~Torn(content[file]))
  <2>1. Left(name) = [left EXCEPT ![file] = left[file] \cup {Len(content[file])}]
    BY <1>5 DEF Left
  <2>2. file \in Names /\ file # name
    BY <1>1, <1>5
  <2> QED BY <1>1, <1>2, <2>1, <2>2 DEF FragmentsKnown
<1> QED BY <1>4, <1>5

\* Of the rows that were not flushed, those that are left once name is open
StillUnflushed(name) == IF content[name] = <<>> THEN {} ELSE Unflushed

LEMMA OpenedFacts ==
    ASSUME RecordingInv, ~flushDue, NEW name \in Names
    PROVE  /\ Opened(name) \in Seq(Item) /\ Opened(name) # <<>>
           /\ RowsWhole(Opened(name), left[name])
           /\ OpenedFlushed(name) \in [Names -> Nat]
           /\ OpenedFlushed(name)[name] <= Len(Opened(name))
           /\ \A f \in Names : f # name => OpenedFlushed(name)[f] = Closed(name)[f]
           /\ OpenedRows(name) \in 0 .. FlushRows - 1
           /\ IsFiniteSet(StillUnflushed(name))
           /\ Cardinality(StillUnflushed(name)) <= OpenedRows(name)
           /\ \A i \in 1 .. Len(Opened(name)) :
                 Opened(name)[i] = Row /\ i > OpenedFlushed(name)[name]
                     => <<name, i>> \in StillUnflushed(name)
<1>1. /\ RecordingTypeOK /\ UnflushedCounted /\ RowsWhole(content[name], left[name])
      /\ rowsSinceFlush \in 0 .. FlushRows - 1 /\ FlushRows \in Nat \ {0}
  BY RowsWholeFacts, RecordingAssumption DEF RecordingInv, RecordingTypeOK, FlushCalled
<1>2. /\ Closed(name) \in [Names -> Nat] /\ Closed(name)[name] = flushed[name]
      /\ content[name] \in Seq(Item) /\ flushed[name] <= Len(content[name])
  BY <1>1, ClosedFacts, FilesTyped
<1>3. CASE content[name] = <<>>
  <2>1. /\ Opened(name) = <<Header>> /\ OpenedRows(name) = 0 /\ StillUnflushed(name) = {}
        /\ OpenedFlushed(name) = [Closed(name) EXCEPT ![name] = 1]
    BY <1>3 DEF Opened, OpenedRows, StillUnflushed, OpenedFlushed
  <2>2. Len(<<Header>>) = 1 /\ <<Header>>[1] = Header /\ <<Header>> \in Seq(Item)
    BY ItemFacts
  <2>3. IsFiniteSet({}) /\ Cardinality({}) = 0
    BY FS_EmptySet
  <2>4. \A i \in 1 .. 1 : <<Header>>[i] # Row
    BY <2>2, ItemFacts
  <2> QED BY <1>1, <1>2, <2>1, <2>2, <2>3, <2>4 DEF RowsWhole
<1>4. CASE content[name] # <<>>
  <2>1. /\ Opened(name) = content[name] /\ OpenedRows(name) = rowsSinceFlush
        /\ StillUnflushed(name) = Unflushed /\ OpenedFlushed(name) = Closed(name)
    BY <1>4 DEF Opened, OpenedRows, StillUnflushed, OpenedFlushed
  <2>2. \A i \in 1 .. Len(content[name]) :
           content[name][i] = Row /\ i > flushed[name] => <<name, i>> \in Unflushed
    BY <1>1, UnflushedFacts
  <2> QED BY <1>1, <1>2, <1>4, <2>1, <2>2 DEF UnflushedCounted
<1> QED BY <1>3, <1>4

\* The line behind a fragment is ended: what comes next starts a line, unless the
\* fragment was there when the file was opened.
LEMMA SeparatedFacts ==
    ASSUME RecordingInv, ~flushDue, NEW name \in Names
    PROVE  /\ Separated(name) \in Seq(Item) /\ Separated(name) # <<>>
           /\ Len(Separated(name)) >= Len(Opened(name))
           /\ RowsWhole(Separated(name), left[name])
           /\ \A i \in 1 .. Len(Separated(name)) : Separated(name)[i] = Row =>
                 i \in 1 .. Len(Opened(name)) /\ Opened(name)[i] = Row
           /\ Torn(Separated(name)) => Len(Separated(name)) \in left[name]
<1> DEFINE s == Opened(name)
<1>1. s \in Seq(Item) /\ s # <<>> /\ RowsWhole(s, left[name]) /\ RecordingTypeOK /\ FragmentsKnown
  BY OpenedFacts DEF RecordingInv
<1>2. CASE incompleteRow
  <2>1. Separated(name) = Append(s, Newline)
    BY <1>2 DEF Separated
  <2> HIDE DEF s
  <2>2. /\ Append(s, Newline) \in Seq(Item) /\ Append(s, Newline) # <<>>
        /\ Len(Append(s, Newline)) = Len(s) + 1 /\ Len(s) \in Nat
        /\ \A i \in 1 .. Len(s) : Append(s, Newline)[i] = s[i]
        /\ Append(s, Newline)[Len(s) + 1] = Newline
    BY <1>1, ItemFacts, AppendProperties, LenProperties
  <2>3. \A i \in 1 .. Len(s) + 1 : Append(s, Newline)[i] = Row => i \in 1 .. Len(s) /\ s[i] = Row
    <3>1. \A i \in 1 .. Len(s) + 1 : i \in 1 .. Len(s) \/ i = Len(s) + 1
      BY <2>2
    <3> QED BY <2>2, <3>1, ItemFacts
  <2>4. RowsWhole(Append(s, Newline), left[name])
    <3> SUFFICES ASSUME NEW i \in 1 .. Len(s) + 1, Append(s, Newline)[i] = Row
                 PROVE  i > 1 /\ (Append(s, Newline)[i - 1].whole \/ i - 1 \in left[name])
      BY <2>2 DEF RowsWhole
    <3>1. i \in 1 .. Len(s) /\ s[i] = Row
      BY <2>3
    <3>2. i > 1 /\ (s[i - 1].whole \/ i - 1 \in left[name])
      BY <1>1, <3>1 DEF RowsWhole
    <3>3. i - 1 \in 1 .. Len(s)
      BY <2>2, <3>1, <3>2
    <3> QED BY <2>2, <3>2, <3>3
  <2>5. ~Torn(Append(s, Newline))
    BY <2>2, ItemFacts DEF Torn
  <2> QED BY <2>1, <2>2, <2>3, <2>4, <2>5 DEF s
<1>3. CASE ~incompleteRow
  <2>1. Separated(name) = s
    BY <1>3 DEF Separated
  <2>2. Torn(s) => Len(s) \in left[name]
    <3>1. CASE content[name] = <<>>
      <4>1. s = <<Header>>
        BY <3>1 DEF Opened
      <4>2. Len(s) = 1 /\ s[1] = Header
        BY <4>1
      <4> QED BY <4>2, ItemFacts DEF Torn
    <3>2. CASE content[name] # <<>>
      BY <1>1, <1>3, <3>2 DEF Opened, FragmentsKnown
    <3> QED BY <3>1, <3>2
  <2>3. Len(s) \in Nat
    BY <1>1
  <2> QED BY <1>1, <2>1, <2>2, <2>3
<1> QED BY <1>2, <1>3

\* A print to the open file: what the other files and the unflushed rows become
LEMMA PrintStep ==
    ASSUME RecordingInv, ~flushDue, NEW name \in Names, NEW s \in Seq(Item), NEW n,
           content' = [content EXCEPT ![name] = s], file' = name, left' = Left(name),
           flushed' = OpenedFlushed(name),
           Len(s) >= Len(Opened(name)), RowsWhole(s, left[name]),
           \A i \in 1 .. Len(s) : s[i] = Row =>
               \/ i \in 1 .. Len(Opened(name)) /\ Opened(name)[i] = Row
               \/ i = n,
           Torn(s) => incompleteRow',
           UNCHANGED <<clockVars, resets>>, incompleteRow' \in BOOLEAN, ready' \in BOOLEAN,
           rowsSinceFlush' \in 0 .. FlushRows, shorts' \in 0 .. MaxShort,
           flushDue' \in BOOLEAN
    PROVE  /\ RecordingTypeOK' /\ RowsStayWhole' /\ FragmentsKnown'
           /\ \A f \in Names : \A i \in 1 .. Len(content'[f]) :
                 content'[f][i] = Row /\ i > flushed'[f] =>
                     /\ f = file'
                     /\ <<f, i>> \in StillUnflushed(name) \/ (f = name /\ i = n)
<1>1. /\ RecordingTypeOK /\ content \in [Names -> Seq(Item)] /\ UnflushedCounted
      /\ \A f \in Names : RowsWhole(content[f], left[f])
  BY RowsWholeFacts DEF RecordingInv, RecordingTypeOK
<1>2. /\ content'[name] = s /\ content' \in [Names -> Seq(Item)]
      /\ \A f \in Names : f # name => content'[f] = content[f]
  BY <1>1
<1>3. /\ OpenedFlushed(name) \in [Names -> Nat] /\ Opened(name) \in Seq(Item)
      /\ OpenedFlushed(name)[name] <= Len(Opened(name))
      /\ \A f \in Names : f # name => OpenedFlushed(name)[f] = Closed(name)[f]
      /\ \A i \in 1 .. Len(Opened(name)) :
            Opened(name)[i] = Row /\ i > OpenedFlushed(name)[name] => <<name, i>> \in StillUnflushed(name)
  BY OpenedFacts
<1>4. Len(s) \in Nat /\ Len(Opened(name)) \in Nat
  BY <1>3
<1>5. /\ flushed' \in [Names -> Nat] /\ flushed'[name] <= Len(s)
      /\ \A f \in Names : f # name => flushed'[f] = Closed(name)[f]
  BY <1>3, <1>4
<1>6. \A f \in Names : /\ Closed(name)[f] >= flushed[f] /\ Closed(name)[f] <= Len(content[f])
                       /\ f = file /\ f # name => Closed(name)[f] = Len(content[f])
  BY ClosedFacts
<1>7. /\ Left(name) \in [Names -> SUBSET Nat] /\ Left(name)[name] = left[name]
      /\ \A f \in Names : left[f] \subseteq Left(name)[f]
      /\ \A f \in Names : Torn(content[f]) /\ f # name => Len(content[f]) \in Left(name)[f]
  BY LeftFacts
<1>8. RecordingTypeOK'
  <2>1. \A f \in Names : flushed'[f] <= Len(content'[f])
    BY <1>2, <1>5, <1>6
  <2> QED BY <1>1, <1>2, <1>5, <1>7, <2>1 DEF RecordingTypeOK, clockVars
<1>9. \A f \in Names : RowsWhole(content'[f], left'[f])
  <2>1. RowsWhole(content'[name], left'[name])
    BY <1>2, <1>7
  <2>2. ASSUME NEW f \in Names, f # name PROVE RowsWhole(content'[f], left'[f])
    BY <1>1, <1>2, <1>7, <2>2 DEF RowsWhole
  <2> QED BY <2>1, <2>2
<1>10. RowsStayWhole'
  <2>1. \A f \in Names : DOMAIN content'[f] = 1 .. Len(content'[f])
    BY <1>2, LenProperties
  <2> QED BY <1>9, <2>1 DEF RowsStayWhole, RowsWhole
<1>11. FragmentsKnown'
  BY <1>2, <1>7 DEF FragmentsKnown
<1>12. ASSUME NEW f \in Names, NEW i \in 1 .. Len(content'[f]),
              content'[f][i] = Row, i > flushed'[f]
       PROVE  /\ f = file'
              /\ <<f, i>> \in StillUnflushed(name) \/ (f = name /\ i = n)
  <2>1. CASE f # name
    <3>1. /\ content[f] \in Seq(Item) /\ flushed[f] \in Nat /\ Len(content[f]) \in Nat
          /\ i \in 1 .. Len(content[f]) /\ content[f][i] = Row /\ i > Closed(name)[f]
          /\ Closed(name)[f] \in Nat
      BY <1>1, <1>2, <1>5, <1>12, <2>1, FilesTyped
    <3>2. i > flushed[f]
      BY <1>6, <3>1
    <3>3. f = file
      BY <1>1, <3>1, <3>2 DEF UnflushedCounted
    <3>4. Closed(name)[f] = Len(content[f])
      BY <1>6, <2>1, <3>3
    <3> QED BY <3>1, <3>4
  <2>2. CASE f = name
    <3>1. i \in 1 .. Len(s) /\ s[i] = Row /\ i > flushed'[name]
      BY <1>2, <1>12, <2>2
    <3> QED BY <1>3, <2>2, <3>1
  <2> QED BY <2>1, <2>2
<1> QED BY <1>8, <1>10, <1>11, <1>12

\* Nothing new is unflushed: the count of logRow still covers it.
LEMMA NothingNew ==
    ASSUME RecordingInv, ~flushDue, NEW name \in Names, RecordingTypeOK', rowsSinceFlush' = OpenedRows(name),
           \A f \in Names : \A i \in 1 .. Len(content'[f]) :
              content'[f][i] = Row /\ i > flushed'[f] => f = file' /\ <<f, i>> \in StillUnflushed(name)
    PROVE  UnflushedCounted'
<1>1. /\ IsFiniteSet(StillUnflushed(name)) /\ Cardinality(StillUnflushed(name)) <= OpenedRows(name)
      /\ OpenedRows(name) \in Nat
  BY OpenedFacts
<1>2. \A u : u \in Unflushed' <=>
         \E f \in Names : \E i \in 1 .. Len(content'[f]) :
             u = <<f, i>> /\ content'[f][i] = Row /\ i > flushed'[f]
  <2>1. \A f \in Names : DOMAIN content'[f] = 1 .. Len(content'[f])
    BY LenProperties DEF RecordingTypeOK
  <2> QED BY <2>1 DEF Unflushed
<1>3. Unflushed' \subseteq StillUnflushed(name)
  BY <1>2
<1>4. IsFiniteSet(Unflushed') /\ Cardinality(Unflushed') <= Cardinality(StillUnflushed(name))
  BY <1>1, <1>3, FS_Subset
<1>5. Cardinality(Unflushed') \in Nat /\ Cardinality(StillUnflushed(name)) \in Nat
  BY <1>1, <1>4, FS_CardinalityType
<1>6. Cardinality(Unflushed') <= rowsSinceFlush'
  <2> DEFINE a == Cardinality(Unflushed')  b == Cardinality(StillUnflushed(name))  c == OpenedRows(name)
  <2>1. a \in Nat /\ b \in Nat /\ c \in Nat /\ a <= b /\ b <= c
    BY <1>1, <1>4, <1>5
  <2> HIDE DEF a, b, c
  <2>2. a <= c
    BY <2>1
  <2> QED BY <2>2 DEF a, c
<1>7. \A f \in Names : \A i \in 1 .. Len(content'[f]) :
         content'[f][i] = Row /\ i > flushed'[f] => f = file'
  OBVIOUS
<1> QED BY <1>4, <1>6, <1>7 DEF UnflushedCounted

\* Everything was flushed.
LEMMA AllFlushed ==
    ASSUME RecordingTypeOK',
           \A f \in Names : \A i \in 1 .. Len(content'[f]) : ~(content'[f][i] = Row /\ i > flushed'[f])
    PROVE  UnflushedCounted'
<1>1. Unflushed' = {}
  <2>1. \A f \in Names : DOMAIN content'[f] = 1 .. Len(content'[f])
    BY LenProperties DEF RecordingTypeOK
  <2> QED BY <2>1 DEF Unflushed
<1>2. rowsSinceFlush' >= 0
  BY RecordingAssumption DEF RecordingTypeOK
<1> QED BY <1>1, <1>2, FS_EmptySet DEF UnflushedCounted

\* A count that is less than FlushRows is in its type.
LEMMA RowsCounted == \A n \in 0 .. FlushRows - 1 : n \in 0 .. FlushRows /\ n < FlushRows
BY RecordingAssumption

LEMMA ShortsBounded == RecordingTypeOK /\ PrintFails => shorts' \in 0 .. MaxShort
BY RecordingAssumption DEF RecordingTypeOK, PrintFails

\* The file cannot be opened, or has no header.
LEMMA OpenFailsStep ==
    ASSUME RecordingInv, ~flushDue, NEW name \in Names, OpenFails(name) \/ HeaderFails(name),
           UNCHANGED <<clockVars, resets>>
    PROVE  RecordingInv'
<1>1. /\ RecordingTypeOK /\ content \in [Names -> Seq(Item)] /\ UnflushedCounted
      /\ \A f \in Names : RowsWhole(content[f], left[f])
  BY RowsWholeFacts DEF RecordingInv, RecordingTypeOK
<1>2. /\ file # name /\ file' = NoFile /\ flushed' = Closed(name) /\ shorts' \in 0 .. MaxShort
      /\ UNCHANGED <<incompleteRow, rowsSinceFlush, flushDue>> /\ ready' \in BOOLEAN
      /\ \/ UNCHANGED content /\ left' = Left(name)
         \/ /\ content[name] = <<>>
            /\ \E s \in Short(Header) : /\ content' = [content EXCEPT ![name] = s]
                                        /\ left' = [Left(name) EXCEPT ![name] = DOMAIN s]
  BY <1>1, ShortsBounded DEF OpenFails, HeaderFails, RecordingTypeOK
<1>3. /\ Closed(name) \in [Names -> Nat] /\ Closed(name)[name] = flushed[name]
      /\ \A f \in Names : /\ Closed(name)[f] >= flushed[f] /\ Closed(name)[f] <= Len(content[f])
                          /\ f = file /\ f # name => Closed(name)[f] = Len(content[f])
  BY ClosedFacts
<1>4. /\ Left(name) \in [Names -> SUBSET Nat]
      /\ \A f \in Names : left[f] \subseteq Left(name)[f]
      /\ \A f \in Names : Torn(content[f]) => Len(content[f]) \in Left(name)[f]
  BY <1>2, LeftFacts
<1>5. \A f \in Names : \A i \in 1 .. Len(content[f]) : ~(content[f][i] = Row /\ i > Closed(name)[f])
  <2> SUFFICES ASSUME NEW f \in Names, NEW i \in 1 .. Len(content[f]),
                      content[f][i] = Row, i > Closed(name)[f]
               PROVE  FALSE
    OBVIOUS
  <2>1. flushed[f] \in Nat /\ Len(content[f]) \in Nat /\ Closed(name)[f] \in Nat
    BY <1>1, <1>3, FilesTyped
  <2>2. f = file
    BY <1>1, <1>3, <2>1 DEF UnflushedCounted
  <2> QED BY <1>2, <1>3, <2>1, <2>2
<1>6. FlushCalled'
  BY <1>2 DEF RecordingInv, FlushCalled
<1>7. CASE UNCHANGED content /\ left' = Left(name)
  <2>1. RecordingTypeOK'
    BY <1>1, <1>2, <1>3, <1>4, <1>7 DEF RecordingTypeOK, clockVars
  <2>2. \A f \in Names : RowsWhole(content[f], Left(name)[f])
    BY <1>1, <1>4 DEF RowsWhole
  <2>3. RowsStayWhole'
    BY <1>1, <1>7, <2>2, FilesTyped DEF RowsStayWhole, RowsWhole
  <2>4. FragmentsKnown'
    BY <1>4, <1>7 DEF FragmentsKnown
  <2>5. UnflushedCounted'
    BY <1>2, <1>5, <1>7, <2>1, AllFlushed
  <2> QED BY <1>6, <2>1, <2>3, <2>4, <2>5 DEF RecordingInv
<1>8. ASSUME NEW s \in Short(Header), content[name] = <<>>,
             content' = [content EXCEPT ![name] = s],
             left' = [Left(name) EXCEPT ![name] = DOMAIN s]
      PROVE  RecordingInv'
  <2>1. /\ s \in Seq(Item) /\ Len(s) \in {0, 1} /\ DOMAIN s = 1 .. Len(s)
        /\ \A i \in 1 .. Len(s) : s[i] # Row
    <3> DEFINE h == [Header EXCEPT !.whole = FALSE]
    <3>1. h \in Item /\ h # Row
      BY ItemFacts
    <3> HIDE DEF h
    <3>2. <<h>> \in Seq(Item) /\ Len(<<h>>) = 1 /\ DOMAIN <<h>> = 1 .. 1 /\ <<h>>[1] = h
      BY <3>1
    <3>3. CASE s = <<h>>
      BY <3>1, <3>2, <3>3
    <3>4. CASE s = <<>>
      BY <3>4
    <3> QED BY <3>3, <3>4 DEF Short, h
  <2>2. /\ content'[name] = s /\ content' \in [Names -> Seq(Item)]
        /\ \A f \in Names : f # name => content'[f] = content[f]
    BY <1>1, <1>8, <2>1
  <2>3. /\ left' \in [Names -> SUBSET Nat] /\ left'[name] = 1 .. Len(s)
        /\ \A f \in Names : f # name => left'[f] = Left(name)[f]
    <3>1. 1 .. Len(s) \in SUBSET Nat
      BY <2>1
    <3> QED BY <1>4, <1>8, <2>1, <3>1
  <2>4. RecordingTypeOK'
    <3>1. Len(content[name]) = 0 /\ Closed(name)[name] = 0
      BY <1>3, <1>8
    <3>2. \A f \in Names : flushed'[f] <= Len(content'[f])
      BY <1>2, <1>3, <2>1, <2>2, <3>1
    <3> QED BY <1>1, <1>2, <1>3, <2>2, <2>3, <3>2 DEF RecordingTypeOK, clockVars
  <2>5. RowsStayWhole'
    <3>1. ASSUME NEW f \in Names PROVE RowsWhole(content'[f], left'[f])
      <4>1. CASE f = name
        BY <2>1, <2>2, <4>1 DEF RowsWhole
      <4>2. CASE f # name
        BY <1>1, <1>4, <2>2, <2>3, <4>2 DEF RowsWhole
      <4> QED BY <4>1, <4>2
    <3>2. \A f \in Names : DOMAIN content'[f] = 1 .. Len(content'[f])
      BY <2>2, LenProperties
    <3> QED BY <3>1, <3>2 DEF RowsStayWhole, RowsWhole
  <2>6. FragmentsKnown'
    <3> SUFFICES ASSUME NEW f \in Names, Torn(content'[f]) PROVE Len(content'[f]) \in left'[f]
      BY DEF FragmentsKnown
    <3>1. CASE f = name
      <4>1. Len(s) = 1
        <5>1. s # <<>>
          BY <2>2, <3>1 DEF Torn
        <5> QED BY <2>1, <5>1
      <4>2. Len(content'[f]) = 1 /\ left'[f] = 1 .. 1
        BY <2>2, <2>3, <3>1, <4>1
      <4>3. 1 \in 1 .. 1
        OBVIOUS
      <4> QED BY <4>2, <4>3
    <3>2. CASE f # name
      BY <1>4, <2>2, <2>3, <3>2
    <3> QED BY <3>1, <3>2
  <2>7. UnflushedCounted'
    <3>1. \A f \in Names : \A i \in 1 .. Len(content'[f]) : ~(content'[f][i] = Row /\ i > flushed'[f])
      BY <1>2, <1>5, <2>1, <2>2
    <3> QED BY <2>4, <3>1, AllFlushed
  <2> QED BY <1>6, <2>4, <2>5, <2>6, <2>7 DEF RecordingInv
<1> QED BY <1>2, <1>7, <1>8

\* The line behind a short row cannot be ended.
LEMMA SeparatorFailsStep ==
    ASSUME RecordingInv, ~flushDue, NEW name \in Names, SeparatorFails(name), UNCHANGED <<clockVars, resets>>
    PROVE  RecordingInv'
<1> DEFINE s == Opened(name)
<1>1. RecordingTypeOK /\ ready \in BOOLEAN
  BY DEF RecordingInv, RecordingTypeOK
<1>2. /\ s \in Seq(Item) /\ RowsWhole(s, left[name]) /\ OpenedRows(name) \in 0 .. FlushRows - 1
  BY OpenedFacts
<1>3. /\ content' = [content EXCEPT ![name] = s] /\ file' = name /\ left' = Left(name)
      /\ flushed' = OpenedFlushed(name) /\ rowsSinceFlush' = OpenedRows(name)
      /\ incompleteRow' = incompleteRow /\ incompleteRow /\ ready' = ready /\ flushDue' = flushDue
      /\ shorts' \in 0 .. MaxShort /\ incompleteRow' \in BOOLEAN
  BY <1>1, ShortsBounded DEF SeparatorFails, RecordingTypeOK
<1>4. Len(s) >= Len(Opened(name)) /\ Len(s) \in Nat
  BY <1>2
<1> HIDE DEF s
<1>5. \A i \in 1 .. Len(s) : s[i] = Row => i \in 1 .. Len(Opened(name)) /\ Opened(name)[i] = Row
  BY DEF s
<1>6. rowsSinceFlush' \in 0 .. FlushRows /\ flushDue' \in BOOLEAN /\ FlushCalled'
  <2>1. flushDue' \in BOOLEAN
    BY <1>1, <1>3 DEF RecordingTypeOK
  <2>2. rowsSinceFlush' \in 0 .. FlushRows /\ rowsSinceFlush' < FlushRows
    BY <1>2, <1>3, RowsCounted
  <2> QED BY <1>3, <2>1, <2>2 DEF FlushCalled
<1>7. /\ RecordingTypeOK' /\ RowsStayWhole' /\ FragmentsKnown'
      /\ \A f \in Names : \A i \in 1 .. Len(content'[f]) :
            content'[f][i] = Row /\ i > flushed'[f] =>
                /\ f = file'
                /\ <<f, i>> \in StillUnflushed(name) \/ (f = name /\ i = 0)
  BY <1>1, <1>2, <1>3, <1>4, <1>5, <1>6, PrintStep
<1>8. UnflushedCounted'
  <2>1. \A f \in Names : \A i \in 1 .. Len(content'[f]) : i # 0
    OBVIOUS
  <2> QED BY <1>3, <1>7, <2>1, NothingNew
<1> QED BY <1>6, <1>7, <1>8 DEF RecordingInv

\* The row is short.
LEMMA RowFailsStep ==
    ASSUME RecordingInv, ~flushDue, NEW name \in Names, RowFails(name), UNCHANGED <<clockVars, resets>>
    PROVE  RecordingInv'
<1> DEFINE t == Separated(name)
           h == [Row EXCEPT !.whole = FALSE]
<1>1. RecordingTypeOK /\ ready \in BOOLEAN /\ OpenedRows(name) \in 0 .. FlushRows - 1
  BY OpenedFacts DEF RecordingInv, RecordingTypeOK
<1>2. /\ file' = name /\ left' = Left(name)
      /\ flushed' = OpenedFlushed(name) /\ rowsSinceFlush' = OpenedRows(name)
      /\ incompleteRow' = TRUE /\ ready' = ready /\ flushDue' = flushDue /\ shorts' \in 0 .. MaxShort
  BY <1>1, ShortsBounded DEF RowFails
<1>3. PICK e \in Short(Row) : content' = [content EXCEPT ![name] = t \o e]
  BY DEF RowFails
<1>4. /\ t \in Seq(Item) /\ Len(t) >= Len(Opened(name)) /\ RowsWhole(t, left[name])
      /\ \A i \in 1 .. Len(t) : t[i] = Row => i \in 1 .. Len(Opened(name)) /\ Opened(name)[i] = Row
      /\ Len(t) \in Nat /\ Len(Opened(name)) \in Nat
  BY SeparatedFacts, OpenedFacts, LenProperties
<1>5. h \in Item /\ h # Row
  BY ItemFacts
<1>6. e \in {<<h>>, <<>>}
  BY DEF Short
<1> HIDE DEF t, h
<1>7. PICK s \in Seq(Item) :
         /\ s = t \o e /\ Len(s) >= Len(Opened(name)) /\ RowsWhole(s, left[name])
         /\ \A i \in 1 .. Len(s) : s[i] = Row => i \in 1 .. Len(Opened(name)) /\ Opened(name)[i] = Row
  <2>1. CASE e = <<>>
    <3>1. t \o e = t
      BY <1>4, <2>1, ConcatEmptySeq
    <3> QED BY <1>4, <3>1
  <2>2. CASE e = <<h>>
    <3>1. t \o e = Append(t, h)
      BY <1>4, <1>5, <2>2, AppendIsConcat
    <3>2. /\ Append(t, h) \in Seq(Item) /\ Len(Append(t, h)) = Len(t) + 1
          /\ \A i \in 1 .. Len(t) : Append(t, h)[i] = t[i]
          /\ Append(t, h)[Len(t) + 1] = h
      BY <1>4, <1>5, AppendProperties
    <3>3. \A i \in 1 .. Len(t) + 1 : Append(t, h)[i] = Row => i \in 1 .. Len(t) /\ t[i] = Row
      <4>1. \A i \in 1 .. Len(t) + 1 : i \in 1 .. Len(t) \/ i = Len(t) + 1
        BY <1>4
      <4> QED BY <1>5, <3>2, <4>1
    <3>4. RowsWhole(Append(t, h), left[name])
      <4> SUFFICES ASSUME NEW i \in 1 .. Len(t) + 1, Append(t, h)[i] = Row
                   PROVE  i > 1 /\ (Append(t, h)[i - 1].whole \/ i - 1 \in left[name])
        BY <3>2 DEF RowsWhole
      <4>1. i \in 1 .. Len(t) /\ t[i] = Row
        BY <3>3
      <4>2. i > 1 /\ (t[i - 1].whole \/ i - 1 \in left[name])
        BY <1>4, <4>1 DEF RowsWhole
      <4>3. i - 1 \in 1 .. Len(t)
        BY <1>4, <4>1, <4>2
      <4> QED BY <3>2, <4>2, <4>3
    <3>5. Len(Append(t, h)) >= Len(Opened(name))
      BY <1>4, <3>2
    <3> QED BY <1>4, <3>1, <3>2, <3>3, <3>4, <3>5
  <2> QED BY <1>6, <2>1, <2>2
<1>8. rowsSinceFlush' \in 0 .. FlushRows /\ flushDue' \in BOOLEAN /\ FlushCalled'
  <2>1. flushDue' \in BOOLEAN
    BY <1>1, <1>2 DEF RecordingTypeOK
  <2>2. rowsSinceFlush' \in 0 .. FlushRows /\ rowsSinceFlush' < FlushRows
    BY <1>1, <1>2, RowsCounted
  <2> QED BY <1>2, <2>1, <2>2 DEF FlushCalled
<1>9. /\ RecordingTypeOK' /\ RowsStayWhole' /\ FragmentsKnown'
      /\ \A f \in Names : \A i \in 1 .. Len(content'[f]) :
            content'[f][i] = Row /\ i > flushed'[f] =>
                /\ f = file'
                /\ <<f, i>> \in StillUnflushed(name) \/ (f = name /\ i = 0)
  BY <1>1, <1>2, <1>3, <1>7, <1>8, PrintStep
<1>10. UnflushedCounted'
  <2>1. \A f \in Names : \A i \in 1 .. Len(content'[f]) : i # 0
    OBVIOUS
  <2> QED BY <1>2, <1>9, <2>1, NothingNew
<1> QED BY <1>8, <1>9, <1>10 DEF RecordingInv

\* The row is written behind a line that was ended, and counted.
LEMMA RowWrittenStep ==
    ASSUME RecordingInv, ~flushDue, NEW name \in Names, RowWritten(name), UNCHANGED <<clockVars, resets>>
    PROVE  RecordingInv'
<1> DEFINE t == Separated(name)
           s == Append(t, Row)
           n == Len(t) + 1
<1>1. /\ RecordingTypeOK /\ ready \in BOOLEAN /\ shorts \in 0 .. MaxShort
      /\ OpenedRows(name) \in 0 .. FlushRows - 1 /\ FlushRows \in Nat \ {0}
      /\ IsFiniteSet(StillUnflushed(name))
      /\ Cardinality(StillUnflushed(name)) <= OpenedRows(name)
  BY OpenedFacts, RecordingAssumption DEF RecordingInv, RecordingTypeOK
<1>2. /\ file' = name /\ left' = Left(name) /\ content' = [content EXCEPT ![name] = s]
      /\ incompleteRow' = FALSE /\ ready' = ready /\ shorts' = shorts
      /\ flushed' = OpenedFlushed(name) /\ rowsSinceFlush' = OpenedRows(name) + 1 /\ flushDue' = TRUE
  BY DEF RowWritten
<1>3. /\ t \in Seq(Item) /\ t # <<>> /\ Len(t) >= Len(Opened(name)) /\ RowsWhole(t, left[name])
      /\ \A i \in 1 .. Len(t) : t[i] = Row => i \in 1 .. Len(Opened(name)) /\ Opened(name)[i] = Row
      /\ Len(t) \in Nat /\ Len(Opened(name)) \in Nat
      /\ Torn(t) => Len(t) \in left[name]
  BY SeparatedFacts, OpenedFacts, LenProperties
<1> HIDE DEF t
<1>4. /\ s \in Seq(Item) /\ Len(s) = n
      /\ \A i \in 1 .. Len(t) : s[i] = t[i]
      /\ s[n] = Row
  BY <1>3, ItemFacts, AppendProperties
<1> HIDE DEF s
<1>5. n \in Nat /\ n >= 2 /\ \A i \in 1 .. n : i \in 1 .. Len(t) \/ i = n
  <2>1. Len(t) # 0
    BY <1>3, EmptySeq
  <2> QED BY <1>3, <2>1
<1>6. \A i \in 1 .. Len(s) : s[i] = Row =>
         \/ i \in 1 .. Len(Opened(name)) /\ Opened(name)[i] = Row
         \/ i = n
  BY <1>3, <1>4, <1>5
<1>7. RowsWhole(s, left[name])
  <2> SUFFICES ASSUME NEW i \in 1 .. n, s[i] = Row
               PROVE  i > 1 /\ (s[i - 1].whole \/ i - 1 \in left[name])
    BY <1>4 DEF RowsWhole
  <2>1. CASE i \in 1 .. Len(t)
    <3>1. i > 1 /\ (t[i - 1].whole \/ i - 1 \in left[name])
      BY <1>3, <1>4, <2>1 DEF RowsWhole
    <3>2. i - 1 \in 1 .. Len(t)
      BY <1>3, <2>1, <3>1
    <3> QED BY <1>4, <3>1, <3>2
  <2>2. CASE i = n
    <3>1. i - 1 = Len(t) /\ i > 1 /\ Len(t) \in 1 .. Len(t)
      BY <1>3, <1>5, <2>2
    <3>2. t[Len(t)].whole \/ Len(t) \in left[name]
      BY <1>3 DEF Torn
    <3> QED BY <1>4, <3>1, <3>2
  <2> QED BY <1>5, <2>1, <2>2
<1>8. ~Torn(s)
  BY <1>4, ItemFacts DEF Torn
<1>9. Len(s) >= Len(Opened(name))
  BY <1>3, <1>4
<1>10. rowsSinceFlush' \in 0 .. FlushRows
  BY <1>1, <1>2
<1>11. /\ RecordingTypeOK' /\ RowsStayWhole' /\ FragmentsKnown'
       /\ \A f \in Names : \A i \in 1 .. Len(content'[f]) :
             content'[f][i] = Row /\ i > flushed'[f] =>
                 /\ f = file'
                 /\ <<f, i>> \in StillUnflushed(name) \/ (f = name /\ i = n)
  <2>1. s \in Seq(Item)
    BY <1>4
  <2>2. /\ incompleteRow' \in BOOLEAN /\ ready' \in BOOLEAN /\ shorts' \in 0 .. MaxShort
        /\ file' = name /\ left' = Left(name) /\ content' = [content EXCEPT ![name] = s]
        /\ flushed' = OpenedFlushed(name) /\ flushDue' = TRUE
    BY <1>1, <1>2
  <2>3. Torn(s) => incompleteRow'
    BY <1>8
  <2>4. PICK u \in Seq(Item), k \in Nat : u = s /\ k = n
    BY <1>5, <2>1
  <2> HIDE DEF n
  <2>5. /\ content' = [content EXCEPT ![name] = u]
        /\ Len(u) >= Len(Opened(name)) /\ RowsWhole(u, left[name]) /\ (Torn(u) => incompleteRow')
    BY <1>7, <1>9, <2>2, <2>3, <2>4
  <2>6. \A i \in 1 .. Len(u) : u[i] = Row =>
           \/ i \in 1 .. Len(Opened(name)) /\ Opened(name)[i] = Row
           \/ i = k
    BY <1>6, <2>4
  <2>7. /\ RecordingTypeOK' /\ RowsStayWhole' /\ FragmentsKnown'
        /\ \A f \in Names : \A i \in 1 .. Len(content'[f]) :
              content'[f][i] = Row /\ i > flushed'[f] =>
                  /\ f = file'
                  /\ <<f, i>> \in StillUnflushed(name) \/ (f = name /\ i = k)
    BY <1>10, <2>2, <2>5, <2>6, PrintStep
  <2> QED BY <2>4, <2>7
<1>12. UnflushedCounted'
  <2> DEFINE U == StillUnflushed(name) \cup {<<name, n>>}
  <2>1. IsFiniteSet(U) /\ Cardinality(U) <= Cardinality(StillUnflushed(name)) + 1
    <3>1. /\ IsFiniteSet(StillUnflushed(name) \cup {<<name, n>>})
          /\ \/ Cardinality(StillUnflushed(name) \cup {<<name, n>>}) = Cardinality(StillUnflushed(name))
             \/ Cardinality(StillUnflushed(name) \cup {<<name, n>>}) = Cardinality(StillUnflushed(name)) + 1
      BY <1>1, FS_AddElement
    <3>2. Cardinality(StillUnflushed(name)) \in Nat
      BY <1>1, FS_CardinalityType
    <3> QED BY <3>1, <3>2
  <2>2. Unflushed' \subseteq U
    <3>1. \A f \in Names : DOMAIN content'[f] = 1 .. Len(content'[f])
      BY <1>11, LenProperties DEF RecordingTypeOK
    <3>2. \A u \in Unflushed' : \E f \in Names : \E i \in 1 .. Len(content'[f]) :
             u = <<f, i>> /\ content'[f][i] = Row /\ i > flushed'[f]
      BY <3>1 DEF Unflushed
    <3> HIDE DEF n
    <3> QED BY <1>11, <3>2
  <2> HIDE DEF U
  <2>3. IsFiniteSet(Unflushed') /\ Cardinality(Unflushed') <= Cardinality(U)
    BY <2>1, <2>2, FS_Subset
  <2>4. Cardinality(Unflushed') <= rowsSinceFlush'
    <3> DEFINE a == Cardinality(Unflushed')  b == Cardinality(U)
               c == Cardinality(StillUnflushed(name))  d == OpenedRows(name)
    <3>1. a \in Nat /\ b \in Nat /\ c \in Nat /\ d \in Nat /\ a <= b /\ b <= c + 1 /\ c <= d
      BY <1>1, <2>1, <2>3, FS_CardinalityType
    <3> HIDE DEF a, b, c, d
    <3>2. a <= d + 1
      BY <3>1
    <3> QED BY <1>2, <3>2 DEF a, d
  <2>5. \A f \in Names : \A i \in 1 .. Len(content'[f]) :
           content'[f][i] = Row /\ i > flushed'[f] => f = file'
    BY <1>11
  <2> QED BY <2>3, <2>4, <2>5 DEF UnflushedCounted
<1>13. FlushCalled'
  BY <1>2 DEF FlushCalled
<1> QED BY <1>11, <1>12, <1>13 DEF RecordingInv

\* flushIfNeeded flushes the open file, which has all rows that wait, or leaves them.
LEMMA FlushIfNeededStep ==
    ASSUME RecordingInv, FlushIfNeeded
    PROVE  RecordingInv'
<1>1. /\ RecordingTypeOK /\ RowsStayWhole /\ FragmentsKnown /\ UnflushedCounted
      /\ flushDue /\ file \in Names /\ FlushRows \in Nat \ {0} /\ rowsSinceFlush \in 0 .. FlushRows
  BY RecordingAssumption DEF RecordingInv, FlushCalled, FlushIfNeeded, RecordingTypeOK
<1>2. /\ UNCHANGED <<clockVars, ready, file, incompleteRow, content, left, shorts, resets>>
      /\ flushDue' = FALSE
  BY DEF FlushIfNeeded
<1>3. RowsStayWhole' /\ FragmentsKnown'
  BY <1>1, <1>2 DEF RowsStayWhole, FragmentsKnown
<1>4. CASE flushed' = [flushed EXCEPT ![file] = Len(content[file])] /\ rowsSinceFlush' = 0
  <2>1. /\ flushed' \in [Names -> Nat] /\ flushed'[file] = Len(content[file])
        /\ \A f \in Names : f # file => flushed'[f] = flushed[f]
        /\ \A f \in Names : flushed'[f] <= Len(content[f]) /\ Len(content[f]) \in Nat
    <3>1. flushed \in [Names -> Nat] /\ Len(content[file]) \in Nat
      BY <1>1, FilesTyped DEF RecordingTypeOK
    <3> QED BY <1>1, <1>4, <3>1, FilesTyped
  <2>2. RecordingTypeOK'
    <3>1. rowsSinceFlush' \in 0 .. FlushRows
      BY <1>1, <1>4
    <3> QED BY <1>1, <1>2, <2>1, <3>1 DEF RecordingTypeOK, clockVars
  <2>3. \A f \in Names : \A i \in 1 .. Len(content'[f]) : ~(content'[f][i] = Row /\ i > flushed'[f])
    BY <1>1, <1>2, <2>1 DEF UnflushedCounted
  <2>4. UnflushedCounted' /\ FlushCalled'
    BY <1>1, <1>2, <1>4, <2>2, <2>3, AllFlushed DEF FlushCalled
  <2> QED BY <1>3, <2>2, <2>4 DEF RecordingInv
<1>5. CASE rowsSinceFlush < FlushRows /\ UNCHANGED <<flushed, rowsSinceFlush>>
  <2>1. RecordingTypeOK'
    BY <1>1, <1>2, <1>5 DEF RecordingTypeOK, clockVars
  <2>2. UnflushedCounted' /\ FlushCalled'
    BY <1>1, <1>2, <1>5 DEF UnflushedCounted, Unflushed, FlushCalled
  <2> QED BY <1>3, <2>1, <2>2 DEF RecordingInv
<1> QED BY <1>4, <1>5 DEF FlushIfNeeded

\* What a power loss leaves of a file s: its m first items, the last perhaps torn
IsKept(t, s, m) ==
    \/ t = SubSeq(s, 1, m)
    \/ m > 0 /\ t = [SubSeq(s, 1, m) EXCEPT ![m].whole = FALSE]

LEMMA KeptFacts ==
    ASSUME NEW s \in Seq(Item), NEW m \in 0 .. Len(s), NEW t, IsKept(t, s, m)
    PROVE  /\ t \in Seq(Item) /\ Len(t) = m
           /\ \A i \in 1 .. m : t[i] = Row => s[i] = Row
           /\ \A i \in 1 .. m : i < m => t[i] = s[i]
<1> DEFINE k == SubSeq(s, 1, m)
<1>1. Len(s) \in Nat /\ DOMAIN s = 1 .. Len(s) /\ \A i \in 1 .. Len(s) : s[i] \in Item
  BY LenProperties, ElementOfSeq
<1>2. k = [i \in 1 .. m |-> s[i]] /\ k \in Seq(Item) /\ Len(k) = m
  BY <1>1, SubSeqProperties
<1> HIDE DEF k
<1>3. CASE t = k
  BY <1>1, <1>2, <1>3
<1>4. CASE m > 0 /\ t = [k EXCEPT ![m].whole = FALSE]
  <2>1. m \in 1 .. m /\ k[m] = s[m] /\ k[m] \in Item
    BY <1>1, <1>2, <1>4
  <2>2. t = [k EXCEPT ![m] = [k[m] EXCEPT !.whole = FALSE]]
    BY <1>4
  <2>3. [k[m] EXCEPT !.whole = FALSE] \in Item /\ [k[m] EXCEPT !.whole = FALSE] # Row
    BY <2>1, ItemFacts
  <2>4. t \in Seq(Item) /\ Len(t) = m
    BY <1>2, <2>1, <2>2, <2>3, ExceptSeq
  <2>5. t[m] # Row /\ \A i \in 1 .. m : i # m => t[i] = s[i]
    BY <1>2, <2>1, <2>2, <2>3
  <2> QED BY <1>1, <2>4, <2>5
<1> QED BY <1>3, <1>4 DEF k, IsKept

\* A power loss, and the next setup()
LEMMA CardPowerLossStep ==
    ASSUME RecordingInv, CardPowerLoss
    PROVE  RecordingInv'
<1>1. RecordingTypeOK /\ \A f \in Names : RowsWhole(content[f], left[f])
  BY RowsWholeFacts DEF RecordingInv
<1>2. PICK lost \in 0 .. MaxItems, whole \in BOOLEAN :
         LET kept(f) == SubSeq(content[f], 1, Max({flushed[f], Len(content[f]) - lost}))
             tears(f) == ~whole /\ Len(kept(f)) > flushed[f]
         IN content' = [f \in Names |->
                IF tears(f) THEN [kept(f) EXCEPT ![Len(kept(f))].whole = FALSE] ELSE kept(f)]
  BY DEF CardPowerLoss
<1> DEFINE most(f) == Max({flushed[f], Len(content[f]) - lost})
           kept(f) == SubSeq(content[f], 1, most(f))
<1>3. ASSUME NEW f \in Names
      PROVE  /\ most(f) \in 0 .. Len(content[f])
             /\ Len(kept(f)) = most(f)
  <2>1. /\ content[f] \in Seq(Item) /\ Len(content[f]) \in Nat
        /\ flushed[f] \in Nat /\ flushed[f] <= Len(content[f]) /\ MaxItems \in Nat
    BY <1>1, FilesTyped, RecordingAssumption
  <2> DEFINE a == flushed[f]  b == Len(content[f]) - lost
  <2>2. a \in Int /\ b \in Int /\ a >= 0 /\ a <= Len(content[f]) /\ b <= Len(content[f])
    BY <2>1
  <2>3. Max({a, b}) \in {a, b} /\ Max({a, b}) >= a
    <3> HIDE DEF a, b
    <3>1. \E x \in {a, b} : \A y \in {a, b} : x >= y
      BY <2>2
    <3> QED BY <3>1 DEF Max
  <2>4. most(f) \in 0 .. Len(content[f])
    <3> DEFINE w == Max({a, b})
    <3>1. w \in {a, b} /\ w >= a /\ w = most(f)
      BY <2>3
    <3> HIDE DEF w, a, b
    <3>2. w \in 0 .. Len(content[f])
      BY <2>1, <2>2, <3>1
    <3> QED BY <3>1, <3>2
  <2> HIDE DEF most
  <2>5. Len(SubSeq(content[f], 1, most(f))) = most(f)
    BY <2>1, <2>4, SubSeqProperties
  <2> QED BY <2>4, <2>5
<1>4. ASSUME NEW f \in Names
      PROVE  \/ content'[f] = kept(f)
             \/ most(f) > 0 /\ content'[f] = [kept(f) EXCEPT ![most(f)].whole = FALSE]
  <2>1. content'[f] = IF ~whole /\ Len(kept(f)) > flushed[f]
                      THEN [kept(f) EXCEPT ![Len(kept(f))].whole = FALSE] ELSE kept(f)
    BY <1>2
  <2>2. Len(kept(f)) = most(f) /\ most(f) \in Nat /\ flushed[f] \in Nat
    BY <1>1, <1>3, FilesTyped
  <2> HIDE DEF most, kept
  <2> QED BY <2>1, <2>2
<1>5. \E c : content' = [f \in Names |-> c[f]]
  <2>1. content' = [f \in Names |-> content'[f]]
    BY <1>2
  <2> QED BY <2>1
<1> HIDE DEF most
<1>6. ASSUME NEW f \in Names
      PROVE  /\ content'[f] \in Seq(Item) /\ Len(content'[f]) = most(f)
             /\ most(f) \in 0 .. Len(content[f])
             /\ \A i \in 1 .. most(f) : content'[f][i] = Row => content[f][i] = Row
             /\ \A i \in 1 .. most(f) : i < most(f) => content'[f][i] = content[f][i]
  <2>1. content[f] \in Seq(Item) /\ most(f) \in 0 .. Len(content[f])
    BY <1>1, <1>3, FilesTyped
  <2>2. IsKept(content'[f], content[f], most(f))
    BY <1>4 DEF IsKept
  <2> QED BY <2>1, <2>2, KeptFacts
<1>7. content' \in [Names -> Seq(Item)]
  BY <1>5, <1>6
<1>8. /\ flushed' = [f \in Names |-> Len(content'[f])]
      /\ left' = [f \in Names |-> {i \in left[f] \cup {flushed'[f]} :
                      i > 0 /\ i <= flushed'[f] /\ ~content'[f][i].whole}]
      /\ day' = day /\ shorts' = shorts /\ resets < MaxResets /\ resets' = resets + 1
      /\ rtcKept' \in {FALSE, rtcKept} /\ Begin
  BY DEF CardPowerLoss
<1>9. /\ flushed' \in [Names -> Nat] /\ \A f \in Names : flushed'[f] = Len(content'[f])
  BY <1>6, <1>8
<1>10. left' \in [Names -> SUBSET Nat]
  <2>1. ASSUME NEW f \in Names
        PROVE  {i \in left[f] \cup {flushed'[f]} : i > 0 /\ i <= flushed'[f] /\ ~content'[f][i].whole} \in SUBSET Nat
    BY <1>1, <1>9, FilesTyped
  <2> QED BY <1>8, <2>1
<1>11. RecordingTypeOK'
  <2>1. /\ {rtcKept', clockReady', networkReady', ready', incompleteRow', flushDue'} \subseteq BOOLEAN
        /\ file' \in Names \cup {NoFile} /\ rowsSinceFlush' \in 0 .. FlushRows
    <3>1. rtcKept \in BOOLEAN /\ FlushRows \in Nat \ {0}
      BY <1>1, RecordingAssumption DEF RecordingTypeOK
    <3>2. rtcKept' \in BOOLEAN
      BY <1>8, <3>1
    <3>3. clockReady' \in BOOLEAN
      BY <1>8, <3>2 DEF Begin
    <3>4. /\ networkReady' = FALSE /\ ready' \in BOOLEAN /\ file' = NoFile
          /\ incompleteRow' = FALSE /\ rowsSinceFlush' = 0 /\ flushDue' = FALSE
      BY <1>8 DEF Begin
    <3>5. rowsSinceFlush' \in 0 .. FlushRows
      BY <3>1, <3>4
    <3> QED BY <3>2, <3>3, <3>4, <3>5
  <2>2. resets' \in 0 .. MaxResets
    BY <1>1, <1>8, RecordingAssumption DEF RecordingTypeOK
  <2>3. \A f \in Names : flushed'[f] <= Len(content'[f])
    BY <1>9
  <2>4. day' \in 1 .. MaxDay /\ shorts' \in 0 .. MaxShort
    BY <1>1, <1>8 DEF RecordingTypeOK
  <2> QED BY <1>7, <1>9, <1>10, <2>1, <2>2, <2>3, <2>4 DEF RecordingTypeOK
<1>12. RowsStayWhole'
  <2>1. \A f \in Names : DOMAIN content'[f] = 1 .. Len(content'[f])
    BY <1>7, LenProperties
  <2> SUFFICES ASSUME NEW f \in Names, NEW i \in 1 .. Len(content'[f]), content'[f][i] = Row
               PROVE  i > 1 /\ (content'[f][i - 1].whole \/ i - 1 \in left'[f])
    BY <2>1 DEF RowsStayWhole
  <2>2. i \in 1 .. most(f) /\ i \in 1 .. Len(content[f]) /\ most(f) \in Nat /\ content[f][i] = Row
    BY <1>1, <1>6, FilesTyped
  <2>3. i > 1 /\ (content[f][i - 1].whole \/ i - 1 \in left[f])
    BY <1>1, <2>2 DEF RowsWhole
  <2>4. i - 1 \in 1 .. most(f) /\ i - 1 < most(f) /\ i - 1 > 0
    BY <2>2, <2>3
  <2>5. content'[f][i - 1] = content[f][i - 1] /\ flushed'[f] = most(f) /\ i - 1 <= flushed'[f]
    BY <1>6, <1>9, <2>4
  <2>6. left'[f] = {j \in left[f] \cup {flushed'[f]} :
                       j > 0 /\ j <= flushed'[f] /\ ~content'[f][j].whole}
    BY <1>8
  <2> QED BY <2>3, <2>4, <2>5, <2>6
<1>13. FragmentsKnown'
  <2> SUFFICES ASSUME NEW f \in Names, Torn(content'[f]) PROVE Len(content'[f]) \in left'[f]
    BY DEF FragmentsKnown
  <2>1. /\ flushed'[f] = Len(content'[f]) /\ Len(content'[f]) \in Nat /\ Len(content'[f]) # 0
        /\ ~content'[f][Len(content'[f])].whole
    BY <1>6, <1>9, EmptySeq DEF Torn
  <2>2. left'[f] = {j \in left[f] \cup {flushed'[f]} :
                       j > 0 /\ j <= flushed'[f] /\ ~content'[f][j].whole}
    BY <1>8
  <2> QED BY <2>1, <2>2
<1>14. UnflushedCounted'
  <2>1. \A f \in Names : \A i \in 1 .. Len(content'[f]) : ~(content'[f][i] = Row /\ i > flushed'[f])
    BY <1>6, <1>9
  <2> QED BY <1>11, <2>1, AllFlushed
<1>15. FlushCalled'
  BY <1>8, RecordingAssumption DEF Begin, FlushCalled
<1> QED BY <1>11, <1>12, <1>13, <1>14, <1>15 DEF RecordingInv

\* The files and the logger's state are left alone.
LEMMA CsvUnchanged ==
    ASSUME RecordingInv, UNCHANGED csvVars, RecordingTypeOK'
    PROVE  RecordingInv'
BY DEF RecordingInv, csvVars, RowsStayWhole, FragmentsKnown, UnflushedCounted, Unflushed,
       FlushCalled

LEMMA InitRecording == RecordingInit => RecordingInv
<1> SUFFICES ASSUME RecordingInit PROVE RecordingInv
  OBVIOUS
<1>1. /\ \A f \in Names : content[f] = <<>> /\ flushed[f] = 0 /\ left[f] = {}
      /\ content \in [Names -> Seq(Item)] /\ flushed \in [Names -> Nat] /\ left \in [Names -> SUBSET Nat]
  BY DEF RecordingInit
<1>2. \A f \in Names : Len(content[f]) = 0 /\ DOMAIN content[f] = {}
  BY <1>1
<1>3. RecordingTypeOK
  <2>1. rtcKept \in BOOLEAN /\ clockReady \in {FALSE, rtcKept}
    BY DEF RecordingInit
  <2>2. {rtcKept, clockReady, networkReady, ready, incompleteRow, flushDue} \subseteq BOOLEAN
    BY <2>1 DEF RecordingInit
  <2>3. /\ day \in 1 .. MaxDay /\ file \in Names \cup {NoFile} /\ rowsSinceFlush \in 0 .. FlushRows
        /\ shorts \in 0 .. MaxShort /\ resets \in 0 .. MaxResets
    BY RecordingAssumption DEF RecordingInit
  <2>4. \A f \in Names : flushed[f] <= Len(content[f])
    BY <1>1, <1>2
  <2> QED BY <1>1, <2>2, <2>3, <2>4 DEF RecordingTypeOK
<1>4. RowsStayWhole /\ FragmentsKnown
  BY <1>1, <1>2 DEF RowsStayWhole, FragmentsKnown, Torn
<1>5. Unflushed = {}
  BY <1>2 DEF Unflushed
<1>6. UnflushedCounted
  <2>1. Cardinality({}) <= rowsSinceFlush
    BY FS_EmptySet DEF RecordingInit
  <2>2. \A f \in Names : \A i \in 1 .. Len(content[f]) : FALSE
    BY <1>2
  <2> QED BY <1>5, <2>1, <2>2, FS_EmptySet DEF UnflushedCounted
<1>7. FlushCalled
  BY RecordingAssumption DEF RecordingInit, FlushCalled
<1> QED BY <1>3, <1>4, <1>6, <1>7 DEF RecordingInv

LEMMA NextRecording == RecordingInv /\ [RecordingNext]_recordingVars => RecordingInv'
<1> SUFFICES ASSUME RecordingInv, [RecordingNext]_recordingVars PROVE RecordingInv'
  OBVIOUS
<1>1. RecordingTypeOK
  BY DEF RecordingInv
<1>2. CASE SyncRtcFromNetwork
  <2>1. /\ {rtcKept', clockReady', networkReady'} \subseteq BOOLEAN
        /\ UNCHANGED <<day, csvVars, shorts, resets>>
    BY <1>1, <1>2 DEF SyncRtcFromNetwork, SetFromUnixTime, WriteChip, RecordingTypeOK
  <2>2. RecordingTypeOK'
    BY <1>1, <2>1 DEF RecordingTypeOK, csvVars
  <2> QED BY <2>1, <2>2, CsvUnchanged
<1>3. CASE Midnight
  <2>1. day' \in 1 .. MaxDay /\ UNCHANGED <<rtcKept, clockReady, networkReady, csvVars, shorts, resets>>
    BY <1>1, <1>3, RecordingAssumption DEF Midnight, RecordingTypeOK
  <2>2. RecordingTypeOK'
    BY <1>1, <2>1 DEF RecordingTypeOK, csvVars
  <2> QED BY <2>1, <2>2, CsvUnchanged
<1>4. CASE LogRow
  <2>1. UNCHANGED <<clockVars, resets>> /\ ~flushDue
    BY <1>4 DEF LogRow
  <2>2. PICK name \in DateStamp : \/ OpenFails(name) \/ HeaderFails(name) \/ SeparatorFails(name)
                                  \/ RowFails(name) \/ RowWritten(name)
    BY <1>4 DEF LogRow
  <2>3. name \in Names
    BY <1>1, DateNamed
  <2> QED BY <2>1, <2>2, <2>3, OpenFailsStep, SeparatorFailsStep, RowFailsStep, RowWrittenStep
<1>5. CASE CardPowerLoss
  BY <1>5, CardPowerLossStep
<1>6. CASE UNCHANGED recordingVars
  <2>1. RecordingTypeOK'
    BY <1>1, <1>6 DEF RecordingTypeOK, recordingVars, clockVars, csvVars
  <2> QED BY <1>6, <2>1, CsvUnchanged DEF recordingVars
<1>7. CASE FlushIfNeeded
  BY <1>7, FlushIfNeededStep
<1> QED BY <1>2, <1>3, <1>4, <1>5, <1>6, <1>7 DEF RecordingNext

LEMMA RecordingKept == RecordingSpec => []RecordingInv
BY InitRecording, NextRecording, PTL DEF RecordingSpec

\* The files, the clock and what CsvLogger keeps have their types, for any
\* number of days, rows, short prints and power losses.
THEOREM RecordingTypes == RecordingSpec => []RecordingTypeOK
<1>1. RecordingInv => RecordingTypeOK
  BY DEF RecordingInv
<1> QED BY <1>1, RecordingKept, PTL

\* A row that logRow accepted is a line of its own under a header: it stands
\* behind a fragment only if that fragment was the end of the file when
\* ensureFileOpen closed it or the power was lost.
THEOREM AcceptedRowsWhole == RecordingSpec => []RowsStayWhole
<1>1. RecordingInv => RowsStayWhole
  BY DEF RecordingInv
<1> QED BY <1>1, RecordingKept, PTL

\* A power loss takes FlushRows rows at most, and less outside of the moment
\* between the row that fills the count and its flush: flushIfNeeded counts across
\* the files, and ensureFileOpen flushes the file it closes.
THEOREM UnflushedBounded == RecordingSpec => []LossBounded
<1>1. RecordingInv => LossBounded
  <2> SUFFICES ASSUME RecordingInv PROVE LossBounded
    OBVIOUS
  <2>1. /\ rowsSinceFlush \in 0 .. FlushRows /\ FlushRows \in Nat /\ FlushCalled
        /\ IsFiniteSet(Unflushed) /\ Cardinality(Unflushed) <= rowsSinceFlush
    BY RecordingAssumption DEF RecordingInv, RecordingTypeOK, UnflushedCounted
  <2>2. Cardinality(Unflushed) \in Nat
    BY <2>1, FS_CardinalityType
  <2> DEFINE a == Cardinality(Unflushed)
  <2>3. a \in Nat /\ a <= rowsSinceFlush
    BY <2>1, <2>2
  <2> HIDE DEF a
  <2>4. a <= FlushRows /\ (a = FlushRows => ~(rowsSinceFlush < FlushRows))
    BY <2>1, <2>3
  <2>5. a = FlushRows => flushDue
    BY <2>1, <2>4 DEF FlushCalled
  <2> QED BY <2>4, <2>5 DEF LossBounded, a
<1> QED BY <1>1, RecordingKept, PTL
=============================================================================
