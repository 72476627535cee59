------------------------------ MODULE OwnerReset ------------------------------
(***************************************************************************)
(* Change of ownership: OwnerReset.h, OwnerResetNvs.h, the provisioning    *)
(* command of DeviceProvisioning.cpp and the part of setup() that calls    *)
(* them.                                                                   *)
(*                                                                         *)
(* A reset first sets a latch in flash, then clears the four places that   *)
(* hold credentials, then clears the latch; a boot that finds the latch    *)
(* set repeats the clearing before anything reads a credential.  Every     *)
(* action is one call that reads or writes flash; power may be lost after  *)
(* each, and each may fail.                                                *)
(*                                                                         *)
(* Credentials are named by the reset that preceded them: epoch counts the *)
(* resets whose latch reached flash, a store holds the epoch in which its  *)
(* contents were written, or 0.                                            *)
(***************************************************************************)
EXTENDS Integers, Sequences

CONSTANTS
    Builds,         \* values of APEXI_PRODUCTION_SECURITY_REQUIRED; each boot may run another build
    MaxEpochs,      \* bound: resets whose latch reaches flash
    MaxFailures,    \* bound: calls that fail
    MaxCrashes      \* bound: power losses inside setup()

ASSUME ResetAssumption ==
    /\ Builds \subseteq BOOLEAN
    /\ MaxEpochs \in Nat /\ MaxFailures \in Nat /\ MaxCrashes \in Nat

VARIABLES
    \* flash
    latch,      \* owner_reset/pending
    store,      \* whose credentials each store holds
    ready,      \* apexi_owner/ready
    complete,   \* the owner record has every field that is validated
    \* the coordinator
    result,     \* result_
    requested,  \* requested_
    index,      \* the clear callback that is called next
    cleared,    \* all of them so far have succeeded
    caller,     \* who called it: setup, the button or a serial command
    \* the rest of setup()
    loaded,     \* whose credentials DeviceProvisioning holds in RAM, or 0
    network,    \* networking was started
    pc,
    \* history
    epoch,
    failures,
    crashes

flash == <<latch, store, ready, complete>>
coordinator == <<result, requested, index, cleared, caller>>
vars == <<flash, coordinator, loaded, network, pc, epoch, failures, crashes>>

-----------------------------------------------------------------------------

\* The clear callbacks in the order clearOwnerState passes them
Order == <<"owner", "runtime", "rotation", "authorization">>
Stores == {"owner", "runtime", "rotation", "authorization"}
Last == 4

Epochs == 0 .. MaxEpochs + 1

\* Coordinator::networkAllowed, kept in ownerResetReady
NetworkAllowed(r) == r \in {"NoResetNeeded", "Completed"}

\* What DeviceProvisioning::begin finds: a record is used when it is marked
\* ready and passes validation.
Stored == IF ready /\ complete THEN store["owner"] ELSE 0

TypeOK ==
    /\ latch \in BOOLEAN
    /\ store \in [Stores -> Epochs]
    /\ ready \in BOOLEAN /\ complete \in BOOLEAN
    /\ result \in {"Unchecked", "NoResetNeeded", "Completed", "Pending", "StorageError"}
    /\ requested \in BOOLEAN
    /\ index \in 1 .. Last
    /\ cleared \in BOOLEAN
    /\ caller \in {"boot", "button", "command"}
    /\ loaded \in Epochs
    /\ network \in BOOLEAN
    /\ pc \in {"resume", "clear", "unmark", "verify", "load", "button", "mark", "confirm",
               "window", "record", "fields", "ready", "rollback", "restart", "start",
               "running"}
    /\ epoch \in 1 .. MaxEpochs + 1
    /\ failures \in 0 .. MaxFailures
    /\ crashes \in 0 .. MaxCrashes

\* RAM at power-on
Booting ==
    /\ result' = "Unchecked" /\ requested' = FALSE
    /\ index' = 1 /\ cleared' = TRUE /\ caller' = "boot"
    /\ loaded' = 0 /\ network' = FALSE /\ pc' = "resume"

Init ==
    /\ latch = FALSE /\ store = [s \in Stores |-> 0]
    /\ ready = FALSE /\ complete = FALSE
    /\ result = "Unchecked" /\ requested = FALSE
    /\ index = 1 /\ cleared = TRUE /\ caller = "boot"
    /\ loaded = 0 /\ network = FALSE /\ pc = "resume"
    /\ epoch = 1 /\ failures = 0 /\ crashes = 0

-----------------------------------------------------------------------------
(* Coordinator *)

\* A call fails, or reports what is not so.
Fails == failures < MaxFailures /\ failures' = failures + 1
Works == UNCHANGED failures

\* A bound: another request may still set the latch.
MayRequest == latch \/ epoch <= MaxEpochs

\* The operation ends with r: setup goes on where it was called from.
Return(r) ==
    /\ result' = r
    /\ pc' = CASE caller = "boot" -> "load"
               [] caller = "button" -> IF NetworkAllowed(r) THEN "restart" ELSE "window"
               [] caller = "command" -> IF NetworkAllowed(r) THEN "record" ELSE "start"

\* Mutant: a boot that finds the latch set waits for the next request.
ResumeSkips ==
    /\ pc = "resume"
    /\ result' = IF latch THEN "Pending" ELSE "NoResetNeeded"
    /\ pc' = "load"
    /\ UNCHANGED <<flash, requested, index, cleared, caller, loaded, network, epoch, failures,
                   crashes>>

\* resume.  It is called once per boot, before any request.
Resume ==
    /\ pc = "resume"
    /\ \/ Fails /\ Return("StorageError")
       \/ Works /\ ~latch /\ Return("NoResetNeeded")
       \/ Works /\ latch /\ result' = "Pending" /\ pc' = "clear"
    /\ UNCHANGED <<flash, requested, index, cleared, caller, loaded, network, epoch, crashes>>

\* request: the latch.  A write that reports failure may have reached flash,
\* one that reports success may not.
Mark ==
    /\ pc = "mark"
    /\ \/ Works /\ latch' = TRUE /\ result' = "Pending" /\ pc' = "confirm"
       \/ Fails /\ latch' \in {TRUE, latch} /\ Return("StorageError")
       \/ Fails /\ latch' = latch /\ result' = "Pending" /\ pc' = "confirm"
    /\ epoch' = IF latch' /\ ~latch THEN epoch + 1 ELSE epoch
    /\ requested' = TRUE
    /\ index' = 1 /\ cleared' = TRUE
    /\ UNCHANGED <<store, ready, complete, caller, loaded, network, crashes>>

\* request: the latch is read back
Confirm ==
    /\ pc = "confirm"
    /\ \/ Fails /\ Return("StorageError")
       \/ Works /\ ~latch /\ Return("StorageError")
       \/ Works /\ latch /\ pc' = "clear" /\ UNCHANGED result
    /\ UNCHANGED <<flash, requested, index, cleared, caller, loaded, network, epoch, crashes>>

Erased(s) ==
    /\ store' = [store EXCEPT ![s] = 0]
    /\ IF s = "owner" THEN ready' = FALSE /\ complete' = FALSE
                      ELSE UNCHANGED <<ready, complete>>

\* Entries go one by one: of the owner record some may be left.
PartlyErased(s) ==
    /\ IF s = "owner" THEN ready' \in {ready, FALSE} /\ complete' \in {complete, FALSE}
                      ELSE UNCHANGED <<ready, complete>>
    /\ UNCHANGED store

\* Mutant: the result of an earlier callback is forgotten.
ClearForgets ==
    /\ pc = "clear"
    /\ \E s \in {Order[index]}, ok \in BOOLEAN :
          /\ Erased(s) \/ (~ok /\ PartlyErased(s))
          /\ cleared' = ok
          /\ IF ok THEN Works ELSE Fails
    /\ \/ index < Last /\ index' = index + 1 /\ UNCHANGED <<result, pc>>
       \/ index = Last /\ cleared' /\ pc' = "unmark" /\ UNCHANGED <<index, result>>
       \/ index = Last /\ ~cleared' /\ Return("Pending") /\ UNCHANGED index
    /\ UNCHANGED <<latch, requested, caller, loaded, network, epoch, crashes>>

\* finish: one clear callback; the others are called even when it fails.
Clear ==
    /\ pc = "clear"
    /\ \E s \in {Order[index]}, ok \in BOOLEAN :
          /\ Erased(s) \/ (~ok /\ PartlyErased(s))
          /\ cleared' = (cleared /\ ok)
          /\ IF ok THEN Works ELSE Fails
    /\ \/ index < Last /\ index' = index + 1 /\ UNCHANGED <<result, pc>>
       \/ index = Last /\ cleared' /\ pc' = "unmark" /\ UNCHANGED <<index, result>>
       \/ index = Last /\ ~cleared' /\ Return("Pending") /\ UNCHANGED index
    /\ UNCHANGED <<latch, requested, caller, loaded, network, epoch, crashes>>

\* finish: the latch is cleared once every store is
Unmark ==
    /\ pc = "unmark"
    /\ \/ Works /\ latch' = FALSE /\ pc' = "verify" /\ UNCHANGED result
       \/ Fails /\ latch' \in {FALSE, latch} /\ Return("StorageError")
       \/ Fails /\ latch' = latch /\ pc' = "verify" /\ UNCHANGED result
    /\ UNCHANGED <<store, ready, complete, requested, index, cleared, caller, loaded, network,
                   epoch, crashes>>

\* Mutant: the latch is not read back.
VerifyBlindly ==
    /\ pc = "verify"
    /\ requested' = FALSE /\ Return("Completed")
    /\ UNCHANGED <<flash, index, cleared, caller, loaded, network, epoch, failures, crashes>>

\* finish: the latch is read back
Verify ==
    /\ pc = "verify"
    /\ \/ Fails /\ Return("StorageError") /\ UNCHANGED requested
       \/ Works /\ latch /\ Return("StorageError") /\ UNCHANGED requested
       \/ Works /\ ~latch /\ requested' = FALSE /\ Return("Completed")
    /\ UNCHANGED <<flash, index, cleared, caller, loaded, network, epoch, crashes>>

-----------------------------------------------------------------------------
(* setup() *)

\* DeviceProvisioning::begin; the store may be unreadable.
Load ==
    /\ pc = "load"
    /\ \/ Works /\ loaded' = Stored
       \/ Fails /\ loaded' = 0
    /\ pc' = "button"
    /\ UNCHANGED <<flash, coordinator, network, epoch, crashes>>

\* The button is held for five seconds, or it is not.
Button ==
    /\ pc = "button"
    /\ \/ MayRequest /\ pc' = "mark" /\ caller' = "button"
       \/ pc' = "window" /\ UNCHANGED caller
    /\ UNCHANGED <<flash, result, requested, index, cleared, loaded, network, epoch, failures,
                   crashes>>

\* The provisioning window: no provisioning command, an invalid one, a valid
\* one.  acceptSerialCommand asks for the reset once it has validated.
Window ==
    /\ pc = "window"
    /\ \/ pc' = "start" /\ UNCHANGED caller
       \/ NetworkAllowed(result) /\ pc' = "restart" /\ UNCHANGED caller
       \/ NetworkAllowed(result) /\ MayRequest /\ pc' = "mark" /\ caller' = "command"
    /\ UNCHANGED <<flash, result, requested, index, cleared, loaded, network, epoch, failures,
                   crashes>>

\* acceptSerialCommand: the stores are opened, the record is begun.  A store
\* that does not open ends the command; a failed put undoes the record.
Record ==
    /\ pc = "record"
    /\ \/ /\ store' = [store EXCEPT !["owner"] = epoch]
          /\ (Works /\ pc' = "fields") \/ (Fails /\ pc' = "rollback")
       \/ Fails /\ UNCHANGED store /\ pc' \in {"restart", "rollback"}
    /\ UNCHANGED <<latch, ready, complete, coordinator, loaded, network, epoch, crashes>>

\* acceptSerialCommand: the other fields
Fields ==
    /\ pc = "fields"
    /\ \/ Works /\ complete' = TRUE /\ pc' = "ready"
       \/ Fails /\ complete' \in {complete, TRUE} /\ pc' = "rollback"
    /\ UNCHANGED <<latch, store, ready, coordinator, loaded, network, epoch, crashes>>

\* acceptSerialCommand: the mark that makes the record valid comes last
Ready ==
    /\ pc = "ready"
    /\ \/ Works /\ ready' = TRUE /\ pc' = "restart"
       \/ Fails /\ ready' \in {ready, TRUE} /\ pc' = "rollback"
    /\ UNCHANGED <<latch, store, complete, coordinator, loaded, network, epoch, crashes>>

\* Mutant: setup goes on after a rejected command.
RollbackGoesOn ==
    /\ pc = "rollback"
    /\ (Works /\ Erased("owner")) \/ (Fails /\ PartlyErased("owner"))
    /\ pc' = "start"
    /\ UNCHANGED <<latch, coordinator, loaded, network, epoch, crashes>>

\* A record that was not saved is removed, if that succeeds; the rejection
\* ends in a restart as the acceptance does.
Rollback ==
    /\ pc = "rollback"
    /\ (Works /\ Erased("owner")) \/ (Fails /\ PartlyErased("owner"))
    /\ pc' = "restart"
    /\ UNCHANGED <<latch, coordinator, loaded, network, epoch, crashes>>

\* ESP.restart()
Restart ==
    /\ pc = "restart"
    /\ Booting
    /\ UNCHANGED <<flash, epoch, failures, crashes>>

\* The decision of setup(); without a record a development build uses its
\* compiled defaults.
Start ==
    /\ pc = "start"
    /\ \E production \in Builds :
          network' = (NetworkAllowed(result) /\ (production => loaded # 0))
    /\ pc' = "running"
    /\ UNCHANGED <<flash, coordinator, loaded, epoch, failures, crashes>>

\* In operation settings are saved and bearers rotate for the owner in RAM;
\* a development build without one stores what an owner approves in the app.
Operate ==
    /\ pc = "running" /\ network
    /\ \E s \in {"runtime", IF loaded # 0 THEN "rotation" ELSE "authorization"} :
          store' = [store EXCEPT ![s] = IF loaded # 0 THEN loaded ELSE epoch]
    /\ UNCHANGED <<latch, ready, complete, coordinator, loaded, network, pc, epoch,
                   failures, crashes>>

\* The device is switched off and on.
PowerCycle ==
    /\ pc = "running"
    /\ Booting
    /\ UNCHANGED <<flash, epoch, failures, crashes>>

\* Power is lost inside setup(), perhaps in the middle of an erasure.
PowerLoss ==
    /\ pc # "running" /\ crashes < MaxCrashes
    /\ crashes' = crashes + 1
    /\ Booting
    /\ IF pc = "rollback" \/ (pc = "clear" /\ Order[index] = "owner")
       THEN PartlyErased("owner") ELSE UNCHANGED <<store, ready, complete>>
    /\ UNCHANGED <<latch, epoch, failures>>

-----------------------------------------------------------------------------

Setup ==
    \/ Resume \/ Mark \/ Confirm \/ Clear \/ Unmark \/ Verify
    \/ Load \/ Button \/ Window \/ Record \/ Fields \/ Ready \/ Rollback
    \/ Restart \/ Start

Next == Setup \/ Operate \/ PowerCycle \/ PowerLoss

Spec == Init /\ [][Next]_vars

\* setup() does not block, and the device is switched on again.
Fairness == WF_vars(Setup) /\ WF_vars(PowerCycle)

FairSpec == Spec /\ Fairness

-----------------------------------------------------------------------------
(* Properties *)

\* No network session uses, or has within its reach, a credential from before
\* the last reset whose latch reached flash: neither in RAM nor in any of the
\* four stores, whatever failed or was interrupted since.
NoFormerOwner ==
    network => loaded \in {0, epoch} /\ \A s \in Stores : store[s] \in {0, epoch}

\* A provisioning record is written only when the erasure is final: the
\* other stores are empty and no later boot will repeat the erasure and take
\* the new owner's record with it.
WritesAfterErasure ==
    pc \in {"record", "fields", "ready"} =>
        ~latch /\ \A s \in Stores \ {"owner"} : store[s] = 0

\* The owner in RAM is the one in flash while the network runs: no command
\* that was rejected half way leaves setup() with what it loaded before.
NetworkUsesStored == network /\ loaded # 0 => loaded = Stored

\* A reset that was requested in this boot keeps it offline until it is
\* complete, also when not even its latch could be written.
RequestStaysOffline == requested => ~network

\* A reset whose latch reached flash is finished, once calls stop failing.
ResetFinishes == latch ~> ~latch
=============================================================================
