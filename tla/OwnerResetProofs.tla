--------------------------- MODULE OwnerResetProofs ---------------------------
(***************************************************************************)
(* The safety of the change of ownership for any number of resets,         *)
(* failing calls and power losses, in production and development builds.   *)
(***************************************************************************)
EXTENDS OwnerReset, TLAPS

RTypes ==
    /\ latch \in BOOLEAN /\ requested \in BOOLEAN /\ cleared \in BOOLEAN
    /\ network \in BOOLEAN
    /\ store \in [Stores -> Int]
    /\ loaded \in Int /\ epoch \in Nat
    /\ index \in 1 .. Last
    /\ caller \in {"boot", "button", "command"}

Fresh(e) == e \in {0, epoch}

\* Only the latch covers for credentials of a former owner.
LatchCovers == ~latch => \A s \in Stores : Fresh(store[s])

\* What the erasure has established so far.
ErasureSound ==
    /\ pc \in {"resume", "confirm"} => index = 1
    /\ pc = "resume" => caller = "boot"
    /\ pc = "clear" /\ cleared =>
          \A i \in 1 .. Last : i < index => store[Order[i]] = 0
    /\ pc \in {"unmark", "verify"} => \A s \in Stores : store[s] = 0

\* What it means that the coordinator allows the network.
ResultSound ==
    /\ NetworkAllowed(result) => ~latch /\ ~requested
    /\ pc = "resume" => ~requested

\* While setup() may still go on to start the network, RAM holds the record
\* in flash.
LoadedSound ==
    NetworkAllowed(result) /\ pc \in {"button", "window", "start", "running"} =>
        loaded = 0 \/ loaded = Stored

WritingSound ==
    /\ WritesAfterErasure
    /\ pc = "rollback" => ~latch

NetworkSound == network => pc = "running" /\ NetworkAllowed(result)

\* The inductive invariant.
RInv ==
    /\ RTypes /\ LatchCovers /\ ErasureSound /\ ResultSound /\ LoadedSound
    /\ WritingSound /\ NetworkSound

\* A boot forgets RAM and reads nothing yet: only what flash holds matters.
LEMMA BootingSafe ==
    ASSUME RTypes, LatchCovers, Booting, UNCHANGED <<latch, store, epoch>>
    PROVE  RInv'
<1>1. RTypes'
  <2>1. requested' = FALSE /\ cleared' = TRUE /\ network' = FALSE /\ caller' = "boot"
    BY DEF Booting
  <2>2. requested' \in BOOLEAN /\ cleared' \in BOOLEAN /\ network' \in BOOLEAN
    BY <2>1, Zenon
  <2>3. loaded' = 0 /\ index' = 1
    BY DEF Booting
  <2> QED BY <2>1, <2>2, <2>3 DEF RTypes, Last
<1>2. LatchCovers'
  BY DEF LatchCovers, Fresh
<1>3. ErasureSound' /\ ResultSound'
  BY DEF Booting, ErasureSound, ResultSound, NetworkAllowed
<1>4. LoadedSound' /\ WritingSound' /\ NetworkSound'
  BY DEF Booting, LoadedSound, WritingSound, WritesAfterErasure, NetworkSound, NetworkAllowed
<1> QED BY <1>1, <1>2, <1>3, <1>4 DEF RInv

\* An operation that ends without success leaves the device offline.
LEMMA ReturnOffline ==
    ASSUME RInv, NEW r \in {"Pending", "StorageError"}, Return(r), pc # "running",
           RTypes', LatchCovers', network' = network
    PROVE  RInv'
<1>1. /\ result' = r /\ ~NetworkAllowed(r)
      /\ pc' \in {"load", "window", "start"}
  BY DEF Return, NetworkAllowed, RInv, RTypes
<1>2. ~network'
  BY DEF RInv, NetworkSound
<1>3. ErasureSound' /\ ResultSound' /\ LoadedSound' /\ WritingSound' /\ NetworkSound'
  BY <1>1, <1>2 DEF ErasureSound, ResultSound, LoadedSound, WritingSound, WritesAfterErasure,
                    NetworkSound, NetworkAllowed
<1> QED BY <1>3 DEF RInv

\* The first read of the latch.
LEMMA ResumeSafe ==
    ASSUME RInv, Resume
    PROVE  RInv'
<1> USE DEF RInv, flash
<1>1. /\ pc = "resume" /\ index = 1 /\ caller = "boot" /\ ~requested /\ ~network
      /\ UNCHANGED <<latch, store, ready, complete, requested, index, cleared, caller, loaded,
                     network, epoch>>
  BY DEF Resume, ErasureSound, ResultSound, NetworkSound
<1>2. RTypes' /\ LatchCovers'
  BY <1>1 DEF RTypes, LatchCovers, Fresh
<1>3. CASE Return("StorageError")
  BY <1>1, <1>2, <1>3, ReturnOffline
<1>4. CASE ~latch /\ Return("NoResetNeeded")
  <2>1. result' = "NoResetNeeded" /\ pc' = "load"
    BY <1>1, <1>4 DEF Return
  <2> QED BY <1>1, <1>2, <1>4, <2>1 DEF ErasureSound, ResultSound, LoadedSound, WritingSound,
             WritesAfterErasure, NetworkSound
<1>5. CASE result' = "Pending" /\ pc' = "clear"
  BY <1>1, <1>2, <1>5 DEF ErasureSound, ResultSound, LoadedSound, WritingSound,
     WritesAfterErasure, NetworkSound, NetworkAllowed, Last
<1> QED BY <1>3, <1>4, <1>5 DEF Resume

\* The latch is written before anything is erased.
LEMMA MarkSafe ==
    ASSUME RInv, Mark
    PROVE  RInv'
<1> USE DEF RInv
<1>1. /\ pc = "mark" /\ ~network /\ latch' \in BOOLEAN /\ (latch => latch')
      /\ requested' = TRUE /\ index' = 1 /\ cleared' = TRUE
      /\ UNCHANGED <<store, ready, complete, caller, loaded, network>>
  BY DEF Mark, NetworkSound, RTypes
<1>2. /\ epoch' \in Nat
      /\ ~latch' => epoch' = epoch
  BY <1>1 DEF Mark, RTypes
<1>3. RTypes'
  BY <1>1, <1>2 DEF RTypes, Last
<1>4. LatchCovers'
  BY <1>1, <1>2 DEF LatchCovers, Fresh
<1>5. CASE Return("StorageError")
  BY <1>1, <1>3, <1>4, <1>5, ReturnOffline
<1>6. CASE result' = "Pending" /\ pc' = "confirm"
  BY <1>1, <1>3, <1>4, <1>6 DEF ErasureSound, ResultSound, LoadedSound, WritingSound,
     WritesAfterErasure, NetworkSound, NetworkAllowed
<1> QED BY <1>5, <1>6 DEF Mark

\* The latch is read back.
LEMMA ConfirmSafe ==
    ASSUME RInv, Confirm
    PROVE  RInv'
<1> USE DEF RInv, flash
<1>1. /\ pc = "confirm" /\ index = 1 /\ ~network
      /\ UNCHANGED <<latch, store, ready, complete, requested, index, cleared, caller, loaded,
                     network, epoch>>
  BY DEF Confirm, ErasureSound, NetworkSound
<1>2. RTypes' /\ LatchCovers'
  BY <1>1 DEF RTypes, LatchCovers, Fresh
<1>3. CASE Return("StorageError")
  BY <1>1, <1>2, <1>3, ReturnOffline
<1>4. CASE latch /\ pc' = "clear" /\ UNCHANGED result
  BY <1>1, <1>2, <1>4 DEF ErasureSound, ResultSound, LoadedSound, WritingSound,
     WritesAfterErasure, NetworkSound, NetworkAllowed, Last
<1> QED BY <1>3, <1>4 DEF Confirm

\* Each store is one of the four callbacks.
LEMMA OrderCoversStores ==
    /\ \A i \in 1 .. Last : Order[i] \in Stores
    /\ \A s \in Stores : \E i \in 1 .. Last : Order[i] = s
    /\ \A i, j \in 1 .. Last : Order[i] = Order[j] => i = j
<1>1. Order[1] = "owner" /\ Order[2] = "runtime" /\ Order[3] = "rotation"
      /\ Order[4] = "authorization"
  BY DEF Order
<1>2. 1 .. Last = {1, 2, 3, 4}
  BY DEF Last
<1> QED BY <1>1, <1>2 DEF Stores

\* A callback empties its store or the result says that it did not.
LEMMA ClearSafe ==
    ASSUME RInv, Clear
    PROVE  RInv'
<1> USE DEF RInv
<1>1. /\ pc = "clear" /\ ~network
      /\ UNCHANGED <<latch, requested, caller, loaded, network, epoch>>
  BY DEF Clear, NetworkSound
<1> DEFINE s == Order[index]
<1>2. index \in 1 .. Last /\ s \in Stores /\ store \in [Stores -> Int]
  BY OrderCoversStores DEF RTypes
<1>3. /\ store' = [store EXCEPT ![s] = 0] \/ store' = store
      /\ cleared' \in BOOLEAN
      /\ cleared' => cleared /\ store' = [store EXCEPT ![s] = 0]
  BY DEF Clear, Erased, PartlyErased, RTypes
<1>4. /\ store' \in [Stores -> Int]
      /\ \A t \in Stores : store'[t] \in {0, store[t]}
      /\ cleared' => store'[s] = 0
  BY <1>2, <1>3
<1>5. index' \in 1 .. Last
  BY <1>2 DEF Clear, Last
<1>6. RTypes'
  BY <1>1, <1>3, <1>4, <1>5 DEF RTypes
<1>7. LatchCovers'
  BY <1>1, <1>4 DEF LatchCovers, Fresh
<1>8. cleared' => \A i \in 1 .. Last : i <= index => store'[Order[i]] = 0
  <2> SUFFICES ASSUME cleared', NEW i \in 1 .. Last, i <= index
               PROVE  store'[Order[i]] = 0
    OBVIOUS
  <2>1. cleared
    BY <1>3
  <2>2. CASE i = index
    BY <1>4, <2>2
  <2>3. CASE i # index
    <3>1. i < index
      BY <1>2, <2>3
    <3>2. store[Order[i]] = 0 /\ Order[i] \in Stores
      BY <1>1, <2>1, <3>1, OrderCoversStores DEF ErasureSound
    <3> QED BY <1>4, <3>2
  <2> QED BY <2>2, <2>3
<1>9. CASE index < Last /\ index' = index + 1 /\ UNCHANGED <<result, pc>>
  <2>1. cleared' => \A i \in 1 .. Last : i < index' => store'[Order[i]] = 0
    BY <1>2, <1>8, <1>9
  <2>2. ErasureSound'
    BY <1>1, <1>9, <2>1 DEF ErasureSound
  <2> QED BY <1>1, <1>6, <1>7, <1>9, <2>2 DEF ResultSound, LoadedSound, WritingSound,
             WritesAfterErasure, NetworkSound
<1>10. CASE index = Last /\ cleared' /\ pc' = "unmark" /\ UNCHANGED <<index, result>>
  <2>1. \A i \in 1 .. Last : store'[Order[i]] = 0
    BY <1>8, <1>10 DEF Last
  <2>2. \A t \in Stores : store'[t] = 0
    BY <2>1, OrderCoversStores
  <2>3. ErasureSound'
    BY <1>10, <2>2 DEF ErasureSound
  <2> QED BY <1>1, <1>6, <1>7, <1>10, <2>3 DEF ResultSound, LoadedSound, WritingSound,
             WritesAfterErasure, NetworkSound
<1>11. CASE Return("Pending")
  BY <1>1, <1>6, <1>7, <1>11, ReturnOffline
<1> QED BY <1>9, <1>10, <1>11 DEF Clear

\* The latch is cleared when no store holds anything.
LEMMA UnmarkSafe ==
    ASSUME RInv, Unmark
    PROVE  RInv'
<1> USE DEF RInv
<1>1. /\ pc = "unmark" /\ ~network /\ (\A s \in Stores : store[s] = 0)
      /\ UNCHANGED <<store, ready, complete, requested, index, cleared, caller, loaded, network,
                     epoch>>
  BY DEF Unmark, ErasureSound, NetworkSound
<1>2. latch' \in BOOLEAN
  <2>1. latch' \in {FALSE, latch} /\ latch \in BOOLEAN
    BY DEF Unmark, RTypes
  <2> QED BY <2>1, Zenon
<1>3. latch' => latch
  BY DEF Unmark
<1>4. RTypes' /\ LatchCovers'
  BY <1>1, <1>2 DEF RTypes, LatchCovers, Fresh
<1>5. CASE Return("StorageError")
  BY <1>1, <1>4, <1>5, ReturnOffline
<1>6. CASE pc' = "verify" /\ UNCHANGED result
  BY <1>1, <1>3, <1>4, <1>6 DEF ErasureSound, ResultSound, LoadedSound, WritingSound,
     WritesAfterErasure, NetworkSound, NetworkAllowed
<1> QED BY <1>5, <1>6 DEF Unmark

\* Only a latch that is read back clear completes the reset.
LEMMA VerifySafe ==
    ASSUME RInv, Verify
    PROVE  RInv'
<1> USE DEF RInv, flash
<1>1. /\ pc = "verify" /\ ~network /\ (\A s \in Stores : store[s] = 0)
      /\ requested' \in {requested, FALSE}
      /\ UNCHANGED <<latch, store, ready, complete, index, cleared, caller, loaded, network,
                     epoch>>
  BY DEF Verify, ErasureSound, NetworkSound
<1>2. RTypes' /\ LatchCovers'
  BY <1>1 DEF RTypes, LatchCovers, Fresh
<1>3. CASE Return("StorageError")
  BY <1>1, <1>2, <1>3, ReturnOffline
<1>4. CASE ~latch /\ requested' = FALSE /\ Return("Completed")
  <2>1. result' = "Completed" /\ pc' \in {"load", "restart", "record"}
    BY <1>4 DEF Return, NetworkAllowed, RTypes
  <2> QED BY <1>1, <1>2, <1>4, <2>1 DEF ErasureSound, ResultSound, LoadedSound, WritingSound,
             WritesAfterErasure, NetworkSound
<1> QED BY <1>3, <1>4 DEF Verify

\* setup() from the loading of the record to the choice of what comes next.
LEMMA LoadSafe ==
    ASSUME RInv, Load \/ Button \/ Window
    PROVE  RInv'
<1> USE DEF RInv, flash, coordinator
<1>1. /\ pc \in {"load", "button", "window"} /\ ~network
      /\ UNCHANGED <<latch, store, ready, complete, result, requested, index, cleared, network,
                     epoch>>
  BY DEF Load, Button, Window, NetworkSound
<1>2. Stored \in Int /\ Stored' = Stored
  BY <1>1 DEF Stored, RTypes, Stores
<1>3. RTypes' /\ LatchCovers'
  BY <1>1, <1>2 DEF RTypes, LatchCovers, Fresh, Load, Button, Window
<1>4. /\ pc' \in {"button", "mark", "window", "start", "restart"}
      /\ pc' \in {"button", "window", "start"} =>
            (loaded' = loaded /\ pc \in {"button", "window"}) \/ loaded' \in {0, Stored}
  BY DEF Load, Button, Window
<1>5. LoadedSound'
  BY <1>1, <1>2, <1>4 DEF LoadedSound
<1> QED BY <1>1, <1>3, <1>4, <1>5 DEF ErasureSound, ResultSound, WritingSound,
           WritesAfterErasure, NetworkSound

\* The new owner's record, and its removal when it could not be saved.
LEMMA RecordSafe ==
    ASSUME RInv, Record \/ Fields \/ Ready \/ Rollback
    PROVE  RInv'
<1> USE DEF RInv, flash, coordinator
<1>1. /\ pc \in {"record", "fields", "ready", "rollback"} /\ ~network /\ ~latch
      /\ pc' \in {"fields", "ready", "rollback", "restart"}
      /\ UNCHANGED <<latch, result, requested, index, cleared, caller, loaded, network, epoch>>
  BY DEF Record, Fields, Ready, Rollback, NetworkSound, WritingSound, WritesAfterErasure
<1>2. store' = [store EXCEPT !["owner"] = epoch] \/ store' = [store EXCEPT !["owner"] = 0]
      \/ store' = store
  BY DEF Record, Fields, Ready, Rollback, Erased, PartlyErased
<1>3. /\ store' \in [Stores -> Int]
      /\ store'["owner"] \in {0, epoch, store["owner"]}
      /\ \A s \in Stores \ {"owner"} : store'[s] = store[s]
  BY <1>2 DEF RTypes, Stores
<1>4. RTypes' /\ LatchCovers'
  BY <1>1, <1>3 DEF RTypes, LatchCovers, Fresh
<1>5. WritesAfterErasure'
  <2>1. CASE pc = "rollback"
    BY <2>1 DEF Record, Fields, Ready, Rollback, WritesAfterErasure
  <2>2. CASE pc # "rollback"
    BY <1>1, <1>3, <2>2 DEF WritingSound, WritesAfterErasure
  <2> QED BY <2>1, <2>2
<1> QED BY <1>1, <1>4, <1>5 DEF ErasureSound, ResultSound, LoadedSound, WritingSound,
           NetworkSound

\* The network starts only on a result that allows it.
LEMMA StartSafe ==
    ASSUME RInv, Start
    PROVE  RInv'
<1> USE DEF RInv, flash, coordinator
<1>1. /\ pc = "start" /\ pc' = "running"
      /\ network' \in BOOLEAN /\ (network' => NetworkAllowed(result))
      /\ UNCHANGED <<latch, store, ready, complete, result, requested, index, cleared, caller,
                     loaded, epoch>>
  BY DEF Start
<1>2. RTypes' /\ LatchCovers'
  BY <1>1 DEF RTypes, LatchCovers, Fresh
<1>3. LoadedSound'
  BY <1>1 DEF LoadedSound, Stored
<1> QED BY <1>1, <1>2, <1>3 DEF ErasureSound, ResultSound, WritingSound,
           WritesAfterErasure, NetworkSound

\* What a session stores is the present owner's.
LEMMA OperateSafe ==
    ASSUME RInv, Operate
    PROVE  RInv'
<1> USE DEF RInv, coordinator
<1>1. /\ pc = "running" /\ network /\ NetworkAllowed(result) /\ ~latch
      /\ UNCHANGED <<latch, ready, complete, result, requested, index, cleared, caller,
                     loaded, network, pc, epoch>>
  BY DEF Operate, NetworkSound, ResultSound
<1>2. loaded # 0 => loaded = epoch
  <2>1. "owner" \in Stores
    BY DEF Stores
  <2>2. Fresh(store["owner"])
    BY <1>1, <2>1 DEF LatchCovers
  <2> QED BY <1>1, <2>2 DEF LoadedSound, Stored, Fresh
<1>3. PICK s \in {"runtime", "rotation", "authorization"} :
        store' = [store EXCEPT ![s] = IF loaded # 0 THEN loaded ELSE epoch]
  BY DEF Operate
<1>4. /\ store' \in [Stores -> Int]
      /\ store'["owner"] = store["owner"]
      /\ \A t \in Stores : store'[t] \in {store[t], epoch}
  BY <1>2, <1>3 DEF RTypes, Stores
<1>5. RTypes' /\ LatchCovers'
  BY <1>1, <1>4 DEF RTypes, LatchCovers, Fresh
<1>6. LoadedSound'
  BY <1>1, <1>4 DEF LoadedSound, Stored
<1> QED BY <1>1, <1>5, <1>6 DEF ErasureSound, ResultSound, WritingSound,
           WritesAfterErasure, NetworkSound

\* RInv holds at power-on and every step preserves it.
LEMMA RInductive == Spec => []RInv
<1>1. Init => RInv
  <2> SUFFICES ASSUME Init PROVE RInv
    OBVIOUS
  <2>1. latch \in BOOLEAN /\ requested \in BOOLEAN /\ cleared \in BOOLEAN
        /\ network \in BOOLEAN
    BY Zenon DEF Init
  <2>2. RTypes
    BY <2>1 DEF Init, RTypes, Last
  <2>3. LatchCovers /\ ErasureSound /\ ResultSound
    BY DEF Init, LatchCovers, Fresh, ErasureSound, ResultSound, NetworkAllowed
  <2>4. LoadedSound /\ WritingSound /\ NetworkSound
    BY DEF Init, LoadedSound, WritingSound, WritesAfterErasure, NetworkSound
  <2> QED BY <2>2, <2>3, <2>4 DEF RInv
<1>2. RInv /\ [Next]_vars => RInv'
  <2> SUFFICES ASSUME RInv, [Next]_vars PROVE RInv'
    OBVIOUS
  <2>1. CASE Restart \/ PowerCycle \/ PowerLoss
    <3>1. Booting /\ UNCHANGED <<latch, store, epoch>>
      BY <2>1 DEF Restart, PowerCycle, PowerLoss, flash, PartlyErased
    <3> QED BY <3>1, BootingSafe DEF RInv
  <2>2. CASE UNCHANGED vars
    BY <2>2 DEF vars, flash, coordinator, RInv, RTypes, LatchCovers, ErasureSound, ResultSound,
                LoadedSound, WritingSound, WritesAfterErasure, NetworkSound, Fresh, Stored
  <2> QED BY <2>1, <2>2, ResumeSafe, MarkSafe, ConfirmSafe, ClearSafe, UnmarkSafe, VerifySafe,
             LoadSafe, RecordSafe, StartSafe, OperateSafe DEF Next, Setup
<1> QED BY <1>1, <1>2, PTL DEF Spec

\* Whatever call fails and wherever power is lost, no network session of the
\* device has a credential from before the last reset whose latch was written.
THEOREM FormerOwnersAreGone == Spec => []NoFormerOwner
<1>1. RInv => NoFormerOwner
  <2> SUFFICES ASSUME RInv, network PROVE NoFormerOwner
    BY DEF NoFormerOwner
  <2>1. ~latch /\ (loaded = 0 \/ loaded = Stored)
    BY DEF RInv, NetworkSound, ResultSound, LoadedSound
  <2>2. \A s \in Stores : store[s] \in {0, epoch}
    BY <2>1 DEF RInv, LatchCovers, Fresh
  <2>3. Stored \in {0, epoch}
    BY <2>2 DEF Stored, Stores
  <2> QED BY <2>1, <2>2, <2>3 DEF NoFormerOwner
<1> QED BY <1>1, RInductive, PTL

\* A new owner's record is written to flash only after an erasure that no
\* later boot repeats.
THEOREM RecordsFollowErasure == Spec => []WritesAfterErasure
<1>1. RInv => WritesAfterErasure
  BY DEF RInv, WritingSound
<1> QED BY <1>1, RInductive, PTL

\* The network runs with the owner in flash, and never after a reset that was
\* requested and not completed.
THEOREM NetworkIsConsistent == Spec => [](NetworkUsesStored /\ RequestStaysOffline)
<1>1. RInv => NetworkUsesStored /\ RequestStaysOffline
  BY DEF RInv, NetworkSound, ResultSound, LoadedSound, NetworkUsesStored, RequestStaysOffline
<1> QED BY <1>1, RInductive, PTL
=============================================================================
