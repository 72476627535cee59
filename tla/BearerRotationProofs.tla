------------------------- MODULE BearerRotationProofs -------------------------
(***************************************************************************)
(* The safety properties of BearerRotation for any number of rotations,    *)
(* failing calls and resets, as long as begin can open the store           *)
(* (Unreadable = FALSE).                                                   *)
(*                                                                         *)
(* At any moment one bearer is the newest the server saw in use: it and    *)
(* nothing older is safe, because the server may drop older ones.  An      *)
(* acknowledged candidate is usable before that: the server honours it,    *)
(* and its first use makes it the newest.  The argument is that flash      *)
(* always holds the newest one, as the active bearer or as an acknowledged *)
(* candidate, and RAM holds what flash holds; the writes are ordered so    *)
(* that no failure or reset between two of them breaks this.               *)
(***************************************************************************)
EXTENDS BearerRotation, TLAPS

Acked == outstanding = "acknowledged"

\* No bearer newer than t was used.
Newest(t) == (t = 0 \/ t \in proved) /\ \A v \in proved : v <= t

Usable(t) == Newest(t) \/ (t = latest /\ Acked)

ServerSound ==
    /\ \A v \in proved : v <= latest
    /\ Acked => latest \in honoured /\ latest \notin proved /\ latest # 0
    /\ outstanding = "offered" => latest \notin proved /\ latest # 0
    /\ \A t \in Tokens : Newest(t) => t \in honoured

\* The candidate in flash is one that begin loads as acknowledged.
Stored == Loadable /\ candidate["phase"] = Acknowledged

FlashSound ==
    /\ active = 0 \/ active \in proved
    /\ Stored => Usable(candidate["token"])
    /\ (active = applied /\ Newest(active)) \/ (Stored /\ Newest(candidate["token"]))
    /\ Loadable /\ candidate["phase"] = Staged => candidate["token"] \notin proved
    /\ CandidateWhole

RamSound ==
    /\ pc = "begin" => phase = 0
    /\ activeBearer = 0 \/ activeBearer \in proved
    /\ pc # "begin" /\ phase # Acknowledged =>
          activeBearer = active /\ appliedVersion = active /\ active = applied /\ Newest(active)
    /\ phase = Acknowledged =>
          /\ Usable(staged) /\ (Newest(activeBearer) \/ Newest(staged))
          /\ (active = staged /\ applied = staged) \/ (Stored /\ candidate["token"] = staged)
    /\ phase = Staged => staged \notin proved
    /\ phase = Staged /\ pc # "persist" => Loadable /\ candidate["token"] = staged

\* The keys that persistCandidate has written
Written ==
    /\ key > 1 => ~ready
    /\ key > 2 => candidate["ver"] = staged
    /\ key > 3 => candidate["nonce"] = staged
    /\ key > 4 => candidate["token"] = staged
    /\ key > 5 => candidate["overlap"] = staged
    /\ key > 6 => candidate["phase"] = phase

PcSound ==
    /\ pc \in {"sent", "answered"} => /\ operation = "RotationProof" => phase = Acknowledged
                                      /\ operation = "RotationAck" => phase = Staged
    /\ pc = "answered" /\ response = "accepted" =>
          /\ operation = "RotationProof" => staged \in proved
          /\ operation = "RotationAck" => staged = latest /\ Acked
    /\ pc = "mark" => phase = Staged /\ staged = latest /\ Acked
    /\ pc = "promote" => /\ phase = Acknowledged /\ staged \in proved
                         /\ key \in 1 .. 3
                         /\ key > 1 => active = staged
                         /\ key > 2 => applied = staged
    /\ pc = "forget" => /\ phase # Staged
                        /\ hasCandidate => active = staged /\ applied = staged
    /\ pc = "abandon" => phase # Acknowledged
    /\ pc = "persist" => phase = Staged /\ Written

\* The inductive invariant
BInv == TypeOK /\ ServerSound /\ FlashSound /\ RamSound /\ PcSound

-----------------------------------------------------------------------------

\* The candidate's fields, and what a write of one of them leaves
CandidateOK(c) ==
    /\ c \in [FieldNames -> Nat]
    /\ \A f \in FieldNames \ {"phase"} : c[f] \in Tokens
    /\ c["phase"] \in {0, Staged, Acknowledged}

\* What a write of promoteCandidate changes
LEMMA PromoteWrites ==
    ASSUME PcSound, pc = "promote", PromoteKey
    PROVE  /\ key \in 1 .. 3
           /\ active' \in {active, staged} /\ applied' \in {applied, staged}
           /\ ready' \in {ready, FALSE}
           /\ key = 1 => active' = staged /\ applied' = applied /\ ready' = ready
           /\ key = 2 => active' = active /\ applied' = staged /\ ready' = ready
           /\ key = 3 => active' = active /\ applied' = applied /\ ready' = FALSE
<1>1. key \in 1 .. 3
  BY DEF PcSound
<1>2. CASE key = 1
  BY <1>2 DEF PromoteKey
<1>3. CASE key = 2
  BY <1>3 DEF PromoteKey
<1>4. CASE key = 3
  <2>1. active' = active /\ applied' = applied
    BY <1>4 DEF PromoteKey
  <2>2. ready' = FALSE
    BY <1>4 DEF PromoteKey
  <2>3. key # 1 /\ key # 2
    BY <1>4
  <2> QED BY <1>1, <1>4, <2>1, <2>2, <2>3, ZenonT(30)
<1>5. key = 1 \/ key = 2 \/ key = 3
  BY <1>1
<1> QED BY <1>2, <1>3, <1>4, <1>5, ZenonT(30)

\* Every action keeps the types.
LEMMA TypeStep ==
    ASSUME BInv, [Next]_vars
    PROVE  TypeOK'
<1> USE RotationAssumption DEF BInv, TypeOK, Tokens, Versions, Staged, Acknowledged,
        hasCandidate, nvs, ram, upload, server
<1>0. ASSUME Works \/ Fails
      PROVE  failures' \in 0 .. MaxFailures
  BY <1>0 DEF Works, Fails
<1>1. CASE Begin
  <2>1. failures' \in 0 .. MaxFailures
    BY <1>0, <1>1 DEF Begin
  <2>2. /\ activeBearer' \in Tokens /\ appliedVersion' \in Tokens /\ staged' \in Tokens
        /\ phase' \in {0, Staged, Acknowledged} /\ (phase' # 0 <=> staged' # 0)
        /\ pc' \in {"idle", "abandon"}
    BY <1>1 DEF Begin, FieldNames
  <2> QED BY <1>1, <2>1, <2>2 DEF Begin
<1>2. CASE Consume
  BY <1>2 DEF Consume, MayStage
<1>3. CASE Persist
  <2>1. /\ pc' \in {"persist", "idle"} /\ key' \in 1 .. 7
        /\ staged' \in Tokens /\ phase' \in {0, Staged, Acknowledged}
        /\ (phase' # 0 <=> staged' # 0)
        /\ failures' \in 0 .. MaxFailures
    BY <1>0, <1>3 DEF Persist
  <2>2. CandidateOK(candidate)' /\ ready' \in BOOLEAN
    <3>1. CASE PersistKey /\ key = 1
      <4>1. ready' \in BOOLEAN
        BY <3>1 DEF PersistKey
      <4> QED BY <3>1, <4>1 DEF PersistKey, CandidateOK
    <3>2. CASE PersistKey /\ key = 7
      <4>1. ready' \in BOOLEAN
        BY <3>2 DEF PersistKey
      <4> QED BY <3>2, <4>1 DEF PersistKey, CandidateOK
    <3>3. CASE PersistKey /\ key \in 2 .. 6
      <4>1. Fields[key - 1] \in FieldNames
        BY <3>3 DEF Fields, FieldNames
      <4>2. /\ candidate' = [candidate EXCEPT ![Fields[key - 1]] =
                                 IF Fields[key - 1] = "phase" THEN phase ELSE staged]
            /\ UNCHANGED ready
        BY <3>3 DEF PersistKey
      <4>3. CandidateOK(candidate)'
        BY <4>1, <4>2 DEF CandidateOK, FieldNames
      <4> QED BY <4>2, <4>3
    <3>4. CASE UNCHANGED <<ready, candidate>>
      BY <3>4 DEF CandidateOK
    <3> QED BY <1>3, <3>1, <3>2, <3>3, <3>4 DEF Persist
  <2> QED BY <1>3, <2>1, <2>2 DEF Persist, CandidateOK
<1>4. CASE MarkAcknowledged
  <2>1. candidate' \in {candidate, [candidate EXCEPT !["phase"] = Acknowledged]}
        /\ failures' \in 0 .. MaxFailures /\ phase' \in {Staged, Acknowledged} /\ staged # 0
    BY <1>0, <1>4 DEF MarkAcknowledged, PcSound
  <2>2. CandidateOK(candidate)'
    BY <2>1 DEF CandidateOK, FieldNames
  <2> QED BY <1>4, <2>1, <2>2 DEF MarkAcknowledged, CandidateOK
<1>5. CASE Promote
  <2>1. failures' \in 0 .. MaxFailures /\ key' \in 1 .. 7 /\ pc' \in {"promote", "forget", "consume"}
    BY <1>0, <1>5 DEF Promote
  <2>2. CASE PromoteKey
    <3>1. active' \in {active, staged} /\ applied' \in {applied, staged}
          /\ ready' \in {ready, FALSE}
      BY <1>5, <2>2, PromoteWrites DEF Promote
    <3>2. ready' \in BOOLEAN
      BY <3>1
    <3> QED BY <1>5, <2>1, <3>1, <3>2 DEF Promote
  <2>3. CASE UNCHANGED <<active, applied, ready>>
    BY <1>5, <2>1, <2>3 DEF Promote
  <2> QED BY <1>5, <2>2, <2>3 DEF Promote
<1>6. CASE Abandon
  <2>1. ready' \in BOOLEAN /\ failures' \in 0 .. MaxFailures /\ pc' \in {"forget", "idle"}
    BY <1>0, <1>6 DEF Abandon
  <2> QED BY <1>6, <2>1 DEF Abandon
<1>7. CASE Forget
  <2>1. CandidateOK(candidate)'
    BY <1>7 DEF Forget, CandidateOK, FieldNames
  <2>2. failures' \in 0 .. MaxFailures
    BY <1>0, <1>7 DEF Forget
  <2> QED BY <1>7, <2>1, <2>2 DEF Forget, CandidateOK
<1>8. CASE Submit
  <2>1. operation' \in {"None", "Status", "RotationAck", "RotationProof", "Fallback"}
    BY <1>8 DEF Submit
  <2> QED BY <1>8, <2>1 DEF Submit
<1>9. CASE HandleAck \/ HandleProof
  <2>1. fallback' \in BOOLEAN /\ pc' \in {"mark", "abandon", "idle", "promote"}
        /\ key' = 1 /\ operation' = "None"
    BY <1>9 DEF HandleAck, HandleProof
  <2>2. UNCHANGED <<nvs, ram, response, desired, server, failures, crashes>>
    BY <1>9 DEF HandleAck, HandleProof
  <2> QED BY <2>1, <2>2
<1>10. CASE HandleStatus
  <2>1. fallback' \in BOOLEAN
    BY <1>10 DEF HandleStatus
  <2> QED BY <1>10, <2>1 DEF HandleStatus
<1>11. CASE Server
  <2>1. ASSUME Served \/ UNCHANGED server
        PROVE  /\ latest' \in Tokens /\ outstanding' \in {"none", "offered", "acknowledged"}
               /\ honoured' \subseteq Tokens /\ proved' \subseteq Versions
    <3>1. outstanding = "acknowledged" => latest \in Versions
      BY DEF ServerSound, Acked
    <3> QED BY <2>1, <3>1 DEF Served
  <2>2. desired' \in Tokens /\ response' \in {"none", "accepted", "rejected", "retry"}
        /\ pc' = "answered"
    BY <1>11 DEF Server, ServerAccepts, ServerRejects, AnswerLost
  <2>3. Served \/ UNCHANGED server
    BY <1>11 DEF Server, ServerAccepts, ServerRejects, AnswerLost
  <2>4. UNCHANGED <<nvs, ram, fallback, operation, key, failures, crashes>>
    BY <1>11 DEF Server, ServerAccepts, ServerRejects, AnswerLost
  <2> QED BY <2>1, <2>2, <2>3, <2>4
<1>12. CASE Offer \/ Withdraw \/ Retire
  <2>1. UNCHANGED <<nvs, ram, upload, pc, key, failures, crashes>>
    BY <1>12 DEF Offer, Withdraw, Retire
  <2>2. /\ latest' \in Tokens /\ outstanding' \in {"none", "offered", "acknowledged"}
        /\ honoured' \subseteq Tokens /\ proved' \subseteq Versions
    <3>1. CASE Offer
      BY <3>1 DEF Offer
    <3>2. CASE Withdraw
      BY <3>2 DEF Withdraw
    <3>3. CASE Retire
      BY <3>3 DEF Retire
    <3> QED BY <1>12, <3>1, <3>2, <3>3
  <2> QED BY <2>1, <2>2
<1>13. CASE Reset
  <2>1. crashes' \in 0 .. MaxCrashes
    BY <1>13 DEF Reset
  <2>2. fallback' \in BOOLEAN
    BY <1>13 DEF Reset
  <2>3. activeBearer' \in Tokens /\ appliedVersion' \in Tokens /\ staged' = 0 /\ phase' = 0
        /\ desired' \in Tokens
    BY <1>13 DEF Reset
  <2> QED BY <1>13, <2>1, <2>2, <2>3 DEF Reset
<1>14. CASE UNCHANGED vars
  BY <1>14 DEF vars
<1> QED BY <1>1, <1>2, <1>3, <1>4, <1>5, <1>6, <1>7, <1>8, <1>9, <1>10, <1>11, <1>12, <1>13, <1>14
        DEF Next, Rotation, Handle

-----------------------------------------------------------------------------
(* The rotation's own steps: the server does not change. *)

\* begin loads what flash holds.
LEMMA BeginSafe ==
    ASSUME BInv, Unreadable = FALSE, Begin
    PROVE  ServerSound' /\ FlashSound' /\ RamSound' /\ PcSound'
<1> USE DEF BInv, nvs, upload, server
<1>1. pc = "begin" /\ phase = 0 /\ staged = 0
      /\ UNCHANGED <<active, applied, ready, candidate, operation, key, server>>
      /\ activeBearer' = active /\ appliedVersion' = applied
  BY DEF Begin, RamSound, TypeOK, hasCandidate
<1>2. ServerSound' /\ FlashSound'
  BY <1>1 DEF ServerSound, FlashSound, Newest, Usable, Acked, Stored, Loadable, CandidateWhole
<1>3. CASE Loadable /\ staged' = candidate["token"] /\ phase' = candidate["phase"] /\ pc' = "idle"
  <2>1. phase' \in {Staged, Acknowledged}
    BY <1>3 DEF TypeOK, Loadable, FieldNames
  <2> QED BY <1>1, <1>2, <1>3, <2>1 DEF FlashSound, RamSound, PcSound, Newest, Usable, Acked,
             Stored, Loadable, Staged, Acknowledged, hasCandidate
<1>4. CASE ~Loadable /\ staged' = 0 /\ phase' = 0 /\ pc' \in {"idle", "abandon"}
  BY <1>1, <1>2, <1>4 DEF FlashSound, RamSound, PcSound, Newest, Stored, Staged, Acknowledged
<1> QED BY <1>1, <1>2, <1>3, <1>4 DEF Begin, Loadable

\* stage takes up only what was not proved.
LEMMA ConsumeSafe ==
    ASSUME BInv, Consume
    PROVE  ServerSound' /\ FlashSound' /\ RamSound' /\ PcSound'
<1> USE DEF BInv, nvs, upload, server
<1>1. pc = "consume" /\ key' = 1
      /\ UNCHANGED <<active, applied, ready, candidate, activeBearer, appliedVersion, server>>
  BY DEF Consume
<1>2. ServerSound' /\ FlashSound'
  BY <1>1 DEF ServerSound, FlashSound, Newest, Usable, Acked, Stored, Loadable, CandidateWhole
<1>3. CASE MayStage(desired) /\ staged' = desired /\ phase' = Staged /\ pc' = "persist"
  <2>1. phase = 0 /\ Newest(active) /\ appliedVersion = active
    BY <1>1, <1>3 DEF MayStage, hasCandidate, RamSound, Acknowledged
  <2>2. desired \notin proved
    BY <1>3, <2>1, RotationAssumption DEF MayStage, Newest, TypeOK, Tokens, Versions
  <2> QED BY <1>1, <1>2, <1>3, <2>1, <2>2 DEF RamSound, PcSound, Newest, Staged, Acknowledged,
             Written
<1>4. CASE pc' = "idle" /\ UNCHANGED <<staged, phase>>
  BY <1>1, <1>2, <1>4 DEF RamSound, PcSound, Newest, Usable, Acked, Stored, Loadable
<1> QED BY <1>3, <1>4 DEF Consume

\* persistCandidate writes while cand_ready is off, and sets it at the end.
LEMMA PersistSafe ==
    ASSUME BInv, Persist
    PROVE  ServerSound' /\ FlashSound' /\ RamSound' /\ PcSound'
<1> USE DEF BInv, nvs, upload, server
<1>1. pc = "persist" /\ phase = Staged /\ staged \notin proved /\ Written /\ staged \in Versions
      /\ UNCHANGED <<active, applied, activeBearer, appliedVersion, server>>
  BY RotationAssumption DEF Persist, PcSound, RamSound, TypeOK, hasCandidate, Staged, Tokens, Versions
<1>2. activeBearer = active /\ appliedVersion = active /\ active = applied /\ Newest(active)
  BY <1>1 DEF RamSound, Staged, Acknowledged
<1>3. ServerSound'
  BY <1>1 DEF ServerSound, Newest, Acked
<1>4. CASE PersistKey /\ key = 1
  <2>1. ~ready' /\ candidate' = candidate
    BY <1>4 DEF PersistKey
  <2> QED BY <1>1, <1>2, <1>3, <1>4, <2>1 DEF Persist, FlashSound, RamSound, PcSound, Newest,
             Stored, Loadable, CandidateWhole, Staged, Acknowledged, Written, hasCandidate
<1>5. CASE PersistKey /\ key \in 2 .. 6
  <2>1. ~ready'
    BY <1>1, <1>5 DEF PersistKey, Written
  <2>2. Fields[1] = "ver" /\ Fields[2] = "nonce" /\ Fields[3] = "token"
        /\ Fields[4] = "overlap" /\ Fields[5] = "phase"
    BY DEF Fields
  <2>3. candidate' = [candidate EXCEPT ![Fields[key - 1]] =
                          IF Fields[key - 1] = "phase" THEN phase ELSE staged]
        /\ candidate \in [FieldNames -> Nat]
    BY <1>5 DEF PersistKey, TypeOK
  <2>4. /\ key + 1 > 2 => candidate'["ver"] = staged
        /\ key + 1 > 3 => candidate'["nonce"] = staged
        /\ key + 1 > 4 => candidate'["token"] = staged
        /\ key + 1 > 5 => candidate'["overlap"] = staged
        /\ key + 1 > 6 => candidate'["phase"] = phase
    BY <1>1, <1>5, <2>2, <2>3 DEF Written, FieldNames
  <2>5. FlashSound'
    BY <1>1, <1>2, <2>1 DEF FlashSound, Newest, Stored, Loadable, CandidateWhole
  <2>6. CASE key' = key + 1 /\ UNCHANGED <<staged, phase, pc>>
    <3>1. Written'
      BY <2>1, <2>4, <2>6 DEF Written
    <3> QED BY <1>1, <1>2, <1>3, <2>1, <2>5, <2>6, <3>1 DEF RamSound, PcSound, Newest,
               Staged, Acknowledged
  <2>7. CASE staged' = 0 /\ phase' = 0 /\ pc' = "idle"
    BY <1>1, <1>2, <1>3, <2>5, <2>7 DEF RamSound, PcSound, Newest, Staged, Acknowledged
  <2> QED BY <1>5, <2>6, <2>7 DEF Persist
<1>6. CASE PersistKey /\ key = 7
  <2>1. ready' /\ candidate' = candidate
    BY <1>6 DEF PersistKey
  <2>2. \A f \in FieldNames \ {"phase"} : candidate[f] = staged
    BY <1>1, <1>6 DEF Written, FieldNames
  <2>3. candidate["phase"] = Staged /\ candidate["token"] = staged
    BY <1>1, <1>6 DEF Written
  <2>4. Loadable' /\ CandidateWhole' /\ ~Stored'
    BY <1>1, <2>1, <2>2, <2>3, RotationAssumption DEF Loadable, CandidateWhole, Stored, Staged,
       Acknowledged, Versions
  <2>5. FlashSound'
    BY <1>1, <1>2, <2>1, <2>3, <2>4 DEF FlashSound, Newest
  <2>6. pc' = "idle" /\ ((staged' = staged /\ phase' = phase) \/ (staged' = 0 /\ phase' = 0))
    BY <1>1, <1>6 DEF Persist
  <2> QED BY <1>1, <1>2, <1>3, <2>1, <2>3, <2>4, <2>5, <2>6 DEF RamSound, PcSound, Newest, Staged,
             Acknowledged
<1>7. CASE UNCHANGED <<ready, candidate>> /\ staged' = 0 /\ phase' = 0 /\ pc' = "idle"
  <2>1. FlashSound'
    BY <1>1, <1>7 DEF FlashSound, Newest, Usable, Acked, Stored, Loadable, CandidateWhole
  <2> QED BY <1>1, <1>2, <1>3, <1>7, <2>1 DEF RamSound, PcSound, Newest, Staged, Acknowledged
<1> QED BY <1>4, <1>5, <1>6, <1>7 DEF Persist, PersistKey

\* markAcknowledged changes one key of a complete candidate.
LEMMA MarkSafe ==
    ASSUME BInv, MarkAcknowledged
    PROVE  ServerSound' /\ FlashSound' /\ RamSound' /\ PcSound'
<1> USE DEF BInv, nvs, upload, server
<1>1. pc = "mark" /\ phase = Staged /\ staged = latest /\ Acked
      /\ pc' = "consume" /\ phase' \in {Staged, Acknowledged}
      /\ UNCHANGED <<active, applied, ready, activeBearer, appliedVersion, staged, server>>
  BY DEF MarkAcknowledged, PcSound
<1>2. /\ activeBearer = active /\ appliedVersion = active /\ active = applied /\ Newest(active)
      /\ Loadable /\ candidate["token"] = staged /\ staged \notin proved
  BY <1>1 DEF RamSound, Staged, Acknowledged
<1>3. ServerSound'
  BY <1>1 DEF ServerSound, Newest, Acked
<1>4. /\ candidate \in [FieldNames -> Nat]
      /\ candidate' \in {candidate, [candidate EXCEPT !["phase"] = Acknowledged]}
      /\ phase' = Acknowledged => candidate' = [candidate EXCEPT !["phase"] = Acknowledged]
  BY <1>1 DEF MarkAcknowledged, TypeOK, Staged, Acknowledged
<1>5. /\ \A f \in FieldNames \ {"phase"} : candidate'[f] = candidate[f]
      /\ candidate'["phase"] \in {candidate["phase"], Acknowledged}
      /\ phase' = Acknowledged => candidate'["phase"] = Acknowledged
      /\ "token" \in FieldNames \ {"phase"} /\ "phase" \in FieldNames
  BY <1>4 DEF FieldNames
<1>6. Loadable' /\ candidate'["token"] = staged
  BY <1>1, <1>2, <1>5 DEF Loadable, Acknowledged
<1>7. CandidateWhole'
  BY <1>1, <1>5 DEF FlashSound, CandidateWhole
<1>8. FlashSound'
  BY <1>1, <1>2, <1>6, <1>7 DEF FlashSound, Newest, Usable, Acked, Stored
<1>9. RamSound' /\ PcSound'
  BY <1>1, <1>2, <1>5, <1>6 DEF RamSound, PcSound, Newest, Usable, Acked, Stored, Staged, Acknowledged
<1> QED BY <1>3, <1>8, <1>9

\* A proved candidate is the newest bearer.
LEMMA ProvedIsNewest ==
    ASSUME BInv, phase = Acknowledged, staged \in proved
    PROVE  Newest(staged)
BY DEF BInv, RamSound, ServerSound, Usable

\* promoteCandidate makes the candidate active before it removes it.
LEMMA PromoteSafe ==
    ASSUME BInv, Promote
    PROVE  ServerSound' /\ FlashSound' /\ RamSound' /\ PcSound'
<1> USE DEF BInv, nvs, ram, upload, server
<1>1. pc = "promote" /\ phase = Acknowledged /\ staged \in proved /\ key \in 1 .. 3
      /\ UNCHANGED <<candidate, activeBearer, appliedVersion, staged, phase, server>>
      /\ pc' \in {"promote", "forget", "consume"}
  BY DEF Promote, PcSound
<1>2. Newest(staged)
  BY <1>1, ProvedIsNewest
<1>3. ServerSound'
  BY <1>1 DEF ServerSound, Newest, Acked
<1>4. /\ active' \in {active, staged}
      /\ (active = staged /\ applied = staged) => active' = staged /\ applied' = staged
      /\ ~(active = staged /\ applied = staged) => ready' = ready
      /\ ready' => ready
  <2>1. CASE PromoteKey
    <3>1. CASE key = 1
      <4>1. active' = staged /\ applied' = applied /\ ready' = ready
        BY <1>1, <2>1, <3>1, PromoteWrites
      <4> QED BY <4>1
    <3>2. CASE key = 2
      <4>1. active' = active /\ applied' = staged /\ ready' = ready
        BY <1>1, <2>1, <3>2, PromoteWrites
      <4> QED BY <4>1
    <3>3. CASE key = 3
      <4>1. active = staged /\ applied = staged
        BY <1>1, <3>3 DEF PcSound
      <4>2. active' = active /\ applied' = applied /\ ~ready'
        BY <1>1, <2>1, <3>3, PromoteWrites
      <4> QED BY <4>1, <4>2
    <3> QED BY <1>1, <3>1, <3>2, <3>3
  <2>2. CASE UNCHANGED <<active, applied, ready>>
    BY <2>2
  <2> QED BY <2>1, <2>2 DEF Promote
<1>5. (active' = staged /\ applied' = staged) \/ (Stored' /\ candidate'["token"] = staged)
  BY <1>1, <1>4 DEF RamSound, Stored, Loadable
<1>6. FlashSound'
  BY <1>1, <1>2, <1>4, <1>5 DEF FlashSound, Newest, Usable, Acked, Stored, Loadable, CandidateWhole
<1>7. RamSound'
  BY <1>1, <1>2, <1>5 DEF RamSound, Newest, Usable, Staged, Acknowledged
<1>8. pc' = "promote" => PromoteKey /\ key < 3 /\ key' = key + 1
  BY <1>1 DEF Promote
<1>9. pc' = "forget" => PromoteKey /\ key = 3
  BY <1>1 DEF Promote
<1>10. PcSound'
  <2>1. CASE pc' = "promote"
    <3>1. key' = key + 1 /\ key \in 1 .. 2
      BY <1>1, <1>8, <2>1
    <3>2. active' = staged
      <4>1. CASE key = 1
        BY <1>1, <1>8, <2>1, <4>1, PromoteWrites
      <4>2. CASE key = 2
        BY <1>1, <1>8, <2>1, <4>2, PromoteWrites DEF PcSound
      <4> QED BY <3>1, <4>1, <4>2
    <3>3. key = 2 => applied' = staged
      BY <1>1, <1>8, <2>1, PromoteWrites
    <3> QED BY <1>1, <2>1, <3>1, <3>2, <3>3 DEF PcSound, Staged, Acknowledged
  <2>2. CASE pc' = "forget"
    <3>1. active' = staged /\ applied' = staged
      BY <1>1, <1>9, <2>2, PromoteWrites DEF PcSound
    <3> QED BY <1>1, <2>2, <3>1 DEF PcSound, Staged, Acknowledged
  <2>3. CASE pc' = "consume"
    BY <1>1, <2>3 DEF PcSound
  <2> QED BY <1>1, <2>1, <2>2, <2>3
<1> QED BY <1>3, <1>6, <1>7, <1>10

\* abandonCandidate drops a candidate that was not yet acknowledged.
LEMMA AbandonSafe ==
    ASSUME BInv, Abandon
    PROVE  ServerSound' /\ FlashSound' /\ RamSound' /\ PcSound'
<1> USE DEF BInv, nvs, upload, server
<1>1. pc = "abandon" /\ phase # Acknowledged /\ staged' = 0 /\ phase' = 0
      /\ UNCHANGED <<active, applied, candidate, activeBearer, appliedVersion, server>>
      /\ pc' \in {"forget", "idle"}
  BY DEF Abandon, PcSound
<1>2. activeBearer = active /\ appliedVersion = active /\ active = applied /\ Newest(active)
  BY <1>1 DEF RamSound
<1>3. ready' => ready
  BY DEF Abandon
<1>4. ServerSound'
  BY <1>1 DEF ServerSound, Newest, Acked
<1>5. FlashSound'
  BY <1>1, <1>2, <1>3 DEF FlashSound, Newest, Usable, Acked, Stored, Loadable, CandidateWhole
<1>6. RamSound' /\ PcSound'
  BY <1>1, <1>2 DEF RamSound, PcSound, Newest, Staged, Acknowledged, hasCandidate
<1> QED BY <1>4, <1>5, <1>6

\* The candidate's keys are removed when flash no longer depends on them.
LEMMA ForgetSafe ==
    ASSUME BInv, Forget
    PROVE  ServerSound' /\ FlashSound' /\ RamSound' /\ PcSound'
<1> USE DEF BInv, nvs, ram, upload, server
<1>1. pc = "forget" /\ phase # Staged /\ pc' \in {"consume", "idle"}
      /\ UNCHANGED <<active, applied, ready, server>>
  BY DEF Forget, PcSound
<1>2. active = applied /\ Newest(active)
      /\ (phase = 0 => activeBearer = active /\ appliedVersion = active)
      /\ (phase # 0 => staged = active)
  <2>1. CASE phase = 0
    BY <1>1, <2>1 DEF RamSound, Acknowledged
  <2>2. CASE phase # 0
    <3>1. phase = Acknowledged /\ active = staged /\ applied = staged /\ staged # 0
      BY <1>1, <2>2 DEF PcSound, TypeOK, hasCandidate
    <3>2. staged \in proved
      BY <3>1 DEF FlashSound
    <3>3. Newest(staged)
      BY <3>1, <3>2, ProvedIsNewest
    <3> QED BY <2>2, <3>1, <3>3
  <2> QED BY <2>1, <2>2
<1>3. activeBearer' = active /\ appliedVersion' = active /\ phase' = 0
  BY <1>2 DEF Forget, hasCandidate
<1>4. /\ \A f \in FieldNames : candidate'[f] \in {0, candidate[f]}
      /\ "token" \in FieldNames /\ "phase" \in FieldNames
  BY DEF Forget, FieldNames
<1>5. ServerSound'
  BY <1>1 DEF ServerSound, Newest, Acked
<1>6. CandidateWhole'
  BY <1>1, <1>4 DEF FlashSound, CandidateWhole
<1>7. FlashSound'
  <2>1. Loadable' => Loadable /\ candidate'["token"] = candidate["token"]
                     /\ candidate'["phase"] = candidate["phase"]
    BY <1>1, <1>4 DEF Loadable
  <2> QED BY <1>1, <1>2, <1>6, <2>1 DEF FlashSound, Newest, Usable, Acked, Stored
<1>8. RamSound' /\ PcSound'
  BY <1>1, <1>2, <1>3 DEF RamSound, PcSound, Newest, FlashSound, Staged, Acknowledged
<1> QED BY <1>5, <1>7, <1>8

-----------------------------------------------------------------------------
(* Requests, answers and the server *)

\* Steps that only submit a request or act on its answer
LEMMA RequestSafe ==
    ASSUME BInv, Submit \/ Handle
    PROVE  ServerSound' /\ FlashSound' /\ RamSound' /\ PcSound'
<1> USE DEF BInv, nvs, ram, upload, server
<1>1. UNCHANGED <<active, applied, ready, candidate, activeBearer, appliedVersion, staged, phase,
                  server>>
  BY DEF Submit, Handle, HandleAck, HandleProof, HandleStatus
<1>2. pc \in {"idle", "answered"} /\ pc' \notin {"begin", "persist"}
  BY DEF Submit, Handle, HandleAck, HandleProof, HandleStatus
<1>3. ServerSound'
  BY <1>1 DEF ServerSound, Newest, Acked
<1>4. FlashSound'
  BY <1>1 DEF FlashSound, Newest, Usable, Acked, Stored, Loadable, CandidateWhole
<1>5. RamSound'
  BY <1>1, <1>2 DEF RamSound, Newest, Usable, Acked, Stored, Loadable
<1>6. PcSound'
  <2>1. CASE Submit
    BY <1>1, <2>1 DEF Submit, PcSound, Staged, Acknowledged
  <2>2. CASE HandleAck
    BY <1>1, <2>2 DEF HandleAck, PcSound, Acked, Staged, Acknowledged
  <2>3. CASE HandleProof
    BY <1>1, <2>3 DEF HandleProof, PcSound, Acked, Staged, Acknowledged
  <2>4. CASE HandleStatus
    BY <1>1, <2>4 DEF HandleStatus, PcSound
  <2> QED BY <2>1, <2>2, <2>3, <2>4 DEF Handle
<1> QED BY <1>3, <1>4, <1>5, <1>6

\* A request proves only the acknowledged candidate that carries it.
LEMMA ServedSafe ==
    ASSUME BInv, pc = "sent", Served \/ UNCHANGED server,
           Served => Acceptable,
           UNCHANGED <<nvs, ram, operation, key>>, pc' = "answered"
    PROVE  ServerSound' /\ FlashSound' /\ RamSound'
<1> USE DEF BInv, nvs, ram, server
<1>1. CASE UNCHANGED server
  BY <1>1 DEF ServerSound, FlashSound, RamSound, Newest, Usable, Acked, Stored, Loadable,
     CandidateWhole
<1>2. CASE Served /\ Acknowledgement # 0
  <2>1. phase = Staged /\ staged = latest /\ outstanding # "none" /\ staged \notin proved
        /\ latest # 0 /\ latest \in Tokens
    BY <1>2 DEF Acknowledgement, Acceptable, RamSound, TypeOK
  <2>2. outstanding' = "acknowledged" /\ honoured' = honoured \cup {latest}
        /\ latest' = latest /\ proved' = proved
    BY <1>2 DEF Served
  <2>3. ServerSound'
    BY <2>1, <2>2 DEF ServerSound, Newest, Acked
  <2> QED BY <2>1, <2>2, <2>3 DEF FlashSound, RamSound, Newest, Usable, Acked, Stored, Loadable,
             CandidateWhole
<1>3. CASE Served /\ Acknowledgement = 0 /\ Bearer = latest /\ Acked
  <2>1. outstanding' = "none" /\ proved' = proved \cup {latest}
        /\ latest' = latest /\ honoured' = honoured
    BY <1>3 DEF Served, Acked
  <2>2. latest \in honoured /\ latest \notin proved /\ latest # 0 /\ latest \in Nat
    BY <1>3, RotationAssumption DEF ServerSound, TypeOK, Tokens
  <2>3. phase = Acknowledged /\ staged = latest
    BY <1>3, <2>2 DEF Bearer, RamSound, PcSound
  <2>4. Stored /\ candidate["token"] = latest
    BY <2>2, <2>3 DEF RamSound, FlashSound
  <2>5. \A v \in proved : v \in Nat /\ v <= latest
    BY DEF ServerSound, TypeOK, Versions
  <2>6. Newest(latest)'
    BY <2>1, <2>2, <2>5 DEF Newest
  <2>7. \A t \in Tokens : Newest(t)' => t = latest
    BY <2>1, <2>2, <2>5, RotationAssumption DEF Newest, Tokens
  <2>8. ServerSound'
    BY <2>1, <2>2, <2>5, <2>7 DEF ServerSound, Acked
  <2>9. FlashSound'
    BY <2>1, <2>2, <2>4, <2>6 DEF FlashSound, Usable, Stored, Loadable, CandidateWhole, Newest,
       Staged, Acknowledged
  <2>10. RamSound'
    BY <2>1, <2>2, <2>3, <2>4, <2>6 DEF RamSound, Usable, Stored, Loadable, Newest, Staged,
       Acknowledged
  <2> QED BY <2>8, <2>9, <2>10
<1> QED BY <1>1, <1>2, <1>3 DEF Served, Acked

\* The answer says what the server did.
LEMMA ServerSafe ==
    ASSUME BInv, Server
    PROVE  ServerSound' /\ FlashSound' /\ RamSound' /\ PcSound'
<1> USE DEF BInv, nvs, ram, upload, server
<1>1. pc = "sent" /\ pc' = "answered" /\ UNCHANGED <<nvs, ram, operation, key>>
  BY DEF Server, ServerAccepts, ServerRejects, AnswerLost
<1>2. (Acceptable /\ Served) \/ UNCHANGED server
  BY DEF Server, ServerAccepts, ServerRejects, AnswerLost
<1>3. ServerSound' /\ FlashSound' /\ RamSound'
  <2>1. CASE Acceptable
    BY <1>1, <1>2, <2>1, ServedSafe
  <2>2. CASE ~Acceptable /\ UNCHANGED server
    BY <1>1, <2>2 DEF ServerSound, FlashSound, RamSound, Newest, Usable, Acked, Stored, Loadable,
       CandidateWhole
  <2> QED BY <1>2, <2>1, <2>2
<1>4. response' = "accepted" => Acceptable /\ Served
  BY DEF Server, ServerAccepts, ServerRejects, AnswerLost
<1>5. ASSUME response' = "accepted", operation = "RotationProof"
      PROVE  staged' \in proved'
  <2>1. phase = Acknowledged /\ Bearer = staged /\ Acknowledgement = 0 /\ staged # 0
    BY <1>1, <1>5 DEF PcSound, Bearer, Acknowledgement, Staged, Acknowledged, TypeOK, hasCandidate
  <2>2. CASE staged = latest /\ Acked
    BY <1>1, <1>4, <1>5, <2>1, <2>2 DEF Served, Acked
  <2>3. CASE Newest(staged)
    BY <1>1, <1>4, <1>5, <2>1, <2>3 DEF Served, Newest
  <2> QED BY <2>1, <2>2, <2>3 DEF RamSound, Usable
<1>6. ASSUME response' = "accepted", operation = "RotationAck"
      PROVE  staged' = latest' /\ Acked'
  <2>1. phase = Staged /\ Acknowledgement = staged /\ staged # 0
    BY <1>1, <1>6 DEF PcSound, Acknowledgement, Staged, TypeOK, hasCandidate
  <2> QED BY <1>1, <1>4, <1>6, <2>1 DEF Served, Acceptable, Acked
<1>7. PcSound'
  BY <1>1, <1>5, <1>6 DEF PcSound
<1> QED BY <1>3, <1>7

\* Offers, withdrawals and the end of an overlap
LEMMA OfferSafe ==
    ASSUME BInv, Offer \/ Withdraw \/ Retire
    PROVE  ServerSound' /\ FlashSound' /\ RamSound' /\ PcSound'
<1> USE DEF BInv, nvs, ram, upload
<1>1. UNCHANGED <<active, applied, ready, candidate, activeBearer, appliedVersion, staged, phase,
                  operation, response, pc, key, proved>>
  BY DEF Offer, Withdraw, Retire
<1>2. (Acked <=> Acked') /\ (Acked => latest' = latest)
  BY DEF Offer, Withdraw, Retire, Acked
<1>3. ServerSound'
  <2>1. CASE Offer
    <3>1. \A v \in proved : v \in Nat /\ v <= latest
      BY DEF ServerSound, TypeOK, Versions
    <3>2. latest \in Nat /\ latest' = latest + 1 /\ honoured' = honoured
          /\ outstanding' = "offered" /\ proved' = proved
      BY <2>1, RotationAssumption DEF Offer, TypeOK, Tokens
    <3> QED BY <3>1, <3>2 DEF ServerSound, Newest, Acked
  <2>2. CASE Withdraw
    BY <2>2 DEF Withdraw, ServerSound, Newest, Acked
  <2>3. CASE Retire
    <3>1. \A v \in proved : v \in Nat /\ v <= latest
      BY DEF ServerSound, TypeOK, Versions
    <3>2. latest' = latest /\ outstanding' = outstanding /\ proved' = proved
          /\ honoured' = {t \in honoured : \A v \in proved : t >= v}
          /\ latest \in Nat
      BY <2>3, RotationAssumption DEF Retire, TypeOK, Tokens
    <3>3. \A t \in Tokens : Newest(t) => t \in honoured'
      BY <3>1, <3>2, RotationAssumption DEF ServerSound, Newest, Tokens
    <3> QED BY <3>1, <3>2, <3>3 DEF ServerSound, Newest, Acked
  <2> QED BY <2>1, <2>2, <2>3
<1>4. FlashSound'
  BY <1>1, <1>2 DEF FlashSound, Newest, Usable, Stored, Loadable, CandidateWhole
<1>5. RamSound'
  BY <1>1, <1>2 DEF RamSound, Newest, Usable, Stored, Loadable
<1>6. PcSound'
  BY <1>1, <1>2 DEF PcSound, Written, hasCandidate
<1> QED BY <1>3, <1>4, <1>5, <1>6

\* A reset keeps flash and what the server knows.
LEMMA ResetSafe ==
    ASSUME BInv, Reset
    PROVE  ServerSound' /\ FlashSound' /\ RamSound' /\ PcSound'
<1> USE DEF BInv, nvs, server
<1>1. UNCHANGED <<active, applied, ready, candidate, server>>
      /\ activeBearer' = 0 /\ phase' = 0 /\ pc' = "begin"
  BY DEF Reset
<1>2. ServerSound'
  BY <1>1 DEF ServerSound, Newest, Acked
<1>3. FlashSound'
  BY <1>1 DEF FlashSound, Newest, Usable, Acked, Stored, Loadable, CandidateWhole
<1>4. RamSound' /\ PcSound'
  BY <1>1 DEF RamSound, PcSound, Staged, Acknowledged
<1> QED BY <1>2, <1>3, <1>4

-----------------------------------------------------------------------------

\* The invariant holds at the first boot and every step keeps it, as long as
\* begin can open the store (AppBearerRotation.cpp:54).
THEOREM RotationInvariant ==
    ASSUME Unreadable = FALSE
    PROVE  Spec => []BInv
<1>1. Init => BInv
  <2> SUFFICES ASSUME Init PROVE BInv
    OBVIOUS
  <2> USE RotationAssumption DEF Init
  <2>1. candidate \in [FieldNames -> Nat] /\ \A f \in FieldNames : candidate[f] = 0
    BY DEF NoFields
  <2>2. TypeOK
    <3>1. ready \in BOOLEAN
      OBVIOUS
    <3>2. fallback \in BOOLEAN
      OBVIOUS
    <3>3. 0 \in Tokens /\ "phase" \in FieldNames /\ key \in 1 .. 7
          /\ failures \in 0 .. MaxFailures /\ crashes \in 0 .. MaxCrashes
      BY DEF Tokens, FieldNames
    <3> QED BY <2>1, <3>1, <3>2, <3>3 DEF TypeOK, Staged, Acknowledged, hasCandidate
  <2>3. ServerSound /\ FlashSound
    BY DEF ServerSound, FlashSound, Newest, Usable, Acked, Stored, Loadable, CandidateWhole
  <2>4. RamSound /\ PcSound
    BY DEF RamSound, PcSound, Staged, Acknowledged
  <2> QED BY <2>2, <2>3, <2>4 DEF BInv
<1>2. BInv /\ [Next]_vars => BInv'
  <2> SUFFICES ASSUME BInv, [Next]_vars PROVE BInv'
    OBVIOUS
  <2>1. TypeOK'
    BY TypeStep
  <2>2. CASE Rotation
    BY <2>1, <2>2, BeginSafe, ConsumeSafe, PersistSafe, MarkSafe, PromoteSafe, AbandonSafe,
       ForgetSafe DEF Rotation, BInv
  <2>3. CASE Submit \/ Handle
    BY <2>1, <2>3, RequestSafe DEF BInv
  <2>4. CASE Server
    BY <2>1, <2>4, ServerSafe DEF BInv
  <2>5. CASE Offer \/ Withdraw \/ Retire
    BY <2>1, <2>5, OfferSafe DEF BInv
  <2>6. CASE Reset
    BY <2>1, <2>6, ResetSafe DEF BInv
  <2>7. CASE UNCHANGED vars
    <3> USE DEF vars, nvs, ram, upload, server
    <3>1. ServerSound' /\ FlashSound'
      BY <2>7 DEF BInv, ServerSound, FlashSound, Newest, Usable, Acked, Stored, Loadable,
         CandidateWhole
    <3>2. RamSound'
      BY <2>7 DEF BInv, RamSound, Newest, Usable, Acked, Stored, Loadable
    <3>3. PcSound'
      BY <2>7 DEF BInv, PcSound, Written, Acked, hasCandidate
    <3> QED BY <2>1, <3>1, <3>2, <3>3 DEF BInv
  <2> QED BY <2>2, <2>3, <2>4, <2>5, <2>6, <2>7 DEF Next
<1> QED BY <1>1, <1>2, PTL DEF Spec

\* Flash and RAM each hold the newest bearer that a request has proved, in use
\* or as an acknowledged candidate, and the server honours that one.
LEMMA HonouredBearers == BInv => BearerSurvives /\ BearerInUse
<1> SUFFICES ASSUME BInv PROVE BearerSurvives /\ BearerInUse
  OBVIOUS
<1> USE DEF BInv
<1>1. active \in Tokens /\ activeBearer \in Tokens /\ staged \in Tokens
      /\ (Loadable => candidate["token"] \in Tokens)
  BY DEF TypeOK, FieldNames
<1>2. \A t \in Tokens : Newest(t) => t \in honoured
  BY DEF ServerSound
<1>3. BearerSurvives
  BY <1>1, <1>2 DEF FlashSound, BearerSurvives, Stored
<1>4. BearerInUse
  BY <1>1, <1>2 DEF RamSound, BearerInUse
<1> QED BY <1>3, <1>4

\* However many writes fail and wherever the logger is reset between two of
\* them, flash holds a bearer that the server honours: the order of the writes
\* in promoteCandidate and persistCandidate, and that only an unacknowledged
\* candidate is abandoned, keep the logger from locking itself out.
THEOREM BearerNeverLost ==
    ASSUME Unreadable = FALSE
    PROVE  Spec => []BearerSurvives
BY HonouredBearers, RotationInvariant, PTL

\* Without a reset, too, the logger keeps a bearer that the server honours: the
\* one that its requests carry, or the acknowledged candidate in RAM that
\* promoteCandidate will put into use, between the writes of a promotion and
\* after any of them failed.
THEOREM RunningLoggerNotLockedOut ==
    ASSUME Unreadable = FALSE
    PROVE  Spec => []BearerInUse
BY HonouredBearers, RotationInvariant, PTL

\* A bearer becomes active only after the server accepted a request that
\* carried it, and no request acknowledges a rotation that is complete
\* (AppBearerRotation.cpp:247-251).
THEOREM PromotionFollowsProof ==
    ASSUME Unreadable = FALSE
    PROVE  Spec => [](PromotedOnlyProved /\ NoLateAcknowledgement)
<1>1. BInv => PromotedOnlyProved /\ NoLateAcknowledgement
  <2> SUFFICES ASSUME BInv PROVE PromotedOnlyProved /\ NoLateAcknowledgement
    OBVIOUS
  <2>1. PromotedOnlyProved
    BY DEF BInv, FlashSound, PromotedOnlyProved
  <2>2. 0 \notin proved
    BY RotationAssumption DEF BInv, TypeOK, Versions
  <2>3. NoLateAcknowledgement
    BY <2>2 DEF BInv, RamSound, NoLateAcknowledgement, Acknowledgement
  <2> QED BY <2>1, <2>3
<1> QED BY <1>1, RotationInvariant, PTL

\* The store and RAM keep their types, and a candidate marked ready is of one
\* rotation, whatever write of persistCandidate fails or is cut off.
THEOREM CandidateNeverMixed ==
    ASSUME Unreadable = FALSE
    PROVE  Spec => [](TypeOK /\ CandidateWhole)
<1>1. BInv => TypeOK /\ CandidateWhole
  BY DEF BInv, FlashSound
<1> QED BY <1>1, RotationInvariant, PTL
=============================================================================
