---------------------------- MODULE BearerRotation ----------------------------
(***************************************************************************)
(* Replacement of the app bearer of a USB-provisioned logger:              *)
(* AppBearerRotation.cpp and the status requests of LiveUploadAsync.cpp    *)
(* that drive it.                                                          *)
(*                                                                         *)
(* The server offers a new bearer with a version; the logger stores it,    *)
(* acknowledges with the old bearer, proves it by a request that carries   *)
(* the new one and only then makes it the active one.  The store is a set  *)
(* of NVS keys that are written one by one: one action is one write, it    *)
(* may fail, and power may be lost after it.                               *)
(*                                                                         *)
(* Rotation v has version v, nonce v, token v and expiry v; 0 is an absent *)
(* key, and as a token the bearer of the provisioning record.  The server  *)
(* is external: it honours a new token once its rotation is acknowledged,  *)
(* and may drop older ones at any time after the new one was used, not     *)
(* before.                                                                 *)
(***************************************************************************)
EXTENDS Integers, Sequences, FiniteSets

CONSTANTS
    MaxVersions,    \* bound: rotations the server offers
    MaxFailures,    \* bound: calls that fail
    MaxCrashes,     \* bound: resets
    Unreadable      \* whether begin may fail to open the store

ASSUME RotationAssumption ==
    /\ MaxVersions \in Nat /\ MaxFailures \in Nat /\ MaxCrashes \in Nat
    /\ Unreadable \in BOOLEAN

VARIABLES
    \* NVS, apexi_auth
    active,         \* active
    applied,        \* applied_ver
    ready,          \* cand_ready
    candidate,      \* cand_ver, cand_nonce, candidate, overlap_at, phase
    \* RAM of AppBearerRotation
    activeBearer,
    appliedVersion,
    staged,         \* candidateBearer_ with its version, 0 without one
    phase,
    \* LiveUpload
    fallback,       \* fallbackRequested_
    operation,      \* operation_
    response,       \* the class of the answer
    desired,        \* the rotation in the desired_config of the answer, or 0
    pc,
    key,            \* the key that is written next
    \* the server
    latest,         \* the version it offered last
    outstanding,    \* how far that rotation is
    honoured,       \* the bearers it accepts
    proved,         \* the rotations whose token was used
    \* history
    failures,
    crashes

nvs == <<active, applied, ready, candidate>>
ram == <<activeBearer, appliedVersion, staged, phase>>
upload == <<fallback, operation, response, desired>>
server == <<latest, outstanding, honoured, proved>>
vars == <<nvs, ram, upload, pc, key, server, failures, crashes>>

-----------------------------------------------------------------------------

Versions == 1 .. MaxVersions
Tokens == 0 .. MaxVersions

\* Phase
Staged == 1
Acknowledged == 2

\* The keys of a candidate in the order persistCandidate writes them
\* between the two values of cand_ready
Fields == <<"ver", "nonce", "token", "overlap", "phase">>
FieldNames == {"ver", "nonce", "token", "overlap", "phase"}
NoFields == [f \in FieldNames |-> 0]

hasCandidate == phase # 0

TypeOK ==
    /\ active \in Tokens
    /\ applied \in Tokens
    /\ ready \in BOOLEAN
    /\ candidate \in [FieldNames -> Nat]
    /\ \A f \in FieldNames \ {"phase"} : candidate[f] \in Tokens
    /\ candidate["phase"] \in {0, Staged, Acknowledged}
    /\ activeBearer \in Tokens /\ appliedVersion \in Tokens /\ staged \in Tokens
    /\ phase \in {0, Staged, Acknowledged}
    /\ hasCandidate <=> staged # 0
    /\ fallback \in BOOLEAN
    /\ operation \in {"None", "Status", "RotationAck", "RotationProof", "Fallback"}
    /\ response \in {"none", "accepted", "rejected", "retry"}
    /\ desired \in Tokens
    /\ pc \in {"begin", "idle", "sent", "answered", "mark", "promote", "abandon", "forget",
               "consume", "persist"}
    /\ key \in 1 .. 7
    /\ latest \in Tokens
    /\ outstanding \in {"none", "offered", "acknowledged"}
    /\ honoured \subseteq Tokens
    /\ proved \subseteq Versions
    /\ failures \in 0 .. MaxFailures /\ crashes \in 0 .. MaxCrashes

Init ==
    /\ active = 0 /\ applied = 0
    /\ ready = FALSE /\ candidate = NoFields
    /\ activeBearer = 0 /\ appliedVersion = 0 /\ staged = 0 /\ phase = 0
    /\ fallback = FALSE /\ operation = "None" /\ response = "none" /\ desired = 0
    /\ pc = "begin" /\ key = 1
    /\ latest = 0 /\ outstanding = "none" /\ honoured = {0} /\ proved = {}
    /\ failures = 0 /\ crashes = 0

\* A call that fails may have had its effect.
Fails == failures < MaxFailures /\ failures' = failures + 1
Works == UNCHANGED failures

-----------------------------------------------------------------------------
(* AppBearerRotation *)

\* begin: a record with a missing key is removed.
Begin ==
    /\ pc = "begin"
    /\ \/ /\ Works
          /\ activeBearer' = active /\ appliedVersion' = applied
          /\ \/ /\ ready /\ \A f \in FieldNames : candidate[f] # 0
                /\ staged' = candidate["token"] /\ phase' = candidate["phase"] /\ pc' = "idle"
             \/ /\ ready /\ \E f \in FieldNames : candidate[f] = 0
                /\ pc' = "abandon" /\ UNCHANGED <<staged, phase>>
             \/ ~ready /\ pc' = "idle" /\ UNCHANGED <<staged, phase>>
       \/ Unreadable /\ Fails /\ pc' = "idle" /\ UNCHANGED ram
    /\ UNCHANGED <<nvs, upload, key, server, crashes>>

\* stage: whether the offer is taken up
MayStage(v) ==
    /\ v > appliedVersion
    /\ ~hasCandidate
    /\ v # activeBearer

\* consumeHttpsDesiredConfig, parseCredentialRotation and stage
Consume ==
    /\ pc = "consume"
    /\ \/ MayStage(desired) /\ staged' = desired /\ phase' = Staged /\ pc' = "persist"
       \/ ~MayStage(desired) /\ pc' = "idle" /\ UNCHANGED <<staged, phase>>
    /\ key' = 1
    /\ UNCHANGED <<nvs, activeBearer, appliedVersion, upload, server, failures, crashes>>

\* Mutant: cand_ready is set first.
PersistReadyFirst ==
    \/ key = 1 /\ ready' = TRUE /\ UNCHANGED candidate
    \/ key = 7 /\ UNCHANGED <<ready, candidate>>
    \/ /\ key \in 2 .. 6 /\ UNCHANGED ready
       /\ candidate' = [candidate EXCEPT ![Fields[key - 1]] =
                            IF Fields[key - 1] = "phase" THEN phase ELSE staged]

\* The write of one key of persistCandidate
PersistKey ==
    \/ key = 1 /\ ready' = FALSE /\ UNCHANGED candidate
    \/ key = 7 /\ ready' = TRUE /\ UNCHANGED candidate
    \/ /\ key \in 2 .. 6 /\ UNCHANGED ready
       /\ candidate' = [candidate EXCEPT ![Fields[key - 1]] =
                            IF Fields[key - 1] = "phase" THEN phase ELSE staged]

\* persistCandidate; stage forgets the candidate when it fails.
Persist ==
    /\ pc = "persist"
    /\ \/ Works /\ PersistKey /\ key < 7 /\ key' = key + 1 /\ UNCHANGED <<staged, phase, pc>>
       \/ Works /\ PersistKey /\ key = 7 /\ key' = 1 /\ pc' = "idle" /\ UNCHANGED <<staged, phase>>
       \/ /\ Fails /\ (PersistKey \/ UNCHANGED <<ready, candidate>>)
          /\ key' = 1 /\ staged' = 0 /\ phase' = 0 /\ pc' = "idle"
    /\ UNCHANGED <<active, applied, activeBearer, appliedVersion, upload, server, crashes>>

\* markAcknowledged; serviceHttps goes on to the desired configuration.
MarkAcknowledged ==
    /\ pc = "mark"
    /\ \/ Works /\ candidate' = [candidate EXCEPT !["phase"] = Acknowledged] /\ phase' = Acknowledged
       \/ /\ Fails /\ UNCHANGED phase
          /\ candidate' \in {candidate, [candidate EXCEPT !["phase"] = Acknowledged]}
    /\ pc' = "consume"
    /\ UNCHANGED <<active, applied, ready, activeBearer, appliedVersion, staged, upload, key,
                   server, crashes>>

\* The write of one key of promoteCandidate.  applied_nonce only decides how
\* an offer of the applied version is answered, and is left out.
PromoteKey ==
    \/ key = 1 /\ active' = staged /\ UNCHANGED <<applied, ready>>
    \/ key = 2 /\ applied' = staged /\ UNCHANGED <<active, ready>>
    \/ key = 3 /\ ready' = FALSE /\ UNCHANGED <<active, applied>>

\* Mutant: the candidate is removed first.
PromoteRemovesFirst ==
    /\ pc = "promote"
    /\ \/ Works /\ key = 1 /\ ready' = FALSE /\ key' = 2 /\ UNCHANGED <<active, applied, pc>>
       \/ /\ Works /\ key = 2 /\ active' = staged /\ applied' = staged /\ key' = 1
          /\ pc' = "forget" /\ UNCHANGED ready
       \/ Fails /\ key' = 1 /\ pc' = "consume" /\ UNCHANGED <<active, applied, ready>>
    /\ UNCHANGED <<candidate, ram, upload, server, crashes>>

\* promoteCandidate: RAM keeps the old bearer when a write fails.  A key that
\* is gone cannot be removed again.
Promote ==
    /\ pc = "promote"
    /\ \/ /\ Works /\ PromoteKey /\ (key = 3 => ready)
          /\ (key < 3 /\ key' = key + 1 /\ UNCHANGED pc) \/ (key = 3 /\ key' = 1 /\ pc' = "forget")
       \/ /\ Fails /\ (PromoteKey \/ UNCHANGED <<active, applied, ready>>)
          /\ key' = 1 /\ pc' = "consume"
       \/ /\ Works /\ key = 3 /\ ~ready /\ UNCHANGED <<active, applied, ready>>
          /\ key' = 1 /\ pc' = "consume"
    /\ UNCHANGED <<candidate, ram, upload, server, crashes>>

\* abandonCandidate: the results of the removals are ignored.
Abandon ==
    /\ pc = "abandon"
    /\ \/ Works /\ ready' = FALSE /\ pc' = "forget"
       \/ Fails /\ ready' \in {ready, FALSE} /\ pc' = "forget"
       \/ Fails /\ UNCHANGED ready /\ pc' = "idle"
    /\ staged' = 0 /\ phase' = 0
    /\ UNCHANGED <<active, applied, candidate, activeBearer, appliedVersion, upload, key,
                   server, crashes>>

\* The removal of the candidate's keys, at the end of promoteCandidate and of
\* clearCandidatePersistent
Forget ==
    /\ pc = "forget"
    /\ \E kept \in SUBSET FieldNames :
          /\ candidate' = [f \in FieldNames |-> IF f \in kept THEN candidate[f] ELSE 0]
          /\ IF kept = {} THEN Works ELSE Fails
    /\ \/ /\ hasCandidate
          /\ activeBearer' = staged /\ appliedVersion' = staged
          /\ staged' = 0 /\ phase' = 0 /\ pc' = "consume"
       \/ ~hasCandidate /\ pc' = "idle" /\ UNCHANGED ram
    /\ UNCHANGED <<active, applied, ready, upload, key, server, crashes>>

-----------------------------------------------------------------------------
(* serviceHttps *)

\* The status request that is due
Submit ==
    /\ pc = "idle"
    /\ operation' = CASE fallback -> "Fallback"
                      [] ~fallback /\ phase = Staged -> "RotationAck"
                      [] ~fallback /\ phase = Acknowledged -> "RotationProof"
                      [] OTHER -> "Status"
    /\ pc' = "sent" /\ response' = "none" /\ desired' = 0
    /\ UNCHANGED <<nvs, ram, fallback, key, server, failures, crashes>>

\* Mutant: the proof is made with the old bearer.
BearerIsActive == activeBearer

\* submitHttps: the bearer of the request
Bearer == IF operation = "RotationProof" THEN staged ELSE activeBearer

\* buildStatusJson: the acknowledgement of the request, or 0
Acknowledgement == IF phase = Staged THEN staged ELSE 0

\* The answer to the acknowledgement
HandleAck ==
    /\ pc = "answered" /\ operation = "RotationAck"
    /\ \/ response = "accepted" /\ pc' = "mark" /\ UNCHANGED fallback
       \/ response = "rejected" /\ fallback' = TRUE /\ pc' = "abandon"
       \/ response = "retry" /\ pc' = "idle" /\ UNCHANGED fallback
    /\ operation' = "None" /\ key' = 1
    /\ UNCHANGED <<nvs, ram, response, desired, server, failures, crashes>>

\* Mutant: a proof without an answer discards the candidate.
HandleProofAbandons ==
    /\ pc = "answered" /\ operation = "RotationProof"
    /\ \/ response = "accepted" /\ pc' = "promote" /\ UNCHANGED fallback
       \/ response # "accepted" /\ fallback' = TRUE /\ pc' = "abandon"
    /\ operation' = "None" /\ key' = 1
    /\ UNCHANGED <<nvs, ram, response, desired, server, failures, crashes>>

\* The answer to the proof
HandleProof ==
    /\ pc = "answered" /\ operation = "RotationProof"
    /\ \/ response = "accepted" /\ pc' = "promote" /\ UNCHANGED fallback
       \/ response # "accepted" /\ fallback' = TRUE /\ pc' = "idle"
    /\ operation' = "None" /\ key' = 1
    /\ UNCHANGED <<nvs, ram, response, desired, server, failures, crashes>>

\* Mutant: the request for the old bearer's status is never taken back.
HandleStatusKeepsFallback ==
    /\ pc = "answered" /\ operation \in {"Status", "Fallback"}
    /\ pc' = IF response = "accepted" THEN "consume" ELSE "idle"
    /\ operation' = "None"
    /\ UNCHANGED <<nvs, ram, fallback, response, desired, key, server, failures, crashes>>

\* The answer to a plain status request, or to the one after a rejection
HandleStatus ==
    /\ pc = "answered" /\ operation \in {"Status", "Fallback"}
    /\ fallback' = (fallback /\ operation # "Fallback")
    /\ pc' = IF response = "accepted" THEN "consume" ELSE "idle"
    /\ operation' = "None"
    /\ UNCHANGED <<nvs, ram, response, desired, key, server, failures, crashes>>

-----------------------------------------------------------------------------
(* The server and the network *)

\* It accepts what carries a bearer it honours and no obsolete acknowledgement.
Acceptable ==
    /\ Bearer \in honoured
    /\ Acknowledgement # 0 => Acknowledgement = latest /\ outstanding # "none"

\* What an accepted request changes
Served ==
    IF Acknowledgement # 0
    THEN /\ outstanding' = "acknowledged" /\ honoured' = honoured \cup {latest}
         /\ UNCHANGED <<latest, proved>>
    ELSE IF Bearer = latest /\ outstanding = "acknowledged"
    THEN /\ outstanding' = "none" /\ proved' = proved \cup {latest}
         /\ UNCHANGED <<latest, honoured>>
    ELSE UNCHANGED server

\* The answer arrives; the offer in it may be an old one.
ServerAccepts ==
    /\ pc = "sent" /\ Acceptable
    /\ Served
    /\ response' = "accepted" /\ desired' \in 0 .. latest /\ pc' = "answered"
    /\ UNCHANGED <<nvs, ram, fallback, operation, key, failures, crashes>>

\* The request or its answer is lost.
AnswerLost ==
    /\ pc = "sent"
    /\ (Acceptable /\ Served) \/ UNCHANGED server
    /\ response' = "retry" /\ pc' = "answered"
    /\ UNCHANGED <<nvs, ram, fallback, operation, desired, key, failures, crashes>>

\* A permanent 4xx, from the server or from the gateway before it
ServerRejects ==
    /\ pc = "sent"
    /\ response' = "rejected" /\ pc' = "answered"
    /\ UNCHANGED <<nvs, ram, fallback, operation, desired, key, server, failures, crashes>>

Offer ==
    /\ outstanding = "none" /\ latest < MaxVersions
    /\ latest' = latest + 1 /\ outstanding' = "offered"
    /\ UNCHANGED <<nvs, ram, upload, pc, key, honoured, proved, failures, crashes>>

\* Before it is acknowledged an offer may be withdrawn.
Withdraw ==
    /\ outstanding = "offered"
    /\ outstanding' = "none"
    /\ UNCHANGED <<nvs, ram, upload, pc, key, latest, honoured, proved, failures, crashes>>

\* The overlap ends: bearers older than one that was used are dropped.
Retire ==
    /\ \E v \in proved : \E t \in honoured : t < v
    /\ honoured' = {t \in honoured : \A v \in proved : t >= v}
    /\ UNCHANGED <<nvs, ram, upload, pc, key, latest, outstanding, proved, failures, crashes>>

Reset ==
    /\ crashes < MaxCrashes
    /\ crashes' = crashes + 1
    /\ activeBearer' = 0 /\ appliedVersion' = 0 /\ staged' = 0 /\ phase' = 0
    /\ fallback' = FALSE /\ operation' = "None" /\ response' = "none" /\ desired' = 0
    /\ pc' = "begin" /\ key' = 1
    /\ UNCHANGED <<nvs, server, failures>>

-----------------------------------------------------------------------------

Handle == HandleAck \/ HandleProof \/ HandleStatus
Rotation == Begin \/ Consume \/ Persist \/ MarkAcknowledged \/ Promote \/ Abandon \/ Forget
Server == ServerAccepts \/ ServerRejects \/ AnswerLost

Next ==
    \/ Rotation \/ Submit \/ Handle \/ Server
    \/ Offer \/ Withdraw \/ Retire \/ Reset

Spec == Init /\ [][Next]_vars

\* The loop goes on, requests time out, and a server that is asked again and
\* again answers in the end, with the offer that stands.
Fairness ==
    /\ WF_vars(Rotation) /\ WF_vars(Submit) /\ WF_vars(Handle) /\ WF_vars(Server)
    /\ SF_vars(operation = "RotationProof" /\ ServerAccepts)
    /\ SF_vars(operation = "RotationAck" /\ ServerAccepts)
    /\ SF_vars(operation = "RotationAck" /\ ~Acceptable /\ ServerRejects)
    /\ SF_vars(operation \in {"Status", "Fallback"} /\ ServerAccepts /\ desired' = latest)

FairSpec == Spec /\ Fairness

-----------------------------------------------------------------------------
(* Properties *)

\* A record in flash that begin would load
Loadable == ready /\ \A f \in FieldNames : candidate[f] # 0

\* What a reset would load is always a bearer that the server honours, or a
\* candidate that it honours and that will be proved: the logger never loses
\* the last bearer it can work with.
BearerSurvives ==
    \/ active \in honoured
    \/ Loadable /\ candidate["phase"] = Acknowledged /\ candidate["token"] \in honoured

\* The same of RAM: without a reset the logger finds back to a bearer that
\* the server honours, whatever write failed on the way.
BearerInUse ==
    pc # "begin" => activeBearer \in honoured \/ (phase = Acknowledged /\ staged \in honoured)

\* A candidate marked ready is never put together from two rotations.
CandidateWhole ==
    ready => \E v \in Versions :
        \A f \in FieldNames \ {"phase"} : candidate[f] \in {0, v}

\* A bearer becomes the active one only after the server accepted it.
PromotedOnlyProved == active # 0 => active \in proved

\* No request acknowledges a rotation that is complete: the app rejects that
\* for good, and the rejection would discard the bearer in use.
NoLateAcknowledgement ==
    pc = "sent" => Acknowledgement \notin proved

\* A rotation the server has acknowledged ends with its bearer in use.
RotationCompletes ==
    \A v \in Versions : (latest = v /\ outstanding = "acknowledged") ~> (active >= v)
=============================================================================
