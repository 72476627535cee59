---------------------- MODULE DeviceAuthorizationProofs ----------------------
(***************************************************************************)
(* The safety properties of DeviceAuthorization for any number of          *)
(* challenges, rotations, failing saves and resets.  What RAM and flash    *)
(* take from an answer is proved whenever answers arrive (BaseInv); that   *)
(* the credential survives, until an answer that is handled between a      *)
(* committed credential and the restart saves the record once more         *)
(* (~lateSave => AuthInv).                                                 *)
(*                                                                         *)
(* The server may drop every bearer but the newest one that was            *)
(* acknowledged or used (current), so flash and RAM have to hold exactly   *)
(* that one: as the stored token, as the rotation that is being proved, or *)
(* as the saved credential that is being acknowledged (Holds).  A save     *)
(* writes what RAM has, and may fail with or without effect; the invariant *)
(* says how flash and RAM may differ then, and what an answer on its way   *)
(* proves about the server.                                                *)
(***************************************************************************)
EXTENDS DeviceAuthorization, TLAPS

Holds(r, t) ==
    \/ r.token = t
    \/ r.phase = 2 /\ RotationToken(r.cand) = t
    \/ r.ack /\ r.boot = t

\* The rotation is one that the server still waits for.
Alive(c) == offer # "none" /\ latest = c

\* The rotation will never be used again.
Dead(c) == ~Alive(c) /\ RotationToken(c) # current

Confirmed(c) == c \in Challenges /\ challenges[c] = "acknowledged"

-----------------------------------------------------------------------------
(* What holds whenever answers arrive *)

\* The types that do not depend on a bound
Shape == [token : Nat, phase : Nat, cand : Nat, applied : Nat, id : Nat, ack : BOOLEAN, boot : Nat]

RecordOK(r) ==
    /\ r \in Shape
    /\ r.id \in {0} \cup Challenges /\ r.cand <= latest
    /\ r.phase # 0 => r.cand # 0

Types ==
    /\ RecordOK(rec) /\ RecordOK(mem)
    /\ bearer \in Nat
    /\ req \in [kind : {"none", "start", "poll", "ack", "verify"}, id : {0} \cup Challenges]
    /\ latest \in Nat /\ current \in Nat /\ desired \in Nat /\ desired <= latest
    /\ op \in {"None", "Status", "Fallback", "Desired"}
    /\ response \in {"none", "accepted", "rejected", "retry"}
    /\ offer \in {"none", "offered", "acknowledged"}
    /\ challenges \in [Challenges -> {"none", "open", "approved", "acknowledged", "closed"}]

\* Where the bearers come from that the server honours or has accepted
ServerBase ==
    /\ 0 \notin accepted
    /\ \A t \in honoured \cup accepted : Confirmed(t) \/ \E c \in 1 .. latest : t = RotationToken(c)
    /\ \A c \in Challenges : Confirmed(c) => c \in accepted
    /\ offer # "none" => latest # 0 /\ RotationToken(latest) \notin accepted
    /\ offer = "offered" => RotationToken(latest) \notin honoured
    /\ offer = "acknowledged" => RotationToken(latest) \in honoured

\* A record's token was accepted, its saved credential is of its challenge.
RecordBase(r) ==
    /\ r.token # 0 => r.token \in accepted
    /\ r.ack => r.boot = r.id /\ r.id # 0

RamBase == ready => mem.token = bearer /\ RecordBase(mem)

\* What a request in flight and its answer prove
RequestBase ==
    /\ busy \/ awaiting \/ restart \/ startPending => ready
    /\ ~busy => answer = "none"
    /\ req.kind = "start" => ~mem.ack /\ answer \in {"none", "retry", "limited", "challenge"}
    /\ answer = "challenge" => req.id # 0
    /\ req.kind = "poll" =>
          /\ ~mem.ack /\ req.id = mem.id /\ mem.id # 0
          /\ answer \in {"none", "retry", "limited", "pending", "authorized", "gone"}
    /\ req.kind = "ack" =>
          /\ mem.ack /\ req.id = mem.id
          /\ answer \in {"none", "retry", "limited", "acknowledged", "gone"}
          /\ answer = "acknowledged" => Confirmed(mem.boot)
    /\ req.kind = "verify" =>
          /\ mem.ack
          /\ answer \in {"none", "retry", "limited", "verified", "denied", "stranger"}
          /\ answer = "verified" => Confirmed(mem.boot)
    /\ awaiting => ~mem.ack /\ mem.id # 0 /\ ~startPending
    /\ startPending => ~busy /\ ~mem.ack

\* What the status request and its answer prove
StatusBase ==
    /\ op # "None" => ready
    /\ op \in {"None", "Desired"} => response = "none"
    /\ desired # 0 => op = "Desired" \/ response = "accepted"
    /\ fallback => ready
    /\ op \in {"Status", "Fallback"} => bearer # 0
    /\ op = "Status" /\ response = "accepted" /\ mem.phase = 2 => RotationToken(mem.cand) \in accepted

BaseInv == Types /\ ServerBase /\ RecordBase(rec) /\ RamBase /\ RequestBase /\ StatusBase

-----------------------------------------------------------------------------
(* What holds until the record is saved between a commit and its restart *)

\* What a record, in flash or in RAM, says of the server
RecordSound(r) ==
    /\ r.ack => /\ Confirmed(r.boot) => current = r.boot
                /\ current = r.boot /\ r.phase # 0 => ~Alive(r.cand)
    /\ r.phase = 1 => RotationToken(r.cand) \notin accepted
    /\ r.phase = 2 => /\ r.cand = latest => offer # "offered"
                      /\ RotationToken(r.cand) \in accepted =>
                            current = RotationToken(r.cand) \/ (r.ack /\ current = r.boot)

\* Flash holds the bearer that counts, and so does RAM until a restart is due.
HoldsCurrent ==
    current # 0 => /\ current \in honoured /\ current \in accepted
                   /\ Holds(rec, current) /\ (ready /\ ~restart => Holds(mem, current))

\* How flash may differ from RAM: by a save that failed with effect
FlashAndRam ==
    ready =>
        /\ RecordSound(mem)
        /\ mem.ack => \/ rec.ack /\ rec.boot = mem.boot
                      \/ ~rec.ack /\ rec.token = mem.boot /\ current = mem.boot /\ rec.phase = 0
        /\ ~mem.ack /\ rec.ack => ~Confirmed(rec.boot)
        /\ mem.phase = 2 =>
              \/ rec.phase = 2 /\ rec.cand = mem.cand
              \/ rec.phase = 0 /\ (rec.token = RotationToken(mem.cand) \/ Dead(mem.cand))

\* Answers that end a challenge are right, and none comes after a commit.
RequestSound ==
    /\ answer = "authorized" => ~Confirmed(req.id)
    /\ answer \in {"denied", "stranger"} => mem.boot \notin honoured
    /\ awaiting => ~restart

\* A rotation is given up only when the server does not wait for it any more.
StatusSound ==
    /\ restart => mem.phase = 0
    /\ op = "Status" => ~fallback
    /\ fallback /\ mem.phase = 2 => Dead(mem.cand)
    /\ op = "Fallback" /\ mem.phase = 2 => Dead(mem.cand)
    /\ op = "Status" /\ response = "rejected" /\ mem.phase = 2 => Dead(mem.cand)
    /\ op = "Status" /\ response = "accepted" /\ mem.phase = 1 /\ mem.cand = latest => offer # "offered"
    /\ desired # 0 /\ RotationToken(desired) \in accepted =>
          op # "Fallback" /\ (restart \/ mem.phase = 2)

AuthInv ==
    BaseInv /\ RecordSound(rec) /\ HoldsCurrent /\ FlashAndRam /\ RequestSound /\ StatusSound

-----------------------------------------------------------------------------

USE AuthorizationAssumption DEF device, request, upload, server, bounds, vars, Challenges,
    RotationToken, busy, Turn, NoRequest

-----------------------------------------------------------------------------
(* What the operations that change a record do, field by field *)

\* The fields of a record, but for applied, which no property needs
Fields(r, token, phase, cand, id, ack, boot) ==
    /\ r \in Shape /\ r.token = token /\ r.phase = phase /\ r.cand = cand /\ r.id = id
    /\ (r.ack <=> ack) /\ r.boot = boot

\* The save of an action that always saves is recorded as late after restart_.
NotLate == ~lateSave' => ~restart

\* requestAuthorization forgets the pending challenge in RAM only.
RequestAuthorizationDoes ==
    /\ ready /\ ~busy /\ ~restart /\ ~mem.ack /\ op # "Desired"
    /\ Fields(mem', mem.token, mem.phase, mem.cand, 0, FALSE, mem.boot)
    /\ ~awaiting'
    /\ \/ req' = [kind |-> "start", id |-> 0] /\ ~startPending'
       \/ req' = req /\ startPending'
    /\ UNCHANGED <<rec, ready, bearer, verifyPending, restart, answer, upload, server>>

LEMMA RequestAuthorizationEffect == ASSUME Types, RequestAuthorization PROVE RequestAuthorizationDoes
BY DEF RequestAuthorizationDoes, RequestAuthorization, Types, RecordOK, Fields, Shape

\* A challenge that ran out is forgotten, in flash if the save works.
ExpireDoes ==
    /\ ready /\ awaiting /\ ~busy /\ NotLate /\ op # "Desired"
    /\ Fields(mem', mem.token, mem.phase, mem.cand, 0, mem.ack, mem.boot)
    /\ rec' \in {rec, mem'}
    /\ ~awaiting'
    /\ UNCHANGED <<ready, bearer, startPending, verifyPending, restart, request, upload, server>>

LEMMA ExpireEffect == ASSUME Types, Expire PROVE ExpireDoes
BY DEF ExpireDoes, Expire, Types, RecordOK, Fields, Shape, Saved, NotSaved, NotLate

\* An answer that ends the challenge discards the saved credential.
AcceptEndDoes ==
    /\ ready /\ busy /\ NotLate /\ op # "Desired"
    /\ \/ req.kind \in {"start", "poll", "verify"} /\ answer \in {"gone", "denied", "stranger"}
       \/ req.kind = "ack" /\ answer = "denied"
       \/ req.kind = "ack" /\ answer = "gone" /\ ~mem.ack
    /\ Fields(mem', mem.token, mem.phase, mem.cand, 0, FALSE, 0)
    /\ rec' \in {rec, mem'}
    /\ ~awaiting' /\ ~verifyPending' /\ req' = NoRequest /\ answer' = "none"
    /\ UNCHANGED <<ready, bearer, startPending, restart, upload, server>>

LEMMA AcceptEndEffect == ASSUME Types, AcceptEnd PROVE AcceptEndDoes
BY DEF AcceptEndDoes, AcceptEnd, GivenUp, Answered, Types, RecordOK, Fields, Shape, Saved, NotSaved,
       NotLate

\* The record with the saved credential as the active one
Promoted(r) == Fields(r, mem.boot, 0, 0, 0, FALSE, mem.boot)

\* The saved credential becomes the active one; a save that fails may have made
\* it so in flash only.
AcceptAcknowledgedDoes ==
    /\ ready /\ NotLate /\ op # "Desired"
    /\ \/ req.kind = "ack" /\ answer = "acknowledged"
       \/ req.kind = "verify" /\ answer = "verified"
    /\ \/ /\ Promoted(rec') /\ Fields(mem', mem.token, 0, 0, 0, FALSE, mem.boot)
          /\ restart' /\ ~awaiting'
       \/ /\ rec' = rec \/ Promoted(rec')
          /\ Fields(mem', mem.token, mem.phase, mem.cand, mem.id, TRUE, mem.boot)
          /\ UNCHANGED <<restart, awaiting>>
    /\ req' = NoRequest /\ answer' = "none"
    /\ UNCHANGED <<ready, bearer, startPending, upload, server>>

LEMMA AcceptAcknowledgedEffect == ASSUME Types, AcceptAcknowledged PROVE AcceptAcknowledgedDoes
<1> DEFINE promoted == [mem EXCEPT !.phase = 0, !.cand = 0, !.applied = 0, !.id = 0, !.ack = FALSE]
           value == [promoted EXCEPT !.token = mem.boot]
<1>1. Fields(promoted, mem.token, 0, 0, 0, FALSE, mem.boot) /\ Promoted(value)
  BY DEF Types, RecordOK, Fields, Shape, Promoted
<1>2. Fields([mem EXCEPT !.ack = TRUE], mem.token, mem.phase, mem.cand, mem.id, TRUE, mem.boot)
  BY DEF Types, RecordOK, Fields, Shape
<1>3. \/ rec' = value /\ mem' = promoted /\ restart' = TRUE /\ awaiting' = FALSE
      \/ rec' \in {rec, value} /\ mem' = [mem EXCEPT !.ack = TRUE] /\ UNCHANGED <<restart, awaiting>>
  BY Zenon DEF AcceptAcknowledged, Saved, NotSaved
<1>5. NotLate
  BY Zenon DEF AcceptAcknowledged, Saved, NotSaved, NotLate
<1> HIDE DEF value, promoted
<1>4. /\ ready /\ op # "Desired"
      /\ \/ req.kind = "ack" /\ answer = "acknowledged"
         \/ req.kind = "verify" /\ answer = "verified"
      /\ req' = NoRequest /\ answer' = "none"
      /\ UNCHANGED <<ready, bearer, startPending, upload, server>>
  BY DEF AcceptAcknowledged, Answered
<1> QED BY <1>1, <1>2, <1>3, <1>4, <1>5 DEF AcceptAcknowledgedDoes

\* A new challenge is saved before it is polled.
AcceptChallengeDoes ==
    /\ ready /\ NotLate /\ op # "Desired" /\ req.kind = "start" /\ answer = "challenge"
    /\ \/ /\ Fields(mem', mem.token, mem.phase, mem.cand, req.id, mem.ack, mem.boot)
          /\ rec' = mem' /\ awaiting'
       \/ /\ rec' = rec \/ Fields(rec', mem.token, mem.phase, mem.cand, req.id, mem.ack, mem.boot)
          /\ mem' = mem /\ ~awaiting'
    /\ req' = NoRequest /\ answer' = "none"
    /\ UNCHANGED <<ready, bearer, startPending, verifyPending, restart, upload, server>>

LEMMA AcceptChallengeEffect == ASSUME Types, AcceptChallenge PROVE AcceptChallengeDoes
<1> DEFINE value == [mem EXCEPT !.id = req.id]
<1>0. req.id \in Nat /\ mem \in Shape
  BY DEF Types, RecordOK
<1>1. Fields(value, mem.token, mem.phase, mem.cand, req.id, mem.ack, mem.boot)
  BY <1>0 DEF Fields, Shape
<1>2. \/ rec' = value /\ mem' = value /\ awaiting' = TRUE
      \/ rec' \in {rec, value} /\ mem' = mem /\ awaiting' = FALSE
  BY Zenon DEF AcceptChallenge, Saved, NotSaved
<1>4. NotLate
  BY Zenon DEF AcceptChallenge, Saved, NotSaved, NotLate
<1> HIDE DEF value
<1>3. /\ ready /\ op # "Desired" /\ req.kind = "start" /\ answer = "challenge"
      /\ req' = NoRequest /\ answer' = "none"
      /\ UNCHANGED <<ready, bearer, startPending, verifyPending, restart, upload, server>>
  BY DEF AcceptChallenge, Answered
<1> QED BY <1>1, <1>2, <1>3, <1>4 DEF AcceptChallengeDoes

\* The credential is saved beside the old one, or forgotten again.
AcceptAuthorizedDoes ==
    /\ ready /\ NotLate /\ op # "Desired" /\ req.kind = "poll" /\ answer = "authorized"
    /\ \/ /\ Fields(mem', mem.token, mem.phase, mem.cand, mem.id, TRUE, req.id)
          /\ rec' = mem' /\ ~awaiting'
       \/ /\ rec' = rec \/ Fields(rec', mem.token, mem.phase, mem.cand, mem.id, TRUE, req.id)
          /\ Fields(mem', mem.token, mem.phase, mem.cand, mem.id, FALSE, req.id)
          /\ UNCHANGED awaiting
    /\ req' = NoRequest /\ answer' = "none"
    /\ UNCHANGED <<ready, bearer, startPending, verifyPending, restart, upload, server>>

LEMMA AcceptAuthorizedEffect == ASSUME Types, AcceptAuthorized PROVE AcceptAuthorizedDoes
<1> DEFINE value == [mem EXCEPT !.ack = TRUE, !.boot = req.id]
           undone == [value EXCEPT !.ack = FALSE]
<1>0. req.id \in Nat /\ mem \in Shape
  BY DEF Types, RecordOK
<1>1. /\ Fields(value, mem.token, mem.phase, mem.cand, mem.id, TRUE, req.id)
      /\ Fields(undone, mem.token, mem.phase, mem.cand, mem.id, FALSE, req.id)
  BY <1>0 DEF Fields, Shape
<1>2. \/ rec' = value /\ mem' = value /\ awaiting' = FALSE
      \/ rec' \in {rec, value} /\ mem' = undone /\ awaiting' = awaiting
  BY Zenon DEF AcceptAuthorized, Saved, NotSaved
<1>4. NotLate
  BY Zenon DEF AcceptAuthorized, Saved, NotSaved, NotLate
<1> HIDE DEF value, undone
<1>3. /\ ready /\ op # "Desired" /\ req.kind = "poll" /\ answer = "authorized"
      /\ req' = NoRequest /\ answer' = "none"
      /\ UNCHANGED <<ready, bearer, startPending, verifyPending, restart, upload, server>>
  BY DEF AcceptAuthorized, Answered
<1> QED BY <1>1, <1>2, <1>3, <1>4 DEF AcceptAuthorizedDoes

\* An offered rotation is saved as a candidate, or not taken up.
StageDoes ==
    /\ ready /\ op = "Desired" /\ op' = "None" /\ desired' = 0
    /\ \/ UNCHANGED <<rec, mem, awaiting>>
       \/ /\ ~restart /\ desired # 0 /\ mem.phase = 0 /\ ~mem.ack
          /\ \/ /\ Fields(mem', mem.token, 1, desired, mem.id, FALSE, mem.boot)
                /\ rec' = mem' /\ ~awaiting'
             \/ /\ rec' = rec \/ Fields(rec', mem.token, 1, desired, mem.id, FALSE, mem.boot)
                /\ Fields(mem', mem.token, 0, 0, mem.id, FALSE, mem.boot)
                /\ UNCHANGED awaiting
    /\ UNCHANGED <<ready, bearer, startPending, verifyPending, restart, request, response,
                   fallback, server>>

LEMMA StageEffect == ASSUME Types, Stage PROVE StageDoes
<1> DEFINE value == [mem EXCEPT !.cand = desired, !.phase = 1]
           undone == [mem EXCEPT !.cand = 0, !.phase = 0]
<1>1. ~mem.ack => /\ Fields(value, mem.token, 1, desired, mem.id, FALSE, mem.boot)
                  /\ Fields(undone, mem.token, 0, 0, mem.id, FALSE, mem.boot)
  BY DEF Types, RecordOK, Fields, Shape
<1>2. \/ UNCHANGED <<rec, mem, awaiting>>
      \/ /\ ~restart /\ desired > mem.applied /\ mem.phase = 0 /\ ~mem.ack
         /\ \/ rec' = value /\ mem' = value /\ awaiting' = FALSE
            \/ rec' \in {rec, value} /\ mem' = undone /\ awaiting' = awaiting
  BY Zenon DEF Stage, Saved, NotSaved
<1> HIDE DEF value, undone
<1>3. desired > mem.applied => desired # 0
  BY DEF Types, RecordOK, Shape
<1>4. /\ ready /\ op = "Desired" /\ op' = "None" /\ desired' = 0
      /\ UNCHANGED <<ready, bearer, startPending, verifyPending, restart, request, response,
                     fallback, server>>
  BY DEF Stage
<1> QED BY <1>1, <1>2, <1>3, <1>4 DEF StageDoes

\* The candidate is dropped when the old credential was accepted.
HandleFallbackDoes ==
    /\ ready /\ op = "Fallback" /\ response # "none" /\ response' = "none"
    /\ op' = IF response = "accepted" THEN "Desired" ELSE "None"
    /\ ~fallback'
    /\ \/ response # "accepted" /\ UNCHANGED <<rec, mem, awaiting>>
       \/ /\ response = "accepted" /\ NotLate
          /\ \/ /\ Fields(mem', mem.token, 0, 0, mem.id, mem.ack, mem.boot)
                /\ rec' = mem' /\ ~awaiting'
             \/ /\ rec' = rec \/ Fields(rec', mem.token, 0, 0, mem.id, mem.ack, mem.boot)
                /\ UNCHANGED <<mem, awaiting>>
    /\ UNCHANGED <<ready, bearer, startPending, verifyPending, restart, request, desired, server>>

LEMMA HandleFallbackEffect == ASSUME Types, HandleFallback PROVE HandleFallbackDoes
<1> DEFINE value == [mem EXCEPT !.phase = 0, !.cand = 0]
<1>1. Fields(value, mem.token, 0, 0, mem.id, mem.ack, mem.boot)
  BY DEF Types, RecordOK, Fields, Shape
<1>2. \/ response # "accepted" /\ UNCHANGED <<rec, mem, awaiting>>
      \/ /\ response = "accepted" /\ NotLate
         /\ \/ rec' = value /\ mem' = value /\ awaiting' = FALSE
            \/ rec' \in {rec, value} /\ UNCHANGED <<mem, awaiting>>
  BY Zenon DEF HandleFallback, Saved, NotSaved, NotLate
<1> HIDE DEF value
<1>3. /\ ready /\ op = "Fallback" /\ response # "none" /\ response' = "none"
      /\ op' = IF response = "accepted" THEN "Desired" ELSE "None"
      /\ ~fallback'
      /\ UNCHANGED <<ready, bearer, startPending, verifyPending, restart, request, desired, server>>
  BY DEF HandleFallback
<1> QED BY <1>1, <1>2, <1>3 DEF HandleFallbackDoes

\* An accepted answer acknowledges the candidate, then proves it.
HandleStatusDoes ==
    /\ ready /\ op = "Status" /\ response # "none" /\ response' = "none"
    /\ op' = IF response = "accepted" THEN "Desired" ELSE "None"
    /\ fallback' <=> (fallback \/ (response = "rejected" /\ mem.phase # 0))
    /\ \/ /\ ~(response = "accepted" /\ ~restart /\ mem.phase # 0)
          /\ UNCHANGED <<rec, mem, awaiting, restart>>
       \/ /\ response = "accepted" /\ ~restart /\ mem.phase = 1 /\ UNCHANGED restart
          /\ \/ /\ Fields(mem', mem.token, 2, mem.cand, mem.id, mem.ack, mem.boot)
                /\ rec' = mem' /\ ~awaiting'
             \/ /\ rec' = rec \/ Fields(rec', mem.token, 2, mem.cand, mem.id, mem.ack, mem.boot)
                /\ UNCHANGED <<mem, awaiting>>
       \/ /\ response = "accepted" /\ ~restart /\ mem.phase = 2
          /\ \/ /\ Fields(rec', RotationToken(mem.cand), 0, mem.cand, mem.id, mem.ack, mem.boot)
                /\ Fields(mem', mem.token, 0, mem.cand, mem.id, mem.ack, mem.boot)
                /\ restart' /\ ~awaiting'
             \/ /\ \/ rec' = rec
                   \/ Fields(rec', RotationToken(mem.cand), 0, mem.cand, mem.id, mem.ack, mem.boot)
                /\ UNCHANGED <<mem, restart, awaiting>>
    /\ UNCHANGED <<ready, bearer, startPending, verifyPending, request, desired, server>>

LEMMA HandleStatusEffect == ASSUME Types, HandleStatus PROVE HandleStatusDoes
<1> DEFINE acked == [mem EXCEPT !.phase = 2]
           proved == [mem EXCEPT !.applied = mem.cand, !.phase = 0]
           flash == [proved EXCEPT !.token = RotationToken(mem.cand)]
<1>0. RotationToken(mem.cand) \in Nat /\ mem \in Shape
  BY DEF Types, RecordOK, Shape
<1>1. /\ Fields(acked, mem.token, 2, mem.cand, mem.id, mem.ack, mem.boot)
      /\ Fields(proved, mem.token, 0, mem.cand, mem.id, mem.ack, mem.boot)
      /\ Fields(flash, RotationToken(mem.cand), 0, mem.cand, mem.id, mem.ack, mem.boot)
  BY <1>0 DEF Fields, Shape
<1>2. \/ /\ ~(response = "accepted" /\ ~restart /\ mem.phase # 0)
         /\ UNCHANGED <<rec, mem, awaiting, restart>>
      \/ response = "accepted" /\ ~restart /\ mem.phase # 0 /\ Rotated
  BY DEF HandleStatus
<1>3. Rotated =>
      \/ /\ mem.phase = 1 /\ restart' = restart
         /\ \/ rec' = acked /\ mem' = acked /\ awaiting' = FALSE
            \/ rec' \in {rec, acked} /\ mem' = mem /\ awaiting' = awaiting
      \/ /\ mem.phase = 2
         /\ \/ rec' = flash /\ mem' = proved /\ restart' = TRUE /\ awaiting' = FALSE
            \/ rec' \in {rec, flash} /\ mem' = mem /\ restart' = restart /\ awaiting' = awaiting
  BY Zenon DEF Rotated, Saved, NotSaved
<1> HIDE DEF acked, proved, flash
<1>4. /\ ready /\ op = "Status" /\ response # "none" /\ response' = "none"
      /\ op' = IF response = "accepted" THEN "Desired" ELSE "None"
      /\ fallback' <=> (fallback \/ (response = "rejected" /\ mem.phase # 0))
      /\ UNCHANGED <<ready, bearer, startPending, verifyPending, request, desired, server>>
  BY DEF HandleStatus
<1> QED BY <1>1, <1>2, <1>3, <1>4 DEF HandleStatusDoes

\* Only seven actions change the server, and none of them changes the device.
LEMMA Frame ==
    ASSUME BaseInv, [Next]_vars
    PROVE  \/ UNCHANGED server
           \/ /\ UNCHANGED device
              /\ \/ ServeStart \/ ServeAck \/ ServeStatus
                 \/ \E c \in Challenges : Approve(c) \/ Close(c)
                 \/ Offer \/ Withdraw \/ \E t \in Tokens : Retire(t)
<1>1. CASE Begin \/ RequestAuthorization \/ SendStart \/ SendAcknowledgement \/ SendPoll \/ Expire
           \/ SubmitStatus \/ RequestLost \/ StatusLost \/ TimePasses \/ Reset
  BY <1>1 DEF Begin, RequestAuthorization, SendStart, SendAcknowledgement, SendPoll, Expire,
              SubmitStatus, RequestLost, StatusLost, TimePasses, Reset
<1>2. CASE Accept
  BY <1>2 DEF Accept, AcceptNothing, AcceptLate, AcceptEnd, AcceptAcknowledged, AcceptChallenge,
              AcceptAuthorized
<1>3. CASE Handle
  BY <1>3 DEF Handle, HandleStatus, HandleFallback, Stage
<1>4. CASE Serve
  BY <1>4 DEF Serve, ServeStart, ServePoll, ServeAck, ServeVerify, Reply
<1>5. CASE ServeStatus
  BY <1>5 DEF ServeStatus
<1>6. CASE \E c \in Challenges : Approve(c) \/ Close(c)
  BY <1>6 DEF Approve, Close
<1>7. CASE Offer \/ Withdraw \/ \E t \in Tokens : Retire(t)
  BY <1>7 DEF Offer, Withdraw, Retire
<1> QED BY <1>1, <1>2, <1>3, <1>4, <1>5, <1>6, <1>7 DEF Next

\* What the server accepted and acknowledged stays so; rotations are counted up.
LEMMA Monotone ==
    ASSUME BaseInv, [Next]_vars
    PROVE  /\ accepted \subseteq accepted' /\ latest <= latest'
           /\ \A c \in Challenges : Confirmed(c) => Confirmed(c)'
<1> USE DEF BaseInv, Types
<1>1. CASE UNCHANGED server
  BY <1>1 DEF Confirmed
<1>2. CASE ServeStart
  BY <1>2 DEF ServeStart, Reply, Confirmed
<1>3. CASE ServeAck
  BY <1>3 DEF ServeAck, Reply, Confirmed
<1>4. CASE ServeStatus
  BY <1>4 DEF ServeStatus, Confirmed
<1>5. CASE \E c \in Challenges : Approve(c) \/ Close(c)
  BY <1>5 DEF Approve, Close, Confirmed
<1>6. CASE Offer \/ Withdraw \/ \E t \in Tokens : Retire(t)
  BY <1>6 DEF Offer, Withdraw, Retire, Confirmed
<1> QED BY Frame, <1>1, <1>2, <1>3, <1>4, <1>5, <1>6

\* Every bearer the server knows was acknowledged or is the token of a rotation.
LEMMA ServerStep ==
    ASSUME BaseInv, [Next]_vars
    PROVE  ServerBase'
<1> USE DEF BaseInv, Types, ServerBase, Confirmed
<1>0. \A c \in Challenges : Confirmed(c) => Confirmed(c)'
  BY Monotone
<1>1. CASE UNCHANGED server
  BY <1>1
<1>2. CASE ServeStart
  BY <1>2 DEF ServeStart, Reply
<1>3. CASE ServeAck
  <2>1. req.id \in Challenges /\ latest' = latest
    BY <1>3 DEF ServeAck, Reply
  <2>2. CASE UNCHANGED <<challenges, offer, honoured, current, accepted>>
    BY <2>1, <2>2
  <2>3. CASE /\ challenges' = [challenges EXCEPT ![req.id] = "acknowledged"]
             /\ honoured' = honoured \cup {req.id} /\ accepted' = accepted \cup {req.id}
             /\ offer' = "none"
    <3>1. \A c \in Challenges : Confirmed(c)' <=> Confirmed(c) \/ c = req.id
      BY <2>1, <2>3
    <3>2. 0 \notin accepted' /\ \A c \in Challenges : Confirmed(c)' => c \in accepted'
      BY <2>1, <2>3, <3>1
    <3>3. \A t \in honoured' \cup accepted' :
             Confirmed(t)' \/ \E c \in 1 .. latest' : t = RotationToken(c)
      BY <2>1, <2>3, <3>1
    <3> QED BY <2>3, <3>2, <3>3
  <2> QED BY <1>3, <2>2, <2>3 DEF ServeAck, Reply
<1>4. CASE ServeStatus
  <2>1. /\ latest' = latest /\ challenges' = challenges
        /\ \A c : Confirmed(c)' <=> Confirmed(c)
    BY <1>4 DEF ServeStatus
  <2>2. CASE UNCHANGED <<offer, honoured, current, accepted>>
    BY <2>1, <2>2
  <2>3. CASE Acceptable /\ accepted' = accepted \cup {StatusBearer}
    <3>1. StatusBearer \in honoured
      BY <2>3 DEF Acceptable
    <3>2. 0 \notin accepted' /\ \A c \in Challenges : Confirmed(c)' => c \in accepted'
      BY <2>1, <2>3, <3>1
    <3>3. \A t \in honoured \cup accepted' :
             Confirmed(t)' \/ \E c \in 1 .. latest' : t = RotationToken(c)
      BY <2>1, <2>3, <3>1
    <3>4. offer # "none" /\ StatusBearer = RotationToken(latest) => Acknowledgement = latest
      <4>1. op \in {"Status", "Fallback"} /\ bearer \in accepted
        BY <1>4 DEF ServeStatus, RamBase, RecordBase, StatusBase
      <4>2. mem.cand \in Nat /\ (mem.phase # 0 => mem.cand # 0)
        BY DEF RecordOK, Shape
      <4> QED BY <4>1, <4>2 DEF StatusBearer, Acknowledgement
    <3>5. \/ offer' = "none" /\ honoured' = honoured
          \/ /\ offer # "none" /\ StatusBearer # RotationToken(latest)
             /\ offer' = "acknowledged" /\ honoured' = honoured \cup {RotationToken(latest)}
          \/ /\ offer = "none" \/ Acknowledgement # latest
             /\ UNCHANGED <<offer, honoured>>
      BY <1>4, <2>3 DEF ServeStatus
    <3> HIDE DEF RotationToken, Confirmed
    <3> QED BY <2>1, <2>3, <3>1, <3>2, <3>3, <3>4, <3>5
  <2> QED BY <1>4, <2>2, <2>3 DEF ServeStatus
<1>5. CASE \E c \in Challenges : Approve(c) \/ Close(c)
  BY <1>5 DEF Approve, Close
<1>6. CASE Offer
  BY <1>6 DEF Offer
<1>7. CASE Withdraw
  BY <1>7 DEF Withdraw
<1>8. CASE \E t \in Tokens : Retire(t)
  BY <1>8 DEF Retire
<1> QED BY Frame, <1>1, <1>2, <1>3, <1>4, <1>5, <1>6, <1>7, <1>8

\* The actions that touch the record in flash or in RAM, or set restart_
LEMMA RecordFrame ==
    ASSUME [Next]_vars
    PROVE  \/ UNCHANGED <<rec, mem, ready, bearer, restart>>
           \/ Begin \/ RequestAuthorization \/ Expire \/ AcceptEnd \/ AcceptAcknowledged
           \/ AcceptChallenge \/ AcceptAuthorized \/ HandleStatus \/ HandleFallback \/ Stage \/ Reset
<1>1. CASE SendStart \/ SendAcknowledgement \/ SendPoll \/ AcceptNothing \/ AcceptLate
           \/ SubmitStatus \/ RequestLost \/ StatusLost \/ TimePasses
  BY <1>1 DEF SendStart, SendAcknowledgement, SendPoll, AcceptNothing, AcceptLate, SubmitStatus,
              RequestLost, StatusLost, TimePasses
<1>2. CASE Serve \/ ServeStatus
  BY <1>2 DEF Serve, ServeStart, ServePoll, ServeAck, ServeVerify, Reply, ServeStatus
<1>3. CASE \E c \in Challenges : Approve(c) \/ Close(c)
  BY <1>3 DEF Approve, Close
<1>4. CASE Offer \/ Withdraw \/ \E t \in Tokens : Retire(t)
  BY <1>4 DEF Offer, Withdraw, Retire
<1> QED BY <1>1, <1>2, <1>3, <1>4 DEF Next, Accept, Handle

\* A token reaches flash or RAM only when the server has accepted it, and a saved
\* credential is always that of the pending challenge.
LEMMA RecordStep ==
    ASSUME BaseInv, [Next]_vars
    PROVE  RecordBase(rec)' /\ RamBase'
<1> USE DEF BaseInv, Types, RecordOK, RecordBase, RamBase
<1>1. accepted \subseteq accepted'
  BY Monotone
<1>2. CASE UNCHANGED <<rec, mem, ready, bearer, restart>>
  BY <1>1, <1>2
<1>3. CASE Begin
  BY <1>1, <1>3 DEF Begin
<1>4. CASE RequestAuthorization
  <2>1. RequestAuthorizationDoes
    BY <1>4, RequestAuthorizationEffect
  <2> QED BY <1>1, <2>1 DEF RequestAuthorizationDoes, Fields
<1>5. CASE Expire
  <2>1. ExpireDoes
    BY <1>5, ExpireEffect
  <2> QED BY <1>1, <2>1 DEF ExpireDoes, Fields, RequestBase
<1>6. CASE AcceptEnd
  <2>1. AcceptEndDoes
    BY <1>6, AcceptEndEffect
  <2> QED BY <1>1, <2>1 DEF AcceptEndDoes, Fields
<1>7. CASE AcceptAcknowledged
  <2>1. AcceptAcknowledgedDoes
    BY <1>7, AcceptAcknowledgedEffect
  <2> QED BY <1>1, <2>1 DEF AcceptAcknowledgedDoes, Fields, Promoted, RequestBase, ServerBase,
             Confirmed
<1>8. CASE AcceptChallenge
  <2>1. AcceptChallengeDoes
    BY <1>8, AcceptChallengeEffect
  <2> QED BY <1>1, <2>1 DEF AcceptChallengeDoes, Fields, RequestBase
<1>9. CASE AcceptAuthorized
  <2>1. AcceptAuthorizedDoes
    BY <1>9, AcceptAuthorizedEffect
  <2> QED BY <1>1, <2>1 DEF AcceptAuthorizedDoes, Fields, RequestBase
<1>10. CASE HandleStatus
  <2>1. HandleStatusDoes
    BY <1>10, HandleStatusEffect
  <2> QED BY <1>1, <2>1 DEF HandleStatusDoes, Fields, StatusBase
<1>11. CASE HandleFallback
  <2>1. HandleFallbackDoes
    BY <1>11, HandleFallbackEffect
  <2> QED BY <1>1, <2>1 DEF HandleFallbackDoes, Fields
<1>12. CASE Stage
  <2>1. StageDoes
    BY <1>12, StageEffect
  <2> QED BY <1>1, <2>1 DEF StageDoes, Fields
<1>13. CASE Reset
  BY <1>1, <1>13 DEF Reset, Identity
<1> QED BY RecordFrame, <1>2, <1>3, <1>4, <1>5, <1>6, <1>7, <1>8, <1>9, <1>10, <1>11, <1>12, <1>13

\* Every action keeps the types.
LEMMA TypesStep ==
    ASSUME BaseInv, [Next]_vars
    PROVE  Types'
<1> USE DEF BaseInv, Types, RecordOK
<1>1. CASE Begin
  BY <1>1 DEF Begin, Shape
<1>2. CASE RequestAuthorization
  <2>1. RequestAuthorizationDoes
    BY <1>2, RequestAuthorizationEffect
  <2> QED BY <2>1 DEF RequestAuthorizationDoes, Fields
<1>3. CASE SendStart
  BY <1>3 DEF SendStart, Send
<1>4. CASE SendAcknowledgement
  BY <1>4 DEF SendAcknowledgement, Send
<1>5. CASE SendPoll
  BY <1>5 DEF SendPoll, Send
<1>6. CASE Expire
  <2>1. ExpireDoes
    BY <1>6, ExpireEffect
  <2> QED BY <2>1 DEF ExpireDoes, Fields
<1>7. CASE AcceptNothing
  BY <1>7 DEF AcceptNothing, Answered
<1>8. CASE AcceptLate
  BY <1>8 DEF AcceptLate, Answered
<1>9. CASE AcceptEnd
  <2>1. AcceptEndDoes
    BY <1>9, AcceptEndEffect
  <2> QED BY <2>1 DEF AcceptEndDoes, Fields
<1>10. CASE AcceptAcknowledged
  <2>1. AcceptAcknowledgedDoes
    BY <1>10, AcceptAcknowledgedEffect
  <2> QED BY <2>1 DEF AcceptAcknowledgedDoes, Fields, Promoted
<1>11. CASE AcceptChallenge
  <2>1. AcceptChallengeDoes
    BY <1>11, AcceptChallengeEffect
  <2> QED BY <2>1 DEF AcceptChallengeDoes, Fields
<1>12. CASE AcceptAuthorized
  <2>1. AcceptAuthorizedDoes
    BY <1>12, AcceptAuthorizedEffect
  <2> QED BY <2>1 DEF AcceptAuthorizedDoes, Fields
<1>13. CASE SubmitStatus
  BY <1>13 DEF SubmitStatus
<1>14. CASE HandleStatus
  <2>1. HandleStatusDoes
    BY <1>14, HandleStatusEffect
  <2> QED BY <2>1 DEF HandleStatusDoes, Fields
<1>15. CASE HandleFallback
  <2>1. HandleFallbackDoes
    BY <1>15, HandleFallbackEffect
  <2> QED BY <2>1 DEF HandleFallbackDoes, Fields
<1>16. CASE Stage
  <2>1. StageDoes
    BY <1>16, StageEffect
  <2> QED BY <2>1 DEF StageDoes, Fields
<1>17. CASE ServeStart
  BY <1>17 DEF ServeStart, Reply
<1>18. CASE ServePoll
  BY <1>18 DEF ServePoll, Reply
<1>19. CASE ServeAck
  BY <1>19 DEF ServeAck, Reply
<1>20. CASE ServeVerify
  BY <1>20 DEF ServeVerify, Reply
<1>21. CASE RequestLost
  BY <1>21 DEF RequestLost
<1>22. CASE ServeStatus
  BY <1>22 DEF ServeStatus, Acceptable, StatusBearer, Acknowledgement
<1>23. CASE StatusLost
  BY <1>23 DEF StatusLost
<1>24. CASE \E c \in Challenges : Approve(c) \/ Close(c)
  BY <1>24 DEF Approve, Close
<1>25. CASE Offer
  BY <1>25 DEF Offer, Shape
<1>26. CASE Withdraw
  BY <1>26 DEF Withdraw
<1>27. CASE \E t \in Tokens : Retire(t)
  BY <1>27 DEF Retire
<1>28. CASE TimePasses
  BY <1>28 DEF TimePasses
<1>29. CASE Reset
  BY <1>29 DEF Reset, Identity, Shape
<1>30. CASE UNCHANGED vars
  BY <1>30 DEF Confirmed
<1> QED BY <1>1, <1>2, <1>3, <1>4, <1>5, <1>6, <1>7, <1>8, <1>9, <1>10, <1>11, <1>12, <1>13, <1>14,
           <1>15, <1>16, <1>17, <1>18, <1>19, <1>20, <1>21, <1>22, <1>23, <1>24, <1>25, <1>26,
           <1>27, <1>28, <1>29, <1>30 DEF Next, Accept, Serve, Handle

\* An acknowledgement's answer is about the saved credential, whatever happens
\* between the request and the answer.
LEMMA RequestStep ==
    ASSUME BaseInv, [Next]_vars
    PROVE  RequestBase'
<1> USE DEF BaseInv, Types, RecordOK, RequestBase
<1>0. \A c \in Challenges : Confirmed(c) => Confirmed(c)'
  BY Monotone
<1>1. CASE Begin
  BY <1>1 DEF Begin, StatusBase
<1>2. CASE RequestAuthorization
  <2>1. RequestAuthorizationDoes
    BY <1>2, RequestAuthorizationEffect
  <2> QED BY <2>1 DEF RequestAuthorizationDoes, Fields
<1>3. CASE SendStart
  BY <1>3 DEF SendStart, Send
<1>4. CASE SendAcknowledgement
  BY <1>4 DEF SendAcknowledgement, Send
<1>5. CASE SendPoll
  BY <1>5 DEF SendPoll, Send
<1>6. CASE Expire
  <2>1. ExpireDoes
    BY <1>6, ExpireEffect
  <2> QED BY <2>1 DEF ExpireDoes, Fields, RamBase, RecordBase
<1>7. CASE AcceptNothing
  BY <1>7 DEF AcceptNothing, Answered, Confirmed
<1>8. CASE AcceptLate
  BY <1>8 DEF AcceptLate, Answered
<1>9. CASE AcceptEnd
  <2>1. AcceptEndDoes
    BY <1>9, AcceptEndEffect
  <2> QED BY <2>1 DEF AcceptEndDoes, Fields
<1>10. CASE AcceptAcknowledged
  <2>1. AcceptAcknowledgedDoes
    BY <1>10, AcceptAcknowledgedEffect
  <2> QED BY <2>1 DEF AcceptAcknowledgedDoes, Fields, Promoted
<1>11. CASE AcceptChallenge
  <2>1. AcceptChallengeDoes
    BY <1>11, AcceptChallengeEffect
  <2> QED BY <2>1 DEF AcceptChallengeDoes, Fields
<1>12. CASE AcceptAuthorized
  <2>1. AcceptAuthorizedDoes
    BY <1>12, AcceptAuthorizedEffect
  <2> QED BY <2>1 DEF AcceptAuthorizedDoes, Fields
<1>13. CASE SubmitStatus
  BY <1>13 DEF SubmitStatus, Confirmed
<1>14. CASE HandleStatus
  <2>1. HandleStatusDoes
    BY <1>14, HandleStatusEffect
  <2>2. mem'.id = mem.id /\ (mem'.ack <=> mem.ack) /\ mem'.boot = mem.boot
    BY <2>1 DEF HandleStatusDoes, Fields
  <2>3. /\ UNCHANGED <<ready, startPending, req, answer, challenges>>
        /\ awaiting' => awaiting
    BY <2>1 DEF HandleStatusDoes
  <2>4. ready
    BY <2>1 DEF HandleStatusDoes
  <2> QED BY <2>2, <2>3, <2>4 DEF Confirmed
<1>15. CASE HandleFallback
  <2>1. HandleFallbackDoes
    BY <1>15, HandleFallbackEffect
  <2> QED BY <2>1 DEF HandleFallbackDoes, Fields, Confirmed
<1>16. CASE Stage
  <2>1. StageDoes
    BY <1>16, StageEffect
  <2> QED BY <2>1 DEF StageDoes, Fields, Confirmed
<1>17. CASE ServeStart
  <2>1. PICK c \in Challenges : req' = [req EXCEPT !.id = c]
    BY <1>17 DEF ServeStart
  <2>2. /\ req.kind = "start" /\ answer' \in {"challenge", "retry"}
        /\ UNCHANGED <<mem, ready, awaiting, startPending, restart>>
    BY <1>17 DEF ServeStart, Reply
  <2>3. req'.kind = "start" /\ req'.id = c
    BY <2>1, <2>2
  <2> QED BY <2>2, <2>3
<1>18. CASE ServePoll
  BY <1>18 DEF ServePoll, Reply
<1>19. CASE ServeAck
  <2>1. /\ req.kind = "ack" /\ answer' \in {"acknowledged", "gone", "retry"}
        /\ UNCHANGED <<req, mem, ready, awaiting, startPending, restart>>
    BY <1>19 DEF ServeAck, Reply
  <2>2. req.id \in Challenges /\ mem.boot = req.id
    BY <1>19, <2>1 DEF ServeAck, RamBase, RecordBase
  <2>3. answer' = "acknowledged" => Confirmed(req.id)'
    BY <1>19, <2>2 DEF ServeAck, Reply, Confirmed
  <2> QED BY <2>1, <2>2, <2>3
<1>20. CASE ServeVerify
  <2>1. /\ req.kind = "verify" /\ answer' \in {"verified", "denied", "stranger", "retry"}
        /\ answer' = "verified" => mem.boot \in honoured
        /\ UNCHANGED <<req, mem, ready, awaiting, startPending, restart, challenges>>
    BY <1>20 DEF ServeVerify, Reply
  <2>2. mem.boot \in Challenges
    BY <2>1 DEF RamBase, RecordBase
  <2>3. \A c \in 1 .. latest : mem.boot # RotationToken(c)
    BY <2>2
  <2>4. mem.boot \in honoured => Confirmed(mem.boot)
    BY <2>3 DEF ServerBase
  <2> QED BY <2>1, <2>4 DEF Confirmed
<1>21. CASE RequestLost
  BY <1>21 DEF RequestLost
<1>22. CASE ServeStatus
  BY <1>22 DEF ServeStatus, Acceptable, StatusBearer, Acknowledgement, Confirmed
<1>23. CASE StatusLost
  BY <1>23 DEF StatusLost, Confirmed
<1>24. CASE \E c \in Challenges : Approve(c) \/ Close(c)
  <2>1. /\ UNCHANGED <<req, answer, mem, ready, awaiting, startPending, restart>>
    BY <1>24 DEF Approve, Close
  <2> QED BY <1>0, <2>1 DEF Confirmed
<1>25. CASE Offer
  BY <1>25 DEF Offer, Confirmed
<1>26. CASE Withdraw
  BY <1>26 DEF Withdraw, Confirmed
<1>27. CASE \E t \in Tokens : Retire(t)
  BY <1>27 DEF Retire, Confirmed
<1>28. CASE TimePasses
  BY <1>28 DEF TimePasses, Confirmed
<1>29. CASE Reset
  BY <1>29 DEF Reset, Identity
<1>30. CASE UNCHANGED vars
  BY <1>30 DEF Confirmed
<1> QED BY <1>1, <1>2, <1>3, <1>4, <1>5, <1>6, <1>7, <1>8, <1>9, <1>10, <1>11, <1>12, <1>13, <1>14,
           <1>15, <1>16, <1>17, <1>18, <1>19, <1>20, <1>21, <1>22, <1>23, <1>24, <1>25, <1>26,
           <1>27, <1>28, <1>29, <1>30 DEF Next, Accept, Serve, Handle

\* An accepted proof of a rotation is about the candidate in RAM.
LEMMA StatusStep ==
    ASSUME BaseInv, [Next]_vars
    PROVE  StatusBase'
<1> USE DEF BaseInv, Types, RecordOK, StatusBase
<1>0. accepted \subseteq accepted'
  BY Monotone
<1>1. CASE UNCHANGED <<op, response, desired, fallback, ready, bearer, mem>>
  BY <1>0, <1>1
<1>2. CASE Begin
  BY <1>2 DEF Begin
<1>3. CASE RequestAuthorization
  <2>1. RequestAuthorizationDoes
    BY <1>3, RequestAuthorizationEffect
  <2> QED BY <2>1 DEF RequestAuthorizationDoes, Fields
<1>4. CASE Expire
  <2>1. ExpireDoes
    BY <1>4, ExpireEffect
  <2> QED BY <2>1 DEF ExpireDoes, Fields
<1>5. CASE AcceptEnd
  <2>1. AcceptEndDoes
    BY <1>5, AcceptEndEffect
  <2> QED BY <2>1 DEF AcceptEndDoes, Fields
<1>6. CASE AcceptAcknowledged
  <2>1. AcceptAcknowledgedDoes
    BY <1>6, AcceptAcknowledgedEffect
  <2>2. UNCHANGED <<op, response, desired, fallback, ready, bearer, accepted>>
    BY <2>1 DEF AcceptAcknowledgedDoes
  <2>3. mem'.phase = 2 => mem.phase = 2 /\ mem'.cand = mem.cand
    BY <2>1 DEF AcceptAcknowledgedDoes, Fields
  <2> QED BY <2>2, <2>3
<1>7. CASE AcceptChallenge
  <2>1. AcceptChallengeDoes
    BY <1>7, AcceptChallengeEffect
  <2> QED BY <2>1 DEF AcceptChallengeDoes, Fields
<1>8. CASE AcceptAuthorized
  <2>1. AcceptAuthorizedDoes
    BY <1>8, AcceptAuthorizedEffect
  <2> QED BY <2>1 DEF AcceptAuthorizedDoes, Fields
<1>9. CASE SubmitStatus
  BY <1>9 DEF SubmitStatus
<1>10. CASE HandleStatus
  <2>1. HandleStatusDoes
    BY <1>10, HandleStatusEffect
  <2> QED BY <2>1 DEF HandleStatusDoes, Fields
<1>11. CASE HandleFallback
  <2>1. HandleFallbackDoes
    BY <1>11, HandleFallbackEffect
  <2> QED BY <2>1 DEF HandleFallbackDoes, Fields
<1>12. CASE Stage
  <2>1. StageDoes
    BY <1>12, StageEffect
  <2> QED BY <2>1 DEF StageDoes, Fields
<1>13. CASE ServeStatus
  BY <1>13 DEF ServeStatus, Acceptable, StatusBearer, Acknowledgement
<1>14. CASE StatusLost
  BY <1>14 DEF StatusLost
<1>15. CASE Reset
  BY <1>15 DEF Reset, Identity
<1>16. CASE \/ SendStart \/ SendAcknowledgement \/ SendPoll \/ AcceptNothing \/ AcceptLate \/ Serve
            \/ RequestLost \/ Offer \/ Withdraw \/ TimePasses \/ UNCHANGED vars
            \/ \E c \in Challenges : Approve(c) \/ Close(c)
            \/ \E t \in Tokens : Retire(t)
  BY <1>1, <1>16 DEF SendStart, SendAcknowledgement, SendPoll, AcceptNothing, AcceptLate, Serve,
             ServeStart,
                     ServePoll, ServeAck, ServeVerify, Reply, RequestLost, Offer, Withdraw, TimePasses,
                     Approve, Close, Retire
<1> QED BY <1>2, <1>3, <1>4, <1>5, <1>6, <1>7, <1>8, <1>9, <1>10, <1>11, <1>12, <1>13, <1>14,
           <1>15, <1>16 DEF Next, Accept, Handle

\* BaseInv is inductive.
LEMMA BaseStep ==
    ASSUME BaseInv, [Next]_vars
    PROVE  BaseInv'
BY TypesStep, ServerStep, RecordStep, RequestStep, StatusStep DEF BaseInv

\* It holds of a logger that was never authorized, and so does AuthInv.
LEMMA InitSound ==
    ASSUME Init
    PROVE  AuthInv
<1> USE DEF Init, Identity
<1>1. Types
  BY DEF Types, RecordOK, Shape
<1>2. ServerBase /\ RecordBase(rec) /\ RamBase
  BY DEF ServerBase, RecordBase, RamBase, Confirmed
<1>3. RequestBase /\ StatusBase
  BY DEF RequestBase, StatusBase
<1>4. RecordSound(rec) /\ HoldsCurrent /\ FlashAndRam /\ RequestSound /\ StatusSound
  BY DEF RecordSound, HoldsCurrent, FlashAndRam, RequestSound, StatusSound
<1> QED BY <1>1, <1>2, <1>3, <1>4 DEF AuthInv, BaseInv

\* Whenever answers arrive: the server's bearers, the two copies of the record,
\* the requests and their answers fit together.
THEOREM BaseInvariant == Spec => []BaseInv
<1>1. Init => BaseInv
  BY InitSound DEF AuthInv
<1>2. BaseInv /\ [Next]_vars => BaseInv'
  BY BaseStep
<1> QED BY <1>1, <1>2, PTL DEF Spec

\* accept and statusResult store a credential as the active one only after the
\* server has accepted it, for any number of challenges, rotations, failing saves
\* and resets.
THEOREM OnlyAcceptedPromoted == Spec => []PromotedOnlyAccepted
<1>1. BaseInv => PromotedOnlyAccepted
  BY DEF BaseInv, RecordBase, PromotedOnlyAccepted
<1> QED BY <1>1, BaseInvariant, PTL

\* The credential that accept saved is that of the challenge that the next
\* acknowledgement names, whatever expired or was requested in between.
THEOREM SavedBelongsToChallenge == Spec => []SavedOfChallenge
<1>1. BaseInv => SavedOfChallenge
  BY DEF BaseInv, RamBase, RecordBase, SavedOfChallenge
<1> QED BY <1>1, BaseInvariant, PTL

-----------------------------------------------------------------------------
(* What the server's steps do to the state the invariant speaks about *)

\* A challenge is opened, approved or closed: none is acknowledged by it.
ChallengeDoes ==
    /\ \A c \in Challenges : challenges'[c] = "acknowledged" <=> challenges[c] = "acknowledged"
    /\ UNCHANGED <<device, upload, latest, offer, honoured, current, accepted>>

LEMMA ChallengeEffect ==
    ASSUME Types, ServeStart \/ \E c \in Challenges : Approve(c) \/ Close(c)
    PROVE  ChallengeDoes
<1>1. CASE ServeStart
  BY <1>1 DEF ServeStart, Reply, ChallengeDoes, Types
<1>2. CASE \E c \in Challenges : Approve(c) \/ Close(c)
  BY <1>2 DEF Approve, Close, ChallengeDoes, Types
<1> QED BY <1>1, <1>2

\* An acknowledgement makes the saved credential the current one, or changes
\* nothing.
ServeAckDoes ==
    /\ ready /\ req.kind = "ack" /\ answer = "none" /\ mem.ack /\ mem.boot = req.id
    /\ mem.boot \in Challenges
    /\ answer' \in {"acknowledged", "gone", "retry"}
    /\ UNCHANGED <<device, req, upload, latest>>
    /\ \/ UNCHANGED server
       \/ /\ \A c \in Challenges :
                challenges'[c] = "acknowledged" <=> challenges[c] = "acknowledged" \/ c = mem.boot
          /\ honoured' = honoured \cup {mem.boot} /\ accepted' = accepted \cup {mem.boot}
          /\ current' = mem.boot /\ offer' = "none"

LEMMA ServeAckEffect == ASSUME BaseInv, ServeAck PROVE ServeAckDoes
<1> USE DEF BaseInv, Types
<1>1. /\ ready /\ req.kind = "ack" /\ mem.ack /\ mem.boot = req.id /\ req.id \in Challenges
  BY DEF ServeAck, RequestBase, RamBase, RecordBase
<1>2. /\ answer = "none" /\ answer' \in {"acknowledged", "gone", "retry"}
      /\ UNCHANGED <<device, req, upload, latest>>
  BY DEF ServeAck, Reply
<1>3. \/ UNCHANGED server
      \/ /\ challenges' = [challenges EXCEPT ![req.id] = "acknowledged"]
         /\ honoured' = honoured \cup {req.id} /\ accepted' = accepted \cup {req.id}
         /\ current' = req.id /\ offer' = "none"
  BY <1>2 DEF ServeAck
<1> QED BY <1>1, <1>2, <1>3 DEF ServeAckDoes

\* The bearer of a status request is one the server has accepted before, or
\* the rotation that is being proved.
LEMMA BearerOfStatus ==
    ASSUME BaseInv, op \in {"Status", "Fallback"}
    PROVE  \/ StatusBearer = bearer /\ bearer \in accepted /\ ~(op = "Status" /\ mem.phase = 2)
           \/ /\ op = "Status" /\ mem.phase = 2 /\ StatusBearer = RotationToken(mem.cand)
              /\ Acknowledgement = mem.cand /\ mem.cand \in Nat \ {0}
<1>1. bearer \in accepted
  BY DEF BaseInv, RamBase, RecordBase, StatusBase
<1>2. mem.phase # 0 => mem.cand \in Nat \ {0}
  BY DEF BaseInv, Types, RecordOK, Shape
<1> QED BY <1>1, <1>2 DEF StatusBearer, Acknowledgement

\* A status request is refused, proves the rotation, or leaves the current
\* bearer alone.
ServeStatusDoes ==
    /\ op \in {"Status", "Fallback"} /\ response = "none"
    /\ UNCHANGED <<device, request, op, fallback, challenges, latest>>
    /\ \/ /\ response' = "rejected" /\ UNCHANGED <<desired, offer, honoured, current, accepted>>
          /\ op = "Status" /\ mem.phase = 2 => Dead(mem.cand)
       \/ /\ op = "Status" /\ mem.phase = 2 /\ mem.cand = latest /\ latest # 0
          /\ offer = "acknowledged" /\ offer' = "none" /\ UNCHANGED honoured
          /\ RotationToken(latest) \in honoured
          /\ current' = RotationToken(latest) /\ accepted' = accepted \cup {RotationToken(latest)}
          /\ response' \in {"accepted", "retry"} /\ desired' \in {0, latest}
       \/ /\ UNCHANGED <<current, accepted>> /\ response' \in {"accepted", "retry"}
          /\ \/ UNCHANGED <<offer, honoured>>
             \/ /\ offer # "none" /\ offer' = "acknowledged"
                /\ honoured' = honoured \cup {RotationToken(latest)}
          /\ op = "Status" /\ mem.phase = 1 /\ mem.cand = latest => offer' # "offered"
          /\ desired' = 0 \/ (desired' = latest /\ offer' # "none")

LEMMA ServeStatusEffect == ASSUME AuthInv, ServeStatus PROVE ServeStatusDoes
<1> USE DEF AuthInv
<1>1. /\ op \in {"Status", "Fallback"} /\ response = "none" /\ ready
      /\ UNCHANGED <<device, request, op, fallback, challenges, latest>>
  BY DEF ServeStatus, BaseInv, StatusBase
<1>2. mem.phase = 2 => /\ mem.cand = latest => offer # "offered"
                       /\ RotationToken(mem.cand) \in accepted => current # 0
  BY <1>1 DEF BaseInv, Types, RecordOK, Shape, FlashAndRam, RecordSound, RamBase, RecordBase
<1>3. offer # "none" => RotationToken(latest) \notin accepted /\ latest # 0
  BY DEF BaseInv, ServerBase
<1>4. offer = "acknowledged" => RotationToken(latest) \in honoured
  BY DEF BaseInv, ServerBase
<1>5. current # 0 => current \in honoured /\ current \in accepted
  BY DEF HoldsCurrent
<1>6. latest \in Nat /\ offer \in {"none", "offered", "acknowledged"}
  BY DEF BaseInv, Types
<1>7. CASE ~Acceptable
  <2>1. response' = "rejected" /\ UNCHANGED <<desired, offer, honoured, current, accepted>>
    BY <1>7 DEF ServeStatus
  <2>2. ASSUME op = "Status", mem.phase = 2 PROVE Dead(mem.cand)
    <3>1. /\ StatusBearer = RotationToken(mem.cand) /\ Acknowledgement = mem.cand
          /\ mem.cand \in Nat \ {0}
      BY <1>1, <2>2, BearerOfStatus
    <3>2. RotationToken(mem.cand) # 0
      BY <3>1
    <3>3. CASE RotationToken(mem.cand) \notin honoured
      BY <1>2, <1>4, <1>5, <1>6, <2>2, <3>2, <3>3 DEF Dead, Alive
    <3>4. CASE /\ RotationToken(mem.cand) \notin accepted
               /\ ~(offer # "none" /\ mem.cand = latest)
      BY <1>5, <3>2, <3>4 DEF Dead, Alive
    <3> QED BY <1>7, <3>1, <3>3, <3>4 DEF Acceptable
  <2> QED BY <1>1, <2>1, <2>2 DEF ServeStatusDoes
<1>8. CASE Acceptable
  <2>1. /\ response' \in {"accepted", "retry"} /\ accepted' = accepted \cup {StatusBearer}
        /\ desired' = IF response' = "accepted" /\ offer # "none" THEN latest ELSE 0
    BY <1>8 DEF ServeStatus
  <2>2. CASE /\ StatusBearer = RotationToken(latest) /\ offer = "acknowledged"
             /\ offer' = "none" /\ current' = StatusBearer /\ UNCHANGED honoured
    <3>1. op = "Status" /\ mem.phase = 2 /\ mem.cand = latest
      BY <1>1, <1>3, <1>6, <2>2, BearerOfStatus
    <3> QED BY <1>1, <1>3, <1>4, <2>1, <2>2, <3>1 DEF ServeStatusDoes
  <2>3. CASE /\ offer # "none" /\ Acknowledgement = latest
             /\ StatusBearer # RotationToken(latest)
             /\ offer' = "acknowledged" /\ honoured' = honoured \cup {RotationToken(latest)}
             /\ UNCHANGED current
    <3>1. accepted' = accepted
      BY <1>1, <2>1, <2>3, BearerOfStatus
    <3> QED BY <1>1, <2>1, <2>3, <3>1 DEF ServeStatusDoes
  <2>4. CASE /\ offer = "none" \/ Acknowledgement # latest
             /\ UNCHANGED <<offer, honoured, current>>
    <3>1. StatusBearer \in accepted
      BY <1>1, <1>8, <2>4, BearerOfStatus DEF Acceptable
    <3>2. op = "Status" /\ mem.phase = 1 /\ mem.cand = latest => offer = "none"
      BY <2>4 DEF Acknowledgement
    <3> QED BY <1>1, <2>1, <2>4, <3>1, <3>2 DEF ServeStatusDoes
  <2> QED BY <1>8, <2>2, <2>3, <2>4 DEF ServeStatus
<1> QED BY <1>7, <1>8

\* A rotation that is not waited for will not be waited for again, and its
\* token does not become current.
LEMMA DeadStable ==
    ASSUME AuthInv, [Next]_vars
    PROVE  \A c \in 1 .. latest :
              Dead(c) => ~(offer' # "none" /\ latest' = c) /\ RotationToken(c) # current'
<1> USE DEF Dead, Alive
<1>0. latest \in Nat /\ BaseInv
  BY DEF AuthInv, BaseInv, Types
<1>1. CASE UNCHANGED server
  BY <1>1
<1>2. CASE ServeStart \/ \E c \in Challenges : Approve(c) \/ Close(c)
  BY <1>0, <1>2, ChallengeEffect DEF ChallengeDoes, BaseInv
<1>3. CASE ServeAck
  <2>1. ServeAckDoes
    BY <1>0, <1>3, ServeAckEffect
  <2> QED BY <1>0, <2>1 DEF ServeAckDoes
<1>4. CASE ServeStatus
  <2>1. ServeStatusDoes
    BY <1>4, ServeStatusEffect
  <2> QED BY <1>0, <2>1 DEF ServeStatusDoes
<1>5. CASE Offer
  BY <1>0, <1>5 DEF Offer
<1>6. CASE Withdraw \/ \E t \in Tokens : Retire(t)
  BY <1>6 DEF Withdraw, Retire
<1> QED BY <1>0, <1>1, <1>2, <1>3, <1>4, <1>5, <1>6, Frame

\* Every step changes nothing that counts, is one of the device that may
\* save, or is one of the server.
LEMMA AuthFrame ==
    ASSUME BaseInv, [Next]_vars
    PROVE  \/ UNCHANGED <<rec, mem, ready, bearer, restart, server>>
           \/ Begin \/ RequestAuthorization \/ Expire \/ AcceptEnd \/ AcceptAcknowledged
           \/ AcceptChallenge \/ AcceptAuthorized \/ HandleStatus \/ HandleFallback \/ Stage \/ Reset
           \/ ServeStart \/ ServeAck \/ ServeStatus
           \/ \E c \in Challenges : Approve(c) \/ Close(c)
           \/ Offer \/ Withdraw \/ \E t \in Tokens : Retire(t)
BY Frame, RecordFrame

\* A saved credential that an answer discards is not the current one.
LEMMA Discarded ==
    ASSUME AuthInv, AcceptEndDoes
    PROVE  mem.ack => current # mem.boot
<1> USE DEF AuthInv, BaseInv
<1>1. ready /\ req.kind # "none"
  BY DEF AcceptEndDoes
<1>2. mem.ack => answer \in {"denied", "stranger"}
  BY <1>1 DEF AcceptEndDoes, Types, RequestBase
<1>3. mem.ack => mem.boot # 0
  BY <1>1 DEF RamBase, RecordBase
<1> QED BY <1>2, <1>3 DEF RequestSound, HoldsCurrent

\* A credential that arrives is not one the server has seen in use.
LEMMA NotYetUsed ==
    ASSUME AuthInv, req.kind = "poll", answer = "authorized"
    PROVE  ~mem.ack /\ ~Confirmed(req.id) /\ current # req.id
<1> USE DEF AuthInv, BaseInv
<1>1. ~mem.ack /\ ~Confirmed(req.id) /\ req.id # 0 /\ req.id \in Challenges
  BY DEF RequestBase, RequestSound, Types
<1>2. \A c \in 1 .. latest : req.id # RotationToken(c)
  BY <1>1 DEF Types
<1>3. req.id \notin accepted
  BY <1>1, <1>2 DEF ServerBase
<1> QED BY <1>1, <1>3 DEF HoldsCurrent

\* A credential that is promoted is the current one, and no rotation of the
\* one before is waited for.
LEMMA Acknowledged ==
    ASSUME AuthInv, AcceptAcknowledgedDoes
    PROVE  /\ mem.ack /\ current = mem.boot
           /\ mem.phase # 0 => Dead(mem.cand)
<1> USE DEF AuthInv, BaseInv
<1>1. ready /\ mem.ack /\ Confirmed(mem.boot)
  BY DEF AcceptAcknowledgedDoes, RequestBase
<1>2. current = mem.boot /\ (mem.phase # 0 => ~Alive(mem.cand))
  BY <1>1 DEF FlashAndRam, RecordSound
<1>3. mem.phase # 0 => mem.cand \in Nat \ {0}
  BY DEF Types, RecordOK, Shape
<1>4. mem.phase # 0 => RotationToken(mem.cand) # mem.boot
  BY <1>1, <1>3 DEF Confirmed
<1> QED BY <1>1, <1>2, <1>4 DEF Dead

\* Flash stays sound: a save writes what RAM has, changed by an answer that
\* proves enough.
LEMMA FlashSoundStep ==
    ASSUME AuthInv, ~lateSave', [Next]_vars
    PROVE  RecordSound(rec)'
<1> USE DEF AuthInv, RecordSound
<1>0. BaseInv /\ Types
  BY DEF BaseInv
<1>1. CASE UNCHANGED <<rec, server>>
  BY <1>1 DEF Confirmed, Alive
<1>2. CASE Begin \/ RequestAuthorization \/ Reset
  BY <1>2 DEF Begin, RequestAuthorization, Reset, Confirmed, Alive
<1>3. CASE Expire
  <2>1. ExpireDoes
    BY <1>0, <1>3, ExpireEffect
  <2> QED BY <2>1 DEF ExpireDoes, Fields, FlashAndRam, Confirmed, Alive
<1>4. CASE AcceptEnd
  <2>1. AcceptEndDoes
    BY <1>0, <1>4, AcceptEndEffect
  <2>2. mem.ack => current # mem.boot
    BY <2>1, Discarded
  <2> QED BY <2>1, <2>2 DEF AcceptEndDoes, Fields, FlashAndRam, Confirmed, Alive
<1>5. CASE AcceptAcknowledged
  <2>1. AcceptAcknowledgedDoes
    BY <1>0, <1>5, AcceptAcknowledgedEffect
  <2> QED BY <2>1 DEF AcceptAcknowledgedDoes, Promoted, Fields, Confirmed, Alive
<1>6. CASE AcceptChallenge
  <2>1. AcceptChallengeDoes
    BY <1>0, <1>6, AcceptChallengeEffect
  <2> QED BY <2>1 DEF AcceptChallengeDoes, Fields, FlashAndRam, Confirmed, Alive
<1>7. CASE AcceptAuthorized
  <2>1. AcceptAuthorizedDoes
    BY <1>0, <1>7, AcceptAuthorizedEffect
  <2>2. ~mem.ack /\ ~Confirmed(req.id) /\ current # req.id
    BY <2>1, NotYetUsed DEF AcceptAuthorizedDoes
  <2> QED BY <2>1, <2>2 DEF AcceptAuthorizedDoes, Fields, FlashAndRam, Confirmed, Alive
<1>8. CASE HandleStatus
  <2>1. HandleStatusDoes
    BY <1>0, <1>8, HandleStatusEffect
  <2>2. response = "accepted" /\ mem.phase = 1 =>
           /\ mem.cand = latest => offer # "offered"
           /\ RotationToken(mem.cand) \notin accepted
    BY <2>1 DEF HandleStatusDoes, StatusSound, FlashAndRam
  <2> QED BY <2>1, <2>2 DEF HandleStatusDoes, Fields, FlashAndRam, Confirmed, Alive
<1>9. CASE HandleFallback
  <2>1. HandleFallbackDoes
    BY <1>0, <1>9, HandleFallbackEffect
  <2> QED BY <2>1 DEF HandleFallbackDoes, Fields, FlashAndRam, Confirmed, Alive
<1>10. CASE Stage
  <2>1. StageDoes
    BY <1>0, <1>10, StageEffect
  <2>2. ~restart /\ desired # 0 /\ mem.phase = 0 => RotationToken(desired) \notin accepted
    BY DEF StatusSound
  <2> QED BY <2>1, <2>2 DEF StageDoes, Fields, FlashAndRam, Confirmed, Alive
<1>11. CASE ServeStart \/ \E c \in Challenges : Approve(c) \/ Close(c)
  <2>1. ChallengeDoes
    BY <1>0, <1>11, ChallengeEffect
  <2> QED BY <2>1 DEF ChallengeDoes, Confirmed, Alive
<1>12. CASE ServeAck
  <2>1. ServeAckDoes
    BY <1>0, <1>12, ServeAckEffect
  <2>2. (rec.ack /\ rec.boot = mem.boot) \/ (~rec.ack /\ rec.phase = 0)
    <3>1. ready /\ mem.ack
      BY <2>1 DEF ServeAckDoes
    <3> QED BY <3>1 DEF FlashAndRam
  <2>3. rec.phase # 0 => RotationToken(rec.cand) \notin Challenges
    BY <1>0 DEF Types, RecordOK, Shape
  <2> HIDE DEF RotationToken, Challenges
  <2> QED BY <2>1, <2>2, <2>3 DEF ServeAckDoes, Confirmed, Alive
<1>13. CASE ServeStatus
  <2>1. ServeStatusDoes
    BY <1>13, ServeStatusEffect
  <2>2. ready /\ rec.cand \in Nat /\ mem.cand \in Nat /\ latest \in Nat
    BY <1>0, <2>1 DEF ServeStatusDoes, BaseInv, StatusBase, Types, RecordOK, Shape
  <2>3. rec.ack => rec.boot \in Challenges
    BY <1>0 DEF BaseInv, RecordBase, Types, RecordOK
  <2>4. CASE UNCHANGED <<current, accepted>>
    BY <2>1, <2>4 DEF ServeStatusDoes, Confirmed, Alive
  <2>5. CASE /\ mem.phase = 2 /\ mem.cand = latest /\ offer = "acknowledged" /\ offer' = "none"
             /\ current' = RotationToken(latest) /\ accepted' = accepted \cup {RotationToken(latest)}
    <3>1. rec.ack => ~Confirmed(rec.boot)
      BY <2>2, <2>5 DEF FlashAndRam, Alive
    <3>2. rec.phase = 0 \/ (rec.phase = 2 /\ rec.cand = latest)
      BY <2>2, <2>5 DEF FlashAndRam
    <3>3. UNCHANGED <<rec, challenges, latest>>
      BY <2>1 DEF ServeStatusDoes
    <3> QED BY <2>2, <2>3, <2>5, <3>1, <3>2, <3>3 DEF Confirmed, Alive
  <2> QED BY <2>1, <2>4, <2>5 DEF ServeStatusDoes
<1>14. CASE Offer
  <2>1. rec.cand <= latest /\ rec.cand \in Nat /\ latest \in Nat
    BY <1>0 DEF Types, RecordOK, Shape
  <2> QED BY <1>14, <2>1 DEF Offer, Confirmed, Alive
<1>15. CASE Withdraw \/ \E t \in Tokens : Retire(t)
  BY <1>15 DEF Withdraw, Retire, Confirmed, Alive
<1> QED BY <1>0, <1>1, <1>2, <1>3, <1>4, <1>5, <1>6, <1>7, <1>8, <1>9, <1>10, <1>11, <1>12, <1>13,
           <1>14, <1>15, AuthFrame

\* Flash and RAM keep the current bearer.
LEMMA HoldsStep ==
    ASSUME AuthInv, ~lateSave', [Next]_vars
    PROVE  HoldsCurrent'
<1> USE DEF AuthInv, HoldsCurrent, Holds
<1>0. BaseInv /\ Types
  BY DEF BaseInv
<1>1. CASE UNCHANGED <<rec, mem, ready, bearer, restart, server>>
  BY <1>1
<1>2. CASE Begin
  BY <1>2 DEF Begin
<1>3. CASE RequestAuthorization
  <2>1. RequestAuthorizationDoes
    BY <1>0, <1>3, RequestAuthorizationEffect
  <2> QED BY <2>1 DEF RequestAuthorizationDoes, Fields
<1>4. CASE Expire
  <2>1. ExpireDoes
    BY <1>0, <1>4, ExpireEffect
  <2>2. ~restart
    BY <2>1 DEF ExpireDoes, RequestSound
  <2> QED BY <2>1, <2>2 DEF ExpireDoes, Fields
<1>5. CASE AcceptEnd
  <2>1. AcceptEndDoes
    BY <1>0, <1>5, AcceptEndEffect
  <2>2. (mem.ack => current # mem.boot) /\ ~restart
    BY <2>1, Discarded DEF AcceptEndDoes, NotLate
  <2> QED BY <2>1, <2>2 DEF AcceptEndDoes, Fields
<1>6. CASE AcceptAcknowledged
  <2>1. AcceptAcknowledgedDoes
    BY <1>0, <1>6, AcceptAcknowledgedEffect
  <2>2. mem.ack /\ current = mem.boot
    BY <2>1, Acknowledged
  <2> QED BY <2>1, <2>2 DEF AcceptAcknowledgedDoes, Promoted, Fields
<1>7. CASE AcceptChallenge
  <2>1. AcceptChallengeDoes
    BY <1>0, <1>7, AcceptChallengeEffect
  <2> QED BY <2>1 DEF AcceptChallengeDoes, NotLate, Fields
<1>8. CASE AcceptAuthorized
  <2>1. AcceptAuthorizedDoes
    BY <1>0, <1>8, AcceptAuthorizedEffect
  <2>2. ~mem.ack
    BY <2>1, NotYetUsed DEF AcceptAuthorizedDoes
  <2> QED BY <2>1, <2>2 DEF AcceptAuthorizedDoes, NotLate, Fields
<1>9. CASE HandleStatus
  <2>1. HandleStatusDoes
    BY <1>0, <1>9, HandleStatusEffect
  <2>2. response = "accepted" /\ mem.phase = 2 =>
           current = RotationToken(mem.cand) \/ (mem.ack /\ current = mem.boot)
    BY <2>1 DEF HandleStatusDoes, BaseInv, StatusBase, FlashAndRam, RecordSound
  <2> QED BY <2>1, <2>2 DEF HandleStatusDoes, Fields
<1>10. CASE HandleFallback
  <2>1. HandleFallbackDoes
    BY <1>0, <1>10, HandleFallbackEffect
  <2>2. mem.phase = 2 => RotationToken(mem.cand) # current
    BY <2>1 DEF HandleFallbackDoes, StatusSound, Dead
  <2> QED BY <2>1, <2>2 DEF HandleFallbackDoes, NotLate, Fields
<1>11. CASE Stage
  <2>1. StageDoes
    BY <1>0, <1>11, StageEffect
  <2>2. CASE UNCHANGED <<rec, mem>>
    BY <2>1, <2>2 DEF StageDoes
  <2>3. CASE ~UNCHANGED <<rec, mem>>
    <3>1. /\ mem.phase = 0 /\ ~mem.ack /\ ready /\ ~restart
          /\ UNCHANGED server
          /\ mem'.token = mem.token
          /\ rec' = rec \/ rec'.token = mem.token
      BY <2>1, <2>3 DEF StageDoes, Fields
    <3>2. current # 0 => mem.token = current
      BY <3>1
    <3> QED BY <3>1, <3>2
  <2> QED BY <2>2, <2>3
<1>12. CASE Reset
  BY <1>12 DEF Reset
<1>13. CASE ServeStart \/ \E c \in Challenges : Approve(c) \/ Close(c)
  <2>1. ChallengeDoes
    BY <1>0, <1>13, ChallengeEffect
  <2> QED BY <2>1 DEF ChallengeDoes
<1>14. CASE ServeAck
  <2>1. ServeAckDoes
    BY <1>0, <1>14, ServeAckEffect
  <2>2. (rec.ack /\ rec.boot = mem.boot) \/ rec.token = mem.boot
    BY <2>1 DEF ServeAckDoes, FlashAndRam
  <2> QED BY <2>1, <2>2 DEF ServeAckDoes
<1>15. CASE ServeStatus
  <2>1. ServeStatusDoes
    BY <1>15, ServeStatusEffect
  <2>2. CASE UNCHANGED <<current, accepted>>
    BY <2>1, <2>2 DEF ServeStatusDoes
  <2>3. CASE /\ mem.phase = 2 /\ mem.cand = latest /\ offer = "acknowledged"
             /\ RotationToken(latest) \in honoured /\ UNCHANGED honoured
             /\ current' = RotationToken(latest) /\ accepted' = accepted \cup {RotationToken(latest)}
    <3>1. ready
      BY <1>0, <2>1 DEF ServeStatusDoes, BaseInv, StatusBase
    <3>2. rec.token = RotationToken(latest) \/ (rec.phase = 2 /\ rec.cand = latest)
      BY <2>3, <3>1 DEF FlashAndRam, Dead, Alive
    <3>3. UNCHANGED device
      BY <2>1 DEF ServeStatusDoes
    <3> QED BY <2>3, <3>2, <3>3
  <2> QED BY <2>1, <2>2, <2>3 DEF ServeStatusDoes
<1>16. CASE Offer
  BY <1>16 DEF Offer
<1>17. CASE Withdraw
  BY <1>17 DEF Withdraw, BaseInv, ServerBase
<1>18. CASE \E t \in Tokens : Retire(t)
  BY <1>18 DEF Retire
<1> QED BY <1>0, <1>1, <1>2, <1>3, <1>4, <1>5, <1>6, <1>7, <1>8, <1>9, <1>10, <1>11, <1>12, <1>13,
           <1>14, <1>15, <1>16, <1>17, <1>18, AuthFrame

\* RAM stays sound, and flash differs from it only by a save that failed with
\* effect.
LEMMA RamStep ==
    ASSUME AuthInv, ~lateSave', [Next]_vars
    PROVE  FlashAndRam'
<1> USE DEF AuthInv, FlashAndRam, RecordSound
<1>0. BaseInv /\ Types
  BY DEF BaseInv
<1>1. CASE UNCHANGED <<rec, mem, ready, bearer, restart, server>>
  BY <1>1 DEF Confirmed, Alive, Dead
<1>2. CASE Begin
  BY <1>2 DEF Begin, Confirmed, Alive, Dead
<1>3. CASE RequestAuthorization
  <2>1. RequestAuthorizationDoes
    BY <1>0, <1>3, RequestAuthorizationEffect
  <2> QED BY <2>1 DEF RequestAuthorizationDoes, Fields, Confirmed, Alive, Dead
<1>4. CASE Expire
  <2>1. ExpireDoes
    BY <1>0, <1>4, ExpireEffect
  <2> QED BY <2>1 DEF ExpireDoes, Fields, Confirmed, Alive, Dead
<1>5. CASE AcceptEnd
  <2>1. AcceptEndDoes
    BY <1>0, <1>5, AcceptEndEffect
  <2>2. mem.ack => current # mem.boot /\ ~Confirmed(mem.boot)
    BY <2>1, Discarded DEF AcceptEndDoes
  <2>3. rec.ack => ~Confirmed(rec.boot)
    BY <2>1, <2>2 DEF AcceptEndDoes
  <2>4. RecordSound(mem)'
    BY <2>1, <2>2 DEF AcceptEndDoes, Fields, Confirmed, Alive
  <2> HIDE DEF RecordSound
  <2> QED BY <2>1, <2>3, <2>4 DEF AcceptEndDoes, Fields, Confirmed, Alive, Dead
<1>6. CASE AcceptAcknowledged
  <2>1. AcceptAcknowledgedDoes
    BY <1>0, <1>6, AcceptAcknowledgedEffect
  <2>2. mem.ack /\ current = mem.boot /\ (mem.phase # 0 => Dead(mem.cand))
    BY <2>1, Acknowledged
  <2>3. RecordSound(mem)'
    BY <2>1, <2>2 DEF AcceptAcknowledgedDoes, Fields, Confirmed, Alive
  <2> HIDE DEF RecordSound
  <2> QED BY <2>1, <2>2, <2>3 DEF AcceptAcknowledgedDoes, Promoted, Fields, Confirmed, Alive, Dead
<1>7. CASE AcceptChallenge
  <2>1. AcceptChallengeDoes
    BY <1>0, <1>7, AcceptChallengeEffect
  <2> QED BY <2>1 DEF AcceptChallengeDoes, Fields, Confirmed, Alive, Dead
<1>8. CASE AcceptAuthorized
  <2>1. AcceptAuthorizedDoes
    BY <1>0, <1>8, AcceptAuthorizedEffect
  <2>2. ~mem.ack /\ ~Confirmed(req.id) /\ current # req.id
    BY <2>1, NotYetUsed DEF AcceptAuthorizedDoes
  <2>3. RecordSound(mem)'
    BY <2>1, <2>2 DEF AcceptAuthorizedDoes, Fields, Confirmed, Alive
  <2> HIDE DEF RecordSound
  <2> QED BY <2>1, <2>2, <2>3 DEF AcceptAuthorizedDoes, Fields, Confirmed, Alive, Dead
<1>9. CASE HandleStatus
  <2>1. HandleStatusDoes
    BY <1>0, <1>9, HandleStatusEffect
  <2>2. response = "accepted" /\ mem.phase = 1 =>
           /\ mem.cand = latest => offer # "offered"
           /\ RotationToken(mem.cand) \notin accepted
    BY <2>1 DEF HandleStatusDoes, StatusSound
  <2>3. RecordSound(mem)'
    BY <2>1, <2>2 DEF HandleStatusDoes, Fields, Confirmed, Alive
  <2> HIDE DEF RecordSound
  <2> QED BY <2>1, <2>3 DEF HandleStatusDoes, Fields, Confirmed, Alive, Dead
<1>10. CASE HandleFallback
  <2>1. HandleFallbackDoes
    BY <1>0, <1>10, HandleFallbackEffect
  <2>2. mem.phase = 2 => Dead(mem.cand)
    BY <2>1 DEF HandleFallbackDoes, StatusSound
  <2>3. RecordSound(mem)'
    BY <2>1 DEF HandleFallbackDoes, Fields, Confirmed, Alive
  <2> HIDE DEF RecordSound
  <2> QED BY <2>1, <2>2, <2>3 DEF HandleFallbackDoes, Fields, Confirmed, Alive, Dead
<1>11. CASE Stage
  <2>1. StageDoes
    BY <1>0, <1>11, StageEffect
  <2>2. ~restart /\ desired # 0 /\ mem.phase = 0 => RotationToken(desired) \notin accepted
    BY DEF StatusSound
  <2>3. RecordSound(mem)'
    BY <2>1, <2>2 DEF StageDoes, Fields, Confirmed, Alive
  <2> HIDE DEF RecordSound
  <2> QED BY <2>1, <2>3 DEF StageDoes, Fields, Confirmed, Alive, Dead
<1>12. CASE Reset
  BY <1>12 DEF Reset
<1>13. CASE ServeStart \/ \E c \in Challenges : Approve(c) \/ Close(c)
  <2>1. ChallengeDoes
    BY <1>0, <1>13, ChallengeEffect
  <2> QED BY <2>1 DEF ChallengeDoes, Confirmed, Alive, Dead
<1>14. CASE ServeAck
  <2>1. ServeAckDoes
    BY <1>0, <1>14, ServeAckEffect
  <2>2. CASE UNCHANGED server
    BY <2>1, <2>2 DEF ServeAckDoes, Confirmed, Alive, Dead
  <2>3. CASE current' = mem.boot /\ offer' = "none" /\ accepted' = accepted \cup {mem.boot}
    <3>1. ready /\ mem.ack /\ mem.boot \in Challenges /\ UNCHANGED <<device, latest>>
      BY <2>1 DEF ServeAckDoes
    <3>2. mem.phase # 0 => RotationToken(mem.cand) \notin Challenges
      BY <1>0 DEF Types, RecordOK, Shape
    <3> HIDE DEF RotationToken, Challenges
    <3>3. RecordSound(mem)'
      BY <2>3, <3>1, <3>2 DEF Confirmed, Alive
    <3> HIDE DEF RecordSound
    <3> QED BY <2>3, <3>1, <3>2, <3>3 DEF Alive, Dead
  <2> QED BY <2>1, <2>2, <2>3 DEF ServeAckDoes
<1>15. CASE ServeStatus
  <2>1. ServeStatusDoes
    BY <1>15, ServeStatusEffect
  <2>2. ready /\ mem.cand \in Nat /\ latest \in Nat /\ (mem.phase # 0 => mem.cand \in 1 .. latest)
    BY <1>0, <2>1 DEF ServeStatusDoes, BaseInv, StatusBase, Types, RecordOK, Shape
  <2>3. mem.ack => mem.boot \in Challenges
    BY <1>0, <2>2 DEF BaseInv, RamBase, RecordBase, Types, RecordOK
  <2>4. UNCHANGED <<device, challenges, latest>>
    BY <2>1 DEF ServeStatusDoes
  <2>5. CASE UNCHANGED <<current, accepted>>
    BY <2>1, <2>5 DEF ServeStatusDoes, Confirmed, Alive, Dead
  <2>6. CASE /\ mem.phase = 2 /\ mem.cand = latest /\ offer = "acknowledged" /\ offer' = "none"
             /\ current' = RotationToken(latest) /\ accepted' = accepted \cup {RotationToken(latest)}
    <3>1. mem.ack => ~Confirmed(mem.boot) /\ current # mem.boot
      BY <2>2, <2>6 DEF Alive
    <3>2. RecordSound(mem)'
      BY <2>2, <2>3, <2>4, <2>6, <3>1 DEF Confirmed, Alive
    <3>3. ~Dead(mem.cand)
      BY <2>6 DEF Dead, Alive
    <3> HIDE DEF RecordSound
    <3> QED BY <2>2, <2>4, <2>6, <3>1, <3>2, <3>3 DEF Confirmed
  <2> QED BY <2>1, <2>5, <2>6 DEF ServeStatusDoes
<1>16. CASE Offer
  <2>1. mem.cand <= latest /\ mem.cand \in Nat /\ latest \in Nat
    BY <1>0 DEF Types, RecordOK, Shape
  <2>2. /\ latest' = latest + 1 /\ UNCHANGED <<device, challenges, current, accepted>>
    BY <1>16 DEF Offer
  <2>3. ready => RecordSound(mem)'
    BY <2>1, <2>2 DEF Confirmed, Alive
  <2> HIDE DEF RecordSound
  <2> QED BY <2>1, <2>2, <2>3 DEF Confirmed, Alive, Dead
<1>17. CASE Withdraw \/ \E t \in Tokens : Retire(t)
  <2>1. offer' \in {offer, "none"} /\ UNCHANGED <<device, challenges, latest, current, accepted>>
    BY <1>17 DEF Withdraw, Retire
  <2>2. ready => RecordSound(mem)'
    BY <2>1 DEF Confirmed, Alive
  <2> HIDE DEF RecordSound
  <2> QED BY <2>1, <2>2 DEF Confirmed, Alive, Dead
<1> QED BY <1>0, <1>1, <1>2, <1>3, <1>4, <1>5, <1>6, <1>7, <1>8, <1>9, <1>10, <1>11, <1>12, <1>13,
           <1>14, <1>15, <1>16, <1>17, AuthFrame

\* The answers that end a challenge stay right.
LEMMA RequestSoundStep ==
    ASSUME AuthInv, ~lateSave', [Next]_vars
    PROVE  RequestSound'
<1> USE DEF AuthInv, RequestSound
<1>0. BaseInv /\ Types
  BY DEF BaseInv
<1>1. CASE Begin
  BY <1>1 DEF Begin, Confirmed, BaseInv, RequestBase, Types, RecordOK
<1>2. CASE RequestAuthorization
  <2>1. RequestAuthorizationDoes
    BY <1>0, <1>2, RequestAuthorizationEffect
  <2> QED BY <2>1 DEF RequestAuthorizationDoes, Fields, Confirmed, BaseInv, RequestBase, Types,
             RecordOK
<1>3. CASE SendStart
  BY <1>3 DEF SendStart, Send, Confirmed, BaseInv, RequestBase, Types, RecordOK
<1>4. CASE SendAcknowledgement
  BY <1>4 DEF SendAcknowledgement, Send, Confirmed, BaseInv, RequestBase, Types, RecordOK
<1>5. CASE SendPoll
  BY <1>5 DEF SendPoll, Send, Confirmed, BaseInv, RequestBase, Types, RecordOK
<1>6. CASE Expire
  <2>1. ExpireDoes
    BY <1>0, <1>6, ExpireEffect
  <2> QED BY <2>1 DEF ExpireDoes, Fields, Confirmed, BaseInv, RequestBase, Types, RecordOK
<1>7. CASE AcceptNothing
  BY <1>7 DEF AcceptNothing, Answered, Confirmed
<1>8. CASE AcceptLate
  BY <1>8 DEF AcceptLate, Answered, Confirmed
<1>9. CASE AcceptEnd
  <2>1. AcceptEndDoes
    BY <1>0, <1>9, AcceptEndEffect
  <2> QED BY <2>1 DEF AcceptEndDoes, Fields, Confirmed
<1>10. CASE AcceptAcknowledged
  <2>1. AcceptAcknowledgedDoes
    BY <1>0, <1>10, AcceptAcknowledgedEffect
  <2> QED BY <2>1 DEF AcceptAcknowledgedDoes, Fields, Promoted, Confirmed, BaseInv, RequestBase,
             Types, RecordOK
<1>11. CASE AcceptChallenge
  <2>1. AcceptChallengeDoes
    BY <1>0, <1>11, AcceptChallengeEffect
  <2> QED BY <2>1 DEF AcceptChallengeDoes, NotLate, Fields, Confirmed, BaseInv, RequestBase,
             Types, RecordOK
<1>12. CASE AcceptAuthorized
  <2>1. AcceptAuthorizedDoes
    BY <1>0, <1>12, AcceptAuthorizedEffect
  <2> QED BY <2>1 DEF AcceptAuthorizedDoes, Fields, Confirmed, BaseInv, RequestBase, Types, RecordOK
<1>13. CASE SubmitStatus
  BY <1>13 DEF SubmitStatus, Confirmed
<1>14. CASE HandleStatus
  <2>1. HandleStatusDoes
    BY <1>0, <1>14, HandleStatusEffect
  <2> QED BY <2>1 DEF HandleStatusDoes, Fields, Confirmed, BaseInv, RequestBase, Types, RecordOK
<1>15. CASE HandleFallback
  <2>1. HandleFallbackDoes
    BY <1>0, <1>15, HandleFallbackEffect
  <2> QED BY <2>1 DEF HandleFallbackDoes, Fields, Confirmed, BaseInv, RequestBase, Types, RecordOK
<1>16. CASE Stage
  <2>1. StageDoes
    BY <1>0, <1>16, StageEffect
  <2> QED BY <2>1 DEF StageDoes, Fields, Confirmed
<1>17. CASE ServeStart
  BY <1>17 DEF ServeStart, Reply, Confirmed, BaseInv, RequestBase, Types, RecordOK
<1>18. CASE ServePoll
  BY <1>18 DEF ServePoll, Reply, Confirmed, BaseInv, RequestBase, Types, RecordOK
<1>19. CASE ServeAck
  <2>1. ServeAckDoes
    BY <1>0, <1>19, ServeAckEffect
  <2> QED BY <2>1 DEF ServeAckDoes
<1>20. CASE ServeVerify
  <2>1. /\ answer' \in {"verified", "denied", "stranger", "retry"}
        /\ answer' \in {"denied", "stranger"} => mem.boot \notin honoured
        /\ UNCHANGED <<device, req, honoured>>
    BY <1>20 DEF ServeVerify, Reply
  <2> QED BY <2>1
<1>21. CASE RequestLost
  BY <1>21 DEF RequestLost, Confirmed, BaseInv, RequestBase, Types, RecordOK
<1>22. CASE ServeStatus
  <2>1. ServeStatusDoes
    BY <1>22, ServeStatusEffect
  <2>2. answer \in {"denied", "stranger"} /\ offer # "none" => mem.boot # RotationToken(latest)
    <3>1. ASSUME answer \in {"denied", "stranger"} PROVE mem.boot \in Challenges
      BY <1>0, <3>1 DEF BaseInv, Types, RecordOK, RequestBase, RamBase, RecordBase
    <3>2. offer # "none" => RotationToken(latest) \notin Challenges
      BY <1>0 DEF BaseInv, ServerBase, Types
    <3> QED BY <3>1, <3>2
  <2> QED BY <2>1, <2>2 DEF ServeStatusDoes, Confirmed
<1>23. CASE StatusLost
  BY <1>23 DEF StatusLost, Confirmed
<1>24. CASE \E c \in Challenges : Approve(c) \/ Close(c)
  <2>1. ChallengeDoes /\ UNCHANGED request
    BY <1>0, <1>24, ChallengeEffect DEF Approve, Close
  <2> QED BY <2>1 DEF ChallengeDoes, Confirmed
<1>25. CASE Offer
  BY <1>25 DEF Offer, Confirmed
<1>26. CASE Withdraw
  BY <1>26 DEF Withdraw, Confirmed
<1>27. CASE \E t \in Tokens : Retire(t)
  BY <1>27 DEF Retire, Confirmed
<1>28. CASE TimePasses
  BY <1>28 DEF TimePasses, Confirmed
<1>29. CASE Reset
  BY <1>29 DEF Reset, Identity, Confirmed
<1>30. CASE UNCHANGED vars
  BY <1>30 DEF Confirmed
<1> QED BY <1>1, <1>2, <1>3, <1>4, <1>5, <1>6, <1>7, <1>8, <1>9, <1>10, <1>11, <1>12, <1>13, <1>14,
           <1>15, <1>16, <1>17, <1>18, <1>19, <1>20, <1>21, <1>22, <1>23, <1>24, <1>25, <1>26,
           <1>27, <1>28, <1>29, <1>30 DEF Next, Accept, Serve, Handle

\* A rotation is given up only when it is dead, and taken up only when it was
\* never used.
LEMMA StatusSoundStep ==
    ASSUME AuthInv, ~lateSave', [Next]_vars
    PROVE  StatusSound'
<1> USE DEF AuthInv, StatusSound
<1>0. BaseInv /\ Types
  BY DEF BaseInv
<1>1. CASE UNCHANGED <<mem, restart, op, response, desired, fallback, server>>
  BY <1>1 DEF Dead, Alive
<1>2. CASE Begin
  <2>1. op = "None" /\ ~fallback /\ desired = 0 /\ ~restart
    BY <1>0, <1>2 DEF Begin, BaseInv, StatusBase, RequestBase
  <2> QED BY <1>2, <2>1 DEF Begin
<1>3. CASE RequestAuthorization
  <2>1. RequestAuthorizationDoes
    BY <1>0, <1>3, RequestAuthorizationEffect
  <2> QED BY <2>1 DEF RequestAuthorizationDoes, Fields, Dead, Alive
<1>4. CASE Expire
  <2>1. ExpireDoes
    BY <1>0, <1>4, ExpireEffect
  <2> QED BY <2>1 DEF ExpireDoes, Fields, Dead, Alive
<1>5. CASE AcceptEnd
  <2>1. AcceptEndDoes
    BY <1>0, <1>5, AcceptEndEffect
  <2> QED BY <2>1 DEF AcceptEndDoes, Fields, Dead, Alive
<1>6. CASE AcceptAcknowledged
  <2>1. AcceptAcknowledgedDoes
    BY <1>0, <1>6, AcceptAcknowledgedEffect
  <2>2. \/ mem'.phase = 0 /\ restart'
        \/ mem'.phase = mem.phase /\ mem'.cand = mem.cand /\ UNCHANGED restart
    BY <2>1 DEF AcceptAcknowledgedDoes, Fields
  <2>3. UNCHANGED <<op, response, desired, fallback, server>>
    BY <2>1 DEF AcceptAcknowledgedDoes
  <2> QED BY <2>2, <2>3 DEF Dead, Alive
<1>7. CASE AcceptChallenge
  <2>1. AcceptChallengeDoes
    BY <1>0, <1>7, AcceptChallengeEffect
  <2> QED BY <2>1 DEF AcceptChallengeDoes, Fields, Dead, Alive
<1>8. CASE AcceptAuthorized
  <2>1. AcceptAuthorizedDoes
    BY <1>0, <1>8, AcceptAuthorizedEffect
  <2> QED BY <2>1 DEF AcceptAuthorizedDoes, Fields, Dead, Alive
<1>9. CASE SubmitStatus
  <2>1. /\ op = "None" /\ op' \in {"Status", "Fallback"}
        /\ op' = "Status" => ~fallback
        /\ op' = "Fallback" => fallback
        /\ UNCHANGED <<mem, restart, response, desired, fallback, server>>
    BY <1>9 DEF SubmitStatus
  <2>2. response = "none" /\ desired = 0
    BY <1>0, <2>1 DEF BaseInv, StatusBase
  <2> QED BY <2>1, <2>2 DEF Dead, Alive
<1>10. CASE HandleStatus
  <2>1. HandleStatusDoes
    BY <1>0, <1>10, HandleStatusEffect
  <2>2. /\ op = "Status" /\ ~fallback /\ response' = "none" /\ op' \in {"None", "Desired"}
        /\ fallback' => response = "rejected" /\ mem.phase # 0
        /\ UNCHANGED <<desired, server>>
    BY <2>1 DEF HandleStatusDoes
  <2>3. \/ response # "accepted" /\ UNCHANGED <<mem, restart>>
        \/ response = "accepted" /\ UNCHANGED <<mem, restart>>
        \/ response = "accepted" /\ mem.phase = 1 /\ ~restart'
        \/ response = "accepted" /\ mem.phase = 2 /\ mem'.phase = 0 /\ restart'
    BY <2>1, <2>2 DEF HandleStatusDoes, Fields
  <2> QED BY <2>2, <2>3 DEF Dead, Alive
<1>11. CASE HandleFallback
  <2>1. HandleFallbackDoes
    BY <1>0, <1>11, HandleFallbackEffect
  <2> QED BY <2>1 DEF HandleFallbackDoes, Fields, Dead, Alive
<1>12. CASE Stage
  <2>1. StageDoes
    BY <1>0, <1>12, StageEffect
  <2>2. /\ op' = "None" /\ desired' = 0 /\ UNCHANGED <<restart, fallback, server>>
        /\ mem' = mem \/ (mem'.phase # 2 /\ ~restart)
    BY <2>1 DEF StageDoes, Fields
  <2> QED BY <2>2 DEF Dead, Alive
<1>13. CASE StatusLost
  BY <1>13 DEF StatusLost, Dead, Alive
<1>14. CASE Reset
  BY <1>14 DEF Reset, Identity
<1>15. CASE ServeStart \/ \E c \in Challenges : Approve(c) \/ Close(c)
  <2>1. ChallengeDoes
    BY <1>0, <1>15, ChallengeEffect
  <2> QED BY <2>1 DEF ChallengeDoes, Dead, Alive
<1>16. ASSUME UNCHANGED <<mem, restart>>, ServeAck \/ ServeStatus \/ Offer
       PROVE  /\ Dead(mem.cand) /\ mem.phase = 2 => Dead(mem.cand)'
              /\ latest' # latest => mem.cand # latest'
  <2>1. /\ latest \in Nat /\ mem.cand \in Nat /\ mem.cand <= latest
        /\ mem.phase # 0 => mem.cand \in 1 .. latest
    BY <1>0 DEF Types, RecordOK, Shape
  <2>2. latest' # latest => latest' = latest + 1
    BY <1>16 DEF ServeAck, Reply, ServeStatus, Offer
  <2> QED BY <1>16, <2>1, <2>2, DeadStable DEF Dead, Alive
<1>17. CASE ServeAck
  <2>1. ServeAckDoes
    BY <1>0, <1>17, ServeAckEffect
  <2>2. /\ UNCHANGED <<mem, restart, op, response, desired, fallback, latest>>
        /\ offer' \in {offer, "none"} /\ accepted' \subseteq accepted \cup {mem.boot}
        /\ mem.boot \in Challenges
    BY <2>1 DEF ServeAckDoes
  <2>3. desired # 0 => RotationToken(desired) # mem.boot
    BY <1>0, <2>2 DEF Types
  <2> HIDE DEF RotationToken, Challenges
  <2> QED BY <1>16, <1>17, <2>2, <2>3
<1>18. CASE ServeStatus
  <2>1. ServeStatusDoes
    BY <1>18, ServeStatusEffect
  <2>2. /\ UNCHANGED <<mem, restart, op, fallback, latest>>
        /\ op \in {"Status", "Fallback"} /\ response = "none" /\ desired = 0
    BY <1>0, <2>1 DEF ServeStatusDoes, BaseInv, StatusBase
  <2>3. mem.phase = 2 /\ Dead(mem.cand) => Dead(mem.cand)'
    BY <1>16, <1>18, <2>2
  <2>4. CASE response' = "rejected" /\ desired' = desired
    BY <2>1, <2>2, <2>3, <2>4 DEF ServeStatusDoes
  <2>5. CASE op = "Status" /\ mem.phase = 2 /\ response' \in {"accepted", "retry"}
    BY <2>2, <2>3, <2>5
  <2>6. CASE /\ UNCHANGED accepted /\ response' \in {"accepted", "retry"}
             /\ op = "Status" /\ mem.phase = 1 /\ mem.cand = latest => offer' # "offered"
             /\ desired' = 0 \/ (desired' = latest /\ offer' # "none")
             /\ offer' # "none" => offer # "none"
    <3>1. desired' # 0 => RotationToken(desired') \notin accepted'
      BY <1>0, <2>6 DEF BaseInv, ServerBase
    <3> QED BY <2>2, <2>3, <2>6, <3>1
  <2> QED BY <2>1, <2>4, <2>5, <2>6 DEF ServeStatusDoes
<1>19. CASE Offer
  <2>1. UNCHANGED <<mem, restart, op, response, desired, fallback, accepted>>
    BY <1>19 DEF Offer
  <2>2. latest' # latest
    BY <1>0, <1>19 DEF Offer, Types
  <2> QED BY <1>16, <1>19, <2>1, <2>2
<1>20. CASE Withdraw \/ \E t \in Tokens : Retire(t)
  <2>1. /\ offer' \in {offer, "none"}
        /\ UNCHANGED <<mem, restart, op, response, desired, fallback, latest, current, accepted>>
    BY <1>20 DEF Withdraw, Retire
  <2> QED BY <2>1 DEF Dead, Alive
<1>21. CASE SendStart \/ SendAcknowledgement \/ SendPoll \/ AcceptNothing \/ AcceptLate \/ ServePoll
            \/ ServeVerify \/ RequestLost \/ TimePasses \/ UNCHANGED vars
  BY <1>1, <1>21 DEF SendStart, SendAcknowledgement, SendPoll, AcceptNothing, AcceptLate, ServePoll,
                     ServeVerify, Reply, RequestLost, TimePasses
<1> QED BY <1>2, <1>3, <1>4, <1>5, <1>6, <1>7, <1>8, <1>9, <1>10, <1>11, <1>12, <1>13, <1>14, <1>15,
           <1>17, <1>18, <1>19, <1>20, <1>21 DEF Next, Accept, Serve, Handle

-----------------------------------------------------------------------------

\* A save between restart_ and the restart is not forgotten.
LEMMA LateSaveStays ==
    ASSUME [Next]_vars, lateSave
    PROVE  lateSave'
<1> USE DEF Saved, NotSaved
<1>1. CASE Begin \/ RequestAuthorization \/ SendStart \/ SendAcknowledgement \/ SendPoll \/ Expire
           \/ SubmitStatus \/ RequestLost \/ StatusLost \/ TimePasses \/ Reset
  BY <1>1 DEF Begin, RequestAuthorization, SendStart, SendAcknowledgement, SendPoll, Expire,
              SubmitStatus, RequestLost, StatusLost, TimePasses, Reset
<1>2. CASE Accept
  BY <1>2 DEF Accept, AcceptNothing, AcceptLate, AcceptEnd, AcceptAcknowledged, AcceptChallenge,
              AcceptAuthorized
<1>3. CASE Handle
  BY <1>3 DEF Handle, HandleStatus, Rotated, HandleFallback, Stage
<1>4. CASE Serve \/ ServeStatus
  BY <1>4 DEF Serve, ServeStart, ServePoll, ServeAck, ServeVerify, Reply, ServeStatus
<1>5. CASE \/ \E c \in Challenges : Approve(c) \/ Close(c)
           \/ Offer \/ Withdraw \/ \E t \in Tokens : Retire(t)
  BY <1>5 DEF Approve, Close, Offer, Withdraw, Retire
<1>6. CASE UNCHANGED vars
  BY <1>6
<1> QED BY <1>1, <1>2, <1>3, <1>4, <1>5, <1>6 DEF Next

\* Until an answer that came after a commit has saved the record, AuthInv holds:
\* flash and RAM hold the bearer that counts.
THEOREM AuthInvariant == Spec => [](~lateSave => AuthInv)
<1>1. Init => (~lateSave => AuthInv)
  BY InitSound
<1>2. (~lateSave => AuthInv) /\ [Next]_vars => (~lateSave => AuthInv)'
  <2> SUFFICES ASSUME ~lateSave => AuthInv, [Next]_vars, ~lateSave' PROVE AuthInv'
    OBVIOUS
  <2>1. AuthInv
    BY LateSaveStays
  <2>2. BaseInv'
    BY <2>1, BaseStep DEF AuthInv
  <2>3. RecordSound(rec)' /\ HoldsCurrent' /\ FlashAndRam' /\ RequestSound' /\ StatusSound'
    BY <2>1, FlashSoundStep, HoldsStep, RamStep, RequestSoundStep, StatusSoundStep
  <2> QED BY <2>2, <2>3 DEF AuthInv
<1> QED BY <1>1, <1>2, PTL DEF Spec

\* Whatever save fails, wherever power is lost and whichever answers come when,
\* restoreRecord finds a credential that the server honours, but for a record
\* that an answer saved again between restart_ and the restart.
THEOREM CredentialNeverLost == Spec => []CredentialKept
<1>1. (~lateSave => AuthInv) => CredentialKept
  BY DEF AuthInv, HoldsCurrent, Holds, CredentialKept, CredentialSurvives
<1> QED BY <1>1, AuthInvariant, PTL

\* The running session has such a credential too, with the same exception: a
\* save that failed does not leave RAM without one.
THEOREM SessionNeverLost == Spec => []SessionKept
<1>1. (~lateSave => AuthInv) => SessionKept
  BY DEF AuthInv, BaseInv, RamBase, HoldsCurrent, Holds, SessionKept, SessionSurvives
<1> QED BY <1>1, AuthInvariant, PTL
=============================================================================
