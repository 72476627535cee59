------------------------- MODULE DeviceAuthorization -------------------------
(***************************************************************************)
(* The owner-approved credential of a logger: LoggerAuthorization.cpp, and *)
(* the status requests of serviceHttps that rotate it.                     *)
(*                                                                         *)
(* A challenge is started, polled until the owner approves it, the issued  *)
(* credential is saved beside the old one, acknowledged and promoted; the  *)
(* server may also rotate the credential.  The whole record is one NVS     *)
(* value, so an action is one turn of the main loop and at most one save;  *)
(* a reset inside it is a reset before or after it.                        *)
(*                                                                         *)
(* Challenge c issues token c, rotation r is version r with token          *)
(* RotationToken(r); 0 is an empty string.  The configured server does not *)
(* change, so origins are left out.  The server is external: it drops a    *)
(* bearer only after a newer one was acknowledged or used, answers an      *)
(* acknowledgement again or with 410, rejects a status request for good    *)
(* only when it does not honour the bearer or has withdrawn the rotation.  *)
(***************************************************************************)
EXTENDS Integers, FiniteSets

CONSTANTS
    MaxChallenges,  \* bound: challenges the server issues
    MaxRotations,   \* bound: rotations the server offers
    MaxFailures,    \* bound: saves that fail
    MaxCrashes      \* bound: resets that nobody asked for

ASSUME AuthorizationAssumption ==
    /\ MaxChallenges \in Nat /\ MaxRotations \in Nat
    /\ MaxFailures \in Nat /\ MaxCrashes \in Nat

VARIABLES
    rec,            \* the NVS record
    mem,            \* the same fields in RAM
    ready,          \* ready_
    bearer,         \* config_.appDeviceToken
    awaiting,       \* status_ is awaiting_approval
    elapsed,        \* expiresIn() is 0
    startPending,   \* startPending_
    verifyPending,  \* verifyPending_
    req,            \* the authorization request in flight (busy_)
    answer,         \* its answer
    restart,        \* restart_
    op,             \* operation_ of LiveUpload, "Desired" while an answer is consumed
    response,       \* the answer to the status request
    desired,        \* the rotation in the answer's desired_config
    fallback,       \* fallbackRequested_
    challenges,     \* the server's: the state of every challenge
    latest,         \* the server's: the rotation offered last
    offer,          \* the server's: how far that rotation is
    honoured,       \* the server's: the bearers it accepts
    current,        \* the server's: the newest bearer acknowledged or used
    accepted,       \* history: bearers the server ever accepted
    lateSave,       \* history: the record was saved between restart_ and the restart
    failures,
    crashes

device == <<rec, mem, ready, bearer, awaiting, elapsed, startPending, verifyPending, restart>>
request == <<req, answer>>
upload == <<op, response, desired, fallback>>
server == <<challenges, latest, offer, honoured, current, accepted>>
bounds == <<lateSave, failures, crashes>>
vars == <<device, request, upload, server, bounds>>

-----------------------------------------------------------------------------

Challenges == 1 .. MaxChallenges
Rotations == 1 .. MaxRotations
RotationToken(r) == MaxChallenges + r
Tokens == 0 .. MaxChallenges + MaxRotations

\* The fields of the record: token is access_token, cand and phase are
\* the rotation, id the pending challenge, ack is ack_pending and boot the
\* credential it issued
Record == [token : Tokens, phase : 0 .. 2, cand : 0 .. MaxRotations,
           applied : 0 .. MaxRotations, id : 0 .. MaxChallenges, ack : BOOLEAN,
           boot : 0 .. MaxChallenges]
Identity == [token |-> 0, phase |-> 0, cand |-> 0, applied |-> 0, id |-> 0, ack |-> FALSE,
             boot |-> 0]

NoRequest == [kind |-> "none", id |-> 0]
busy == req.kind # "none"

TypeOK ==
    /\ rec \in Record /\ mem \in Record
    /\ ready \in BOOLEAN /\ bearer \in Tokens
    /\ awaiting \in BOOLEAN /\ elapsed \in BOOLEAN
    /\ startPending \in BOOLEAN /\ verifyPending \in BOOLEAN /\ restart \in BOOLEAN
    /\ req \in [kind : {"none", "start", "poll", "ack", "verify"}, id : 0 .. MaxChallenges]
    /\ answer \in {"none", "retry", "limited", "gone", "denied", "challenge", "pending",
                   "authorized", "acknowledged", "verified", "stranger"}
    /\ op \in {"None", "Status", "Fallback", "Desired"}
    /\ response \in {"none", "accepted", "rejected", "retry"}
    /\ desired \in 0 .. MaxRotations /\ fallback \in BOOLEAN
    /\ challenges \in [Challenges -> {"none", "open", "approved", "acknowledged", "closed"}]
    /\ latest \in 0 .. MaxRotations /\ offer \in {"none", "offered", "acknowledged"}
    /\ honoured \subseteq Tokens /\ current \in Tokens /\ accepted \subseteq Tokens
    /\ lateSave \in BOOLEAN /\ failures \in 0 .. MaxFailures /\ crashes \in 0 .. MaxCrashes

Init ==
    /\ rec = Identity /\ mem = Identity /\ ready = FALSE /\ bearer = 0
    /\ awaiting = FALSE /\ elapsed = FALSE /\ startPending = FALSE /\ verifyPending = FALSE
    /\ req = NoRequest /\ answer = "none" /\ restart = FALSE
    /\ op = "None" /\ response = "none" /\ desired = 0 /\ fallback = FALSE
    /\ challenges = [c \in Challenges |-> "none"]
    /\ latest = 0 /\ offer = "none" /\ honoured = {} /\ current = 0 /\ accepted = {}
    /\ lateSave = FALSE /\ failures = 0 /\ crashes = 0

\* saveRecord: one NVS value, read back; a save that fails may have had its
\* effect.
Saved(value) == rec' = value /\ lateSave' = (lateSave \/ restart) /\ UNCHANGED failures
NotSaved(value) ==
    /\ failures < MaxFailures /\ failures' = failures + 1
    /\ rec' \in {rec, value} /\ lateSave' = (lateSave \/ restart)

\* The main loop between two calls, with the record loaded.  It goes on for 1.5
\* seconds after restart_ was set, and takes up the answers that arrive.
Turn == ready /\ op # "Desired"

-----------------------------------------------------------------------------
(* LoggerAuthorization *)

\* begin and restoreRecord.  A boot whose store cannot be opened does
\* nothing: its begin comes with a later reset.  Without a clock the
\* challenge gets its ten minutes again.
Begin ==
    /\ ~ready
    /\ mem' = rec /\ ready' = TRUE /\ bearer' = rec.token
    /\ awaiting' = (rec.id # 0 /\ ~rec.ack)
    /\ elapsed' \in (IF rec.id # 0 THEN BOOLEAN ELSE {FALSE})
    /\ UNCHANGED <<rec, startPending, verifyPending, restart, request, upload, server, bounds>>

\* send
Send(kind) == req' = [kind |-> kind, id |-> mem.id] /\ UNCHANGED answer

\* requestAuthorization, from the Settings page
RequestAuthorization ==
    /\ Turn /\ ~busy /\ ~restart
    /\ ~mem.ack /\ ~(awaiting /\ ~elapsed)
    /\ mem' = [mem EXCEPT !.id = 0] /\ awaiting' = FALSE
    /\ \/ req' = [kind |-> "start", id |-> 0] /\ startPending' = FALSE
       \/ UNCHANGED req /\ startPending' = TRUE
    /\ UNCHANGED <<rec, ready, bearer, elapsed, verifyPending, restart, answer, upload, server,
                   bounds>>

\* loop: the start that could not be sent at once
SendStart ==
    /\ Turn /\ startPending /\ ~busy
    /\ Send("start") /\ startPending' = FALSE
    /\ UNCHANGED <<rec, mem, ready, bearer, awaiting, elapsed, verifyPending, restart, upload,
                   server, bounds>>

\* loop: the saved credential is acknowledged, or checked with /auth/me
SendAcknowledgement ==
    /\ Turn /\ mem.ack /\ ~busy
    /\ Send(IF verifyPending THEN "verify" ELSE "ack")
    /\ UNCHANGED <<device, upload, server, bounds>>

SendPoll ==
    /\ Turn /\ awaiting /\ ~busy /\ ~elapsed
    /\ Send("poll")
    /\ UNCHANGED <<device, upload, server, bounds>>

\* Mutant: an open request does not keep the challenge alive.
ExpireAnyTime ==
    /\ Turn /\ awaiting /\ elapsed
    /\ awaiting' = FALSE /\ mem' = [mem EXCEPT !.id = 0]
    /\ Saved(mem') \/ NotSaved(mem')
    /\ UNCHANGED <<ready, bearer, elapsed, startPending, verifyPending, restart, request, upload,
                   server, crashes>>

\* loop: the challenge has run out
Expire ==
    /\ Turn /\ awaiting /\ ~busy /\ elapsed
    /\ awaiting' = FALSE /\ mem' = [mem EXCEPT !.id = 0]
    /\ Saved(mem') \/ NotSaved(mem')
    /\ UNCHANGED <<ready, bearer, elapsed, startPending, verifyPending, restart, request, upload,
                   server, crashes>>

\* loop: an answer is taken up
Answered(kinds, answers) ==
    /\ Turn /\ req.kind \in kinds /\ answer \in answers
    /\ req' = NoRequest /\ answer' = "none"

\* accept: 429, 5xx, no answer, 202 and whatever is malformed change nothing
\* that matters; a start that failed is not repeated.
AcceptNothing ==
    /\ Answered({"start", "poll", "ack", "verify"}, {"retry", "limited", "pending"})
    /\ UNCHANGED <<device, upload, server, bounds>>

\* Mutant: the saved credential is not checked.
AcceptLateRepeats ==
    /\ Answered({"ack"}, {"gone"}) /\ mem.ack
    /\ awaiting' = FALSE
    /\ UNCHANGED <<rec, mem, ready, bearer, elapsed, startPending, verifyPending, restart, upload,
                   server, bounds>>

\* accept: 410 for the acknowledgement of a saved credential
AcceptLate ==
    /\ Answered({"ack"}, {"gone"}) /\ mem.ack
    /\ verifyPending' = TRUE /\ awaiting' = FALSE
    /\ UNCHANGED <<rec, mem, ready, bearer, elapsed, startPending, restart, upload, server, bounds>>

\* Mutant: an acknowledgement that comes too late discards the credential.
GivenUpEagerly ==
    Answered({"start", "poll", "ack", "verify"}, {"gone", "denied", "stranger"})

\* accept: the answers that end a challenge
GivenUp ==
    \/ Answered({"start", "poll", "verify"}, {"gone", "denied", "stranger"})
    \/ Answered({"ack"}, {"denied"})
    \/ Answered({"ack"}, {"gone"}) /\ ~mem.ack

\* accept: 410, 403, 401, or another identity; whether the save works is not
\* looked at.
AcceptEnd ==
    /\ GivenUp
    /\ mem' = [mem EXCEPT !.id = 0, !.ack = FALSE, !.boot = 0]
    /\ awaiting' = FALSE /\ verifyPending' = FALSE
    /\ Saved(mem') \/ NotSaved(mem')
    /\ UNCHANGED <<ready, bearer, elapsed, startPending, restart, upload, server, crashes>>

\* accept: acknowledged, or verified after a late acknowledgement
AcceptAcknowledged ==
    /\ Answered({"ack"}, {"acknowledged"}) \/ Answered({"verify"}, {"verified"})
    /\ LET promoted == [mem EXCEPT !.phase = 0, !.cand = 0, !.applied = 0, !.id = 0,
                                   !.ack = FALSE]
           value == [promoted EXCEPT !.token = mem.boot]
       IN \/ /\ Saved(value) /\ mem' = promoted
             /\ restart' = TRUE /\ awaiting' = FALSE
          \/ /\ NotSaved(value) /\ mem' = [mem EXCEPT !.ack = TRUE]
             /\ UNCHANGED <<restart, awaiting>>
    /\ verifyPending' = (verifyPending /\ req.kind # "verify")
    /\ UNCHANGED <<ready, bearer, elapsed, startPending, upload, server, crashes>>

\* accept: 201, the challenge is saved before it is polled.
AcceptChallenge ==
    /\ Answered({"start"}, {"challenge"})
    /\ elapsed' = FALSE
    /\ LET value == [mem EXCEPT !.id = req.id]
       IN \/ Saved(value) /\ mem' = value /\ awaiting' = TRUE
          \/ NotSaved(value) /\ UNCHANGED mem /\ awaiting' = FALSE
    /\ UNCHANGED <<ready, bearer, startPending, verifyPending, restart, upload, server, crashes>>

\* accept: authorized; the credential is kept beside the old one.
AcceptAuthorized ==
    /\ Answered({"poll"}, {"authorized"})
    /\ LET value == [mem EXCEPT !.ack = TRUE, !.boot = req.id]
       IN \/ Saved(value) /\ mem' = value /\ awaiting' = FALSE
          \/ NotSaved(value) /\ mem' = [value EXCEPT !.ack = FALSE] /\ UNCHANGED awaiting
    /\ UNCHANGED <<ready, bearer, elapsed, startPending, verifyPending, restart, upload, server,
                   crashes>>

\* stageDesired and stageRotation: an offer is taken up unless it is old, in
\* progress, or a credential waits for its acknowledgement.
Stage ==
    /\ ready /\ op = "Desired" /\ op' = "None" /\ desired' = 0
    /\ IF /\ ~restart /\ desired > mem.applied /\ mem.phase = 0 /\ mem.token # 0 /\ ~mem.ack
          /\ RotationToken(desired) # mem.token
       THEN LET value == [mem EXCEPT !.cand = desired, !.phase = 1]
            IN \/ Saved(value) /\ mem' = value /\ awaiting' = FALSE
               \/ /\ NotSaved(value) /\ UNCHANGED awaiting
                  /\ mem' = [mem EXCEPT !.cand = 0, !.phase = 0]
       ELSE UNCHANGED <<rec, mem, awaiting, lateSave, failures>>
    /\ UNCHANGED <<ready, bearer, elapsed, startPending, verifyPending, restart, request, response,
                   fallback, server, crashes>>

-----------------------------------------------------------------------------
(* serviceHttps *)

\* The status request that is due, not after restart_ was set
SubmitStatus ==
    /\ Turn /\ op = "None" /\ ~restart /\ bearer # 0
    /\ op' = IF fallback THEN "Fallback" ELSE "Status"
    /\ UNCHANGED <<device, request, response, desired, fallback, server, bounds>>

\* bearer(true)
StatusBearer == IF mem.phase = 2 /\ op # "Fallback" THEN RotationToken(mem.cand) ELSE bearer

\* rotationAcknowledgement
Acknowledgement ==
    IF op = "Fallback" THEN 0 ELSE IF mem.phase # 0 THEN mem.cand ELSE mem.applied

\* Mutant: any accepted answer finishes the rotation, the first one included.
RotatedAtOnce ==
    /\ Saved([mem EXCEPT !.applied = mem.cand, !.phase = 0, !.token = RotationToken(mem.cand)])
    /\ mem' = rec' /\ restart' = TRUE /\ awaiting' = FALSE

\* Mutant: a save that fails leaves the rotation finished in RAM.
RotatedForgets ==
    LET value == [mem EXCEPT !.phase = (@ + 1) % 3]
        flash == IF mem.phase = 1 THEN value ELSE [value EXCEPT !.token = RotationToken(mem.cand)]
    IN /\ Saved(flash) \/ (mem.phase = 2 /\ NotSaved(flash))
       /\ mem' = value /\ restart' = (mem.phase = 2 /\ failures' = failures) /\ UNCHANGED awaiting

\* statusResult: the acknowledgement with the old bearer, then the proof
\* with the new one
Rotated ==
    \/ /\ mem.phase = 1 /\ UNCHANGED restart
       /\ LET value == [mem EXCEPT !.phase = 2]
          IN \/ Saved(value) /\ mem' = value /\ awaiting' = FALSE
             \/ NotSaved(value) /\ UNCHANGED <<mem, awaiting>>
    \/ /\ mem.phase = 2
       /\ LET value == [mem EXCEPT !.applied = mem.cand, !.phase = 0]
          IN \/ /\ Saved([value EXCEPT !.token = RotationToken(mem.cand)])
                /\ mem' = value /\ restart' = TRUE /\ awaiting' = FALSE
             \/ NotSaved([value EXCEPT !.token = RotationToken(mem.cand)])
                /\ UNCHANGED <<mem, restart, awaiting>>

\* The answer to a status request
HandleStatus ==
    /\ Turn /\ op = "Status" /\ response # "none" /\ response' = "none"
    /\ op' = IF response = "accepted" THEN "Desired" ELSE "None"
    /\ fallback' = (fallback \/ (response = "rejected" /\ mem.phase # 0))
    /\ IF response = "accepted" /\ ~restart /\ mem.phase # 0
       THEN Rotated
       ELSE UNCHANGED <<rec, mem, awaiting, restart, lateSave, failures>>
    /\ UNCHANGED <<ready, bearer, elapsed, startPending, verifyPending, request, desired, server,
                   crashes>>

\* finishRotationFallback: both credentials are kept unless the old one was
\* accepted and the save worked.
HandleFallback ==
    /\ Turn /\ op = "Fallback" /\ response # "none" /\ response' = "none"
    /\ op' = IF response = "accepted" THEN "Desired" ELSE "None"
    /\ fallback' = FALSE
    /\ IF response = "accepted"
       THEN LET value == [mem EXCEPT !.phase = 0, !.cand = 0]
            IN \/ Saved(value) /\ mem' = value /\ awaiting' = FALSE
               \/ NotSaved(value) /\ UNCHANGED <<mem, awaiting>>
       ELSE UNCHANGED <<rec, mem, awaiting, lateSave, failures>>
    /\ UNCHANGED <<ready, bearer, elapsed, startPending, verifyPending, restart, request, desired,
                   server, crashes>>

-----------------------------------------------------------------------------
(* The server, the network, time and resets *)

\* start, poll, ack and /auth/me; the answer may be lost after it was given.
Reply(a) == answer' \in {a, "retry"} /\ UNCHANGED <<device, upload, latest, bounds>>

ServeStart ==
    /\ req.kind = "start" /\ answer = "none"
    /\ \E c \in Challenges :
          /\ challenges[c] = "none" /\ \A b \in 1 .. c - 1 : challenges[b] # "none"
          /\ challenges' = [challenges EXCEPT ![c] = "open"]
          /\ req' = [req EXCEPT !.id = c]
    /\ Reply("challenge")
    /\ UNCHANGED <<offer, honoured, current, accepted>>

ServePoll ==
    /\ req.kind = "poll" /\ answer = "none"
    /\ Reply(CASE challenges[req.id] = "open" -> "pending"
               [] challenges[req.id] = "approved" -> "authorized"
               [] OTHER -> "gone")
    /\ UNCHANGED <<req, challenges, offer, honoured, current, accepted>>

\* The acknowledgement makes the credential valid and ends a rotation of the
\* one before.
ServeAck ==
    /\ req.kind = "ack" /\ answer = "none" /\ req.id # 0 /\ UNCHANGED req
    /\ \/ /\ challenges[req.id] = "approved"
          /\ challenges' = [challenges EXCEPT ![req.id] = "acknowledged"]
          /\ honoured' = honoured \cup {req.id} /\ accepted' = accepted \cup {req.id}
          /\ current' = req.id /\ offer' = "none"
          /\ Reply("acknowledged")
       \/ /\ challenges[req.id] = "acknowledged"
          /\ Reply("acknowledged") \/ Reply("gone")
          /\ UNCHANGED <<challenges, offer, honoured, current, accepted>>
       \/ /\ challenges[req.id] \notin {"approved", "acknowledged"}
          /\ Reply("gone")
          /\ UNCHANGED <<challenges, offer, honoured, current, accepted>>

ServeVerify ==
    /\ req.kind = "verify" /\ answer = "none"
    /\ Reply(IF mem.boot \in honoured THEN "verified" ELSE "denied")
         \/ (mem.boot \notin honoured /\ Reply("stranger"))
    /\ UNCHANGED <<req, challenges, offer, honoured, current, accepted>>

\* 429, 5xx, or nothing arrives at the server
RequestLost ==
    /\ busy /\ answer = "none" /\ answer' \in {"retry", "limited"}
    /\ UNCHANGED <<device, req, upload, server, bounds>>

\* A status request
StatusLost ==
    /\ op \in {"Status", "Fallback"} /\ response = "none" /\ response' = "retry"
    /\ UNCHANGED <<device, request, op, desired, fallback, server, bounds>>

Acceptable ==
    /\ StatusBearer \in honoured
    /\ \/ Acknowledgement = 0 \/ RotationToken(Acknowledgement) \in accepted
       \/ offer # "none" /\ Acknowledgement = latest

ServeStatus ==
    /\ op \in {"Status", "Fallback"} /\ response = "none"
    /\ IF Acceptable
       THEN /\ response' \in {"accepted", "retry"}
            /\ accepted' = accepted \cup {StatusBearer}
            /\ desired' = IF response' = "accepted" /\ offer # "none" THEN latest ELSE 0
            /\ \/ /\ StatusBearer = RotationToken(latest) /\ offer = "acknowledged"
                  /\ offer' = "none" /\ current' = StatusBearer /\ UNCHANGED honoured
               \/ /\ offer # "none" /\ Acknowledgement = latest
                  /\ StatusBearer # RotationToken(latest)
                  /\ offer' = "acknowledged" /\ honoured' = honoured \cup {RotationToken(latest)}
                  /\ UNCHANGED current
               \/ /\ offer = "none" \/ Acknowledgement # latest
                  /\ UNCHANGED <<offer, honoured, current>>
       ELSE response' = "rejected" /\ UNCHANGED <<desired, offer, honoured, current, accepted>>
    /\ UNCHANGED <<device, request, op, fallback, challenges, latest, bounds>>

Approve(c) ==
    /\ challenges[c] = "open" /\ challenges' = [challenges EXCEPT ![c] = "approved"]
    /\ UNCHANGED <<device, request, upload, latest, offer, honoured, current, accepted, bounds>>

\* Denied by the owner, or not acknowledged in time
Close(c) ==
    /\ challenges[c] \in {"open", "approved"}
    /\ challenges' = [challenges EXCEPT ![c] = "closed"]
    /\ UNCHANGED <<device, request, upload, latest, offer, honoured, current, accepted, bounds>>

Offer ==
    /\ offer = "none" /\ current # 0 /\ latest < MaxRotations
    /\ latest' = latest + 1 /\ offer' = "offered"
    /\ UNCHANGED <<device, request, upload, challenges, honoured, current, accepted, bounds>>

\* Until its token was used a rotation may be taken back.
Withdraw ==
    /\ offer # "none" /\ offer' = "none"
    /\ honoured' = honoured \ {RotationToken(latest)}
    /\ UNCHANGED <<device, request, upload, challenges, latest, current, accepted, bounds>>

Retire(t) ==
    /\ t # current /\ ~(offer # "none" /\ t = RotationToken(latest))
    /\ t \in honoured /\ honoured' = honoured \ {t}
    /\ UNCHANGED <<device, request, upload, challenges, latest, offer, current, accepted, bounds>>

TimePasses ==
    /\ mem.id # 0 /\ ~elapsed /\ elapsed' = TRUE
    /\ UNCHANGED <<rec, mem, ready, bearer, awaiting, startPending, verifyPending, restart, request,
                   upload, server, bounds>>

\* Power loss, or the restart of loop() in logger_main.cpp
Reset ==
    /\ \/ restart /\ op # "Desired" /\ UNCHANGED crashes
       \/ ~restart /\ crashes < MaxCrashes /\ crashes' = crashes + 1
    /\ mem' = Identity /\ ready' = FALSE /\ bearer' = 0 /\ awaiting' = FALSE /\ elapsed' = FALSE
    /\ startPending' = FALSE /\ verifyPending' = FALSE /\ restart' = FALSE
    /\ req' = NoRequest /\ answer' = "none"
    /\ op' = "None" /\ response' = "none" /\ desired' = 0 /\ fallback' = FALSE
    /\ UNCHANGED <<rec, server, lateSave, failures>>

-----------------------------------------------------------------------------

Accept ==
    \/ AcceptNothing \/ AcceptLate \/ AcceptEnd \/ AcceptAcknowledged \/ AcceptChallenge
    \/ AcceptAuthorized
Serve == ServeStart \/ ServePoll \/ ServeAck \/ ServeVerify
Handle == HandleStatus \/ HandleFallback \/ Stage

Next ==
    \/ Begin \/ RequestAuthorization
    \/ SendStart \/ SendAcknowledgement \/ SendPoll \/ Expire
    \/ Accept \/ SubmitStatus \/ Handle
    \/ Serve \/ RequestLost \/ ServeStatus \/ StatusLost
    \/ \E c \in Challenges : Approve(c) \/ Close(c)
    \/ Offer \/ Withdraw \/ \E t \in Tokens : Retire(t)
    \/ TimePasses \/ Reset

Spec == Init /\ [][Next]_vars

\* Every turn of the loop calls each part (strong, because the consumption of
\* an answer comes in between), every request ends, and one that is repeated
\* for ever is answered in the end.
Fairness ==
    /\ WF_vars(Begin) /\ SF_vars(SendStart \/ SendAcknowledgement \/ SendPoll \/ Expire)
    /\ SF_vars(Accept) /\ SF_vars(SubmitStatus) /\ WF_vars(Handle) /\ WF_vars(restart /\ Reset)
    /\ WF_vars(Serve \/ RequestLost) /\ WF_vars(ServeStatus \/ StatusLost)
    /\ SF_vars(Serve /\ answer' # "retry") /\ SF_vars(ServeStatus /\ response' # "retry")

FairSpec == Spec /\ Fairness

-----------------------------------------------------------------------------
(* Properties *)

\* Whatever save fails and wherever power is lost, a logger that ever had a
\* credential keeps one in flash that the server honours: the stored one, a
\* rotation that is being proved, or a saved one to acknowledge.  "Restart
\* reloads every transport client from the same durable credential."
CredentialSurvives ==
    current # 0 =>
        \/ rec.token \in honoured
        \/ rec.phase = 2 /\ RotationToken(rec.cand) \in honoured
        \/ rec.ack /\ rec.boot \in honoured

\* The same of the running session: a save that failed does not leave RAM
\* with nothing the server would accept.
SessionSurvives ==
    ready /\ ~restart /\ current # 0 =>
        \/ bearer \in honoured
        \/ mem.phase = 2 /\ RotationToken(mem.cand) \in honoured
        \/ mem.ack /\ mem.boot \in honoured

\* Both, unless an answer that arrived after a committed promotion or rotation
\* saved the record again: RAM has the old token until the restart.  Nothing else
\* loses the credential, neither a failed save nor a reset nor a lost answer nor
\* a rotation that is withdrawn while another credential is being approved.
CredentialKept == ~lateSave => CredentialSurvives
SessionKept == ~lateSave => SessionSurvives

\* A credential becomes the stored one only after the server has accepted it:
\* one that ran out unacknowledged never replaces a working one.
PromotedOnlyAccepted == rec.token # 0 => rec.token \in accepted

\* A saved credential belongs to the challenge that will be acknowledged,
\* whatever expired or was asked for while the answer was on its way.
SavedOfChallenge == ready /\ mem.ack => mem.boot = mem.id

\* A saved credential does not wait for ever: it is promoted or given up.
SavedIsResolved == mem.ack ~> ~mem.ack
=============================================================================
