--------------------------- MODULE HttpsTransport ---------------------------
(***************************************************************************)
(* The one HTTPS exchange of the logger: HttpsExchange.h, HttpsArbiter.h   *)
(* and HttpsWorker.cpp.                                                    *)
(*                                                                         *)
(* Two tasks share a request and a result buffer.  The Arduino loop gives  *)
(* its three clients a turn each, in a fixed order; in its turn a client   *)
(* collects the answer to its request, if there is one, and may ask for    *)
(* the exchange.  The worker sleeps until it is notified, executes the     *)
(* request and publishes the result.  One action is the code between two   *)
(* accesses to what the tasks share: the atomic state and the buffers.     *)
(*                                                                         *)
(* A request is a number.  A result names the request whose response it    *)
(* holds, separately for the status and for the body, 0 being a failure.   *)
(***************************************************************************)
EXTENDS Integers, FiniteSets

CONSTANTS
    MaxRequests,    \* bound: how often a client becomes due
    MaxOutages      \* bound: losses of the Wi-Fi connection

ASSUME BoundsAssumption == MaxRequests \in Nat /\ MaxOutages \in Nat

VARIABLES
    \* HttpsExchange
    state,      \* state_
    request,    \* request_: 0 cleared, Partial while it is being copied
    result,     \* result_
    \* HttpsWorker, loop side
    owner,      \* owner_
    pending,    \* arbiter_.pending_
    notified,   \* the worker's notification value
    \* control of the two tasks
    turn,       \* the client whose loop() runs
    lpc,        \* where in it the loop is
    wpc,        \* where the worker is
    \* the clients
    want,       \* c has something to send
    fits,       \* and it fits the buffers
    busy,       \* busy_, state_ == 1, operation_ != None
    sent,       \* the request c submitted last
    wifi,       \* WiFi.status() == WL_CONNECTED
    \* history
    issued,     \* number of requests copied into the exchange
    due,        \* how often a client became due
    outages,
    bypass      \* lower-priority requests submitted since c became due

exchange == <<state, request, result>>
scheduling == <<owner, pending, notified>>
control == <<turn, lpc, wpc>>
clients == <<want, fits, busy, sent>>
environment == <<wifi, due, outages>>
vars == <<exchange, scheduling, control, clients, environment, issued, bypass>>

-----------------------------------------------------------------------------

\* HttpsArbiter::Owner without None; the bit of the owner is its priority.
Clients == {"Authorization", "Logs", "Telemetry"}
Bit(c) == CASE c = "Authorization" -> 1 [] c = "Logs" -> 2 [] c = "Telemetry" -> 4
None == "None"

\* loop() serves authorization, remote logs and upload in this order.
Following(c) == CASE c = "Authorization" -> "Logs"
                  [] c = "Logs" -> "Telemetry"
                  [] c = "Telemetry" -> "Authorization"

Partial == -1
Ids == 0 .. MaxRequests
Failure == [status |-> 0, body |-> 0]

TypeOK ==
    /\ state \in {"Idle", "Requested", "Complete"}
    /\ request \in Ids \cup {Partial}
    /\ result \in [status : Ids, body : Ids]
    /\ owner \in Clients \cup {None}
    /\ pending \subseteq Clients
    /\ notified \in BOOLEAN
    /\ turn \in Clients
    /\ lpc \in {"poll", "release", "ask", "fill", "publish", "own"}
    /\ wpc \in {"wait", "perform", "complete"}
    /\ want \in [Clients -> BOOLEAN]
    /\ fits \in [Clients -> BOOLEAN]
    /\ busy \in [Clients -> BOOLEAN]
    /\ sent \in [Clients -> Ids]
    /\ wifi \in BOOLEAN
    /\ issued \in Ids
    /\ due \in 0 .. MaxRequests
    /\ outages \in 0 .. MaxOutages
    /\ bypass \in [Clients -> Nat]

Init ==
    /\ state = "Idle" /\ request = 0 /\ result = Failure
    /\ owner = None /\ pending = {} /\ notified = FALSE
    /\ turn = "Authorization" /\ lpc = "poll" /\ wpc = "wait"
    /\ want = [c \in Clients |-> FALSE]
    /\ fits = [c \in Clients |-> TRUE]
    /\ busy = [c \in Clients |-> FALSE]
    /\ sent = [c \in Clients |-> 0]
    /\ wifi = TRUE /\ outages = 0
    /\ issued = 0
    /\ due = 0
    /\ bypass = [c \in Clients |-> 0]

-----------------------------------------------------------------------------
(* The environment of the transport *)

\* A timer expires, a snapshot is captured or a user asks for authorization.
BecomeDue(c) ==
    /\ ~want[c] /\ due < MaxRequests
    /\ want' = [want EXCEPT ![c] = TRUE]
    /\ fits' \in {[fits EXCEPT ![c] = b] : b \in BOOLEAN}
    /\ due' = due + 1
    /\ bypass' = [bypass EXCEPT ![c] = 0]
    /\ UNCHANGED <<exchange, scheduling, control, busy, sent, wifi, outages, issued>>

WifiLost ==
    /\ wifi /\ outages < MaxOutages
    /\ wifi' = FALSE /\ outages' = outages + 1
    /\ UNCHANGED <<exchange, scheduling, control, clients, due, issued, bypass>>

WifiBack ==
    /\ ~wifi /\ wifi' = TRUE
    /\ UNCHANGED <<exchange, scheduling, control, clients, due, outages, issued, bypass>>

-----------------------------------------------------------------------------
(* The Arduino loop: client c has its turn *)

EndTurn(c) == turn' = Following(c) /\ lpc' = "poll" /\ UNCHANGED wpc
GoTo(label) == lpc' = label /\ UNCHANGED <<turn, wpc>>

\* An answer to telemetry may stage a rotation of the bearer, advance it or
\* abandon it (stageRotation, statusResult, finishRotationFallback): each sets
\* status_, and if Authorization was awaiting an approval it polls no more.
\* Nobody calls cancelPending, so that a bit set by a refused poll stays.
EndsPolling(c) == c = "Telemetry" /\ result.status # 0

\* result(owner): the answer to c's request, taken before anything else
Collect(c) ==
    /\ lpc = "poll" /\ owner = c /\ state = "Complete"
    /\ busy' = [busy EXCEPT ![c] = FALSE]
    /\ \/ UNCHANGED want
       \/ EndsPolling(c) /\ want' = [want EXCEPT !["Authorization"] = FALSE]
    /\ GoTo("release")
    /\ UNCHANGED <<exchange, scheduling, fits, sent, environment, issued, bypass>>

NoResult(c) ==
    /\ lpc = "poll" /\ ~(owner = c /\ state = "Complete")
    /\ IF busy[c] THEN EndTurn(c) ELSE GoTo("ask")
    /\ UNCHANGED <<exchange, scheduling, clients, environment, issued, bypass>>

\* release(owner): secrets and body are cleared, the status stays behind
Release(c) ==
    /\ lpc = "release"
    /\ request' = 0
    /\ result' = [result EXCEPT !.body = 0]
    /\ state' = "Idle"
    /\ owner' = None
    /\ GoTo("ask")
    /\ UNCHANGED <<pending, notified, clients, environment, issued, bypass>>

\* Nothing to send, no connection, or, for telemetry, HttpsPacing::next
\* waiting because the worker is occupied.
Skip(c) ==
    /\ lpc = "ask"
    /\ ~want[c] \/ ~wifi \/ (c = "Telemetry" /\ state # "Idle")
    /\ EndTurn(c)
    /\ UNCHANGED <<exchange, scheduling, clients, environment, issued, bypass>>

\* Mutant: the bit of the client that gives up stays set.
GiveUpSilently(c) ==
    /\ lpc = "ask" /\ want[c]
    /\ want' = [want EXCEPT ![c] = FALSE]
    /\ bypass' = [bypass EXCEPT ![c] = 0]
    /\ EndTurn(c)
    /\ UNCHANGED <<exchange, scheduling, fits, busy, sent, environment, issued>>

\* In its own turn: the authorization expired, remote logs were disabled, or
\* there is no bearer.  Telemetry without a bearer just does not ask again.
GiveUp(c) ==
    /\ lpc = "ask" /\ want[c]
    /\ want' = [want EXCEPT ![c] = FALSE]
    /\ pending' = IF c = "Telemetry" THEN pending ELSE pending \ {c}
    /\ bypass' = [bypass EXCEPT ![c] = 0]
    /\ EndTurn(c)
    /\ UNCHANGED <<exchange, owner, notified, fits, busy, sent, environment, issued>>

\* HttpsArbiter::request: the lowest pending bit wins an idle exchange.
Lowest(c) == \A d \in pending \cup {c} : Bit(c) <= Bit(d)

MayAsk(c) ==
    /\ lpc = "ask" /\ want[c] /\ wifi
    /\ c = "Telemetry" => state = "Idle"

\* Mutant: the exchange is not checked for being idle.
AskOccupied(c) ==
    /\ MayAsk(c)
    /\ IF Lowest(c)
       THEN /\ fits[c]
            /\ pending' = pending \cup {c}
            /\ request' = Partial
            /\ GoTo("fill")
       ELSE /\ pending' = pending \cup {c}
            /\ EndTurn(c)
            /\ UNCHANGED request
    /\ UNCHANGED <<state, result, owner, notified, clients, environment, issued, bypass>>

\* Mutant: a client that finds the exchange occupied is not remembered.
AskForgotten(c) ==
    /\ MayAsk(c)
    /\ IF state = "Idle" /\ Lowest(c) /\ fits[c]
       THEN /\ pending' = pending \cup {c}
            /\ request' = Partial
            /\ GoTo("fill")
       ELSE /\ UNCHANGED <<pending, request>>
            /\ EndTurn(c)
    /\ UNCHANGED <<state, result, owner, notified, clients, environment, issued, bypass>>

\* HttpsWorker::submit up to the copying of the request
Ask(c) ==
    /\ MayAsk(c)
    /\ \/ /\ ~(state = "Idle" /\ Lowest(c))
          /\ pending' = pending \cup {c}
          /\ EndTurn(c)
          /\ UNCHANGED request
       \/ /\ state = "Idle" /\ Lowest(c) /\ ~fits[c]
          /\ pending' = pending \ {c}
          /\ EndTurn(c)
          /\ UNCHANGED request
       \/ /\ state = "Idle" /\ Lowest(c) /\ fits[c]
          /\ pending' = pending \cup {c}
          /\ request' = Partial
          /\ GoTo("fill")
    /\ UNCHANGED <<state, result, owner, notified, clients, environment, issued, bypass>>

\* HttpsExchange::submit: the copies
Fill(c) ==
    /\ lpc = "fill"
    /\ issued' = issued + 1
    /\ request' = issued + 1
    /\ sent' = [sent EXCEPT ![c] = issued + 1]
    /\ GoTo("publish")
    /\ UNCHANGED <<state, result, scheduling, want, fits, busy, environment, bypass>>

\* HttpsExchange::submit: the release store
Publish(c) ==
    /\ lpc = "publish"
    /\ state' = "Requested"
    /\ GoTo("own")
    /\ UNCHANGED <<request, result, scheduling, clients, environment, issued, bypass>>

\* The rest of HttpsWorker::submit, and what its callers do on success
Own(c) ==
    /\ lpc = "own"
    /\ pending' = pending \ {c}
    /\ owner' = c
    /\ notified' = TRUE
    /\ busy' = [busy EXCEPT ![c] = TRUE]
    /\ want' = [want EXCEPT ![c] = FALSE]
    /\ bypass' = [d \in Clients |->
                     IF want[d] /\ fits[d] /\ Bit(d) < Bit(c) THEN bypass[d] + 1
                                                              ELSE bypass[d]]
    /\ EndTurn(c)
    /\ UNCHANGED <<exchange, fits, sent, environment, issued>>

LoopStep ==
    \E c \in {turn} :
        \/ Collect(c) \/ NoResult(c) \/ Release(c)
        \/ Skip(c) \/ GiveUp(c) \/ Ask(c)
        \/ Fill(c) \/ Publish(c) \/ Own(c)

-----------------------------------------------------------------------------
(* The worker task *)

\* Mutant: the result of the previous request is not reset.
WorkerTakeStale ==
    /\ wpc = "wait" /\ notified
    /\ notified' = FALSE
    /\ wpc' = IF state = "Requested" THEN "perform" ELSE "wait"
    /\ UNCHANGED <<exchange, owner, pending, turn, lpc, clients, environment, issued, bypass>>

\* ulTaskNotifyTake, request() and the reset of the result
WorkerTake ==
    /\ wpc = "wait" /\ notified
    /\ notified' = FALSE
    /\ IF state = "Requested"
       THEN wpc' = "perform" /\ result' = Failure
       ELSE UNCHANGED <<wpc, result>>
    /\ UNCHANGED <<state, request, owner, pending, turn, lpc, clients, environment,
                   issued, bypass>>

\* The HTTP transaction: not begun, answered, or cut off in the body
WorkerPerform ==
    /\ wpc = "perform"
    /\ \/ UNCHANGED result
       \/ result' = [status |-> request, body |-> request]
       \/ result' = Failure
    /\ wpc' = "complete"
    /\ UNCHANGED <<state, request, scheduling, turn, lpc, clients, environment, issued,
                   bypass>>

\* Mutant: a failed transaction is not completed.
WorkerCompletesAnswers ==
    /\ wpc = "complete"
    /\ state' = IF result.status = 0 THEN state ELSE "Complete"
    /\ wpc' = "wait"
    /\ UNCHANGED <<request, result, scheduling, turn, lpc, clients, environment, issued,
                   bypass>>

WorkerComplete ==
    /\ wpc = "complete"
    /\ state' = "Complete"
    /\ wpc' = "wait"
    /\ UNCHANGED <<request, result, scheduling, turn, lpc, clients, environment, issued,
                   bypass>>

WorkerStep == WorkerTake \/ WorkerPerform \/ WorkerComplete

-----------------------------------------------------------------------------

Next ==
    \/ LoopStep
    \/ WorkerStep
    \/ \E c \in Clients : BecomeDue(c)
    \/ WifiLost
    \/ WifiBack

Spec == Init /\ [][Next]_vars

\* The loop never blocks, every HTTP call of the worker has a timeout, and an
\* outage ends.
Fairness == WF_vars(LoopStep) /\ WF_vars(WorkerStep) /\ WF_vars(WifiBack)

FairSpec == Spec /\ Fairness

-----------------------------------------------------------------------------
(* Properties *)

\* HttpsExchange.h promises that ownership of the buffers changes only with
\* the state: the loop never writes one of them while the worker is between
\* request() and complete().
ExclusiveBuffers ==
    wpc \in {"perform", "complete"} => lpc \notin {"fill", "publish", "own", "release"}

\* What a client collects is the answer to the request it submitted, or a
\* failure: never a half-copied request's, never what an earlier request left
\* in the status or in the body.
AnswersAreOwn ==
    state = "Complete" =>
        /\ owner \in Clients
        /\ busy[owner] \/ lpc = "release"
        /\ result.status \in {0, sent[owner]}
        /\ result.body = result.status

\* Pending authorization and log requests go before the next telemetry
\* request: since a client became due, at most one request of lower priority
\* was submitted, and one more for each outage that hid a turn of the client,
\* however long the telemetry backlog is.
BoundedBypass == \A c \in Clients : bypass[c] <= 1 + outages

\* The bit of a poll that was refused and is not repeated.
Stranded == "Authorization" \in pending /\ ~want["Authorization"]

\* A request that fits the buffers is submitted or given up, unless a poll for
\* authorization was ended by a rotation while its bit was set: nothing else
\* blocks a client for good, neither a client that gives up in its turn nor one
\* whose request never fits nor an outage.
Served == \A c \in Clients : want[c] /\ fits[c] ~> ~want[c] \/ Stranded

\* "Explicit authorization and infrequent management work must get a turn even
\* when telemetry always has another queued record."
ManagementServed == \A c \in {"Authorization", "Logs"} : want[c] /\ fits[c] ~> ~want[c]

\* Every submitted request is answered and the answer collected: no wake-up
\* is lost and no failure leaves the exchange occupied.
Answered == \A c \in Clients : busy[c] ~> ~busy[c]
=============================================================================
