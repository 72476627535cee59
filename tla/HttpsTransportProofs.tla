------------------------ MODULE HttpsTransportProofs ------------------------
(***************************************************************************)
(* The loop and the worker never hold a buffer at the same time, a client  *)
(* collects the answer to its own request, and priority is honoured, for   *)
(* any number of requests and outages.                                     *)
(***************************************************************************)
EXTENDS HttpsTransport, TLAPS

\* The part of TypeOK that does not depend on the bounds.
HTypes ==
    /\ state \in {"Idle", "Requested", "Complete"}
    /\ request \in Int
    /\ result \in [status : Int, body : Int]
    /\ owner \in Clients \cup {None}
    /\ notified \in BOOLEAN
    /\ turn \in Clients
    /\ lpc \in {"poll", "release", "ask", "fill", "publish", "own"}
    /\ wpc \in {"wait", "perform", "complete"}
    /\ busy \in [Clients -> BOOLEAN]
    /\ sent \in [Clients -> Int]
    /\ issued \in Int

\* The loop copies into an idle exchange, owns a request the worker has not
\* been told of, and releases what is complete and its own.
LoopOwns ==
    /\ lpc \in {"fill", "publish"} => state = "Idle"
    /\ lpc \in {"publish", "own"} => request = sent[turn]
    /\ lpc = "own" => state = "Requested"
    /\ lpc = "release" => state = "Complete" /\ owner = turn /\ ~busy[turn]

\* Outside lpc = "own", a request is known by the worker or has been notified,
\* and belongs to a client that waits for it.
WorkerOwns ==
    state = "Requested" /\ lpc # "own" =>
        /\ owner \in Clients
        /\ busy[owner]
        /\ request = sent[owner]

\* The worker is awake, or about to be, exactly while a request is published.
WorkerAwake ==
    /\ notified \/ wpc # "wait" => state = "Requested" /\ lpc \in {"poll", "ask"}
    /\ notified => wpc = "wait"
    /\ wpc = "perform" => result = Failure
    /\ wpc = "complete" =>
           /\ result.status \in {0, sent[owner]}
           /\ result.body = result.status

\* Only the owner waits, and only until the exchange is idle again.
OneWaits ==
    \A c \in Clients : busy[c] => owner = c /\ state # "Idle" /\ lpc # "own"

\* The inductive invariant.
HInv == HTypes /\ LoopOwns /\ WorkerOwns /\ WorkerAwake /\ OneWaits /\ AnswersAreOwn

\* The reset result is a result.
LEMMA FailureTyped == Failure \in [status : Int, body : Int]
BY DEF Failure

\* The exchange starts idle, with nobody waiting.
LEMMA HInit == Init => HInv
<1> SUFFICES ASSUME Init PROVE HInv
  OBVIOUS
<1>a. "Authorization" \in Clients /\ owner = None
  BY DEF Init, Clients
<1>b. busy \in [Clients -> BOOLEAN]
  BY DEF Init
<1>c. sent \in [Clients -> Int]
  BY DEF Init
<1>1. HTypes
  BY FailureTyped, <1>a, <1>b, <1>c DEF Init, HTypes
<1>2. LoopOwns /\ WorkerOwns /\ WorkerAwake /\ AnswersAreOwn
  BY DEF Init, LoopOwns, WorkerOwns, WorkerAwake, AnswersAreOwn
<1>3. OneWaits
  BY DEF Init, OneWaits
<1> QED BY <1>1, <1>2, <1>3 DEF HInv

\* Steps of the loop that neither touch the exchange nor hand it over.
LEMMA QuietSteps ==
    ASSUME HInv,
           NoResult(turn) \/ Skip(turn) \/ GiveUp(turn)
    PROVE  HInv'
<1> USE DEF HInv, HTypes, EndTurn, GoTo, exchange, scheduling, clients, environment
<1>1. Following(turn) \in Clients
  BY DEF Following, Clients
<1>2. UNCHANGED <<state, request, result, owner, notified, busy, sent, issued, wpc>>
  BY DEF NoResult, Skip, GiveUp
<1>3. /\ turn' \in Clients /\ lpc' \in {"poll", "ask"}
      /\ lpc \in {"poll", "ask"}
  BY <1>1 DEF NoResult, Skip, GiveUp
<1>4. HTypes'
  BY <1>2, <1>3 DEF HTypes
<1>5. LoopOwns' /\ WorkerOwns' /\ WorkerAwake'
  BY <1>2, <1>3 DEF LoopOwns, WorkerOwns, WorkerAwake
<1>6. OneWaits'
  BY <1>2, <1>3 DEF OneWaits
<1>7. AnswersAreOwn'
  BY <1>2, <1>3 DEF AnswersAreOwn
<1> QED BY <1>4, <1>5, <1>6, <1>7

\* The owner takes its answer and gives the exchange back.
LEMMA CollectSteps ==
    ASSUME HInv, Collect(turn) \/ Release(turn)
    PROVE  HInv'
<1> USE DEF HInv, HTypes, GoTo, exchange, scheduling, clients, environment
<1>1. CASE Collect(turn)
  <2>1. /\ owner = turn /\ state = "Complete" /\ lpc = "poll" /\ lpc' = "release"
        /\ UNCHANGED <<state, request, result, owner, notified, turn, wpc, sent, issued>>
        /\ busy' = [busy EXCEPT ![turn] = FALSE]
    BY <1>1 DEF Collect
  <2>2. HTypes'
    BY <2>1
  <2>3. LoopOwns' /\ WorkerOwns'
    BY <2>1 DEF LoopOwns, WorkerOwns
  <2>4. WorkerAwake'
    BY <2>1 DEF WorkerAwake
  <2>5. OneWaits'
    BY <2>1 DEF OneWaits
  <2>6. AnswersAreOwn'
    BY <2>1 DEF AnswersAreOwn
  <2> QED BY <2>2, <2>3, <2>4, <2>5, <2>6
<1>2. CASE Release(turn)
  <2>1. /\ lpc = "release" /\ lpc' = "ask" /\ state' = "Idle" /\ owner' = None
        /\ request' = 0 /\ result' = [result EXCEPT !.body = 0]
        /\ UNCHANGED <<notified, turn, wpc, busy, sent, issued>>
    BY <1>2 DEF Release
  <2>2. state = "Complete" /\ owner = turn /\ ~notified /\ wpc = "wait"
    BY <2>1 DEF LoopOwns, WorkerAwake
  <2>3. HTypes'
    BY <2>1
  <2>4. LoopOwns' /\ WorkerOwns' /\ WorkerAwake' /\ AnswersAreOwn'
    BY <2>1, <2>2 DEF LoopOwns, WorkerOwns, WorkerAwake, AnswersAreOwn
  <2>5. \A c \in Clients : ~busy[c]
    BY <2>1, <2>2 DEF LoopOwns, OneWaits
  <2>6. OneWaits'
    BY <2>1, <2>5 DEF OneWaits
  <2> QED BY <2>3, <2>4, <2>6
<1> QED BY <1>1, <1>2
\* Copying, publishing and handing over a request.
LEMMA SubmitSteps ==
    ASSUME HInv, Ask(turn) \/ Fill(turn) \/ Publish(turn) \/ Own(turn)
    PROVE  HInv'
<1> USE DEF HInv, HTypes, EndTurn, GoTo, exchange, scheduling, clients, environment
<1>0. Following(turn) \in Clients
  BY DEF Following, Clients
<1>1. CASE Ask(turn)
  <2>1. /\ lpc = "ask"
        /\ UNCHANGED <<state, result, owner, notified, wpc, busy, sent, issued>>
        /\ \/ lpc' = "poll" /\ turn' = Following(turn) /\ request' = request
           \/ lpc' = "fill" /\ turn' = turn /\ request' = Partial /\ state = "Idle"
    BY <1>1 DEF Ask, MayAsk
  <2>2. HTypes'
    BY <2>1, <1>0 DEF Partial
  <2>3. LoopOwns' /\ WorkerOwns' /\ WorkerAwake'
    BY <2>1 DEF LoopOwns, WorkerOwns, WorkerAwake
  <2>4. OneWaits'
    BY <2>1 DEF OneWaits
  <2>5. AnswersAreOwn'
    BY <2>1 DEF AnswersAreOwn
  <2> QED BY <2>2, <2>3, <2>4, <2>5
<1>2. CASE Fill(turn)
  <2>1. /\ lpc = "fill" /\ lpc' = "publish"
        /\ request' = issued + 1 /\ issued' = issued + 1
        /\ sent' = [sent EXCEPT ![turn] = issued + 1]
        /\ UNCHANGED <<state, result, owner, notified, turn, wpc, busy>>
    BY <1>2 DEF Fill
  <2>2. state = "Idle" /\ ~notified /\ wpc = "wait"
    BY <2>1 DEF LoopOwns, WorkerAwake
  <2>3. HTypes'
    BY <2>1
  <2>4. LoopOwns' /\ WorkerOwns' /\ WorkerAwake' /\ AnswersAreOwn'
    BY <2>1, <2>2 DEF LoopOwns, WorkerOwns, WorkerAwake, AnswersAreOwn
  <2>5. OneWaits'
    BY <2>1 DEF OneWaits
  <2> QED BY <2>3, <2>4, <2>5
<1>3. CASE Publish(turn)
  <2>1. /\ lpc = "publish" /\ lpc' = "own" /\ state' = "Requested"
        /\ UNCHANGED <<request, result, owner, notified, turn, wpc, busy, sent, issued>>
    BY <1>3 DEF Publish
  <2>2. state = "Idle" /\ ~notified /\ wpc = "wait"
    BY <2>1 DEF LoopOwns, WorkerAwake
  <2>3. HTypes'
    BY <2>1
  <2>4. LoopOwns' /\ WorkerOwns' /\ WorkerAwake' /\ AnswersAreOwn'
    BY <2>1, <2>2 DEF LoopOwns, WorkerOwns, WorkerAwake, AnswersAreOwn
  <2>5. OneWaits'
    BY <2>1, <2>2 DEF OneWaits
  <2> QED BY <2>3, <2>4, <2>5
<1>4. CASE Own(turn)
  <2>1. /\ lpc = "own" /\ lpc' = "poll" /\ turn' = Following(turn)
        /\ owner' = turn /\ notified' = TRUE
        /\ busy' = [busy EXCEPT ![turn] = TRUE]
        /\ UNCHANGED <<state, request, result, wpc, sent, issued>>
    BY <1>4 DEF Own
  <2>2. state = "Requested" /\ request = sent[turn] /\ ~notified /\ wpc = "wait"
    BY <2>1 DEF LoopOwns, WorkerAwake
  <2>3. \A c \in Clients : ~busy[c]
    BY <2>1 DEF OneWaits
  <2>4. HTypes'
    BY <2>1, <1>0
  <2>5. LoopOwns' /\ WorkerOwns' /\ WorkerAwake' /\ AnswersAreOwn'
    BY <2>1, <2>2 DEF LoopOwns, WorkerOwns, WorkerAwake, AnswersAreOwn
  <2>6. OneWaits'
    BY <2>1, <2>2, <2>3 DEF OneWaits
  <2> QED BY <2>4, <2>5, <2>6
<1> QED BY <1>1, <1>2, <1>3, <1>4

\* The worker wakes up, performs the request and completes it.
LEMMA WorkerSteps ==
    ASSUME HInv, WorkerStep
    PROVE  HInv'
<1> USE DEF HInv, HTypes, exchange, scheduling, clients, environment
<1>1. CASE WorkerTake
  <2>1. /\ wpc = "wait" /\ notified /\ notified' = FALSE
        /\ UNCHANGED <<state, request, owner, turn, lpc, busy, sent, issued>>
    BY <1>1 DEF WorkerTake
  <2>2. state = "Requested" /\ lpc \in {"poll", "ask"}
    BY <2>1 DEF WorkerAwake
  <2>3. wpc' = "perform" /\ result' = Failure
    BY <1>1, <2>2 DEF WorkerTake
  <2>4. HTypes'
    BY <2>1, <2>3, FailureTyped
  <2>5. LoopOwns' /\ WorkerOwns' /\ WorkerAwake' /\ AnswersAreOwn'
    BY <2>1, <2>2, <2>3 DEF LoopOwns, WorkerOwns, WorkerAwake, AnswersAreOwn
  <2>6. OneWaits'
    BY <2>1 DEF OneWaits
  <2> QED BY <2>4, <2>5, <2>6
<1>2. CASE WorkerPerform
  <2>1. /\ wpc = "perform" /\ wpc' = "complete"
        /\ UNCHANGED <<state, request, owner, notified, turn, lpc, busy, sent, issued>>
        /\ result' \in {result, [status |-> request, body |-> request], Failure}
    BY <1>2 DEF WorkerPerform
  <2>2. /\ state = "Requested" /\ lpc \in {"poll", "ask"} /\ result = Failure
        /\ request = sent[owner]
    BY <2>1 DEF WorkerAwake, WorkerOwns
  <2>3. /\ result' \in [status : Int, body : Int]
        /\ result'.status \in {0, sent[owner]} /\ result'.body = result'.status
    BY <2>1, <2>2 DEF Failure
  <2>4. HTypes'
    BY <2>1, <2>3
  <2>5. LoopOwns' /\ WorkerOwns' /\ WorkerAwake' /\ AnswersAreOwn'
    BY <2>1, <2>2, <2>3 DEF LoopOwns, WorkerOwns, WorkerAwake, AnswersAreOwn
  <2>6. OneWaits'
    BY <2>1 DEF OneWaits
  <2> QED BY <2>4, <2>5, <2>6
<1>3. CASE WorkerComplete
  <2>1. /\ wpc = "complete" /\ wpc' = "wait" /\ state' = "Complete"
        /\ UNCHANGED <<request, result, owner, notified, turn, lpc, busy, sent, issued>>
    BY <1>3 DEF WorkerComplete
  <2>2. /\ state = "Requested" /\ lpc \in {"poll", "ask"}
        /\ result.status \in {0, sent[owner]} /\ result.body = result.status
        /\ owner \in Clients /\ busy[owner]
    BY <2>1 DEF WorkerAwake, WorkerOwns
  <2>3. HTypes' /\ LoopOwns' /\ WorkerOwns' /\ AnswersAreOwn'
    BY <2>1, <2>2 DEF LoopOwns, WorkerOwns, AnswersAreOwn
  <2>4. OneWaits'
    BY <2>1, <2>2 DEF OneWaits
  <2>5. ~notified
    BY <2>1 DEF WorkerAwake
  <2>6. WorkerAwake'
    BY <2>1, <2>5 DEF WorkerAwake
  <2> QED BY <2>3, <2>4, <2>6
<1> QED BY <1>1, <1>2, <1>3 DEF WorkerStep

\* Timers, users and the radio do not touch the exchange.
LEMMA EnvironmentSteps ==
    ASSUME HInv,
           (\E c \in Clients : BecomeDue(c)) \/ WifiLost \/ WifiBack \/ UNCHANGED vars
    PROVE  HInv'
<1>1. UNCHANGED <<state, request, result, owner, notified, turn, lpc, wpc, busy, sent, issued>>
  BY DEF BecomeDue, WifiLost, WifiBack, vars, exchange, scheduling, control, clients,
         environment
<1>2. HTypes' /\ LoopOwns' /\ WorkerOwns' /\ WorkerAwake'
  BY <1>1 DEF HInv, HTypes, LoopOwns, WorkerOwns, WorkerAwake
<1>3. OneWaits' /\ AnswersAreOwn'
  BY <1>1 DEF HInv, OneWaits, AnswersAreOwn
<1> QED BY <1>2, <1>3 DEF HInv

\* Every step preserves the invariant.
LEMMA HStep == HInv /\ [Next]_vars => HInv'
<1> SUFFICES ASSUME HInv, [Next]_vars PROVE HInv'
  OBVIOUS
<1>1. CASE LoopStep
  BY <1>1, QuietSteps, CollectSteps, SubmitSteps DEF LoopStep
<1>2. CASE WorkerStep
  BY <1>2, WorkerSteps
<1>3. CASE (\E c \in Clients : BecomeDue(c)) \/ WifiLost \/ WifiBack \/ UNCHANGED vars
  BY <1>3, EnvironmentSteps
<1> QED BY <1>1, <1>2, <1>3 DEF Next

\* Whatever the interleaving of the loop and the worker, neither writes a
\* buffer that the other one holds (HttpsExchange::submit, release, complete).
THEOREM BuffersAreExclusive == Spec => []ExclusiveBuffers
<1>1. HInv => ExclusiveBuffers
  BY DEF HInv, WorkerAwake, ExclusiveBuffers
<1> QED BY <1>1, HInit, HStep, PTL DEF Spec

\* A client only ever collects the answer to the request it submitted last, or
\* a failure (HttpsWorker::result, HttpsWorker::run).
THEOREM AnswersReachTheirClient == Spec => []AnswersAreOwn
<1>1. HInv => AnswersAreOwn
  BY DEF HInv
<1> QED BY <1>1, HInit, HStep, PTL DEF Spec
-----------------------------------------------------------------------------
(***************************************************************************)
(* Priority.  A client that is due and not yet remembered as pending can   *)
(* be overtaken by the request that is being submitted, and afterwards     *)
(* only in a round of the loop in which an outage hid its own turn.        *)
(***************************************************************************)

\* The types of what the clients and the radio keep.
BTypes ==
    /\ pending \subseteq Clients
    /\ want \in [Clients -> BOOLEAN]
    /\ fits \in [Clients -> BOOLEAN]
    /\ wifi \in BOOLEAN
    /\ outages \in Nat
    /\ bypass \in [Clients -> Nat]

\* The client that has the turn has won the exchange.
Submitting == lpc \in {"fill", "publish", "own"}

\* What bypass[d] is once the request that is being submitted counts.
Overtaken(d) ==
    IF Submitting /\ Bit(d) < Bit(turn) THEN bypass[d] + 1 ELSE bypass[d]

\* d is due and the arbiter does not know of it.
Unheard(d) == want[d] /\ fits[d] /\ d \notin pending

\* d had its turn in this round, and a client after it may win the exchange:
\* the exchange is idle, or its owner is still to come and may give it back.
Exposed(d) ==
    /\ ~Submitting /\ Bit(d) < Bit(turn)
    /\ state # "Idle" => owner \in Clients /\ Bit(turn) <= Bit(owner)

Bypassed(d) ==
    /\ bypass[d] <= 1 + outages
    /\ Unheard(d) =>
          /\ Overtaken(d) <= 1 + outages
          /\ ~wifi => Overtaken(d) <= outages
          /\ Exposed(d) => bypass[d] <= outages

\* The inductive invariant, together with HInv.
BInv ==
    /\ BTypes
    /\ ~wifi => outages >= 1
    /\ Submitting => \A d \in pending : Bit(turn) <= Bit(d)
    /\ \A d \in Clients : Bypassed(d)

\* The priorities are distinct numbers, and the loop serves the clients in the
\* order of their priorities.
LEMMA Priorities ==
    /\ \A c \in Clients : Bit(c) \in Nat /\ Following(c) \in Clients
    /\ \A c, d \in Clients : c # d => Bit(c) # Bit(d)
    /\ \A c, d \in Clients : Bit(d) < Bit(Following(c)) =>
          /\ c # "Telemetry"
          /\ Bit(d) <= Bit(c)
          /\ Bit(c) < Bit(Following(c))
<1>1. Bit("Authorization") = 1 /\ Bit("Logs") = 2 /\ Bit("Telemetry") = 4
  BY DEF Bit
<1>2. /\ Following("Authorization") = "Logs" /\ Following("Logs") = "Telemetry"
      /\ Following("Telemetry") = "Authorization"
  BY DEF Following
<1> QED BY <1>1, <1>2 DEF Clients

\* Nobody is due at the start.
LEMMA BInit == Init => BInv
<1> SUFFICES ASSUME Init PROVE BInv
  OBVIOUS
<1>1. BTypes
  BY DEF Init, BTypes
<1>2. \A d \in Clients : bypass[d] = 0 /\ ~want[d]
  BY DEF Init
<1>3. \A d \in Clients : Bypassed(d)
  BY <1>1, <1>2 DEF Bypassed, Unheard, BTypes
<1> QED BY <1>1, <1>3 DEF BInv, Init, Submitting

\* A client that passes its turn on leaves the others as exposed as they were.
LEMMA TurnPasses ==
    ASSUME HInv, BInv, NEW d \in Clients, d # turn,
           lpc \in {"poll", "ask"}, lpc' = "poll", turn' = Following(turn),
           UNCHANGED <<state, owner, wifi, outages>>,
           want'[d] = want[d], fits'[d] = fits[d], bypass'[d] = bypass[d],
           d \in pending' <=> d \in pending
    PROVE  Bypassed(d)'
<1>1. Bypassed(d) /\ ~Submitting /\ ~Submitting'
  BY DEF BInv, Submitting
<1>2. Overtaken(d) = bypass[d] /\ Overtaken(d)' = bypass[d]
  BY <1>1 DEF Overtaken
<1>3. Exposed(d)' => Exposed(d)
  <2>1. turn \in Clients /\ Bit(d) \in Nat /\ Bit(turn) \in Nat /\ Bit(turn') \in Nat
    BY Priorities DEF HInv, HTypes
  <2>2. Bit(d) < Bit(turn') => Bit(d) < Bit(turn) /\ Bit(turn) < Bit(turn')
    BY <2>1, Priorities
  <2>3. owner \in Clients => Bit(owner) \in Nat
    BY Priorities
  <2> QED BY <1>1, <2>1, <2>2, <2>3 DEF Exposed
<1> QED BY <1>1, <1>2, <1>3 DEF Bypassed, Unheard

\* The client whose turn ends is not exposed to the ones after it: it does not
\* wait, an outage hides its turn, it owns the exchange, or it is the last one.
LEMMA TurnEnds ==
    ASSUME HInv, BInv, NEW d \in Clients, d = turn,
           lpc \in {"poll", "ask"}, lpc' = "poll", turn' = Following(turn),
           UNCHANGED <<state, owner, wifi, outages>>,
           bypass'[d] = bypass[d],
           Unheard(d)' => /\ Unheard(d)
                          /\ \/ ~wifi
                             \/ owner = d /\ state # "Idle"
                             \/ d = "Telemetry"
    PROVE  Bypassed(d)'
<1>1. Bypassed(d) /\ ~Submitting /\ ~Submitting'
  BY DEF BInv, Submitting
<1>2. Overtaken(d) = bypass[d] /\ Overtaken(d)' = bypass[d]
  BY <1>1 DEF Overtaken
<1>3. Bit(d) \in Nat /\ Bit(turn') \in Nat
  BY Priorities
<1>4. owner = d /\ state # "Idle" => ~Exposed(d)'
  BY <1>3, Priorities DEF Exposed
<1>5. d = "Telemetry" => ~Exposed(d)'
  BY <1>3, Priorities DEF Exposed
<1> QED BY <1>1, <1>2, <1>4, <1>5 DEF Bypassed

\* The loop polls, skips its turn or gives a request up.
LEMMA QuietBypass ==
    ASSUME HInv, BInv, NoResult(turn) \/ Skip(turn) \/ GiveUp(turn)
    PROVE  BInv'
<1> USE DEF EndTurn, GoTo, exchange, scheduling, clients, environment
<1>0. turn \in Clients /\ BTypes /\ (~wifi => outages >= 1)
  BY DEF HInv, HTypes, BInv
<1>1. CASE NoResult(turn) /\ ~busy[turn]
  <2>1. /\ UNCHANGED <<state, owner, pending, turn, want, fits, wifi, outages, bypass>>
        /\ lpc = "poll" /\ lpc' = "ask"
    BY <1>1 DEF NoResult
  <2>2. BTypes' /\ ~Submitting /\ ~Submitting'
    BY <1>0, <2>1 DEF BTypes, Submitting
  <2>3. ASSUME NEW d \in Clients PROVE Bypassed(d)'
    BY <2>1, <2>2 DEF BInv, Bypassed, Unheard, Overtaken, Exposed
  <2> QED BY <1>0, <2>1, <2>2, <2>3 DEF BInv
<1>2. CASE NoResult(turn) /\ busy[turn]
  <2>1. /\ UNCHANGED <<state, owner, pending, want, fits, wifi, outages, bypass>>
        /\ lpc = "poll" /\ lpc' = "poll" /\ turn' = Following(turn)
    BY <1>2 DEF NoResult
  <2>2. BTypes' /\ ~Submitting'
    BY <1>0, <2>1 DEF BTypes, Submitting
  <2>3. ASSUME NEW d \in Clients PROVE Bypassed(d)'
    <3>1. CASE d # turn
      BY <2>1, <3>1, TurnPasses
    <3>2. CASE d = turn
      <4>1. owner = d /\ state # "Idle" /\ (Unheard(d)' => Unheard(d))
        BY <1>2, <2>1, <3>2 DEF HInv, OneWaits, Unheard
      <4> QED BY <2>1, <3>2, <4>1, TurnEnds
    <3> QED BY <3>1, <3>2
  <2> QED BY <1>0, <2>1, <2>2, <2>3 DEF BInv
<1>3. CASE Skip(turn)
  <2>1. /\ UNCHANGED <<state, owner, pending, want, fits, wifi, outages, bypass>>
        /\ lpc = "ask" /\ lpc' = "poll" /\ turn' = Following(turn)
        /\ ~want[turn] \/ ~wifi \/ turn = "Telemetry"
    BY <1>3 DEF Skip
  <2>2. BTypes' /\ ~Submitting'
    BY <1>0, <2>1 DEF BTypes, Submitting
  <2>3. ASSUME NEW d \in Clients PROVE Bypassed(d)'
    <3>1. CASE d # turn
      BY <2>1, <3>1, TurnPasses
    <3>2. CASE d = turn
      <4>1. Unheard(d)' => Unheard(d) /\ (~wifi \/ d = "Telemetry")
        BY <2>1, <3>2 DEF Unheard
      <4> QED BY <2>1, <3>2, <4>1, TurnEnds
    <3> QED BY <3>1, <3>2
  <2> QED BY <1>0, <2>1, <2>2, <2>3 DEF BInv
<1>4. CASE GiveUp(turn)
  <2>1. /\ UNCHANGED <<state, owner, fits, wifi, outages>>
        /\ lpc = "ask" /\ lpc' = "poll" /\ turn' = Following(turn)
        /\ want' = [want EXCEPT ![turn] = FALSE]
        /\ bypass' = [bypass EXCEPT ![turn] = 0]
        /\ pending' \in {pending, pending \ {turn}}
    BY <1>4 DEF GiveUp
  <2>2. BTypes' /\ ~Submitting'
    BY <1>0, <2>1 DEF BTypes, Submitting
  <2>3. ASSUME NEW d \in Clients PROVE Bypassed(d)'
    <3>1. CASE d # turn
      <4>1. want'[d] = want[d] /\ bypass'[d] = bypass[d] /\ (d \in pending' <=> d \in pending)
        BY <1>0, <2>1, <3>1 DEF BTypes
      <4> QED BY <2>1, <3>1, <4>1, TurnPasses
    <3>2. CASE d = turn
      <4>1. /\ ~want'[d] /\ bypass'[d] = 0
            /\ outages' = outages /\ outages \in Nat
        BY <1>0, <2>1, <3>2 DEF BTypes
      <4>2. ~Unheard(d)'
        BY <4>1 DEF Unheard
      <4>3. bypass'[d] <= 1 + outages'
        BY <4>1
      <4> QED BY <4>2, <4>3 DEF Bypassed
    <3> QED BY <3>1, <3>2
  <2> QED BY <1>0, <2>1, <2>2, <2>3 DEF BInv
<1> QED BY <1>1, <1>2, <1>3, <1>4

\* The owner takes its answer and gives the exchange back in its own turn.
LEMMA CollectBypass ==
    ASSUME HInv, BInv, Collect(turn) \/ Release(turn)
    PROVE  BInv'
<1> USE DEF GoTo, exchange, scheduling, clients, environment
<1>1. /\ UNCHANGED <<pending, turn, fits, wifi, outages, bypass>>
      /\ want' = want \/ want' = [want EXCEPT !["Authorization"] = FALSE]
      /\ lpc \in {"poll", "release"} /\ lpc' \in {"release", "ask"}
  BY DEF Collect, Release
<1>2. BTypes' /\ ~Submitting /\ ~Submitting'
  BY <1>1 DEF BInv, BTypes, Submitting
<1>3. ASSUME NEW d \in Clients PROVE Exposed(d)' => Exposed(d)
  <2>1. CASE Collect(turn)
    BY <1>1, <1>2, <2>1 DEF Collect, Exposed
  <2>2. CASE Release(turn)
    <3>1. owner = turn /\ turn \in Clients /\ Bit(turn) \in Nat
      BY <2>2, Priorities DEF Release, HInv, HTypes, LoopOwns
    <3> QED BY <1>1, <1>2, <3>1 DEF Exposed
  <2> QED BY <2>1, <2>2
<1>4. ASSUME NEW d \in Clients PROVE Bypassed(d)'
  <2>1. want'[d] => want[d]
    BY <1>1 DEF BInv, BTypes
  <2>2. Unheard(d)' => Unheard(d)
    BY <1>1, <2>1 DEF Unheard
  <2>3. Overtaken(d)' = Overtaken(d)
    BY <1>1, <1>2 DEF Overtaken
  <2> QED BY <1>1, <1>3, <2>2, <2>3 DEF BInv, Bypassed
<1> QED BY <1>1, <1>2, <1>4 DEF BInv

\* A client asks the arbiter for the exchange.
LEMMA AskBypass ==
    ASSUME HInv, BInv, Ask(turn)
    PROVE  BInv'
<1> USE DEF EndTurn, GoTo, exchange, scheduling, clients, environment
<1>0. turn \in Clients /\ BTypes /\ (~wifi => outages >= 1)
  BY DEF HInv, HTypes, BInv
<1>1. /\ UNCHANGED <<state, owner, want, fits, wifi, outages, bypass>>
      /\ lpc = "ask" /\ wifi
  BY DEF Ask, MayAsk
<1>2. CASE /\ lpc' = "poll" /\ turn' = Following(turn)
           /\ pending' = pending \cup {turn} \/ (pending' = pending \ {turn} /\ ~fits[turn])
  <2>1. BTypes' /\ ~Submitting'
    BY <1>0, <1>1, <1>2 DEF BTypes, Submitting
  <2>2. ASSUME NEW d \in Clients PROVE Bypassed(d)'
    <3>1. CASE d # turn
      <4>1. d \in pending' <=> d \in pending
        BY <1>2, <3>1
      <4> QED BY <1>1, <1>2, <3>1, <4>1, TurnPasses
    <3>2. CASE d = turn
      <4>1. ~Unheard(d)'
        BY <1>1, <1>2, <3>2 DEF Unheard
      <4> QED BY <1>1, <1>2, <3>2, <4>1, TurnEnds
    <3> QED BY <3>1, <3>2
  <2> QED BY <1>0, <1>1, <2>1, <2>2 DEF BInv
<1>3. CASE /\ state = "Idle" /\ Lowest(turn) /\ pending' = pending \cup {turn}
           /\ lpc' = "fill" /\ turn' = turn
  <2>1. BTypes'
    BY <1>0, <1>1, <1>3 DEF BTypes
  <2>2. \A d \in pending' : Bit(turn') <= Bit(d)
    BY <1>3 DEF Lowest
  <2>3. ASSUME NEW d \in Clients PROVE Bypassed(d)'
    <3>1. Bypassed(d) /\ (Unheard(d)' => Unheard(d)) /\ ~Submitting
      BY <1>1, <1>3 DEF BInv, Unheard, Submitting
    <3>2. Bit(d) < Bit(turn) => Exposed(d)
      BY <1>3, <3>1 DEF Exposed
    <3>3. Submitting' /\ ~Exposed(d)' /\ Overtaken(d) = bypass[d]
      BY <1>3, <3>1 DEF Submitting, Exposed, Overtaken
    <3>4. bypass[d] \in Nat /\ outages \in Nat
      BY <1>0 DEF BTypes
    <3> QED BY <1>1, <1>3, <3>1, <3>2, <3>3, <3>4 DEF Bypassed, Overtaken
  <2> QED BY <1>0, <1>1, <2>1, <2>2, <2>3 DEF BInv
<1> QED BY <1>2, <1>3 DEF Ask

\* The request is copied, published and handed over.
LEMMA SubmitBypass ==
    ASSUME HInv, BInv, Fill(turn) \/ Publish(turn) \/ Own(turn)
    PROVE  BInv'
<1> USE DEF EndTurn, GoTo, exchange, scheduling, clients, environment
<1>0. turn \in Clients /\ BTypes /\ (~wifi => outages >= 1)
  BY DEF HInv, HTypes, BInv
<1>1. CASE Fill(turn) \/ Publish(turn)
  <2>1. /\ UNCHANGED <<pending, turn, want, fits, wifi, outages, bypass>>
        /\ lpc \in {"fill", "publish"} /\ lpc' \in {"publish", "own"}
    BY <1>1 DEF Fill, Publish
  <2>2. BTypes' /\ Submitting /\ Submitting'
    BY <1>0, <2>1 DEF BTypes, Submitting
  <2>3. ASSUME NEW d \in Clients PROVE Bypassed(d)'
    BY <2>1, <2>2 DEF BInv, Bypassed, Unheard, Overtaken, Exposed
  <2> QED BY <1>0, <2>1, <2>2, <2>3 DEF BInv
<1>2. CASE Own(turn)
  <2>1. /\ lpc = "own" /\ lpc' = "poll" /\ turn' = Following(turn)
        /\ pending' = pending \ {turn} /\ owner' = turn
        /\ want' = [want EXCEPT ![turn] = FALSE]
        /\ bypass' = [d \in Clients |->
                        IF want[d] /\ fits[d] /\ Bit(d) < Bit(turn) THEN bypass[d] + 1
                                                                    ELSE bypass[d]]
        /\ UNCHANGED <<state, fits, wifi, outages>>
    BY <1>2 DEF Own
  <2>2. Submitting /\ ~Submitting' /\ state # "Idle"
    BY <2>1 DEF Submitting, HInv, LoopOwns
  <2>3. BTypes'
    BY <1>0, <2>1 DEF BTypes
  <2>4. ASSUME NEW d \in Clients PROVE Bypassed(d)'
    <3>1. Bit(d) \in Nat /\ Bit(turn) \in Nat /\ Bit(turn') \in Nat
      BY <1>0, <2>1, Priorities
    <3>2. bypass[d] \in Nat /\ outages \in Nat
      BY <1>0 DEF BTypes
    <3>3. Bit(d) < Bit(turn) => d \notin pending
      BY <2>2, <3>1 DEF BInv
    <3>4. Bypassed(d)
      BY DEF BInv
    <3>5. bypass'[d] = IF want[d] /\ fits[d] /\ Bit(d) < Bit(turn) THEN bypass[d] + 1
                                                                  ELSE bypass[d]
      BY <2>1
    <3>6. want[d] /\ fits[d] => bypass'[d] = Overtaken(d)
      BY <2>2, <3>5 DEF Overtaken
    <3>7. ~Exposed(d)'
      <4>1. Bit(d) < Bit(turn') => ~(Bit(turn') <= Bit(turn))
        BY <1>0, <2>1, <3>1, Priorities
      <4> QED BY <2>1, <2>2, <4>1 DEF Exposed
    <3>8. Overtaken(d)' = bypass'[d]
      BY <2>2 DEF Overtaken
    <3>9. Unheard(d)' => Unheard(d)
      BY <1>0, <2>1 DEF Unheard, BTypes
    <3>10. bypass'[d] <= 1 + outages
      <4>1. CASE want[d] /\ fits[d] /\ Bit(d) < Bit(turn)
        BY <3>3, <3>4, <3>6, <4>1 DEF Bypassed, Unheard
      <4>2. CASE ~(want[d] /\ fits[d] /\ Bit(d) < Bit(turn))
        BY <3>4, <3>5, <4>2 DEF Bypassed
      <4> QED BY <4>1, <4>2
    <3>11. Unheard(d) => bypass'[d] = Overtaken(d)
      BY <3>6 DEF Unheard
    <3> QED BY <2>1, <3>4, <3>7, <3>8, <3>9, <3>10, <3>11 DEF Bypassed
  <2> QED BY <1>0, <2>1, <2>2, <2>3, <2>4 DEF BInv
<1> QED BY <1>1, <1>2

\* The worker does not touch what the arbiter decides from, and frees nothing.
LEMMA WorkerBypass ==
    ASSUME HInv, BInv, WorkerStep
    PROVE  BInv'
<1> USE DEF exchange, scheduling, clients, environment
<1>1. UNCHANGED <<owner, pending, turn, lpc, want, fits, wifi, outages, bypass>>
  BY DEF WorkerStep, WorkerTake, WorkerPerform, WorkerComplete
<1>2. state' = "Idle" <=> state = "Idle"
  <2>1. CASE WorkerTake \/ WorkerPerform
    BY <2>1 DEF WorkerTake, WorkerPerform
  <2>2. CASE WorkerComplete
    BY <2>2 DEF WorkerComplete, HInv, WorkerAwake
  <2> QED BY <2>1, <2>2 DEF WorkerStep
<1>3. BTypes' /\ (Submitting' <=> Submitting)
  BY <1>1 DEF BInv, BTypes, Submitting
<1>4. ASSUME NEW d \in Clients PROVE Bypassed(d)'
  BY <1>1, <1>2, <1>3 DEF BInv, Bypassed, Unheard, Overtaken, Exposed
<1> QED BY <1>1, <1>3, <1>4 DEF BInv

\* A client that becomes due starts counting, and an outage excuses one more.
LEMMA EnvironmentBypass ==
    ASSUME HInv, BInv,
           (\E c \in Clients : BecomeDue(c)) \/ WifiLost \/ WifiBack \/ UNCHANGED vars
    PROVE  BInv'
<1> USE DEF exchange, scheduling, control, clients, environment, vars
<1>0. BTypes /\ (~wifi => outages >= 1)
  BY DEF BInv
<1>1. UNCHANGED <<state, owner, pending, turn, lpc>> /\ (Submitting' <=> Submitting)
  BY DEF BecomeDue, WifiLost, WifiBack, Submitting
<1>2. ASSUME NEW c \in Clients, BecomeDue(c) PROVE BInv'
  <2>1. /\ UNCHANGED <<wifi, outages>>
        /\ want' = [want EXCEPT ![c] = TRUE]
        /\ bypass' = [bypass EXCEPT ![c] = 0]
        /\ \E b \in BOOLEAN : fits' = [fits EXCEPT ![c] = b]
    BY <1>2 DEF BecomeDue
  <2>2. BTypes'
    BY <1>0, <1>1, <2>1 DEF BTypes
  <2>3. ASSUME NEW d \in Clients PROVE Bypassed(d)'
    <3>1. CASE d # c
      <4>1. want'[d] = want[d] /\ fits'[d] = fits[d] /\ bypass'[d] = bypass[d]
        BY <1>0, <2>1, <3>1 DEF BTypes
      <4> QED BY <1>1, <2>1, <4>1 DEF BInv, Bypassed, Unheard, Overtaken, Exposed
    <3>2. CASE d = c
      <4>1. bypass'[d] = 0 /\ outages \in Nat
        BY <1>0, <2>1, <3>2 DEF BTypes
      <4>2. Overtaken(d)' \in {0, 1}
        BY <4>1 DEF Overtaken
      <4> QED BY <1>0, <2>1, <4>1, <4>2 DEF Bypassed
    <3> QED BY <3>1, <3>2
  <2> QED BY <1>0, <1>1, <2>1, <2>2, <2>3 DEF BInv
<1>3. CASE WifiLost \/ WifiBack \/ UNCHANGED vars
  <2>1. /\ UNCHANGED <<want, fits, bypass>> /\ wifi' \in BOOLEAN
        /\ \/ outages' = outages /\ (~wifi' => ~wifi)
           \/ outages' = outages + 1
    BY <1>0, <1>3 DEF WifiLost, WifiBack, BTypes
  <2>2. BTypes' /\ (~wifi' => outages' >= 1)
    BY <1>0, <1>1, <2>1 DEF BTypes
  <2>3. ASSUME NEW d \in Clients PROVE Bypassed(d)'
    <3>1. bypass[d] \in Nat /\ outages \in Nat /\ Bypassed(d)
      BY <1>0 DEF BTypes, BInv
    <3>2. /\ Overtaken(d)' = Overtaken(d) /\ Overtaken(d) \in Nat
          /\ (Unheard(d)' <=> Unheard(d)) /\ (Exposed(d)' <=> Exposed(d))
      BY <1>1, <2>1, <3>1 DEF Overtaken, Unheard, Exposed
    <3> QED BY <2>1, <3>1, <3>2 DEF Bypassed
  <2> QED BY <1>1, <2>2, <2>3 DEF BInv
<1> QED BY <1>2, <1>3

\* Every step preserves the invariant.
LEMMA BStep == HInv /\ BInv /\ [Next]_vars => BInv'
<1> SUFFICES ASSUME HInv, BInv, [Next]_vars PROVE BInv'
  OBVIOUS
<1>1. CASE LoopStep
  BY <1>1, QuietBypass, CollectBypass, AskBypass, SubmitBypass DEF LoopStep
<1>2. CASE WorkerStep
  BY <1>2, WorkerBypass
<1>3. CASE (\E c \in Clients : BecomeDue(c)) \/ WifiLost \/ WifiBack \/ UNCHANGED vars
  BY <1>3, EnvironmentBypass
<1> QED BY <1>1, <1>2, <1>3 DEF Next

\* However long the backlog of the clients after it is, a client that is due
\* sees at most one request of lower priority go first, and one more for each
\* outage (HttpsArbiter::request and the order of the clients in loop()).
THEOREM PriorityIsHonoured == Spec => []BoundedBypass
<1>1. BInv => BoundedBypass
  BY DEF BInv, Bypassed, BoundedBypass
<1> QED BY <1>1, HInit, HStep, BInit, BStep, PTL DEF Spec
=============================================================================
