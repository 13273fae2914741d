-------------------------- MODULE JudgeBackendProofs --------------------------
(***************************************************************************)
(* Proofs about JudgeBackend for every set of sessions, requests, events   *)
(* and deliveries: what comes back of a manager call is recorded once, and *)
(* what the judge is shown of it stands and rests on what the service      *)
(* reported.                                                               *)
(***************************************************************************)
EXTENDS JudgeBackend, JudgeCallProofs

(* Types *)

\* What a JudgeRunStatus can end with.
Outcome == {"FAILED", "AUTHENTICATED_APPROVAL_REQUIRED", "MANAGER_RESPONSE_RECEIVED", "HUMAN_REVIEW"}

\* A delivery that started carries an event the service emitted.
WebhookTypes ==
    /\ events \in [EventIds -> Report \cup {NoReport}]
    /\ results \in [Runs -> Seq(Event)]
    /\ stage \in [Deliveries -> {"idle", "claim", "record", "ended", "crashed"}]
    /\ letter \in [Deliveries -> Event \cup {NoReport}]
    /\ emitted \subseteq Event
    /\ \A d \in Deliveries : stage[d] # "idle" => letter[d] \in emitted

ViewTypes ==
    /\ poll \in [Sessions -> {"idle", "results"}]
    /\ shown \in [Sessions -> SUBSET Outcome]

\* What a delivery is about to record is what its event was claimed with, it
\* is the only one to record it, and nobody recorded it before.
RecordInv ==
    /\ \A d \in Deliveries : stage[d] = "record" =>
          /\ events[letter[d].id] = letter[d].report
          /\ \A run \in Runs : \A i \in 1 .. Len(results[run]) :
                results[run][i].id # letter[d].id
    /\ \A c, d \in Deliveries :
          (stage[c] = "record" /\ stage[d] = "record" /\ letter[c].id = letter[d].id) => c = d
    /\ EventRecordedOnce

\* A result is of the run it is kept for, and of an event that was emitted.
ResultsEmitted ==
    \A run \in Runs : \A i \in 1 .. Len(results[run]) :
       results[run][i] \in emitted /\ results[run][i].run = run

\* The service reports on calls that were placed.
EmittedCalled == \A e \in emitted : \E r \in posted : session[r] = e.run

\* What the first result of s says, while there is one.
FirstState(s) == IF results[s] = <<>> THEN {} ELSE {StateOf(results[s][1])}

\* The judge of s was shown no other state than that of the first result, and
\* a failure only of a claim that failed.
ViewInv ==
    \A s \in Sessions :
        /\ shown[s] \ {"FAILED"} \subseteq FirstState(s)
        /\ "FAILED" \in shown[s] => HasFailed(s) /\ poll[s] = "idle"

BackendInv == ClaimInv /\ WebhookTypes /\ ViewTypes /\ RecordInv /\ ResultsEmitted
                  /\ EmittedCalled /\ ViewInv

-----------------------------------------------------------------------------
(* The backend makes the calls of JudgeCall *)

\* A step of the backend is a step of the call or leaves it alone.
LEMMA CallSteps == [BackendNext]_backendVars => [CallNext]_callVars
<1> SUFFICES ASSUME [BackendNext]_backendVars PROVE [CallNext]_callVars
  OBVIOUS
<1>1. CASE Calling
  BY <1>1 DEF Calling
<1>2. ASSUME NEW e \in Event, Emit(e) PROVE UNCHANGED callVars
  BY <1>2 DEF Emit
<1>3. ASSUME NEW d \in Deliveries, Webhook(d) PROVE UNCHANGED callVars
  BY <1>3 DEF Webhook
<1>4. ASSUME NEW s \in Sessions, Poll(s) PROVE UNCHANGED callVars
  BY <1>4 DEF Poll, PollFailed, PollSession, PollResults
<1>5. CASE UNCHANGED backendVars
  BY <1>5 DEF backendVars
<1>6. QED
  BY <1>1, <1>2, <1>3, <1>4, <1>5 DEF BackendNext

\* Whatever is true of every behaviour of the call alone is true in the whole
\* backend: neither the webhook nor a poll ever touches it.
THEOREM BackendImplementsCall == BackendSpec => CallSpec
<1>1. BackendInit => CallInit
  BY DEF BackendInit
<1>2. QED
  BY <1>1, CallSteps, PTL DEF BackendSpec, CallSpec
-----------------------------------------------------------------------------
(* An event is recorded once *)

EventInv == WebhookTypes /\ RecordInv

\* What of the webhook a step that is not a delivery's leaves alone, but for
\* further events.
OnlyEmits == UNCHANGED webhookVars /\ emitted \subseteq emitted' /\ emitted' \subseteq Event

LEMMA OnlyEmitsKeeps == EventInv /\ OnlyEmits => EventInv'
BY DEF EventInv, OnlyEmits, webhookVars, WebhookTypes, RecordInv, EventRecordedOnce

\* An event nobody claimed is not about to be recorded, nor in the results.
LEMMA UnclaimedIsNew ==
    ASSUME EventInv, NEW d \in Deliveries, ClaimEvent(d)
    PROVE  /\ letter[d] \in Event
           /\ events' = [events EXCEPT ![letter[d].id] = letter[d].report]
           /\ \A c \in Deliveries : stage[c] = "record" => letter[c].id # letter[d].id
           /\ \A run \in Runs : \A i \in 1 .. Len(results[run]) :
                 results[run][i].id # letter[d].id
<1> USE DEF EventInv, WebhookTypes, RecordInv, EventRecordedOnce, ClaimEvent, Unclaimed
<1>1. letter[d] \in Event
  OBVIOUS
<1>2. ASSUME NEW c \in Deliveries, stage[c] = "record" PROVE letter[c].id # letter[d].id
  <2>1. letter[c] \in Event /\ events[letter[c].id] = letter[c].report
    BY <1>2
  <2>2. letter[c].report # NoReport
    BY <2>1, BackendAssumption DEF Event
  <2>3. QED
    BY <2>1, <2>2
<1>3. ASSUME NEW run \in Runs, NEW i \in 1 .. Len(results[run])
      PROVE  results[run][i].id # letter[d].id
  <2>1. results[run][i] \in Event /\ results[run][i].report = events[results[run][i].id]
    BY <1>3
  <2>2. results[run][i].report # NoReport
    BY <2>1, BackendAssumption DEF Event
  <2>3. QED
    BY <2>1, <2>2
<1>4. QED
  BY <1>1, <1>2, <1>3

\* Claiming keeps what was recorded and what others are about to record.
LEMMA ClaimKeeps ==
    ASSUME EventInv, NEW d \in Deliveries, ClaimEvent(d), stage' = [stage EXCEPT ![d] = stage'[d]],
           stage'[d] \in {"ended", "record"}, UNCHANGED <<results, letter, emitted>>
    PROVE  EventInv'
<1> USE DEF EventInv
<1>1. WebhookTypes'
  <2>1. letter[d] \in Event
    BY UnclaimedIsNew
  <2>2. events' \in [EventIds -> Report \cup {NoReport}]
    BY <2>1 DEF WebhookTypes, ClaimEvent, Event
  <2>3. \A c \in Deliveries : stage'[c] # "idle" => stage[c] # "idle"
    BY DEF WebhookTypes, ClaimEvent
  <2>4. QED
    BY <2>2, <2>3 DEF WebhookTypes
<1>2. RecordInv'
  <2>1. \A id \in EventIds : id # letter[d].id => events'[id] = events[id]
    BY UnclaimedIsNew DEF WebhookTypes
  <2>2. events'[letter[d].id] = letter[d].report
    BY UnclaimedIsNew DEF WebhookTypes, Event
  <2>3. \A c \in Deliveries : stage'[c] = "record" => c = d \/ stage[c] = "record"
    BY DEF WebhookTypes
  <2>4. \A c \in Deliveries : stage[c] = "record" => letter[c].id \in EventIds
    BY DEF WebhookTypes, Event
  <2>5. \A run \in Runs : \A i \in 1 .. Len(results[run]) : results[run][i].id \in EventIds
    <3>1. \A run \in Runs : \A i \in 1 .. Len(results[run]) : results[run][i] \in Event
      BY DEF WebhookTypes
    <3>2. QED
      BY <3>1 DEF Event
  <2>6. ASSUME NEW c \in Deliveries, stage'[c] = "record"
        PROVE  /\ events'[letter[c].id] = letter[c].report
               /\ \A run \in Runs : \A i \in 1 .. Len(results[run]) :
                     results[run][i].id # letter[c].id
    <3>1. CASE c = d
      BY <2>2, <3>1, UnclaimedIsNew
    <3>2. CASE stage[c] = "record"
      <4>1. letter[c].id # letter[d].id /\ letter[c].id \in EventIds
        BY <2>4, <3>2, UnclaimedIsNew
      <4>2. events'[letter[c].id] = events[letter[c].id]
        BY <2>1, <4>1
      <4>3. QED
        BY <3>2, <4>2 DEF RecordInv
    <3>3. QED
      BY <2>3, <2>6, <3>1, <3>2
  <2>7. ASSUME NEW b \in Deliveries, NEW c \in Deliveries, stage'[b] = "record",
               stage'[c] = "record", letter[b].id = letter[c].id
        PROVE  b = c
    BY <2>3, <2>7, UnclaimedIsNew DEF RecordInv
  <2>8. EventRecordedOnce'
    BY <2>1, <2>5, UnclaimedIsNew DEF RecordInv, EventRecordedOnce
  <2>9. QED
    BY <2>6, <2>7, <2>8 DEF RecordInv
<1>3. QED
  BY <1>1, <1>2

\* What is in the results after d recorded: what was there, and d's event last.
LEMMA ResultsGrow ==
    ASSUME WebhookTypes, NEW d \in Deliveries, RecordResult(d)
    PROVE  /\ results' \in [Runs -> Seq(Event)]
           /\ \A run \in Runs : \A i \in 1 .. Len(results'[run]) :
                 \/ i \in 1 .. Len(results[run]) /\ results'[run][i] = results[run][i]
                 \/ run = letter[d].run /\ i = Len(results[run]) + 1 /\ results'[run][i] = letter[d]
           /\ \A run \in Runs : results[run] # <<>> =>
                 results'[run] # <<>> /\ results'[run][1] = results[run][1]
<1> USE DEF WebhookTypes, RecordResult
<1>1. letter[d] \in Event
  OBVIOUS
<1>2. letter[d].run \in Runs
  BY <1>1 DEF Event
<1>3. \A run \in Runs :
         results'[run] = IF run = letter[d].run THEN Append(results[run], letter[d]) ELSE results[run]
  BY <1>2
<1>4. results' \in [Runs -> Seq(Event)]
  BY <1>1, <1>2
<1>5. ASSUME NEW run \in Runs, NEW i \in 1 .. Len(results'[run])
      PROVE  \/ i \in 1 .. Len(results[run]) /\ results'[run][i] = results[run][i]
             \/ run = letter[d].run /\ i = Len(results[run]) + 1 /\ results'[run][i] = letter[d]
  <2>1. results[run] \in Seq(Event)
    OBVIOUS
  <2>2. QED
    BY <1>1, <1>3, <1>5, <2>1
<1>6. ASSUME NEW run \in Runs, results[run] # <<>>
      PROVE  results'[run] # <<>> /\ results'[run][1] = results[run][1]
  <2>1. results[run] \in Seq(Event) /\ Len(results[run]) \in Nat /\ Len(results[run]) > 0
    BY <1>6
  <2>2. CASE run = letter[d].run
    <3>1. results'[run] = Append(results[run], letter[d])
      BY <1>3, <2>2
    <3>2. Len(results'[run]) = Len(results[run]) + 1 /\ results'[run][1] = results[run][1]
      BY <1>1, <2>1, <3>1
    <3>3. QED
      BY <2>1, <3>2
  <2>3. CASE run # letter[d].run
    BY <1>3, <1>6, <2>3
  <2>4. QED
    BY <2>2, <2>3
<1>7. QED
  BY <1>4, <1>5, <1>6

\* The one delivery that may records its event where it was not.
LEMMA RecordKeeps ==
    ASSUME EventInv, NEW d \in Deliveries, RecordResult(d), emitted' = emitted
    PROVE  EventInv'
<1> USE DEF EventInv
<1>1. /\ stage[d] = "record" /\ UNCHANGED <<events, letter>>
      /\ stage' = [stage EXCEPT ![d] = "ended"]
  BY DEF RecordResult, Advance
<1>2. WebhookTypes'
  BY <1>1, ResultsGrow DEF WebhookTypes
<1>3. RecordInv'
  <2>1. \A c \in Deliveries : stage'[c] = "record" => c # d /\ stage[c] = "record"
    BY <1>1 DEF WebhookTypes
  <2>2. \A c \in Deliveries : stage'[c] = "record" => letter[c].id # letter[d].id
    BY <1>1, <2>1 DEF RecordInv
  <2>3. \A c \in Deliveries : stage'[c] = "record" =>
           \A run \in Runs : \A i \in 1 .. Len(results'[run]) : results'[run][i].id # letter[c].id
    BY <2>1, <2>2, ResultsGrow DEF RecordInv
  <2>4. \A run \in Runs : \A i \in 1 .. Len(results'[run]) :
           results'[run][i].report = events[results'[run][i].id]
    BY <1>1, ResultsGrow DEF RecordInv, EventRecordedOnce
  <2>5. ASSUME NEW run \in Runs, NEW other \in Runs, NEW i \in 1 .. Len(results'[run]),
               NEW j \in 1 .. Len(results'[other]), results'[run][i].id = results'[other][j].id
        PROVE  run = other /\ i = j
    <3> DEFINE Old(r, k) == k \in 1 .. Len(results[r]) /\ results'[r][k] = results[r][k]
               New(r, k) == r = letter[d].run /\ k = Len(results[r]) + 1 /\ results'[r][k] = letter[d]
    <3>1. (Old(run, i) \/ New(run, i)) /\ (Old(other, j) \/ New(other, j))
      BY ResultsGrow
    <3>2. ASSUME NEW r \in Runs, NEW k, Old(r, k) PROVE results'[r][k].id # letter[d].id
      BY <1>1, <3>2 DEF RecordInv
    <3>3. CASE Old(run, i) /\ Old(other, j)
      BY <2>5, <3>3 DEF RecordInv, EventRecordedOnce
    <3>4. CASE New(run, i) /\ New(other, j)
      BY <3>4
    <3>5. CASE (Old(run, i) /\ New(other, j)) \/ (New(run, i) /\ Old(other, j))
      BY <2>5, <3>2, <3>5
    <3> HIDE DEF Old, New
    <3>6. QED
      BY <3>1, <3>3, <3>4, <3>5
  <2>6. EventRecordedOnce'
    BY <1>1, <2>4, <2>5 DEF EventRecordedOnce
  <2>7. QED
    BY <1>1, <2>1, <2>3, <2>6 DEF RecordInv
<1>4. QED
  BY <1>2, <1>3

\* Every step of a delivery keeps the record of events.
LEMMA DeliveryKeeps ==
    ASSUME EventInv, NEW d \in Deliveries, Webhook(d)
    PROVE  EventInv'
<1> USE DEF EventInv
<1>1. emitted' = emitted
  BY DEF Webhook
<1>2. ASSUME NEW e \in emitted, Deliver(d, e) PROVE EventInv'
  <2>1. e \in Event
    BY DEF WebhookTypes
  <2>2. \A c \in Deliveries : stage'[c] = "record" => stage[c] = "record" /\ letter'[c] = letter[c]
    BY <1>2 DEF Deliver, Advance, WebhookTypes
  <2>3. WebhookTypes'
    BY <1>1, <1>2, <2>1 DEF Deliver, Advance, WebhookTypes
  <2>4. RecordInv'
    BY <1>2, <2>2 DEF Deliver, RecordInv, EventRecordedOnce
  <2>5. QED
    BY <2>3, <2>4
<1>3. CASE EventRepeated(d) \/ IngestCrash(d)
  <2>1. /\ UNCHANGED <<events, results, letter>> /\ stage[d] # "idle"
        /\ \E to \in {"ended", "crashed"} : stage' = [stage EXCEPT ![d] = to]
    BY <1>3 DEF EventRepeated, IngestCrash, Advance
  <2>2. WebhookTypes'
    BY <1>1, <2>1 DEF WebhookTypes
  <2>3. RecordInv'
    BY <2>1 DEF WebhookTypes, RecordInv, EventRecordedOnce
  <2>4. QED
    BY <2>2, <2>3
<1>4. CASE EventSetAside(d) \/ EventUsable(d)
  <2>1. /\ ClaimEvent(d) /\ UNCHANGED <<results, letter, emitted>>
        /\ stage' = [stage EXCEPT ![d] = stage'[d]] /\ stage'[d] \in {"ended", "record"}
    BY <1>1, <1>4 DEF EventSetAside, EventUsable, Advance, WebhookTypes
  <2>2. QED
    BY <2>1, ClaimKeeps
<1>5. CASE RecordResult(d)
  BY <1>1, <1>5, RecordKeeps
<1>6. QED
  BY <1>2, <1>3, <1>4, <1>5 DEF Webhook, Ingest

\* So does every other step: the service's emits, and nothing else of them.
LEMMA EventStep == EventInv /\ [BackendNext]_backendVars => EventInv'
<1> SUFFICES ASSUME EventInv, [BackendNext]_backendVars PROVE EventInv'
  OBVIOUS
<1>1. emitted \subseteq Event
  BY DEF EventInv, WebhookTypes
<1>2. CASE Calling \/ UNCHANGED backendVars
  BY <1>1, <1>2, OnlyEmitsKeeps DEF Calling, backendVars, OnlyEmits
<1>3. ASSUME NEW e \in Event, Emit(e) PROVE EventInv'
  BY <1>1, <1>3, OnlyEmitsKeeps DEF Emit, OnlyEmits
<1>4. ASSUME NEW s \in Sessions, Poll(s) PROVE EventInv'
  BY <1>1, <1>4, OnlyEmitsKeeps DEF Poll, PollFailed, PollSession, PollResults, OnlyEmits
<1>5. QED
  BY <1>2, <1>3, <1>4, DeliveryKeeps DEF BackendNext

LEMMA EventInvariant == BackendSpec => []EventInv
<1>1. BackendInit => EventInv
  BY DEF BackendInit, WebhookInit, EventInv, WebhookTypes, RecordInv, EventRecordedOnce
<1>2. QED
  BY <1>1, EventStep, PTL DEF BackendSpec

\* However often an event is delivered and by whichever instances at once, it
\* is recorded at most once and with the body it was claimed with
\* (events.claim of DynamoJudgeWebhookEventStore, ingest).
THEOREM RecordedOnce == BackendSpec => []EventRecordedOnce
<1>1. EventInv => EventRecordedOnce
  BY DEF EventInv, RecordInv
<1>2. QED
  BY <1>1, EventInvariant, PTL
-----------------------------------------------------------------------------
(* What is shown rests on a call and on what was reported of it *)

\* A result is of the run it is kept for, and of an event that was emitted.
LEMMA ResultsStep ==
    EventInv /\ ResultsEmitted /\ [BackendNext]_backendVars => ResultsEmitted'
<1> SUFFICES ASSUME EventInv, ResultsEmitted, [BackendNext]_backendVars PROVE ResultsEmitted'
  OBVIOUS
<1>1. ASSUME results' = results, emitted \subseteq emitted' PROVE ResultsEmitted'
  BY <1>1 DEF ResultsEmitted
<1>2. CASE Calling \/ UNCHANGED backendVars
  BY <1>1, <1>2 DEF Calling, backendVars, webhookVars
<1>3. ASSUME NEW e \in Event, Emit(e) PROVE ResultsEmitted'
  BY <1>1, <1>3 DEF Emit, webhookVars
<1>4. ASSUME NEW d \in Deliveries, Webhook(d) PROVE ResultsEmitted'
  <2>1. emitted' = emitted
    BY <1>4 DEF Webhook
  <2>2. CASE RecordResult(d)
    <3>1. letter[d] \in emitted
      BY <2>2 DEF RecordResult, EventInv, WebhookTypes
    <3>2. QED
      BY <2>1, <2>2, <3>1, ResultsGrow DEF EventInv, ResultsEmitted
  <2>3. CASE ~ RecordResult(d)
    BY <1>1, <1>4, <2>1, <2>3
    DEF Webhook, Ingest, Deliver, EventRepeated, EventSetAside, EventUsable, IngestCrash
  <2>4. QED
    BY <2>2, <2>3
<1>5. ASSUME NEW s \in Sessions, Poll(s) PROVE ResultsEmitted'
  BY <1>1, <1>5 DEF Poll, PollFailed, PollSession, PollResults, webhookVars
<1>6. QED
  BY <1>2, <1>3, <1>4, <1>5 DEF BackendNext

\* A call that was placed stays placed, and for the same session.
LEMMA PostedKept ==
    ClaimInv /\ [CallNext]_callVars =>
        posted \subseteq posted' /\ \A r \in posted : session'[r] = session[r]
<1> SUFFICES ASSUME ClaimInv, [CallNext]_callVars
             PROVE  posted \subseteq posted' /\ \A r \in posted : session'[r] = session[r]
  OBVIOUS
<1> USE DEF ClaimInv, TypeInv, CallTypeOK, HolderInv, item, request, environment, Goto, Return
<1>1. ASSUME NEW s \in Sessions, Authorize(s) \/ Revoke(s)
      PROVE  posted' = posted /\ session' = session
  BY <1>1 DEF Authorize, Admit, Denied, Create, Revoke
<1>2. ASSUME NEW r \in Requests, NEW s \in Sessions, NEW k \in Keys, Start(r, s, k)
      PROVE  posted' = posted /\ \A q \in posted : session'[q] = session[q]
  BY <1>2 DEF Start
<1>3. ASSUME NEW r \in Requests, Proceed(r) \/ Crash(r)
      PROVE  posted \subseteq posted' /\ session' = session
  BY <1>3
  DEF Proceed, ClaimInvalid, ClaimDuplicate, ClaimConsumed, ClaimFree, ClaimWins, ClaimLoses,
      BudgetPaid, BudgetExhausted, Post, Answered, CallThrows, RecordTask, RecordFailure, Crash
<1>4. CASE Tick \/ FlipSwitch \/ UNCHANGED callVars
  BY <1>4 DEF Tick, FlipSwitch, callVars
<1>5. QED
  BY <1>1, <1>2, <1>3, <1>4 DEF CallNext

\* The service reports on calls that were placed.
LEMMA EmittedStep ==
    ClaimInv /\ EmittedCalled /\ [BackendNext]_backendVars => EmittedCalled'
<1> SUFFICES ASSUME ClaimInv, EmittedCalled, [BackendNext]_backendVars PROVE EmittedCalled'
  OBVIOUS
<1>1. posted \subseteq posted' /\ \A r \in posted : session'[r] = session[r]
  BY CallSteps, PostedKept
<1>2. \A e \in emitted' : e \in emitted \/ \E r \in posted : session[r] = e.run
  BY DEF BackendNext, Calling, Emit, Webhook, Poll, PollFailed, PollSession, PollResults, backendVars
<1>3. \A e \in emitted' : \E r \in posted : session[r] = e.run
  BY <1>2 DEF EmittedCalled
<1>4. QED
  BY <1>1, <1>3 DEF EmittedCalled

\* The first result stays the first.
LEMMA FirstStands ==
    ASSUME EventInv, [BackendNext]_backendVars, NEW s \in Sessions
    PROVE  FirstState(s) \subseteq FirstState(s)'
<1>1. CASE results' = results
  BY <1>1 DEF FirstState
<1>2. CASE \E d \in Deliveries : RecordResult(d)
  <2>1. s \in Runs
    BY BackendAssumption
  <2>2. results[s] # <<>> => results'[s] # <<>> /\ results'[s][1] = results[s][1]
    BY <1>2, <2>1, ResultsGrow DEF EventInv
  <2>3. QED
    BY <2>2 DEF FirstState
<1>3. results' = results \/ \E d \in Deliveries : RecordResult(d)
  BY DEF BackendNext, Calling, Emit, Webhook, Poll, PollFailed, PollSession, PollResults,
         backendVars, webhookVars, Ingest, Deliver, EventRepeated, EventSetAside, EventUsable,
         IngestCrash
<1>4. QED
  BY <1>1, <1>2, <1>3

\* A claim that failed stays failed.
LEMMA FailureStands ==
    ASSUME ClaimInv, [BackendNext]_backendVars, NEW s \in Sessions, HasFailed(s)
    PROVE  HasFailed(s)'
<1>1. FinalStep \/ UNCHANGED callVars
  BY CallSteps, FinalAction
<1>2. CASE UNCHANGED callVars
  BY <1>2 DEF callVars, item, HasFailed
<1>3. CASE FinalStep
  BY <1>3 DEF FinalStep, HasFailed
<1>4. QED
  BY <1>1, <1>2, <1>3

LEMMA StateIsOutcome == \A e : StateOf(e) \in Outcome \ {"FAILED"}
BY DEF StateOf, Outcome

\* What a poll of s does to what is shown.
LEMMA PollShows ==
    ASSUME ViewTypes, ViewInv, NEW s \in Sessions, Poll(s)
    PROVE  /\ ViewTypes'
           /\ shown'[s] \ {"FAILED"} \subseteq FirstState(s)
           /\ "FAILED" \in shown'[s] => HasFailed(s) /\ poll'[s] = "idle"
           /\ "FAILED" \in shown[s] => shown'[s] = shown[s]
           /\ \A t \in Sessions : t # s => shown'[t] = shown[t] /\ poll'[t] = poll[t]
<1> USE DEF ViewTypes, ViewInv, Show
<1>1. CASE PollFailed(s)
  <2>1. shown' = [shown EXCEPT ![s] = @ \cup {"FAILED"}] /\ poll' = poll /\ HasFailed(s) /\ poll[s] = "idle"
    BY <1>1 DEF PollFailed
  <2>2. QED
    BY <2>1 DEF Outcome
<1>2. CASE PollSession(s)
  BY <1>2 DEF PollSession
<1>3. CASE PollResults(s)
  <2>1. "FAILED" \notin shown[s] /\ poll' = [poll EXCEPT ![s] = "idle"]
    BY <1>3 DEF PollResults
  <2>2. CASE results[s] = <<>>
    BY <1>3, <2>1, <2>2 DEF PollResults
  <2>3. CASE results[s] # <<>>
    <3>1. PICK state \in Outcome \ {"FAILED"} :
             FirstState(s) = {state} /\ shown' = [shown EXCEPT ![s] = @ \cup {state}]
      BY <1>3, <2>3, StateIsOutcome DEF PollResults, FirstState
    <3>2. QED
      BY <2>1, <3>1
  <2>4. QED
    BY <2>2, <2>3
<1>4. QED
  BY <1>1, <1>2, <1>3 DEF Poll

\* Only a poll shows anything.
LEMMA OnlyPollsShow ==
    ASSUME [BackendNext]_backendVars, \A s \in Sessions : ~ Poll(s)
    PROVE  shown' = shown /\ poll' = poll
BY DEF BackendNext, Calling, Emit, Webhook, backendVars

LEMMA ViewStep ==
    ClaimInv /\ EventInv /\ ViewTypes /\ ViewInv /\ [BackendNext]_backendVars
        => ViewTypes' /\ ViewInv'
<1> SUFFICES ASSUME ClaimInv, EventInv, ViewTypes, ViewInv, [BackendNext]_backendVars
             PROVE  ViewTypes' /\ ViewInv'
  OBVIOUS
<1>1. \A s \in Sessions : FirstState(s) \subseteq FirstState(s)' /\ (HasFailed(s) => HasFailed(s)')
  BY FirstStands, FailureStands
<1>2. CASE \A s \in Sessions : ~ Poll(s)
  <2>1. shown' = shown /\ poll' = poll
    BY <1>2, OnlyPollsShow
  <2>2. QED
    BY <1>1, <2>1 DEF ViewTypes, ViewInv
<1>3. ASSUME NEW s \in Sessions, Poll(s) PROVE ViewTypes' /\ ViewInv'
  <2>1. ASSUME NEW t \in Sessions
        PROVE  /\ shown'[t] \ {"FAILED"} \subseteq FirstState(t)
               /\ "FAILED" \in shown'[t] => HasFailed(t) /\ poll'[t] = "idle"
    BY <1>3, PollShows DEF ViewInv
  <2>2. ViewInv'
    BY <1>1, <2>1 DEF ViewInv
  <2>3. QED
    BY <1>3, <2>2, PollShows
<1>4. QED
  BY <1>2, <1>3

\* The inductive invariant of the whole backend.
LEMMA BackendInvariant == BackendSpec => []BackendInv
<1>1. BackendInit => BackendInv
  <2>1. BackendInit => ClaimInv
    BY ClaimInit DEF BackendInit
  <2>2. BackendInit => WebhookTypes /\ RecordInv /\ ResultsEmitted /\ EmittedCalled
    BY DEF BackendInit, WebhookInit, WebhookTypes, RecordInv, EventRecordedOnce,
           ResultsEmitted, EmittedCalled
  <2>3. BackendInit => ViewTypes /\ ViewInv
    BY DEF BackendInit, ViewTypes, ViewInv
  <2>4. QED
    BY <2>1, <2>2, <2>3 DEF BackendInv
<1>2. BackendInv /\ [BackendNext]_backendVars => BackendInv'
  BY CallSteps, ClaimStep, EventStep, ResultsStep, EmittedStep, ViewStep DEF BackendInv, EventInv
<1>3. QED
  BY <1>1, <1>2, PTL DEF BackendSpec

\* What was shown of a recorded result stands: later events for the run,
\* conflicting ones included, never replace it (InMemoryManagerResultSink.read).
THEOREM ResultShownStands == BackendSpec => []ResultStands
<1>1. ASSUME ViewInv, NEW s \in Sessions PROVE Cardinality(shown[s] \ {"FAILED"}) <= 1
  <2>1. shown[s] \ {"FAILED"} = {} \/ \E x : shown[s] \ {"FAILED"} = {x}
    BY <1>1 DEF ViewInv, FirstState
  <2>2. CASE shown[s] \ {"FAILED"} = {}
    <3>1. Cardinality(shown[s] \ {"FAILED"}) = 0
      BY <2>2, FS_EmptySet
    <3>2. QED
      BY <3>1
  <2>3. ASSUME NEW x, shown[s] \ {"FAILED"} = {x}
        PROVE  Cardinality(shown[s] \ {"FAILED"}) <= 1
    <3>1. Cardinality(shown[s] \ {"FAILED"}) = 1
      BY <2>3, FS_Singleton
    <3>2. QED
      BY <3>1
  <2>4. QED
    BY <2>1, <2>2, <2>3
<1>2. BackendInv => ResultStands
  BY <1>1 DEF BackendInv, ResultStands
<1>3. QED
  BY <1>2, BackendInvariant, PTL

\* A judge is shown a decision only if their session placed a call and the
\* service reported that decision of it, with evidence
\* (getRunStatus, createManagerEscalationRecord).
THEOREM DecisionEvidenced == BackendSpec => []DecisionIsEvidenced
<1>1. ASSUME BackendInv, NEW s \in Sessions, shown[s] \ {"FAILED"} # {}
      PROVE  \E e \in emitted : e.run = s /\ shown[s] \ {"FAILED"} \subseteq {StateOf(e)}
  <2>1. results[s] # <<>> /\ shown[s] \ {"FAILED"} \subseteq {StateOf(results[s][1])}
    BY <1>1 DEF BackendInv, ViewInv, FirstState
  <2>2. results[s] \in Seq(Event) /\ s \in Runs
    BY <1>1, BackendAssumption DEF BackendInv, WebhookTypes
  <2>3. 1 \in 1 .. Len(results[s])
    BY <2>1, <2>2
  <2>4. results[s][1] \in emitted /\ results[s][1].run = s
    BY <1>1, <2>2, <2>3 DEF BackendInv, ResultsEmitted
  <2>5. QED
    BY <2>1, <2>4
<1>2. BackendInv => DecisionIsEvidenced
  BY <1>1 DEF BackendInv, EmittedCalled, DecisionIsEvidenced, StateOf
<1>3. QED
  BY <1>2, BackendInvariant, PTL

FailureKept == \A s \in Sessions : "FAILED" \in shown[s] => shown'[s] = shown[s]

\* Once the judge was shown a failure nothing else is ever shown: a result
\* that arrives after all does not revive the run (getRunStatus).
THEOREM FailureShownIsFinal == BackendSpec => FailureIsFinal
<1>1. BackendInv /\ [BackendNext]_backendVars => [FailureKept]_backendVars
  BY OnlyPollsShow, PollShows DEF BackendInv, FailureKept
<1>2. QED
  BY <1>1, BackendInvariant, PTL DEF BackendSpec, FailureIsFinal, FailureKept
=============================================================================
