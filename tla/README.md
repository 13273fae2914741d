# A TLA+ project for StockGuard

StockGuard lets a visitor (a *judge*) talk to a procurement assistant, has deterministic
code quote and evaluate a purchase, and asks a human before anything is bought. Around
that core it places telephone calls to suppliers and managers through a calling service.
This directory models the code under `src/` of the repository in TLA+, checks the models
with TLC on small instances, and proves the most important results with TLAPS.

Paths below are relative to the repository; `PROJECT.json` maps each definition to the
lines it stands for.

## 1. Inventory

| part | where | state it keeps | operations | hard behaviours |
|---|---|---|---|---|
| procurement session store | `src/server/procurement/sessionStore.ts`, `aws/DynamoProcurementSessionStore.ts` | one session: outcome, expiry, quotes, evaluations, consumed tokens with their purchase requests, approvals, audit | create, get, appendAudit, putQuote, putEvaluation, claimConfirmation, putApproval, complete | several instances write at once; only two writes are conditional; a batch of audit events is several writes |
| procurement orchestrator and tools | `ProcurementOrchestrator.ts`, `tools.ts` | nothing across calls: local variables of calls in flight | startSession, handleUtterance, confirm, escalate; five tools | interleaving at every await, expiry checked before it is used, replay of confirmations, a crash between claim and complete |
| Lex voice channel | `lexVoiceHandler.ts`, `utterance.ts`, `catalog.ts` | session attributes carried by the conversation | one handler per turn | stale evaluation and token in the attributes, a turn that throws after it stored something |
| judge backend | `src/server/judge/backend/`, `src/server/judge/aws/` | judge session, claim of the one manager call, webhook events, results, rate-limit windows | createSession, startManagerCall, getRunStatus, webhook ingest | call placed but claim never completed, duplicated and conflicting webhooks, crash between event claim and result |
| supplier workflow | `src/server/workflow/` | workflow state, offers, attempts, idempotency keys | run, executeSupplierCall, cancel | timeout and retry with a new key, cancellation after the last check, partial failure |
| calling service client | `src/server/calle/` | in-flight calls, budget | place call, poll, cancel | late answers |
| manager escalation | `src/server/escalation/`, `workflow/escalation/` | escalation result | validate, escalate | contradictory results |
| policy, selection, forecast | `src/domain/` | none (pure) | validateOffer, selectOffer, forecast, normalise | order of comparison, boundaries |
| decision proof | `src/security/` | hash chain | createAuditChain, verifyDecisionProof | truncation, a trail hashed anew |
| judge authentication | `src/server/judge-auth/`, `infrastructure/terraform/lambda/` | access code, tokens, attempt window | login, authorize, revoke | rotation of the code between two reads, expiry, lost answers |
| voice sessions | `src/server/webrtc/` | one grant per judge session, hourly window | start, consume | contact started before its grant is claimed |
| judge portal page | `src/ui/judge-portal/` | React state and refs of channel, session and call | run, decide, sign in and out, start and end voice, reset | answers that arrive after Reset or a newer run |
| guided walkthrough | `src/ui/walkthrough/` | step, marks, products of the phases | navigate, run a step, tamper, choose an answer, restart | phases that end after the page has moved on |
| supplier simulator | `src/server/supplier-simulator/` | requests under two keys, profiles, attributes of a call | create a request, change a profile, route a code, answer | profiles that change between the reads of a turn, codes used again |
| live panels | `src/ui/` | polling state | - | presentation |
| scripts and infrastructure | `scripts/`, `infrastructure/` | - | deployment, qualification runs | - |

How they interact. A browser (text) or an Amazon Connect/Lex conversation (voice) calls
the orchestrator, which owns no state of its own and reaches the session store for
everything; requests on one session may be served by different instances at the same
time, and the conditional writes of the store are the only synchronisation. The judge
backend guards the single real telephone call of a session by a claim in its own store
and learns the result from a webhook. The supplier workflow drives the calling service
and then the domain functions, and asks the manager escalation when policy requires a
human.

What makes each part correct: a confirmation token buys once and a run ends once (store,
orchestrator); a purchase rests on an accepted evaluation and an escalation never orders
(tools); an answer is in the audit trail before it is given (orchestrator); one judge
session places one call and one result is final (judge backend); an order only follows a
validated offer and a cancelled workflow does not order (workflow); voice contacts go back
to a sign-in and stay under their ceiling (judge authentication, voice sessions); "yes" buys
the offer that was last heard, or last shown (voice channel, portal page); a test call hears of the one request its code stands for, at the
version it was made for (simulator); a step that is marked done has produced what it promises, and a proof that is shown to verify does
(walkthrough, escalation, proof).

## 2. Plan

In the order of importance, all of it done:

1. `SessionStore`, `ProcurementRun`, abstract specification `PurchaseLedger`; proofs in
   `ProcurementRunProofs`.
2. `JudgeCall` (the one telephone call of a judge session), `JudgeWebhook` (results coming
   back), `JudgeBackend` (both composed); proofs about the first in `JudgeCallProofs`, about
   the whole in `JudgeBackendProofs`.
3. `OfferSelection` (pure rules), `WorkflowTable` (the states of a run), `SupplierWorkflow`
   (what `ProcurementWorkflow.ts` does with them); proofs in `SupplierWorkflowProofs`.
4. `VoicePortal` (sign-in, authorizer and voice sessions over one table); proofs in
   `VoicePortalProofs`.
5. `SpokenRequest` (what a sentence asks for) and `VoiceChannel` (the conversation);
   `JudgePortal` (the page); `MCJudgeChannels` checks the two channels, proofs about both in
   `JudgeChannelsProofs`.
6. `SupplierSimulator` (the supplier that answers test calls), checked by `MCSupplierCalls`
   beside the workflow that calls suppliers, with whose policy it is read; proofs in
   `SupplierSimulatorProofs`.
7. `DecisionProof` and `ManagerEscalation`, which `JudgeWalkthrough` (the guided page) runs;
   proofs in `JudgeWalkthroughProofs`.

What would come next: an abstract specification of the one telephone call, implemented by
`JudgeCall`, as `PurchaseLedger` is by the core; the parser of `SpokenRequest` over all
sentences of its grammar as a theorem; `VoicePortal` composed with `VoiceChannel` through the
contact, once the contact flow hands its attributes on (section 4, last paragraph).

## 3. The modules

### SessionStore

The durable record of one session, one action per operation of the port as
`DynamoProcurementSessionStore` implements it. Each action is one write (plus the
consistent reads that only look up the expiry). `ClaimConfirmation` and `CompleteRun` are
the two conditional writes; `ConfirmationTaken` and `AlreadyCompleted` are their failed
conditions. Identifiers minted by the server (`newId`) are fresh, so an item is named by
the call that minted it; a confirmation token is issued with its evaluation, so both have
the name of the turn.

### ProcurementRun

The orchestrator and the tools for a set `Calls` of concurrent requests. A call is a
program counter `step`, and the local variables that survive an await: the arguments
(`target`, `token`), the clock reading (`readAt`), the outcome and the decisive audit event
of its batch, and the purchase request it will return (`told`). Each action is the code
between two awaits that touch the store, the supplier or a hash; what a call did not keep
is read again from the store.

| steps of a call | code |
|---|---|
| `UtteranceOutOfDomain/Ambiguous/Resolved` | `handleUtterance` up to the first store access of a tool |
| `QuoteRefused`, `QuoteAsked`, `SupplierFails`, `SupplierAnswers` | `getSupplierQuote` |
| `EvaluateFails`, `EvaluateAccepted/HumanReview/Rejected` | `evaluatePurchase` and the tail of `handleUtterance` |
| `Decline`, `Confirm` | `confirm` |
| `CreateRefused/Replayed/Cleared`, `QuoteLapsed/Verified`, `ClaimWins/Loses` | `createPurchaseRequest` |
| `Escalate`, `ApprovalRefused/Found/Needed/Put` | `escalate`, `requestHumanApproval` |
| `CompleteWins/Loses`, `AppendWon`, `AppendCompleted`, `EmitMetrics`, `Append` | `completeRun`, `finishTurn` |

Abstractions. The verdict of the policy and the result of the catalog search are
nondeterministic. A batch of audit events is represented by its decisive event and, for
the call that completes the run, the final `RUN_COMPLETED`. Confirmations may carry any
evaluation a turn has returned with any token a turn has returned, or none that was ever
issued. A call that dies, or whose store access throws, stops where it is.
`createPurchaseRequest` reads the clock for the quote's expiry (`tools.ts:357`) and again for
`createdAt` (`:635`), with nothing but the return from a settled await in between: one reading
in the model, so the timing clause of `PurchaseIsApproved` is exact up to that gap.

### PurchaseLedger

What the core promises, without calls, clock or crashes: a token buys once (`Buy`), every
later submission is told the original purchase (`Remind`), the run is closed once and as
accepted only after a purchase (`Close`). `ProcurementRun!ActsAsLedger` is the refinement,
with the ledger read from the CONFIRM# items, the answers from what calls were told, and
the ending from METADATA.

### JudgeCall

A judge session `s` (`Sessions`), the requests that ask for its telephone call (`Requests`)
and the idempotency keys they send (`Keys`). The state is what `aws/dynamo.ts` stores
(session status and expiry, claims by key, the budget counter, attempt windows) and the
local variables of requests in flight.

| steps of a request | code |
|---|---|
| `Admit`, `Denied`, `Create`, `Revoke` | `createSession`: the attempt window, the verifier, the session item; `revoke` |
| `Start` | `startManagerCall` up to the claim, kill switch included |
| `ClaimInvalid/Duplicate/Consumed/Free` | the read that classifies the session (`classifySession`) |
| `ClaimWins/Loses` | the conditional update of the session item, with its expiry in whole seconds |
| `BudgetPaid/Exhausted` | `GlobalCallBudget.claim` |
| `Post`, `Answered`, `CallThrows` | the adapter; the service may take a call whose answer is lost |
| `RecordTask`, `RecordFailure` | `completeClaim` and the answer to the judge |

Abstractions. A caller holds the token of the session it names. Keys are private to a
session, as `liveJudgeSession.ts` builds them, so the adapter's memory of keys is never
reached. A run whose context lives in another instance is refused; the model lets any
request be refused so. Reading the session for authentication and reading it for the claim
are one read.

### JudgeWebhook and JudgeBackend

`JudgeWebhook` has the events of a call, their claims and the recorded result: a delivery
is claimed (`EVENT#`), recorded, or answered as duplicate or conflict. `JudgeBackend`
composes it with `JudgeCall`: the calling service emits events for calls that were really
placed (external), deliveries are duplicated, delayed and lost within `MaxLost`, and
`Poll` is `getRunStatus`, whose answers `shown` remembers. The 24 hours after which events
are forgotten are left out.

### OfferSelection

`RoundCurrency`, the thirteen checks of `policy.ts`, their verdict, and the stable sort of
`selection.ts` as a choice of the least offer. Prices are whole cents, exchange rates
hundredths. A field nobody stated and one whose excerpt is not in the transcript behave
the same in every check, so both are "not verified".

### WorkflowTable

The transition table of `stateMachine.ts`, shared by the two parts that walk it.

### SupplierWorkflow

One workflow id: every key of the run store, the calling adapter and the order adapter
begins with it, so ids share nothing. `Invocations` of `run` with this id are concurrent
and give way only at their awaits.

| steps of an invocation | code |
|---|---|
| `RunDuplicate/Blocked/Unneeded/Starts` | `run` up to the first POST: no await in between |
| `PostRefused/Accepted/Answered/Unreadable/Fails` | `startSupplierCall` and the adapter's checks and counter |
| `PollCancelled/Sent/Terminal/Ringing/Exhausted/Fails` | the polling loop of `executeSupplierCall`, its sleep and its reads |
| `AttemptEnds`, `OfferReceived`, `Decide` (inside the above) | retry, next supplier, validation, selection, last look at the cancellation, order request |
| `OrderCreated`, `OrderFails` | the order adapter, which creates one order per key, and `finish` |
| `Cancel`, `AuthorizationExpires`, `CallEnds` | the operator, the clock, the calling service (external) |

Abstractions. An outcome TIMEOUT is not told apart from FAILED: both are retried and an
offer does not carry it. The audit timeline and its deduplication of identical entries
are left out. There is at least one supplier. A process restart is not modelled: nothing
of this part is persisted, and live callers mint fresh ids.

### SupplierSimulator

The synthetic supplier: its table (`rfqItem`, `routingItem`, `profileData`), the quote its
service makes, and the Lex handler's dialogue `talk` with the attributes it hands from bot to
bot. `issued` remembers every request ever created, for the properties.

| steps | code |
|---|---|
| `CreateRfq`, `UpdateProfile` | the transaction over the two keys of a request; the conditional replacement of a profile |
| `DropRfq`, `DropRouting` | the table's time to live, one item at a time (external) |
| `Dial`, `TurnRefused`, `Identify`, `Ask` | the contact flow opens a bot (external); the guards of the handler; its two branches up to the first read |
| `RfqRead/Rejected`, `Routes`, `Quotes`, `ProfileRejected` | `resolveContext` and `resolveRoutingContext` with their two reads, `respond`, the check of the locale |
| `Speaks`, `TurnFails` | the answer, worded by the model or as a fallback; a throw |

Abstractions. A quote is its state and version, from which `QuoteFor` computes the figures, in
days before the stockout. The wording is left out: the model that words an answer gets the
same facts as the fallback. Operators create a request at the version its profile has then.
`MCSupplierCalls` puts the simulator beside the workflow: only the telephone is between them,
so a behaviour is one of either.

### VoicePortal

The protected backend of the portal: sign-ins (`Logins`) and requests for a voice session
(`Starts`) as handlers in flight over the table they share.

| steps | code |
|---|---|
| `LoginArrives`, `LoginThrottled/Counted` | `login` up to the attempt counter of the source address |
| `CodeRejected/Accepted`, `Identified` | `StableAccessCodeVerifier`, which reads the secret twice |
| `LoginStored/Duplicate`, `Revoke` | the put of the session under the hash of its token; `revoke` |
| `VoiceAsked`, `Authorized`, `AuthorizationDenied` | the gateway's authorizer |
| `SessionCreated`, `SessionExpired/Alive` | the endpoint creates the procurement session and the contract looks at its expiry |
| `VoiceThrottled/Counted`, `ContactStarted/Fails`, `GrantIssued/Taken`, `Consume` | `VoiceSessionService.start`: counter, contact, grant; the port's `consume` |
| `LoginRetried`, `StartRetried` | a write whose answer is lost and which the client library sends again |
| `LoginFails`, `StartFails` | a throw, or the end of the instance |

Abstractions. An access code is the number of the secret it opens, and so is the identity
derived from the secret. What is minted is fresh and bears the name of its handler. The
counter's condition lets a first unit through whatever the maximum, hence the assumption
that no maximum is zero, which the deployment's variables validate as well.

### SpokenRequest and VoiceChannel

`SpokenRequest` is `interpretUtterance` and `searchCatalog` over sentences as sequences of
words: the first number that is no deadline, the deadline and its unit, what is left when
fillers are stripped, and the best score in the catalog. The vocabulary is a parameter.

`VoiceChannel` is one conversation, turn by turn. `Take` begins a turn (`Guarded`,
`Silence`, `Request`, `Yes`, `No`), the handler's copy of the attributes is `working`, and
`StartSession`, `Explains`, `Offers`, `NeedsHuman`, `Escalate`, `Decline`, `Confirm` and their
failures are the calls it makes. The core is used through its methods with everything
they store; a method that throws has stored a prefix of it. Nobody else knows the
procurement session of a conversation, so its methods do not interleave.

### JudgePortal

The page `JudgePortalPanel`: `Run` / `Started` / `Said` / `Reported` / `RunThrows` are the run over
the text channel, `Decide` / `Decided` / `DecisionReported` / `DecisionThrows` a click on "Yes" or
"No", which captures the refs and the turn on the screen, and the remaining actions are
sign-in, the start and end of a voice call, its meeting, and `Reset`. Handlers are split at
their awaits and write to refs and screen as they are by then. `MCJudgeChannels` puts the
page and the line side by side: they share no state, so a behaviour is one of either.

### DecisionProof, ManagerEscalation, JudgeWalkthrough

`DecisionProof` builds and verifies the signed record: audit chain, root, payload hash,
signature. SHA-256 is a constructor; a signature is the hash that was signed and the key, made
for this one signature, whose public half is shipped in the record. `ManagerEscalation` is
the scripted manager, the validation of the answer, `ManagerEscalationWorkflow.run` and
`runJudgeEscalation` as functions of the supplier phase's result and the answer given: a run
has an adapter of its own and nothing happens between its steps. `JudgeWalkthrough` is the
page that runs them: `index`, `completed`, `phase` and `data` are its React state, a flight is
a phase in progress with what its closure captured, and `ContactEnds`, `EscalationEnds`,
`ProofEnds`, `TamperEnds` write to the page whatever was clicked meanwhile. Every input has a
workflow id of its own, of which only one thing matters: whether the supplier result on the
page is still that of the input beside it (`sameRun`). If not, the call to the manager throws
(`ManagerEscalationWorkflow.ts:25`).

## 4. The runs

| run | what it asks | result |
|---|---|---|
| `ProcurementRun.cfg` | all invariants of the core, `RecordsAreFinal`, refinement of `PurchaseLedger` | holds, about 290 000 states up to symmetry |
| `ProcurementLive.cfg` | every call in flight ends; a purchase completes its run | holds without crashes |
| `JudgeCall.cfg` | one call per session, one answer, a budget no race exceeds | holds, about 650 000 states up to symmetry |
| `JudgeBackend.cfg` | events are recorded once, results stand, the judge sees only evidence | holds |
| `JudgeLive.cfg` | claims are decided, accepted events are recorded | holds without crashes, about 210 000 states |
| `SupplierWorkflow.cfg` | the transition table, one verdict, the order's evidence, cancellation, and that every run is recorded; codes, pinning and quotes of the simulated supplier | holds, about 250 000 states |
| `VoicePortal.cfg` | the ceiling of voice sessions, and that every contact goes back to a sign-in | holds, about 2 140 000 states up to symmetry |
| `JudgeWalkthrough.cfg` | steps are earned, what is said of a proof is true | holds, about 577 000 states up to symmetry |
| `JudgeChannels.cfg` | bought is what was shown or heard last; sentences are heard as said; the page does not stay busy | holds, about 530 000 states |
| `UnansweredLost.cfg` | an unanswered call ends in a human review | violated |
| `DearerOrder.cfg` | the order is the cheapest compliant one | violated |
| `ProofUnverified.cfg` | a proof step marked done has been verified | violated |

**Properties of the core.** `SingleUse`: whoever submits a token, first, again or at the
same moment, is told the request its item holds, and one call reports having created it.
`PurchaseIsApproved`: a request exists only for the accepted evaluation its token was
issued for and was drafted while the quote was valid. `RunCountedOnce`: one RUN_COMPLETED
event, one set of metrics, both for the recorded outcome. `OutcomeIsEarned`: accepted and
escalated outcomes are backed by stored records. `ApprovalNeverOrders`: an escalated
evaluation is never ordered. `AuditBeforeAnswer`: answers and metrics follow their audit
events. `RecordsAreFinal`: outcomes and requests are never rewritten.

**Properties of the judge backend.** `OneCallPerSession`, `DuplicatesAgree`,
`ConsumedIsWarranted`, `CallsWithinBudget` and `ClaimsAreFinal` speak of the claim;
`EventRecordedOnce`, `ResultStands`, `DecisionIsEvidenced` and `FailureIsFinal` of what
comes back and what the judge is shown; each is stated at its definition.

**Properties of the workflow.** `HistoryFollowsTable`: no path makes a transition that
`transition` would throw on. `OneVerdict`: one order, one recorded result, and whoever is
told a result is told that one. `OrderIsEarned`: an order is made out for the offer that was
decided on and repeats what its supplier said in the very attempt the decision names, a call
that ended, and it passed the policy. `CancelIsFinal`: a cancelled run turns to no
further supplier and sends no order. `RunsAreRecorded`: whatever is begun ends.

**Properties of the simulator.** `CodesLeadHome`: as long as a request lives its name and its
code lead to it and to nothing else. `HeardAsPinned`: a call hears of one request and one
supplier, those of the code it said, at a version that request was created for, in its
supplier's locale. `OnlyAvailableComplies`: of the seven states the operators may give a
supplier only "available" yields an offer that passes the policy.

**Properties of the portal and the channels.** `CeilingHolds`: every contact in a judge's
window was counted before it was asked for, and the count never passes the ceiling,
whatever is repeated or fails. `VoiceIsEarned`: a contact goes back through the authorizer
to a sign-in whose code was in force after it arrived; a grant is told only for a contact
that was started. `HeardAsSaid`, `YesBuysLastOffer`, `CallIsOneRun`: an evaluation is of the
sentence, "yes" buys the last offer the judge heard, once, and a conversation opens one run
and, unless an escalation came too late, gives it an outcome. `PurchaseIsShown`: a purchase
made from the page is of the result that was on the screen when "Yes" was clicked.
`RunSettles`: the page does not stay busy.

**Properties of the walkthrough.** `StepsAreEarned`: a step is marked done exactly as long as
its product is there, and the page is busy only while a phase is in progress.
`VerdictsHold`: the record verifies, every edit of it, the public key it carries included,
short of a new signature under a key of its own does not, and the run it vouches for kept to the transition table, ordered nothing, and gave a spoken
request for a restricted action no effect.

**Bounds.** *Core*: three calls, because a turn and two racing confirmations of it (or two
turns and one confirmation) are the smallest instances of each hazard in `PROJECT.json`,
and each invariant is about pairs of calls and one session. Time runs over three instants
with a quote living one tick and a session two, so that a quote can lapse inside a living
session and both can lapse between any two steps. At most one call dies (`MaxCrashes`).
*Judge call*: one session, three requests and two keys, so that a duplicate and a
competitor race at once; a second is two instants, so that the two roundings of the expiry
differ; the budget of two may be partly used, so that it can run out. Two sessions racing for
the budget are beyond TLC (more than seven million states, even with two requests); that race
is in the theorem `BudgetKept`, which is for any number of sessions. *Judge backend*: one
request, two events with two deliveries, one crash and one loss: an event can be repeated,
contradicted and dropped; the races of requests are the business of the run before.
*Workflow*: two invocations of the id, two suppliers with two attempts and two polls each
and two authorized calls, so that every limit is reached; the offers are a good one and
one whose price is hearsay; the inputs are a regular one, the switch off, no shortage, and
one supplier unapproved with the other not consenting. `DearerOrder` uses two good offers.
*Simulator*: two requests for one code, so that one takes the code after the other; two
suppliers; one of them goes through all states at one version and has a second version, so
that data change with and without it; requests that live one of two instants; two questions
in a call, so that what is heard can change.
*Voice portal*: two sign-ins and two voice requests, because each hazard is a race of two of
a kind; two secrets; two windows of two instants, tokens and sessions that live one; two
attempts and one voice session per window, so that both limits are reached; one lost
answer. *Walkthrough*: two phases in progress at once, since a second can be started only
after Restart or beside a verification; two answers, one of which asks for a restricted action.
*Channels*: two runs of the page with a decision and a voice session; three turns of a
conversation, so that an offer can be followed by something else and then by "yes"; sentences
in two orders with every combination of stated and missing quantity and deadline.
Symmetry is used where all properties are safety properties of interchangeable values,
never in a liveness run. `CHECK_DEADLOCK FALSE`: callers may stop asking, and the finite
sets of calls, requests and invocations run out.

**Fairness.** `FairSpec` (core) assumes weak fairness of the two steps that finish
startSession and of "some call in flight moves": the runtime schedules a started handler
until it ends. `FairBackendSpec` assumes that a started request and a delivery in flight go
on; nobody is obliged to poll. `WorkflowFairSpec` assumes that an invocation in flight
proceeds: every fetch is aborted by a timeout and every sleep is a timer; the calls may
ring for ever. `PageSpec` assumes that a promise of the page's own orchestrator settles:
it runs in the page, over memory. Nobody has to click, and neither the backend nor the
meeting has to answer. Nothing is assumed of callers, operators, suppliers, the clock or crashes.

**Disagreements with the text of the repository.**

* `UnansweredLost`: an event of a failed or quarantined call is acknowledged and records
  nothing, so the judge is never told that a human reviews the case.
* `DearerOrder`: offers are compared by the price of everything the supplier has, and
  ordered by the required quantity: ten pieces at 42 win over thirty at 37.
* `ProofUnverified`: after "Call again with another answer" the proof step keeps its mark and
  its label "Proof verified", though the new proof was not verified.

Known disagreements that no run repeats; the models contain the code's behaviour:

* `docs/synthetic-supplier-simulator.md:93` says that a request is rejected if its profile
  changed after it was created. `updateProfile` (`DynamoSyntheticSupplierStore.ts:199`) accepts
  a changed profile under the version it replaces, and the request is then quoted from the new
  data; `HeardAsPinned` therefore speaks of the version. The same adapter knows neither
  `EN_SUPPLIER` nor `en_US` (`:15`), which the demonstration's own store has.
* `ProcurementOrchestrator.ts:452` calls a rejection terminal. The run is completed as
  rejected, but `confirm` never looks at the outcome, so the token of an earlier accepted
  turn still buys. The run stays recorded as rejected.
* `docs/judge-mode-manager-escalation.md:156` says that no call task is created while the
  kill switch is active. It is read once (`JudgeBackendService.ts:179`), before the claim and
  the budget, and the call is placed after it was switched on in between (`:243`).
* `webhook.ts:115` says that a terminal result a judge was shown must not be rewritten. A claim
  that failed because the answer of the POST was lost (`JudgeBackendService.ts:313`) is shown
  as failed, and a result recorded for the call is looked at first.
* `CallEApiAdapter.ts:338` counts a call when its answer has come; a call whose answer was
  lost is placed and not counted, so a workflow may place more calls than its
  authorization names (`:143` says that the counter is no spend control, and why).
* `lexVoiceHandler.ts:131` expects the mission, and its session lookup the session, among the
  Lex session attributes; the contact flow of `judge-voice.tf:470` passes on only
  `x-amz-lex:allow-interrupt`. A conversation therefore opens a procurement session of its own
  for the default mission, which is what `VoiceChannel` starts from.
* `utterance.ts:12` promises null rather than a guess, yet "one hundred" is read as 1 and "1,000"
  as 1: the parser has no word for hundred and drops the comma. The vocabulary of
  `JudgeChannels.cfg` has neither.
* `JudgeWalkthrough.tsx:281` says that changing the manager's answer invalidates the recorded
  call, the proof and its verification. A call in progress was started with the old answer
  (`:116`) and puts its result beside the new one when it ends; likewise the verification of an
  older proof (`:126`, `:145`) is shown beside a newer one. `StepsAreEarned` and `VerdictsHold`
  therefore speak of marks and of what was made, not of which answer is selected.
* A supplier phase that was in progress at Restart ends later and marks its step done. "Detect
  the shortage" then builds an input with a new id (`runDemoWorkflow.ts:287`), the step of the
  suppliers offers no action any more, and every call to the manager throws
  (`ManagerEscalationWorkflow.ts:25`) until the next Restart. The page says so each time; no text
  promises otherwise.

Crashes after which nothing recovers, by the code's design or without a word about it: a token
consumed and the run not completed (`ProcurementOrchestrator.ts:631`), a call placed and its
claim left pending (`JudgeBackendService.ts:216`), an event claimed and its result not recorded
(`webhook.ts:244`). `PurchaseCompletesRun`, `ClaimsAreDecided` and `AcceptedIsRecorded` are
therefore checked without crashes (`MaxCrashes`, for deliveries `MaxLost`, are zero), and each fails
with one; the safety runs include the crashes.
Two escalations of one evaluation at once store two approval requests (`tools.ts:690`), which no
document excludes and no property forbids.

## 5. The proofs

`ProcurementRunProofs` proves, for every set of calls, all lifetimes and any number of
crashes, from `StoreAssumption` and `RunAssumption` alone:

| theorem | strengthening it rests on |
|---|---|
| `TypeCorrect` | `TypeInv`: the local variables a step needs are filled in when it is reached |
| `PurchaseApproved` | `ProvenanceInv`: a call on its way to claim carries an accepted evaluation and a clock reading inside the quote's lifetime; nothing is minted before its turn mints it |
| `TokenUsedOnce` | `TokenInv`: the identifier of a request names the one call that was told of creating it |
| `OutcomeEarned`, `EscalationNeverOrders` | `EvidenceInv`: the record an outcome needs was stored before the call left for `complete`, and is never taken back |
| `RunCounted`, `AuditPrecedes` | `CountInv`: at most one call counts, and the order of its batch; the lemma `QuietStep` dispatches every step before `complete` |
| `RecordsFinal`, `ImplementsLedger` | `RecordStep`: all that any step does to records and answers |

`JudgeCallProofs` proves, for all sessions, requests, keys and budgets, from
`CallAssumption`:

| theorem | strengthening it rests on |
|---|---|
| `CallTypeCorrect` | `TypeInv`: a started request has its arguments, one that records has an answer |
| `OneCall`, `DuplicatesTold` | `ClaimInv`: past the claim a request holds its session alone (`SessionInv`, `HolderInv`), and a task is recorded only by who placed it (`TaskInv`) |
| `ClaimsFinal` | `FinalStep`: what any step does to a claim, given `ClaimInv` |
| `BudgetKept` | `BudgetInv`: who has paid and not posted is still counted; `GrowsByOne` and `BudgetBound` are the arithmetic of sets behind it |
| `ConsumedTold` | `WarrantInv`: a session is consumed by a claim, and who lost the write and reads again finds a claim, a revoked session or one in its last second; a claim is never taken back (`FinalStep`) and a life never extended |

`JudgeBackendProofs` proves, for all sets of events and deliveries besides, from
`BackendAssumption` and `CallAssumption`:

| theorem | strengthening it rests on |
|---|---|
| `BackendImplementsCall` | every step of the backend is one of `JudgeCall` or leaves it alone (`CallSteps`), so the theorems above hold in it |
| `RecordedOnce` | `EventInv`: what a delivery is about to record is what its event was claimed with, no other is about to record it and nobody has |
| `ResultShownStands`, `DecisionEvidenced` | `BackendInv`: nothing but the state of a session's first result, and failures, was shown of it (`ViewInv`), results are of events that were emitted (`ResultsEmitted`), events of calls that were placed (`EmittedCalled`) |
| `FailureShownIsFinal` | `BackendInv`: a failure is shown only of a claim that has failed, which stays so (`FinalStep`), and no poll that asks for results has seen one |

`SupplierWorkflowProofs` proves `BestIsFirst` from `SelectionAssumption`: of a non-empty set
of compliant offers `SelectBest` returns a member that comes before all the others. That
the sort is an order needs only arithmetic (`SortIsAnOrder`); that it has a first element
needs an induction over the number of offers, which is replaced by the least-number
principle (`LeastNumber`): the first of the offers up to `n` is also defined for the
smallest `n` for which it would not be (`FirstOfMore`, `FirstExists`). `PassedChecks`
reads off what an offer is that passes the policy.

It also proves, for any number of invocations, suppliers, attempts and polls and whatever
the suppliers say, from `SelectionAssumption` and `WorkflowAssumption`:

| theorem | strengthening it rests on |
|---|---|
| `WorkflowTypeCorrect` | itself; `SelectedIsCompliant` (from `BestIsFirst`) makes the decision an offer |
| `HistoryLegal` | `HistoryInv`: where an invocation stands says how its history ends; every extension is a `Way` of the table, and ways join (`WaysJoin`) |
| `VerdictIsOne` | `VerdictInv`: at most one invocation is in flight, and until it ends there is neither a result nor an order |
| `CancellationHolds` | `CancelledStep`: all that a step does to contacts and steps |
| `OrderEarned` | `EarnedInv`: every complete offer is `Backed` by the call it names, which keeps what was said because no key is posted twice (`Unplaced`); an order stays with the decision it was made for (`OrdersStay`), and `VerdictInv` keeps other invocations out |

`SupplierSimulatorProofs` proves, for any number of requests, codes, profiles and calls, from
`SimulatorAssumption`, `PersonaAssumption` and `SelectionAssumption`:

| theorem | strengthening it rests on |
|---|---|
| `CodesHome` | `HomeInv`: whatever is stored is a request that was created, under its own keys |
| `HeardOfOne` | `TalkInv`: a call that has come so far knows the request its code stood for when it was routed, and everything read since is of that request, its profile and its version; attributes are never rewritten |
| `OnlyAvailable` | `TalkInv` says what quote is spoken of; `StateFailsItsCheck` takes the states of a profile one by one to the check of the policy that each fails |

`PersonaAssumption` is what the last one needs of the data: sixty percent more is above the
ceiling. The four personas of `profiles.ts` ask 42, 38 and 41 EUR and 158 PLN, and
the policy's ceiling is 45 EUR; TLC evaluates it for the personas of the run.

`VoicePortalProofs` proves, for any number of sign-ins, voice requests, sources, secrets and
lost answers, from `PortalAssumption` and `NothingIsStored`:

| theorem | strengthening it rests on |
|---|---|
| `PortalTypeCorrect`, `VoiceIsAlwaysEarned` | `PortalInv`: the type, `LoginsOK` (what a stored session says is what its sign-in read, and the secret only moves on) and `StartsOK` (past the authorizer a request carries an admission by a stored session) |
| `CeilingAlwaysHolds` | `ChargedKept`: the requests of a judge and window that have passed the counter are no more than it counts; `OneMore` and `ChargedGrows` are the arithmetic of sets, `EveryChargedStep` says that only the counter's write adds a request |

`JudgeWalkthroughProofs` proves, for any set of answers and any number of phases in progress,
from `WalkthroughAssumption` and `NullAssumption`, and about `DecisionProof` from nothing:

| theorem | strengthening it rests on |
|---|---|
| `WalkthroughTypeCorrect`, `StepsAreAlwaysEarned` | `WalkthroughInv`: both, and `CallsCarryAnswers`: a verification in progress knows the answer its record was made for |
| `SignedVerifies` | `HashesExist`: a trail of any length has the hashes its recursive definition asks for |
| `SignatureFixesPayload` | the signature is of the hash of the payload and under the key the record carries, so it fixes both |
| `RootFixesTrail` | `ValidLinks`: each hash is made of the one before it and its event, and of none only at the start (`LinksAreApart`); counted from the end, two trails with one root have the same hashes and are as long |
| `VerdictsAlwaysHold` | `VerdictsTrue`: the page has said nothing but that a record verifies and a tampered copy does not; `RecordHolds` is that of the record of every answer, from `SignedVerifies` and what `Escalated` makes of the answer |

Hash chain and trail need an induction over their length. The library's theorems take the
formula to prove as an operator, which the provers cannot instantiate; `SetInduction` takes the
set of numbers of which it holds, and follows from the least element of its complement
(`WFMin`). SHA-256 is a constructor, so equal hashes have equal arguments: that is what
"collision resistant" is taken to mean.

`JudgeChannelsProofs` proves, for any number of runs, decisions, voice sessions, turns and
whatever sentences there are:

| theorem | strengthening it rests on |
|---|---|
| `PurchaseIsAlwaysShown` | `PageInv`: its type, a run is evaluated once (`EvaluatedOnce`), a click under way carries a turn that was shown (`ClicksCarry`); `PageAssumption` only keeps the names of runs and voice sessions apart |
| `YesAlwaysBuysLastOffer` | `OfferKnown` of `LineInv`: while the line is open nothing is bought, and the attributes hold the token of the last offer heard, or none if none was |
| `CallIsAlwaysOneRun` | `RunKnown` of `LineInv`: there is at most one run, and it is the session of the attributes, or of the turn that is being answered |
| `HeardIfUnderstood` | `EvaluationKnown` of `LineInv`: an evaluation is of what was understood of its turn's sentence; nothing of an earlier turn is left in it |

`HeardIfUnderstood` has a hypothesis, `ParserUnderstands`: of a sentence that names an item
of the catalog, the parser finds what was said. It is a formula about constants, which TLC
evaluates as part of `HeardAsSaid` for each sentence of the run, and fails for sentences
outside its vocabulary (section 4).

Each invariant is proved by its initial states, one case per action, and a temporal step. Every
safety invariant and action property of a passing run is a theorem. Model-checked only: liveness
(`EveryCallEnds`, `PurchaseCompletesRun`, `ClaimsAreDecided`, `AcceptedIsRecorded`,
`RunsAreRecorded`, `RunSettles`), since the provers have neither fairness nor ENABLED; that the
parser understands the sentences of the run, which needs its tables of words evaluated; and the
violations. The type invariants of the core, the workflow and the walkthrough are proved and
part of no run.

## 6. What is not modelled

* Deletion of items by the tables' time to live (sessions have expired by then and every
  operation refuses; in the simulator it is modelled), paging of queries, and lost answers of the procurement store's and the
  judge backend's conditional writes.
* The in-memory variants of the stores, which serve tests and local development.
* Narration, wording and layout, the rendering of the pages, and the trimming of spoken
  messages to length.
* The live caller lambda: one request, with no state shared with the rest.
* The wording of the simulated supplier's answers and its conversation history.
* The live panels, which poll the judge backend; their requests and polls are those of
  `JudgeCall` and `JudgeBackend`.
* The scenarios of `runDemoWorkflow`, which run the workflow of `SupplierWorkflow` on fixtures.
* The branch of `ManagerEscalationWorkflow.run` for an adapter that throws: the scripted
  adapter does not.
* The forecast: whether there is a shortage is an input of the workflow.
* Deployment scripts and infrastructure.
