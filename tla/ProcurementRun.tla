--------------------------- MODULE ProcurementRun ---------------------------
(***************************************************************************)
(* ProcurementOrchestrator and ProcurementTools over the durable session   *)
(* of SessionStore: concurrent requests on one session, each a sequence of *)
(* steps separated by the awaits of the code.  Between two steps of a call *)
(* any other call may run, the clock may move, and the call may die with   *)
(* its instance (a thrown store error ends it in the same way).            *)
(*                                                                         *)
(* A call keeps in its local variables exactly what the code keeps across  *)
(* an await; everything else is read again from the store.                 *)
(***************************************************************************)
EXTENDS SessionStore, FiniteSets

CONSTANTS
    SessionTTL,  \* SESSION_TTL_MS, in ticks
    QuoteTTL,    \* QUOTE_TTL_MS, in ticks
    MaxCrashes   \* bound on the calls that die

ASSUME RunAssumption ==
    /\ SessionTTL \in Nat \ {0}
    /\ QuoteTTL \in Nat \ {0}
    /\ MaxCrashes \in Nat

VARIABLES
    now,       \* the clock every instance reads
    opening,   \* progress of startSession
    step,      \* where each call is
    kind,      \* the orchestrator method the call runs
    target,    \* evaluationId argument of confirm and escalate
    token,     \* confirmationToken argument of confirm
    readAt,    \* the clock value the call holds across an await
    outcome,   \* the outcome the call completes the run with, or "NONE"
    event,     \* the decisive audit event of the call's batch
    told,      \* the purchase request the call returns, or NoRequest
    metrics    \* outcome metrics emitted, each with the call that emitted it

local == <<kind, target, token, readAt, outcome, event, told>>
vars == <<store, now, opening, step, local, metrics>>

Step == {"idle", "quote", "supplier", "evaluate", "create", "verify", "claim",
         "approve", "putApproval", "complete", "append", "appendWon",
         "appendCompleted", "metrics", "done", "crashed"}
Kind == {"none", "utterance", "confirm", "decline", "escalate"}
MetricName == {"RunAccepted", "RunRejected", "RunHumanReview", "RunDurationMs"}

TypeOK ==
    /\ StoreTypeOK
    /\ now \in Instant
    /\ opening \in {"none", "created", "audited", "started", "crashed"}
    /\ step \in [Calls -> Step]
    /\ kind \in [Calls -> Kind]
    /\ target \in [Calls -> Calls \cup {Nobody}]
    /\ token \in [Calls -> Calls \cup {Nobody}]
    /\ readAt \in [Calls -> Instant]
    /\ outcome \in [Calls -> RunOutcome \cup {"NONE"}]
    /\ event \in [Calls -> AuditEventType \cup {"NONE"}]
    /\ told \in [Calls -> PurchaseRequest \cup {NoRequest}]
    /\ metrics \subseteq MetricName \X Calls

Init ==
    /\ StoreInit
    /\ now = 0
    /\ opening = "none"
    /\ step = [c \in Calls |-> "idle"]
    /\ kind = [c \in Calls |-> "none"]
    /\ target = [c \in Calls |-> Nobody]
    /\ token = [c \in Calls |-> Nobody]
    /\ readAt = [c \in Calls |-> 0]
    /\ outcome = [c \in Calls |-> "NONE"]
    /\ event = [c \in Calls |-> "NONE"]
    /\ told = [c \in Calls |-> NoRequest]
    /\ metrics = {}
-----------------------------------------------------------------------------
SessionLive == Exists /\ now < sessionUntil
QuoteLive(q) == quoteUntil[q] # 0 /\ now < quoteUntil[q]

\* The turn that produced evaluation e has answered, so its caller knows the
\* evaluationId and, if the evaluation was accepted, its token.
Offered(e) == step[e] = "done" /\ evaluation[e] # "NONE"

Goto(c, s) == step' = [step EXCEPT ![c] = s]

\* The call leaves for completeRun(o), its batch of events ending in type e.
Finish(c, o, e) ==
    /\ Goto(c, "complete")
    /\ outcome' = [outcome EXCEPT ![c] = o]
    /\ event' = [event EXCEPT ![c] = e]

\* The call leaves for appendAudit alone: the run stays as it is.
Note(c, e) ==
    /\ Goto(c, "append")
    /\ event' = [event EXCEPT ![c] = e]
    /\ UNCHANGED outcome

Begin(c, k, e, t) ==
    /\ step[c] = "idle"
    /\ Exists
    /\ kind' = [kind EXCEPT ![c] = k]
    /\ target' = [target EXCEPT ![c] = e]
    /\ token' = [token EXCEPT ![c] = t]
    /\ UNCHANGED <<store, now, opening, readAt, told, metrics>>
-----------------------------------------------------------------------------
(* startSession *)

StartSession ==
    /\ opening = "none"
    /\ Create(now + SessionTTL)
    /\ opening' = "created"
    /\ UNCHANGED <<now, step, local, metrics>>

StartSessionAudit ==
    /\ opening = "created"
    /\ AppendAudit("SESSION_STARTED", Nobody)
    /\ opening' = "audited"
    /\ UNCHANGED <<now, step, local, metrics>>

\* startSession records RunStarted and returns the session.
StartSessionReturns ==
    /\ opening = "audited"
    /\ opening' = "started"
    /\ UNCHANGED <<store, now, step, local, metrics>>
-----------------------------------------------------------------------------
(* handleUtterance *)

\* The session is known to a caller only once startSession returned it.
BeginUtterance(c) == opening = "started" /\ Begin(c, "utterance", Nobody, Nobody)

UtteranceOutOfDomain(c) ==
    /\ BeginUtterance(c)
    /\ Finish(c, "OUT_OF_DOMAIN", "OUT_OF_DOMAIN_REJECTED")

UtteranceAmbiguous(c) ==
    /\ BeginUtterance(c)
    /\ Note(c, "REQUEST_INTERPRETED")

UtteranceResolved(c) ==
    /\ BeginUtterance(c)
    /\ Goto(c, "quote")
    /\ UNCHANGED <<outcome, event>>

\* getSupplierQuote refuses: an expired session, or a quantity out of the
\* catalog's range.
QuoteRefused(c) ==
    /\ step[c] = "quote"
    /\ Finish(c, "REJECTED_BY_POLICY", "TOOL_FAILED")
    /\ UNCHANGED <<store, now, opening, kind, target, token, readAt, told, metrics>>

\* The clock is read here, before the supplier is awaited.
QuoteAsked(c) ==
    /\ step[c] = "quote"
    /\ SessionLive
    /\ Goto(c, "supplier")
    /\ readAt' = [readAt EXCEPT ![c] = now]
    /\ UNCHANGED <<store, now, opening, kind, target, token, outcome, event, told,
                   metrics>>

SupplierFails(c) ==
    /\ step[c] = "supplier"
    /\ Finish(c, "TOOL_FAILURE", "TOOL_FAILED")
    /\ UNCHANGED <<store, now, opening, kind, target, token, readAt, told, metrics>>

SupplierAnswers(c) ==
    /\ step[c] = "supplier"
    /\ PutQuote(c, readAt[c] + QuoteTTL)
    /\ Goto(c, "evaluate")
    /\ UNCHANGED <<now, opening, local, metrics>>

\* evaluatePurchase fails: the session or the quote expired meanwhile.
EvaluateFails(c) ==
    /\ step[c] = "evaluate"
    /\ ~ (SessionLive /\ QuoteLive(c))
    /\ Finish(c, "TOOL_FAILURE", "TOOL_FAILED")
    /\ UNCHANGED <<store, now, opening, kind, target, token, readAt, told, metrics>>

Evaluates(c, o) ==
    /\ step[c] = "evaluate"
    /\ SessionLive /\ QuoteLive(c)
    /\ PutEvaluation(c, o)
    /\ UNCHANGED <<now, opening, kind, target, token, readAt, told, metrics>>

EvaluateAccepted(c) ==
    /\ Evaluates(c, "ACCEPTED")
    /\ Note(c, "CONFIRMATION_REQUESTED")

EvaluateHumanReview(c) ==
    /\ Evaluates(c, "HUMAN_REVIEW_REQUIRED")
    /\ Note(c, "POLICY_EVALUATED")

EvaluateRejected(c) ==
    /\ Evaluates(c, "REJECTED")
    /\ Finish(c, "REJECTED_BY_POLICY", "POLICY_EVALUATED")

Utterance(c) ==
    \/ UtteranceOutOfDomain(c) \/ UtteranceAmbiguous(c) \/ UtteranceResolved(c)
    \/ QuoteRefused(c) \/ QuoteAsked(c)
    \/ SupplierFails(c) \/ SupplierAnswers(c)
    \/ EvaluateFails(c)
    \/ EvaluateAccepted(c) \/ EvaluateHumanReview(c) \/ EvaluateRejected(c)
-----------------------------------------------------------------------------
(* confirm *)

\* accepted = false: no tool runs and no evaluation is read.
Decline(c, e) ==
    /\ Offered(e)
    /\ Begin(c, "decline", e, Nobody)
    /\ Finish(c, "DECLINED_BY_USER", "CONFIRMATION_DECLINED")

\* The token is one a turn returned, or none that was ever issued.
Confirm(c, e, t) ==
    /\ Offered(e)
    /\ t \in Calls => Offered(t) /\ evaluation[t] = "ACCEPTED"
    /\ Begin(c, "confirm", e, t)
    /\ Goto(c, "create")
    /\ UNCHANGED <<outcome, event>>

\* Mutant: the token is not compared with the evaluation it was issued for.
ClearedForAnyToken(e, t) == t \in Calls /\ evaluation[e] = "ACCEPTED"

\* createPurchaseRequest on the second read of the session: what a fresh token
\* must satisfy there, in one predicate because every failure has the same
\* effect.
Cleared(e, t) == t = e /\ evaluation[e] = "ACCEPTED"

Consumed(t) == t \in Calls /\ purchase[t] # NoRequest

CreateRefused(c) ==
    /\ step[c] = "create"
    /\ ~ SessionLive \/ (~ Consumed(token[c]) /\ ~ Cleared(target[c], token[c]))
    /\ Finish(c, "REJECTED_BY_POLICY", "TOOL_FAILED")
    /\ UNCHANGED <<store, now, opening, kind, target, token, readAt, told, metrics>>

\* The session just read already holds a request for the token.
CreateReplayed(c) ==
    /\ step[c] = "create"
    /\ SessionLive
    /\ Consumed(token[c])
    /\ told' = [told EXCEPT ![c] = purchase[token[c]]]
    /\ Note(c, "PURCHASE_REQUEST_REPLAYED")
    /\ UNCHANGED <<store, now, opening, kind, target, token, readAt, metrics>>

CreateCleared(c) ==
    /\ step[c] = "create"
    /\ SessionLive
    /\ ~ Consumed(token[c])
    /\ Cleared(target[c], token[c])
    /\ Goto(c, "verify")
    /\ UNCHANGED <<store, now, opening, local, metrics>>

\* verifiedQuote awaited the hash of the stored quote, and only then looks at
\* the clock.  Catalog, quantity and budget were checked by the evaluation on
\* the same stored quote and the same mission.  The clock is read for this check
\* and again for createdAt; between the two there is no work but the return from
\* an await already settled, so they are one reading.
QuoteLapsed(c) ==
    /\ step[c] = "verify"
    /\ ~ QuoteLive(target[c])
    /\ Finish(c, "REJECTED_BY_POLICY", "TOOL_FAILED")
    /\ UNCHANGED <<store, now, opening, kind, target, token, readAt, told, metrics>>

QuoteVerified(c) ==
    /\ step[c] = "verify"
    /\ QuoteLive(target[c])
    /\ Goto(c, "claim")
    /\ readAt' = [readAt EXCEPT ![c] = now]
    /\ UNCHANGED <<store, now, opening, kind, target, token, outcome, event, told,
                   metrics>>

\* The request was drafted before the claim: its createdAt is the old reading.
Draft(c) == [id |-> c, evaluation |-> target[c], createdAt |-> readAt[c]]

\* Mutant: the winner of the claim only notes it, as a replay does.
ClaimWinsUncounted(c) ==
    /\ step[c] = "claim"
    /\ ClaimConfirmation(token[c], Draft(c))
    /\ told' = [told EXCEPT ![c] = Draft(c)]
    /\ Note(c, "PURCHASE_REQUEST_CREATED")
    /\ UNCHANGED <<now, opening, kind, target, token, readAt, metrics>>

ClaimWins(c) ==
    /\ step[c] = "claim"
    /\ ClaimConfirmation(token[c], Draft(c))
    /\ told' = [told EXCEPT ![c] = Draft(c)]
    /\ Finish(c, "PURCHASE_REQUEST_CREATED", "PURCHASE_REQUEST_CREATED")
    /\ UNCHANGED <<now, opening, kind, target, token, readAt, metrics>>

\* Mutant: the loser of the claim answers with the request it drafted.
ClaimLosesWithDraft(c) ==
    /\ step[c] = "claim"
    /\ ConfirmationTaken(token[c])
    /\ told' = [told EXCEPT ![c] = Draft(c)]
    /\ Note(c, "PURCHASE_REQUEST_REPLAYED")
    /\ UNCHANGED <<now, opening, kind, target, token, readAt, metrics>>

ClaimLoses(c) ==
    /\ step[c] = "claim"
    /\ ConfirmationTaken(token[c])
    /\ told' = [told EXCEPT ![c] = purchase[token[c]]]
    /\ Note(c, "PURCHASE_REQUEST_REPLAYED")
    /\ UNCHANGED <<now, opening, kind, target, token, readAt, metrics>>

Confirmation(c) ==
    \/ \E e \in Calls : Decline(c, e)
    \/ \E e \in Calls, t \in Calls \cup {Nobody} : Confirm(c, e, t)
    \/ CreateRefused(c) \/ CreateReplayed(c) \/ CreateCleared(c)
    \/ QuoteLapsed(c) \/ QuoteVerified(c)
    \/ ClaimWins(c) \/ ClaimLoses(c)
-----------------------------------------------------------------------------
(* escalate *)

Escalate(c, e) ==
    /\ Offered(e)
    /\ Begin(c, "escalate", e, Nobody)
    /\ Goto(c, "approve")
    /\ UNCHANGED <<outcome, event>>

\* A refused escalation is only noted; it does not complete the run.
ApprovalRefused(c) ==
    /\ step[c] = "approve"
    /\ ~ SessionLive \/ evaluation[target[c]] # "HUMAN_REVIEW_REQUIRED"
    /\ Note(c, "TOOL_FAILED")
    /\ UNCHANGED <<store, now, opening, kind, target, token, readAt, told, metrics>>

ApprovalFound(c) ==
    /\ step[c] = "approve"
    /\ SessionLive
    /\ evaluation[target[c]] = "HUMAN_REVIEW_REQUIRED"
    /\ EscalationOf(target[c]) # {}
    /\ Finish(c, "HUMAN_APPROVAL_REQUESTED", "HUMAN_APPROVAL_REQUESTED")
    /\ UNCHANGED <<store, now, opening, kind, target, token, readAt, told, metrics>>

\* Mutant: an escalation is raised for whatever evaluation it names.
ApprovalAlwaysNeeded(c) ==
    /\ step[c] = "approve"
    /\ SessionLive
    /\ EscalationOf(target[c]) = {}
    /\ Goto(c, "putApproval")
    /\ UNCHANGED <<store, now, opening, local, metrics>>

\* Mutant: the run is completed before the approval request is stored.
ApprovalAssumed(c) ==
    /\ step[c] = "approve"
    /\ SessionLive
    /\ evaluation[target[c]] = "HUMAN_REVIEW_REQUIRED"
    /\ EscalationOf(target[c]) = {}
    /\ Finish(c, "HUMAN_APPROVAL_REQUESTED", "HUMAN_APPROVAL_REQUESTED")
    /\ UNCHANGED <<store, now, opening, kind, target, token, readAt, told, metrics>>

ApprovalNeeded(c) ==
    /\ step[c] = "approve"
    /\ SessionLive
    /\ evaluation[target[c]] = "HUMAN_REVIEW_REQUIRED"
    /\ EscalationOf(target[c]) = {}
    /\ Goto(c, "putApproval")
    /\ UNCHANGED <<store, now, opening, local, metrics>>

\* An unconditional Put under a fresh id: nothing is re-read.
ApprovalPut(c) ==
    /\ step[c] = "putApproval"
    /\ PutApproval(c, target[c])
    /\ Finish(c, "HUMAN_APPROVAL_REQUESTED", "HUMAN_APPROVAL_REQUESTED")
    /\ UNCHANGED <<now, opening, kind, target, token, readAt, told, metrics>>

Escalation(c) ==
    \/ \E e \in Calls : Escalate(c, e)
    \/ ApprovalRefused(c) \/ ApprovalFound(c) \/ ApprovalNeeded(c) \/ ApprovalPut(c)
-----------------------------------------------------------------------------
(* completeRun and the audit of every turn *)

CompleteWins(c) ==
    /\ step[c] = "complete"
    /\ CompleteRun(outcome[c])
    /\ Goto(c, "appendWon")
    /\ UNCHANGED <<now, opening, local, metrics>>

\* Mutants: the status of complete is ignored; ALREADY_COMPLETED returns before
\* the audit is appended; or complete is retried until it is COMPLETED.
LoserGoesTo(c, s) ==
    /\ step[c] = "complete"
    /\ AlreadyCompleted
    /\ Goto(c, s)
    /\ UNCHANGED <<now, opening, local, metrics>>
LoserCounts(c) == LoserGoesTo(c, "appendWon")
LoserReturns(c) == LoserGoesTo(c, "done")
LoserRetries(c) == LoserGoesTo(c, "complete")

CompleteLoses(c) ==
    /\ step[c] = "complete"
    /\ AlreadyCompleted
    /\ Goto(c, "append")
    /\ UNCHANGED <<now, opening, local, metrics>>

\* The batch of a call that did not complete the run.
Append(c) ==
    /\ step[c] = "append"
    /\ AppendAudit(event[c], c)
    /\ Goto(c, "done")
    /\ UNCHANGED <<now, opening, local, metrics>>

\* The batch of the call that did: its own events first, RUN_COMPLETED last,
\* each in a Put of its own.
AppendWon(c) ==
    /\ step[c] = "appendWon"
    /\ AppendAudit(event[c], c)
    /\ Goto(c, "appendCompleted")
    /\ UNCHANGED <<now, opening, local, metrics>>

AppendCompleted(c) ==
    /\ step[c] = "appendCompleted"
    /\ AppendAudit("RUN_COMPLETED", c)
    /\ Goto(c, "metrics")
    /\ UNCHANGED <<now, opening, local, metrics>>

OutcomeMetrics(o) ==
    {"RunDurationMs"}
    \cup (IF o = "PURCHASE_REQUEST_CREATED" THEN {"RunAccepted"} ELSE {})
    \cup (IF o = "HUMAN_APPROVAL_REQUESTED" THEN {"RunHumanReview"} ELSE {})
    \cup (IF o \in {"REJECTED_BY_POLICY", "OUT_OF_DOMAIN", "DECLINED_BY_USER"}
          THEN {"RunRejected"} ELSE {})

EmitMetrics(c) ==
    /\ step[c] = "metrics"
    /\ metrics' = metrics \cup (OutcomeMetrics(outcome[c]) \X {c})
    /\ Goto(c, "done")
    /\ UNCHANGED <<store, now, opening, local>>

Ending(c) ==
    \/ CompleteWins(c) \/ CompleteLoses(c)
    \/ Append(c) \/ AppendWon(c) \/ AppendCompleted(c) \/ EmitMetrics(c)
-----------------------------------------------------------------------------
Crashed == {c \in Calls : step[c] = "crashed"}

Crash(c) ==
    /\ step[c] \notin {"idle", "done", "crashed"}
    /\ Cardinality(Crashed) < MaxCrashes
    /\ Goto(c, "crashed")
    /\ UNCHANGED <<store, now, opening, local, metrics>>

StartCrash ==
    /\ opening \in {"created", "audited"}
    /\ MaxCrashes > 0
    /\ opening' = "crashed"
    /\ UNCHANGED <<store, now, step, local, metrics>>

Tick ==
    /\ now < MaxTime
    /\ now' = now + 1
    /\ UNCHANGED <<store, opening, step, local, metrics>>

Starting == StartSession \/ StartSessionAudit \/ StartSessionReturns
Handle(c) == Utterance(c) \/ Confirmation(c) \/ Escalation(c) \/ Ending(c)

Next ==
    \/ Starting \/ StartCrash \/ Tick
    \/ \E c \in Calls : Handle(c) \/ Crash(c)

Spec == Init /\ [][Next]_vars
-----------------------------------------------------------------------------
(* What must hold *)

\* A confirmation token is consumed exactly once: whoever submits it, first,
\* again or at the same moment, is told the one request the token's item
\* holds, and a single call reports having created it
\* (createPurchaseRequest, claimConfirmation).
SingleUse ==
    \A c \in Calls : told[c] # NoRequest =>
        /\ told[c] = purchase[token[c]]
        /\ event[c] = "PURCHASE_REQUEST_CREATED" <=> told[c].id = c

\* A purchase request exists only for an accepted evaluation, the one its token
\* was issued for, and was drafted while the quote was valid, whenever the
\* confirmation arrived and however long the claim took
\* (createPurchaseRequest re-derives every control from stored records).  The
\* date is exact up to the moment between its two readings of the clock.
PurchaseIsApproved ==
    \A t \in Calls : purchase[t] # NoRequest =>
        /\ purchase[t].evaluation = t
        /\ evaluation[t] = "ACCEPTED"
        /\ purchase[t].createdAt < quoteUntil[t]

\* However many calls finish the run, one of them completes it: a single
\* RUN_COMPLETED event and a single set of metrics, both for the outcome the
\* session shows (completeRun).
RunCountedOnce ==
    /\ \A c \in Calls :
          (\/ <<"RUN_COMPLETED", c>> \in audit
           \/ \E m \in MetricName : <<m, c>> \in metrics) => run = outcome[c]
    /\ \A c, d \in Calls :
          /\ <<"RUN_COMPLETED", c>> \in audit
          /\ <<"RUN_COMPLETED", d>> \in audit
          => c = d
    /\ \A m, n \in metrics : m[2] = n[2]

\* The outcome is backed by a stored record: no run counts as accepted without
\* a purchase request, nor as escalated without an approval request (the write
\* precedes complete, and a crash in between loses only the completion).
OutcomeIsEarned ==
    /\ run = "PURCHASE_REQUEST_CREATED" =>
          \E t \in Calls : purchase[t] # NoRequest
    /\ run = "HUMAN_APPROVAL_REQUESTED" =>
          \E a \in Calls : approval[a] # Nobody

\* An escalated evaluation never leads to an order, whatever confirmations of
\* it arrive (HumanApprovalRequest.orderCreated is false by construction).
ApprovalNeverOrders ==
    \A a \in Calls : approval[a] # Nobody => purchase[approval[a]] = NoRequest

\* Whatever a caller was answered is already in the audit trail, also when the
\* run was completed by somebody else, and no run is counted before its
\* completion is in the trail (finishTurn, completeRun).
AuditBeforeAnswer ==
    /\ \A c \in Calls : step[c] = "done" => <<event[c], c>> \in audit
    /\ \A m \in metrics : {<<event[m[2]], m[2]>>, <<"RUN_COMPLETED", m[2]>>} \subseteq audit

\* A recorded outcome and a recorded purchase request are final: no later call
\* rewrites them (complete and claimConfirmation are conditional writes).
RecordsAreFinal ==
    [][ /\ Completed => run' = run
        /\ \A t \in Calls : purchase[t] # NoRequest => purchase'[t] = purchase[t] ]_vars

\* Seen through its records and its answers, the run is a PurchaseLedger.
Ledger == INSTANCE PurchaseLedger WITH
              Tokens <- Calls, Callers <- Calls, Requests <- PurchaseRequest,
              Outcomes <- RunOutcome, Accepted <- "PURCHASE_REQUEST_CREATED",
              Open <- "OPEN", ledger <- purchase, answer <- told,
              ending <- IF Exists THEN run ELSE "OPEN"

\* Concurrent, retried and crashing confirmations behave like atomic purchases
\* in a ledger (confirm, createPurchaseRequest, claimConfirmation, complete).
ActsAsLedger == Ledger!LedgerSpec
-----------------------------------------------------------------------------
(* What must eventually happen.  A handler that started is scheduled until  *)
(* it ends; nobody has to call, a clock need not move, nothing has to die.  *)

Ongoing(c) ==
    \/ Utterance(c) /\ step[c] # "idle"
    \/ Confirmation(c) /\ step[c] # "idle"
    \/ Escalation(c) /\ step[c] # "idle"
    \/ Ending(c)

FairSpec ==
    /\ Spec
    /\ WF_vars(StartSessionAudit \/ StartSessionReturns)
    /\ WF_vars(\E c \in Calls : Ongoing(c))

InFlight(c) == step[c] \notin {"idle", "done", "crashed"}

\* Every request is answered: no race leaves a call waiting on another one, so
\* whatever is in flight drains (the calls are finitely many).
EveryCallEnds ==
    (\E c \in Calls : InFlight(c)) ~> (\A c \in Calls : ~ InFlight(c))

\* A judge who was told of a purchase request leaves a completed run behind
\* (the second guarantee of sessionStore.ts: a run completes exactly once).
PurchaseCompletesRun ==
    (\E c \in Calls : step[c] = "done" /\ told[c] # NoRequest) ~> Completed
=============================================================================
