---------------------------- MODULE SessionStore ----------------------------
(***************************************************************************)
(* The durable record of ONE procurement session: the port                 *)
(* ProcurementSessionStore (src/server/procurement/sessionStore.ts) as     *)
(* DynamoProcurementSessionStore implements it, one item per quote,        *)
(* evaluation, consumed token, approval and audit event.                   *)
(*                                                                         *)
(* Every identifier the server mints (newId) is fresh, so an item is named *)
(* by the call that minted it: quote, evaluation and confirmation token of *)
(* turn c are all "c", the purchase request of confirmation c is "c".      *)
(***************************************************************************)
EXTENDS Naturals

CONSTANTS
    Calls,       \* the requests that reach the orchestrator
    Nobody,      \* stands for an absent call, an empty or made-up token
    NoRequest,   \* "no purchase request"
    MaxTime      \* bound on the clock

VARIABLES
    run,          \* METADATA: "ABSENT", "OPEN" (outcome = null) or the outcome
    sessionUntil, \* METADATA: expiresAt
    quoteUntil,   \* QUOTE#q: expiresAt of the quote, 0 when there is no item
    evaluation,   \* EVAL#e: outcome of the evaluation, "NONE" when no item
    purchase,     \* CONFIRM#t: the purchase request that consumed token t
    approval,     \* APPROVAL#a: the evaluation a asks approval for, or Nobody
    audit         \* AUDIT#...: the events, each with the call that appended it

store == <<run, sessionUntil, quoteUntil, evaluation, purchase, approval, audit>>

RunOutcome == {"PURCHASE_REQUEST_CREATED", "REJECTED_BY_POLICY",
               "HUMAN_APPROVAL_REQUESTED", "OUT_OF_DOMAIN",
               "DECLINED_BY_USER", "TOOL_FAILURE"}

EvaluationOutcome == {"ACCEPTED", "REJECTED", "HUMAN_REVIEW_REQUIRED"}

AuditEventType == {"SESSION_STARTED", "REQUEST_INTERPRETED", "TOOL_FAILED",
                   "OUT_OF_DOMAIN_REJECTED", "POLICY_EVALUATED",
                   "CONFIRMATION_REQUESTED", "CONFIRMATION_DECLINED",
                   "PURCHASE_REQUEST_CREATED", "PURCHASE_REQUEST_REPLAYED",
                   "HUMAN_APPROVAL_REQUESTED", "RUN_COMPLETED"}

Instant == 0 .. MaxTime
PurchaseRequest == [id : Calls, evaluation : Calls, createdAt : Instant]

ASSUME StoreAssumption ==
    /\ MaxTime \in Nat
    /\ Nobody \notin Calls
    /\ NoRequest \notin PurchaseRequest

StoreTypeOK ==
    /\ run \in RunOutcome \cup {"ABSENT", "OPEN"}
    /\ sessionUntil \in Nat
    /\ quoteUntil \in [Calls -> Nat]
    /\ evaluation \in [Calls -> EvaluationOutcome \cup {"NONE"}]
    /\ purchase \in [Calls -> PurchaseRequest \cup {NoRequest}]
    /\ approval \in [Calls -> Calls \cup {Nobody}]
    /\ audit \subseteq AuditEventType \X (Calls \cup {Nobody})

StoreInit ==
    /\ run = "ABSENT"
    /\ sessionUntil = 0
    /\ quoteUntil = [c \in Calls |-> 0]
    /\ evaluation = [c \in Calls |-> "NONE"]
    /\ purchase = [c \in Calls |-> NoRequest]
    /\ approval = [c \in Calls |-> Nobody]
    /\ audit = {}
-----------------------------------------------------------------------------
\* What get() shows of the session.
Exists == run # "ABSENT"
Completed == run \in RunOutcome
EscalationOf(e) == {a \in Calls : approval[a] = e}

\* create: the conditional Put of METADATA. The audit of the new session is
\* appended by later, separate Puts.
Create(expiresAt) ==
    /\ run' = "OPEN"
    /\ sessionUntil' = expiresAt
    /\ UNCHANGED <<quoteUntil, evaluation, purchase, approval, audit>>

\* appendAudit: one Put per event, under a sort key no other batch has.
AppendAudit(type, c) ==
    /\ audit' = audit \cup {<<type, c>>}
    /\ UNCHANGED <<run, sessionUntil, quoteUntil, evaluation, purchase, approval>>

PutQuote(q, expiresAt) ==
    /\ quoteUntil' = [quoteUntil EXCEPT ![q] = expiresAt]
    /\ UNCHANGED <<run, sessionUntil, evaluation, purchase, approval, audit>>

PutEvaluation(e, o) ==
    /\ evaluation' = [evaluation EXCEPT ![e] = o]
    /\ UNCHANGED <<run, sessionUntil, quoteUntil, purchase, approval, audit>>

\* Mutant: the Put of the token's item loses its condition.
ClaimUnconditionally(t, request) ==
    /\ purchase' = [purchase EXCEPT ![t] = request]
    /\ UNCHANGED <<run, sessionUntil, quoteUntil, evaluation, approval, audit>>

\* claimConfirmation, answered CLAIMED: attribute_not_exists held and the Put
\* created the token's item together with its purchase request.
ClaimConfirmation(t, request) ==
    /\ purchase[t] = NoRequest
    /\ purchase' = [purchase EXCEPT ![t] = request]
    /\ UNCHANGED <<run, sessionUntil, quoteUntil, evaluation, approval, audit>>

\* claimConfirmation, answered DUPLICATE: the condition failed and a
\* consistent Get reads back the request that consumed the token.
ConfirmationTaken(t) ==
    /\ purchase[t] # NoRequest
    /\ UNCHANGED store

PutApproval(a, e) ==
    /\ approval' = [approval EXCEPT ![a] = e]
    /\ UNCHANGED <<run, sessionUntil, quoteUntil, evaluation, purchase, audit>>

\* Mutant: the Update of the outcome loses its condition.
CompleteUnconditionally(o) ==
    /\ run' = o
    /\ UNCHANGED <<sessionUntil, quoteUntil, evaluation, purchase, approval, audit>>

\* complete, answered COMPLETED: the Update conditional on outcome = null.
CompleteRun(o) ==
    /\ run = "OPEN"
    /\ run' = o
    /\ UNCHANGED <<sessionUntil, quoteUntil, evaluation, purchase, approval, audit>>

\* complete, answered ALREADY_COMPLETED.
AlreadyCompleted ==
    /\ Completed
    /\ UNCHANGED store
=============================================================================
