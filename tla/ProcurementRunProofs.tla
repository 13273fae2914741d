------------------------ MODULE ProcurementRunProofs ------------------------
(***************************************************************************)
(* Proofs about ProcurementRun for every set of calls, every lifetime of   *)
(* sessions and quotes, and any number of crashes.                         *)
(***************************************************************************)
EXTENDS ProcurementRun, TLAPS

\* TypeOK alone is not inductive: what a call writes comes from its local
\* variables, which are filled in by the time its step needs them.
ControlOK ==
    \A c \in Calls :
        /\ step[c] \in {"create", "verify", "claim", "approve", "putApproval"} =>
               target[c] \in Calls
        /\ step[c] \in {"verify", "claim"} => token[c] = target[c]
        /\ step[c] \in {"complete", "append", "appendWon"} => event[c] # "NONE"
        /\ step[c] \in {"complete", "appendWon", "appendCompleted", "metrics"} =>
               outcome[c] # "NONE"

TypeInv == TypeOK /\ ControlOK

\* Before the first request everything is unset.
LEMMA TypeInit == Init => TypeInv
BY StoreAssumption, RunAssumption
DEF Init, StoreInit, TypeInv, TypeOK, StoreTypeOK, ControlOK, Step, Kind,
    Instant

\* No handler step writes a value of the wrong type, nor leaves for a step
\* whose local variables are not filled in.
LEMMA TypeStep == TypeInv /\ [Next]_vars => TypeInv'
<1> SUFFICES ASSUME TypeInv, [Next]_vars PROVE TypeInv'
  OBVIOUS
<1> USE StoreAssumption, RunAssumption
    DEF TypeInv, TypeOK, StoreTypeOK, ControlOK, Step, Kind, local, store,
        Goto, Finish, Note, Exists
<1>1. CASE StartSession
  BY <1>1 DEF StartSession, Create, Instant
<1>2. CASE StartSessionAudit
  BY <1>2 DEF StartSessionAudit, AppendAudit, AuditEventType
<1>3. CASE StartSessionReturns
  BY <1>3 DEF StartSessionReturns
<1>4. CASE StartCrash
  BY <1>4 DEF StartCrash
<1>5. CASE Tick
  BY <1>5 DEF Tick, Instant
<1>6. ASSUME NEW c \in Calls, Utterance(c) PROVE TypeInv'
  <2> USE DEF BeginUtterance, Begin
  <2>1. CASE UtteranceOutOfDomain(c)
    BY <2>1 DEF UtteranceOutOfDomain, RunOutcome, AuditEventType
  <2>2. CASE UtteranceAmbiguous(c)
    BY <2>2 DEF UtteranceAmbiguous, AuditEventType
  <2>3. CASE UtteranceResolved(c)
    BY <2>3 DEF UtteranceResolved
  <2>4. CASE QuoteRefused(c)
    BY <2>4 DEF QuoteRefused, RunOutcome, AuditEventType
  <2>5. CASE QuoteAsked(c)
    BY <2>5 DEF QuoteAsked
  <2>6. CASE SupplierFails(c)
    BY <2>6 DEF SupplierFails, RunOutcome, AuditEventType
  <2>7. CASE SupplierAnswers(c)
    BY <2>7 DEF SupplierAnswers, PutQuote, Instant
  <2>8. CASE EvaluateFails(c)
    BY <2>8 DEF EvaluateFails, RunOutcome, AuditEventType
  <2>9. CASE EvaluateAccepted(c)
    BY <2>9 DEF EvaluateAccepted, Evaluates, PutEvaluation, EvaluationOutcome,
                AuditEventType
  <2>10. CASE EvaluateHumanReview(c)
    BY <2>10 DEF EvaluateHumanReview, Evaluates, PutEvaluation, EvaluationOutcome,
                 AuditEventType
  <2>11. CASE EvaluateRejected(c)
    BY <2>11 DEF EvaluateRejected, Evaluates, PutEvaluation, EvaluationOutcome,
                 RunOutcome, AuditEventType
  <2>12. QED
    BY <1>6, <2>1, <2>2, <2>3, <2>4, <2>5, <2>6, <2>7, <2>8, <2>9, <2>10, <2>11
    DEF Utterance
<1>7. ASSUME NEW c \in Calls, Confirmation(c) PROVE TypeInv'
  <2> USE DEF Begin
  <2>1. ASSUME NEW e \in Calls, Decline(c, e) PROVE TypeInv'
    BY <2>1 DEF Decline, RunOutcome, AuditEventType
  <2>2. ASSUME NEW e \in Calls, NEW t \in Calls \cup {Nobody}, Confirm(c, e, t)
        PROVE TypeInv'
    BY <2>2 DEF Confirm
  <2>3. CASE CreateRefused(c)
    BY <2>3 DEF CreateRefused, RunOutcome, AuditEventType
  <2>4. CASE CreateReplayed(c)
    BY <2>4 DEF CreateReplayed, Consumed, AuditEventType
  <2>5. CASE CreateCleared(c)
    BY <2>5 DEF CreateCleared, Cleared
  <2>6. CASE QuoteLapsed(c) \/ QuoteVerified(c)
    BY <2>6 DEF QuoteLapsed, QuoteVerified, RunOutcome, AuditEventType
  <2>7. CASE ClaimWins(c)
    <3>1. Draft(c) \in PurchaseRequest
      BY <2>7 DEF ClaimWins, Draft, PurchaseRequest
    <3>2. QED
      BY <2>7, <3>1 DEF ClaimWins, ClaimConfirmation, RunOutcome, AuditEventType
  <2>8. CASE ClaimLoses(c)
    BY <2>8 DEF ClaimLoses, ConfirmationTaken, AuditEventType
  <2>9. QED
    BY <1>7, <2>1, <2>2, <2>3, <2>4, <2>5, <2>6, <2>7, <2>8 DEF Confirmation
<1>8. ASSUME NEW c \in Calls, Escalation(c) PROVE TypeInv'
  <2>1. ASSUME NEW e \in Calls, Escalate(c, e) PROVE TypeInv'
    BY <2>1 DEF Escalate, Begin
  <2>2. CASE ApprovalRefused(c)
    BY <2>2 DEF ApprovalRefused, AuditEventType
  <2>3. CASE ApprovalFound(c)
    BY <2>3 DEF ApprovalFound, RunOutcome, AuditEventType
  <2>4. CASE ApprovalNeeded(c)
    BY <2>4 DEF ApprovalNeeded
  <2>5. CASE ApprovalPut(c)
    BY <2>5 DEF ApprovalPut, PutApproval, RunOutcome, AuditEventType
  <2>6. QED
    BY <1>8, <2>1, <2>2, <2>3, <2>4, <2>5 DEF Escalation
<1>9. ASSUME NEW c \in Calls, Ending(c) PROVE TypeInv'
  <2>1. CASE CompleteWins(c)
    BY <2>1 DEF CompleteWins, CompleteRun
  <2>2. CASE CompleteLoses(c)
    BY <2>2 DEF CompleteLoses, AlreadyCompleted
  <2>3. CASE Append(c)
    BY <2>3 DEF Append, AppendAudit
  <2>4. CASE AppendWon(c)
    BY <2>4 DEF AppendWon, AppendAudit
  <2>5. CASE AppendCompleted(c)
    BY <2>5 DEF AppendCompleted, AppendAudit, AuditEventType
  <2>6. CASE EmitMetrics(c)
    BY <2>6 DEF EmitMetrics, OutcomeMetrics, MetricName
  <2>7. QED
    BY <1>9, <2>1, <2>2, <2>3, <2>4, <2>5, <2>6 DEF Ending
<1>10. ASSUME NEW c \in Calls, Crash(c) PROVE TypeInv'
  BY <1>10 DEF Crash
<1>11. CASE UNCHANGED vars
  BY <1>11 DEF vars
<1>12. QED
  BY <1>1, <1>2, <1>3, <1>4, <1>5, <1>6, <1>7, <1>8, <1>9, <1>10, <1>11
  DEF Next, Starting, Handle

\* The inductive type invariant of every handler.
LEMMA TypeInvariant == Spec => []TypeInv
<1>1. QED
  BY TypeInit, TypeStep, PTL DEF Spec

\* Every variable keeps its type: in particular whatever a call writes to the
\* store is in its local variables by then (all handlers of the orchestrator).
THEOREM TypeCorrect == Spec => []TypeOK
<1>1. TypeInv => TypeOK
  BY DEF TypeInv
<1>2. QED
  BY <1>1, TypeInvariant, PTL
-----------------------------------------------------------------------------
(* What a purchase request rests on *)

\* Nobody is served before startSession returned, what a call mints does not
\* exist before it minted it, and a call on its way to claim a token carries
\* an accepted evaluation and a reading of the clock inside the quote's lifetime.
ProvenanceInv ==
    /\ opening # "started" => \A c \in Calls : step[c] = "idle"
    /\ \A c \in Calls :
          /\ step[c] \in {"idle", "quote", "supplier", "evaluate"} =>
                 evaluation[c] = "NONE"
          /\ evaluation[c] # "ACCEPTED" => purchase[c] = NoRequest
          /\ step[c] \in {"verify", "claim"} => evaluation[token[c]] = "ACCEPTED"
          /\ step[c] = "claim" => readAt[c] < quoteUntil[token[c]]
    /\ PurchaseIsApproved

\* Each step of each handler keeps the evidence a request rests on.
LEMMA ProvenanceStep ==
    TypeInv /\ ProvenanceInv /\ [Next]_vars => ProvenanceInv'
<1> SUFFICES ASSUME TypeInv, ProvenanceInv, [Next]_vars PROVE ProvenanceInv'
  OBVIOUS
<1> USE StoreAssumption, RunAssumption
    DEF TypeInv, TypeOK, StoreTypeOK, ControlOK, ProvenanceInv, PurchaseIsApproved,
        local, store, Goto, Finish, Note, Instant
<1>1. CASE Starting \/ StartCrash \/ Tick
  BY <1>1 DEF Starting, StartSession, StartSessionAudit, StartSessionReturns,
              StartCrash, Tick, Create, AppendAudit
<1>2. ASSUME NEW c \in Calls, Utterance(c) PROVE ProvenanceInv'
  <2> USE DEF BeginUtterance, Begin
  <2>1. CASE UtteranceOutOfDomain(c) \/ UtteranceAmbiguous(c) \/ UtteranceResolved(c)
    BY <2>1 DEF UtteranceOutOfDomain, UtteranceAmbiguous, UtteranceResolved
  <2>2. CASE QuoteRefused(c) \/ QuoteAsked(c) \/ SupplierFails(c) \/ EvaluateFails(c)
    BY <2>2 DEF QuoteRefused, QuoteAsked, SupplierFails, EvaluateFails
  <2>3. CASE SupplierAnswers(c)
    BY <2>3 DEF SupplierAnswers, PutQuote
  <2>4. CASE EvaluateAccepted(c)
    BY <2>4 DEF EvaluateAccepted, Evaluates, PutEvaluation
  <2>5. CASE EvaluateHumanReview(c) \/ EvaluateRejected(c)
    BY <2>5 DEF EvaluateHumanReview, EvaluateRejected, Evaluates, PutEvaluation
  <2>6. QED
    BY <1>2, <2>1, <2>2, <2>3, <2>4, <2>5 DEF Utterance
<1>3. ASSUME NEW c \in Calls, Confirmation(c) PROVE ProvenanceInv'
  <2>1. ASSUME NEW e \in Calls, Decline(c, e) PROVE ProvenanceInv'
    BY <2>1 DEF Decline, Begin, Offered
  <2>2. ASSUME NEW e \in Calls, NEW t \in Calls \cup {Nobody}, Confirm(c, e, t)
        PROVE ProvenanceInv'
    BY <2>2 DEF Confirm, Begin, Offered
  <2>3. CASE CreateRefused(c) \/ CreateReplayed(c)
    BY <2>3 DEF CreateRefused, CreateReplayed
  <2>4. CASE CreateCleared(c)
    BY <2>4 DEF CreateCleared, Cleared
  <2>5. CASE QuoteLapsed(c) \/ QuoteVerified(c)
    BY <2>5 DEF QuoteLapsed, QuoteVerified, QuoteLive
  <2>6. CASE ClaimWins(c)
    BY <2>6 DEF ClaimWins, ClaimConfirmation, Draft
  <2>7. CASE ClaimLoses(c)
    BY <2>7 DEF ClaimLoses, ConfirmationTaken
  <2>8. QED
    BY <1>3, <2>1, <2>2, <2>3, <2>4, <2>5, <2>6, <2>7 DEF Confirmation
<1>4. ASSUME NEW c \in Calls, Escalation(c) PROVE ProvenanceInv'
  <2>1. ASSUME NEW e \in Calls, Escalate(c, e) PROVE ProvenanceInv'
    BY <2>1 DEF Escalate, Begin, Offered
  <2>2. CASE ApprovalRefused(c) \/ ApprovalFound(c) \/ ApprovalNeeded(c)
    BY <2>2 DEF ApprovalRefused, ApprovalFound, ApprovalNeeded
  <2>3. CASE ApprovalPut(c)
    BY <2>3 DEF ApprovalPut, PutApproval
  <2>4. QED
    BY <1>4, <2>1, <2>2, <2>3 DEF Escalation
<1>5. ASSUME NEW c \in Calls, Ending(c) PROVE ProvenanceInv'
  <2>1. CASE CompleteWins(c) \/ CompleteLoses(c)
    BY <2>1 DEF CompleteWins, CompleteLoses, CompleteRun, AlreadyCompleted
  <2>2. CASE Append(c) \/ AppendWon(c) \/ AppendCompleted(c)
    BY <2>2 DEF Append, AppendWon, AppendCompleted, AppendAudit
  <2>3. CASE EmitMetrics(c)
    BY <2>3 DEF EmitMetrics
  <2>4. QED
    BY <1>5, <2>1, <2>2, <2>3 DEF Ending
<1>6. ASSUME NEW c \in Calls, Crash(c) PROVE ProvenanceInv'
  BY <1>6 DEF Crash
<1>7. CASE UNCHANGED vars
  BY <1>7 DEF vars
<1>8. QED
  BY <1>1, <1>2, <1>3, <1>4, <1>5, <1>6, <1>7 DEF Next, Handle

\* The evidence is there in every reachable state.
LEMMA ProvenanceInvariant == Spec => []ProvenanceInv
<1>1. Init => ProvenanceInv
  BY DEF Init, StoreInit, ProvenanceInv, PurchaseIsApproved
<1>2. QED
  BY <1>1, TypeInvariant, ProvenanceStep, PTL DEF Spec

\* No purchase request without an accepted evaluation, its own token, and a
\* quote that was valid when it was drafted, however the turns
\* and confirmations interleave (createPurchaseRequest).
THEOREM PurchaseApproved == Spec => []PurchaseIsApproved
<1>1. ProvenanceInv => PurchaseIsApproved
  BY DEF ProvenanceInv
<1>2. QED
  BY <1>1, ProvenanceInvariant, PTL
-----------------------------------------------------------------------------
(* A token is consumed once *)

\* The caller that a request names is the one that was told of creating it, and
\* a call that was told of a request no longer changes its token or its event.
TokenInv ==
    /\ \A c \in Calls :
          /\ told[c] # NoRequest =>
                 /\ step[c] \in {"complete", "append", "appendWon", "appendCompleted",
                                 "metrics", "done", "crashed"}
                 /\ token[c] \in Calls
          /\ event[c] = "PURCHASE_REQUEST_CREATED" =>
                 told[c] # NoRequest /\ told[c].id = c
    /\ \A t \in Calls : purchase[t] # NoRequest =>
          /\ told[purchase[t].id] = purchase[t]
          /\ event[purchase[t].id] = "PURCHASE_REQUEST_CREATED"
    /\ SingleUse

\* A claim that wins finds no other request under the token, one that loses
\* copies the request it finds, and nothing else touches tokens or requests.
LEMMA TokenStep == TypeInv /\ TokenInv /\ [Next]_vars => TokenInv'
<1> SUFFICES ASSUME TypeInv, TokenInv, [Next]_vars PROVE TokenInv'
  OBVIOUS
<1> USE StoreAssumption, RunAssumption
    DEF TypeInv, TypeOK, StoreTypeOK, ControlOK, TokenInv, SingleUse, PurchaseRequest,
        local, store, Goto, Finish, Note
<1>1. CASE Starting \/ StartCrash \/ Tick
  BY <1>1 DEF Starting, StartSession, StartSessionAudit, StartSessionReturns,
              StartCrash, Tick, Create, AppendAudit
<1>2. ASSUME NEW c \in Calls, Utterance(c) PROVE TokenInv'
  <2>1. CASE UtteranceOutOfDomain(c) \/ UtteranceAmbiguous(c) \/ UtteranceResolved(c)
    BY <2>1 DEF UtteranceOutOfDomain, UtteranceAmbiguous, UtteranceResolved,
                BeginUtterance, Begin
  <2>2. CASE QuoteRefused(c) \/ QuoteAsked(c) \/ SupplierFails(c) \/ EvaluateFails(c)
    BY <2>2, SMTT(20) DEF QuoteRefused, QuoteAsked, SupplierFails, EvaluateFails
  <2>3. CASE SupplierAnswers(c)
    BY <2>3 DEF SupplierAnswers, PutQuote
  <2>4. CASE EvaluateAccepted(c) \/ EvaluateHumanReview(c) \/ EvaluateRejected(c)
    BY <2>4 DEF EvaluateAccepted, EvaluateHumanReview, EvaluateRejected, Evaluates,
                PutEvaluation
  <2>5. QED
    BY <1>2, <2>1, <2>2, <2>3, <2>4 DEF Utterance
<1>3. ASSUME NEW c \in Calls, Confirmation(c) PROVE TokenInv'
  <2>1. ASSUME NEW e \in Calls, Decline(c, e) PROVE TokenInv'
    BY <2>1 DEF Decline, Begin
  <2>2. ASSUME NEW e \in Calls, NEW t \in Calls \cup {Nobody}, Confirm(c, e, t)
        PROVE TokenInv'
    BY <2>2 DEF Confirm, Begin
  <2>3. CASE CreateRefused(c) \/ CreateCleared(c) \/ QuoteLapsed(c) \/ QuoteVerified(c)
    BY <2>3 DEF CreateRefused, CreateCleared, QuoteLapsed, QuoteVerified
  <2>4. CASE CreateReplayed(c)
    BY <2>4 DEF CreateReplayed, Consumed
  <2>5. CASE ClaimWins(c)
    <3>1. /\ told[c] = NoRequest
          /\ Draft(c) # NoRequest
          /\ Draft(c).id = c
          /\ token[c] \in Calls
      BY <2>5 DEF ClaimWins, Draft
    <3>2. \A t \in Calls : purchase[t] # NoRequest => purchase[t].id # c
      BY <3>1
    <3>3. QED
      BY <2>5, <3>1, <3>2 DEF ClaimWins, ClaimConfirmation
  <2>6. CASE ClaimLoses(c)
    BY <2>6 DEF ClaimLoses, ConfirmationTaken
  <2>7. QED
    BY <1>3, <2>1, <2>2, <2>3, <2>4, <2>5, <2>6 DEF Confirmation
<1>4. ASSUME NEW c \in Calls, Escalation(c) PROVE TokenInv'
  <2>1. ASSUME NEW e \in Calls, Escalate(c, e) PROVE TokenInv'
    BY <2>1 DEF Escalate, Begin
  <2>2. CASE ApprovalRefused(c) \/ ApprovalFound(c) \/ ApprovalNeeded(c)
    BY <2>2 DEF ApprovalRefused, ApprovalFound, ApprovalNeeded
  <2>3. CASE ApprovalPut(c)
    BY <2>3 DEF ApprovalPut, PutApproval
  <2>4. QED
    BY <1>4, <2>1, <2>2, <2>3 DEF Escalation
<1>5. ASSUME NEW c \in Calls, Ending(c) PROVE TokenInv'
  BY <1>5 DEF Ending, CompleteWins, CompleteLoses, CompleteRun, AlreadyCompleted,
              Append, AppendWon, AppendCompleted, AppendAudit, EmitMetrics
<1>6. ASSUME NEW c \in Calls, Crash(c) PROVE TokenInv'
  BY <1>6 DEF Crash
<1>7. CASE UNCHANGED vars
  BY <1>7 DEF vars
<1>8. QED
  BY <1>1, <1>2, <1>3, <1>4, <1>5, <1>6, <1>7 DEF Next, Handle

\* Every request has the one creator its identifier names.
LEMMA TokenInvariant == Spec => []TokenInv
<1>1. Init => TokenInv
  BY DEF Init, StoreInit, TokenInv, SingleUse
<1>2. QED
  BY <1>1, TypeInvariant, TokenStep, PTL DEF Spec

\* Whoever submits a token is told the one request it bought, and exactly one
\* submission reports the creation (createPurchaseRequest, claimConfirmation).
THEOREM TokenUsedOnce == Spec => []SingleUse
<1>1. TokenInv => SingleUse
  BY DEF TokenInv
<1>2. QED
  BY <1>1, TokenInvariant, PTL
-----------------------------------------------------------------------------
(* What backs an outcome *)

\* A call carries an outcome to complete only after the record that earns it
\* was stored, and only evaluations that need a human are ever escalated.
EvidenceInv ==
    /\ \A c \in Calls :
          /\ step[c] = "putApproval" => evaluation[target[c]] = "HUMAN_REVIEW_REQUIRED"
          /\ approval[c] # Nobody => evaluation[approval[c]] = "HUMAN_REVIEW_REQUIRED"
          /\ step[c] = "complete" /\ outcome[c] = "PURCHASE_REQUEST_CREATED" =>
                 \E t \in Calls : purchase[t] # NoRequest
          /\ step[c] = "complete" /\ outcome[c] = "HUMAN_APPROVAL_REQUESTED" =>
                 \E a \in Calls : approval[a] # Nobody
    /\ OutcomeIsEarned

\* Evaluations, requests and approvals are never taken back, so the evidence a
\* call gathered is still there when its outcome is recorded.
LEMMA EvidenceStep ==
    TypeInv /\ ProvenanceInv /\ EvidenceInv /\ [Next]_vars => EvidenceInv'
<1> SUFFICES ASSUME TypeInv, ProvenanceInv, EvidenceInv, [Next]_vars PROVE EvidenceInv'
  OBVIOUS
<1>0. \A c \in Calls : step[c] = "evaluate" => evaluation[c] = "NONE"
  BY DEF ProvenanceInv
<1> USE StoreAssumption, RunAssumption
    DEF TypeInv, TypeOK, StoreTypeOK, ControlOK, EvidenceInv, OutcomeIsEarned,
        local, store, Goto, Finish, Note
<1>1. CASE Starting \/ StartCrash \/ Tick
  BY <1>1 DEF Starting, StartSession, StartSessionAudit, StartSessionReturns,
              StartCrash, Tick, Create, AppendAudit
<1>2. ASSUME NEW c \in Calls, Utterance(c) PROVE EvidenceInv'
  <2>1. CASE UtteranceOutOfDomain(c) \/ UtteranceAmbiguous(c) \/ UtteranceResolved(c)
    BY <2>1 DEF UtteranceOutOfDomain, UtteranceAmbiguous, UtteranceResolved,
                BeginUtterance, Begin
  <2>2. CASE QuoteRefused(c) \/ QuoteAsked(c) \/ SupplierFails(c) \/ EvaluateFails(c)
    BY <2>2 DEF QuoteRefused, QuoteAsked, SupplierFails, EvaluateFails
  <2>3. CASE SupplierAnswers(c)
    BY <2>3 DEF SupplierAnswers, PutQuote
  <2>4. CASE EvaluateAccepted(c) \/ EvaluateHumanReview(c) \/ EvaluateRejected(c)
    BY <2>4, <1>0 DEF EvaluateAccepted, EvaluateHumanReview, EvaluateRejected,
                      Evaluates, PutEvaluation
  <2>5. QED
    BY <1>2, <2>1, <2>2, <2>3, <2>4 DEF Utterance
<1>3. ASSUME NEW c \in Calls, Confirmation(c) PROVE EvidenceInv'
  <2>1. ASSUME NEW e \in Calls, Decline(c, e) PROVE EvidenceInv'
    BY <2>1 DEF Decline, Begin
  <2>2. ASSUME NEW e \in Calls, NEW t \in Calls \cup {Nobody}, Confirm(c, e, t)
        PROVE EvidenceInv'
    BY <2>2 DEF Confirm, Begin
  <2>3. CASE CreateRefused(c) \/ CreateReplayed(c) \/ CreateCleared(c)
    BY <2>3 DEF CreateRefused, CreateReplayed, CreateCleared
  <2>4. CASE QuoteLapsed(c) \/ QuoteVerified(c)
    BY <2>4 DEF QuoteLapsed, QuoteVerified
  <2>5. CASE ClaimWins(c)
    <3>1. Draft(c) # NoRequest /\ token[c] \in Calls
      BY <2>5 DEF ClaimWins, Draft, PurchaseRequest
    <3>2. QED
      BY <2>5, <3>1 DEF ClaimWins, ClaimConfirmation
  <2>6. CASE ClaimLoses(c)
    BY <2>6 DEF ClaimLoses, ConfirmationTaken
  <2>7. QED
    BY <1>3, <2>1, <2>2, <2>3, <2>4, <2>5, <2>6 DEF Confirmation
<1>4. ASSUME NEW c \in Calls, Escalation(c) PROVE EvidenceInv'
  <2>1. ASSUME NEW e \in Calls, Escalate(c, e) PROVE EvidenceInv'
    BY <2>1 DEF Escalate, Begin
  <2>2. CASE ApprovalRefused(c) \/ ApprovalNeeded(c)
    BY <2>2 DEF ApprovalRefused, ApprovalNeeded
  <2>3. CASE ApprovalFound(c)
    <3>1. \E a \in Calls : approval[a] # Nobody
      BY <2>3 DEF ApprovalFound, EscalationOf
    <3>2. QED
      BY <2>3, <3>1 DEF ApprovalFound
  <2>4. CASE ApprovalPut(c)
    BY <2>4 DEF ApprovalPut, PutApproval
  <2>5. QED
    BY <1>4, <2>1, <2>2, <2>3, <2>4 DEF Escalation
<1>5. ASSUME NEW c \in Calls, Ending(c) PROVE EvidenceInv'
  BY <1>5 DEF Ending, CompleteWins, CompleteLoses, CompleteRun, AlreadyCompleted,
              Append, AppendWon, AppendCompleted, AppendAudit, EmitMetrics
<1>6. ASSUME NEW c \in Calls, Crash(c) PROVE EvidenceInv'
  BY <1>6 DEF Crash
<1>7. CASE UNCHANGED vars
  BY <1>7 DEF vars
<1>8. QED
  BY <1>1, <1>2, <1>3, <1>4, <1>5, <1>6, <1>7 DEF Next, Handle

\* Outcomes and their evidence in every reachable state.
LEMMA EvidenceInvariant == Spec => []EvidenceInv
<1>1. Init => EvidenceInv
  BY StoreAssumption DEF Init, StoreInit, EvidenceInv, OutcomeIsEarned
<1>2. QED
  BY <1>1, TypeInvariant, ProvenanceInvariant, EvidenceStep, PTL DEF Spec

\* A run that counts as accepted, or as escalated, has the stored request to
\* show for it, whatever crashed on the way (confirm, escalate, completeRun).
THEOREM OutcomeEarned == Spec => []OutcomeIsEarned
<1>1. EvidenceInv => OutcomeIsEarned
  BY DEF EvidenceInv
<1>2. QED
  BY <1>1, EvidenceInvariant, PTL

\* No confirmation turns an escalated evaluation into an order
\* (requestHumanApproval against createPurchaseRequest).
THEOREM EscalationNeverOrders == Spec => []ApprovalNeverOrders
<1>1. TypeInv /\ ProvenanceInv /\ EvidenceInv => ApprovalNeverOrders
  BY DEF TypeInv, TypeOK, StoreTypeOK, ProvenanceInv, EvidenceInv, ApprovalNeverOrders
<1>2. QED
  BY <1>1, TypeInvariant, ProvenanceInvariant, EvidenceInvariant, PTL
-----------------------------------------------------------------------------
(* One call counts the run *)

\* The call that the store told COMPLETED, as far as its steps and the trail
\* still show it (a crash may hide it, then nobody counts the run).
Counting(c) ==
    \/ step[c] \in {"appendWon", "appendCompleted", "metrics"}
    \/ <<"RUN_COMPLETED", c>> \in audit

CountInv ==
    /\ opening = "none" => run = "ABSENT"
    /\ \A c \in Calls :
          /\ Counting(c) =>
                 /\ run = outcome[c]
                 /\ run \in RunOutcome
                 /\ step[c] \in {"appendWon", "appendCompleted", "metrics", "done",
                                 "crashed"}
          /\ event[c] # "RUN_COMPLETED"
          /\ <<"RUN_COMPLETED", c>> \in audit => step[c] # "appendWon"
          /\ step[c] = "metrics" => <<"RUN_COMPLETED", c>> \in audit
          /\ step[c] \in {"appendCompleted", "metrics", "done"} =>
                 <<event[c], c>> \in audit
          /\ \A m \in MetricName : <<m, c>> \in metrics =>
                 /\ <<"RUN_COMPLETED", c>> \in audit
                 /\ <<event[c], c>> \in audit
                 /\ step[c] = "done"
    /\ \A c, d \in Calls : Counting(c) /\ Counting(d) => c = d

\* Until it completes, a call leaves the trail, the metrics and the run alone.
Early == {"idle", "quote", "supplier", "evaluate", "create", "verify", "claim", "approve",
          "putApproval", "complete"}

Quiet(c) ==
    /\ step[c] \in Early
    /\ \E s \in Early \cup {"append", "crashed"} : step' = [step EXCEPT ![c] = s]
    /\ UNCHANGED <<run, opening, audit, metrics>>
    /\ \A d \in Calls \ {c} : event'[d] = event[d] /\ outcome'[d] = outcome[d]
    /\ event'[c] # "RUN_COMPLETED"

\* The orchestrator's methods are quiet up to completeRun or appendAudit.
LEMMA HandlersAreQuiet ==
    ASSUME TypeInv, CountInv, NEW c \in Calls,
           Utterance(c) \/ Confirmation(c) \/ Escalation(c)
    PROVE  Quiet(c)
<1>0. /\ step \in [Calls -> Step]
      /\ event \in [Calls -> AuditEventType \cup {"NONE"}]
      /\ outcome \in [Calls -> RunOutcome \cup {"NONE"}]
      /\ event[c] # "RUN_COMPLETED"
  BY DEF TypeInv, TypeOK, CountInv
<1> USE <1>0 DEF Quiet, Early, local, store, Goto, Finish, Note
<1>1. CASE Utterance(c)
  BY <1>1 DEF Utterance, UtteranceOutOfDomain, UtteranceAmbiguous, UtteranceResolved,
      BeginUtterance, Begin, QuoteRefused, QuoteAsked, SupplierFails, SupplierAnswers,
      PutQuote, EvaluateFails, EvaluateAccepted, EvaluateHumanReview,
      EvaluateRejected, Evaluates, PutEvaluation
<1>2. CASE Confirmation(c)
  BY <1>2 DEF Confirmation, Decline, Confirm, Begin, CreateRefused, CreateReplayed,
      CreateCleared, QuoteLapsed, QuoteVerified, ClaimWins, ClaimLoses,
      ClaimConfirmation, ConfirmationTaken
<1>3. CASE Escalation(c)
  BY <1>3 DEF Escalation, Escalate, Begin, ApprovalRefused, ApprovalFound,
      ApprovalNeeded, ApprovalPut, PutApproval
<1>4. QED
  BY <1>1, <1>2, <1>3

\* A quiet step cannot make a call count, nor hide what it answered.
LEMMA QuietStep ==
    ASSUME TypeInv, CountInv, NEW c \in Calls, Quiet(c)
    PROVE  CountInv'
<1>1. PICK s \in Early \cup {"append", "crashed"} : step' = [step EXCEPT ![c] = s]
  BY DEF Quiet
<1>2. step \in [Calls -> Step]
  BY DEF TypeInv, TypeOK
<1>3. /\ \A d \in Calls : Counting(d)' <=> Counting(d)
      /\ ~ Counting(c)
  BY <1>1, <1>2 DEF Quiet, Early, CountInv, Counting
<1>4. \A m \in MetricName : <<m, c>> \notin metrics
  BY DEF Quiet, Early, CountInv
<1>5. ASSUME NEW d \in Calls \ {c}
      PROVE  step'[d] = step[d] /\ event'[d] = event[d] /\ outcome'[d] = outcome[d]
  BY <1>1, <1>2 DEF Quiet
<1>6. step'[c] \in Early \cup {"append", "crashed"}
  BY <1>1, <1>2
<1>7. <<"RUN_COMPLETED", c>> \notin audit
  BY <1>3 DEF Counting
<1>8. QED
  BY <1>3, <1>4, <1>5, <1>6, <1>7 DEF Quiet, Early, CountInv

\* Only complete makes a call count, it succeeds while nobody counts, and the
\* events precede the metrics in the batch of the call that does.
LEMMA CountStep == TypeInv /\ CountInv /\ [Next]_vars => CountInv'
<1> SUFFICES ASSUME TypeInv, CountInv, [Next]_vars PROVE CountInv'
  OBVIOUS
<1>0. /\ step \in [Calls -> Step]
      /\ event \in [Calls -> AuditEventType \cup {"NONE"}]
  BY DEF TypeInv, TypeOK
<1> USE <1>0 DEF local, store, Goto
<1>1. CASE Starting \/ StartCrash \/ Tick
  BY <1>1, StoreAssumption
  DEF Starting, StartSession, StartSessionAudit, StartSessionReturns, StartCrash, Tick,
      Create, AppendAudit, RunOutcome, CountInv, Counting
<1>2. ASSUME NEW c \in Calls, Utterance(c) \/ Confirmation(c) \/ Escalation(c)
      PROVE  CountInv'
  BY <1>2, HandlersAreQuiet, QuietStep
<1>3. ASSUME NEW c \in Calls, CompleteWins(c) PROVE CountInv'
  <2>1. \A d \in Calls : ~ Counting(d)
    BY <1>3 DEF CompleteWins, CompleteRun, CountInv, RunOutcome
  <2>2. outcome[c] \in RunOutcome
    BY <1>3 DEF CompleteWins, TypeInv, TypeOK, ControlOK
  <2>3. \A d \in Calls : Counting(d)' => d = c
    BY <1>3, <2>1 DEF CompleteWins, CompleteRun, Counting
  <2>4. \A d \in Calls, m \in MetricName : <<m, d>> \notin metrics
    BY <2>1 DEF CountInv, Counting
  <2>5. QED
    BY <1>3, <2>1, <2>2, <2>3, <2>4 DEF CompleteWins, CompleteRun, CountInv, Counting
<1>4. ASSUME NEW c \in Calls, CompleteLoses(c) PROVE CountInv'
  BY <1>4, QuietStep DEF CompleteLoses, AlreadyCompleted, Quiet, Early, CountInv
<1>5. ASSUME NEW c \in Calls, Append(c) \/ AppendWon(c) PROVE CountInv'
  <2>1. /\ audit' = audit \cup {<<event[c], c>>}
        /\ event[c] # "RUN_COMPLETED"
        /\ UNCHANGED <<run, opening, outcome, event, metrics>>
    BY <1>5 DEF Append, AppendWon, AppendAudit, CountInv
  <2>2. \A d \in Calls : <<"RUN_COMPLETED", d>> \in audit' <=>
                             <<"RUN_COMPLETED", d>> \in audit
    BY <2>1
  <2>3. CASE Append(c)
    <3>1. /\ step[c] = "append"
          /\ step' = [step EXCEPT ![c] = "done"]
      BY <2>3 DEF Append
    <3>2. \A d \in Calls : Counting(d)' <=> Counting(d)
      BY <3>1, <2>2 DEF Counting
    <3>3. QED
      BY <3>1, <3>2, <2>1, <2>2 DEF CountInv
  <2>4. CASE AppendWon(c)
    <3>1. /\ step[c] = "appendWon"
          /\ step' = [step EXCEPT ![c] = "appendCompleted"]
      BY <2>4 DEF AppendWon
    <3>2. \A d \in Calls : Counting(d)' <=> Counting(d)
      BY <3>1, <2>2 DEF Counting
    <3>3. QED
      BY <3>1, <3>2, <2>1, <2>2 DEF CountInv
  <2>5. QED
    BY <1>5, <2>3, <2>4
<1>6. ASSUME NEW c \in Calls, AppendCompleted(c) PROVE CountInv'
  <2>1. \A d \in Calls : Counting(d)' <=> Counting(d)
    BY <1>6 DEF AppendCompleted, AppendAudit, Counting
  <2>2. QED
    BY <1>6, <2>1 DEF AppendCompleted, AppendAudit, Counting, CountInv
<1>7. ASSUME NEW c \in Calls, EmitMetrics(c) PROVE CountInv'
  <2>1. \A d \in Calls : Counting(d)' <=> Counting(d)
    BY <1>7 DEF EmitMetrics, Counting, CountInv
  <2>2. \A d \in Calls, m \in MetricName :
           <<m, d>> \in metrics' => d = c \/ <<m, d>> \in metrics
    BY <1>7 DEF EmitMetrics
  <2>3. QED
    BY <1>7, <2>1, <2>2 DEF EmitMetrics, CountInv
<1>8. ASSUME NEW c \in Calls, Crash(c) PROVE CountInv'
  BY <1>8 DEF Crash, CountInv, Counting
<1>9. CASE UNCHANGED vars
  BY <1>9 DEF vars, CountInv, Counting
<1>10. QED
  BY <1>1, <1>2, <1>3, <1>4, <1>5, <1>6, <1>7, <1>8, <1>9 DEF Next, Handle, Ending

\* At most one call counts the run, in every reachable state.
LEMMA CountInvariant == Spec => []CountInv
<1>1. Init => CountInv
  BY DEF Init, StoreInit, CountInv, Counting
<1>2. QED
  BY <1>1, TypeInvariant, CountStep, PTL DEF Spec

\* However many calls finish the run, one completes and measures it, with the
\* outcome the session shows (completeRun).
THEOREM RunCounted == Spec => []RunCountedOnce
<1>1. TypeInv /\ CountInv => RunCountedOnce
  <2> SUFFICES ASSUME TypeInv, CountInv PROVE RunCountedOnce
    OBVIOUS
  <2>1. \A m \in metrics : m[1] \in MetricName /\ m[2] \in Calls /\ m = <<m[1], m[2]>>
    BY DEF TypeInv, TypeOK
  <2>2. \A c \in Calls :
           (\/ <<"RUN_COMPLETED", c>> \in audit
            \/ \E m \in MetricName : <<m, c>> \in metrics) => Counting(c)
    BY DEF CountInv, Counting
  <2>3. ASSUME NEW m \in metrics PROVE Counting(m[2])
    <3>1. <<m[1], m[2]>> \in metrics /\ m[1] \in MetricName /\ m[2] \in Calls
      BY <2>1
    <3>2. QED
      BY <3>1, <2>2
  <2>4. \A c, d \in Calls : Counting(c) => run = outcome[c] /\ (Counting(d) => c = d)
    BY DEF CountInv
  <2>5. \A m, n \in metrics : m[2] = n[2]
    BY <2>1, <2>3, <2>4
  <2>6. \A c, d \in Calls :
           <<"RUN_COMPLETED", c>> \in audit /\ <<"RUN_COMPLETED", d>> \in audit => c = d
    BY <2>2, <2>4
  <2>7. \A c \in Calls :
           (\/ <<"RUN_COMPLETED", c>> \in audit
            \/ \E m \in MetricName : <<m, c>> \in metrics) => run = outcome[c]
    BY <2>2, <2>4
  <2>8. QED
    BY <2>5, <2>6, <2>7, Zenon DEF RunCountedOnce
<1>2. QED
  BY <1>1, TypeInvariant, CountInvariant, PTL

\* Every answered request is in the trail, and no run is measured before its
\* completion is (finishTurn, completeRun).
THEOREM AuditPrecedes == Spec => []AuditBeforeAnswer
<1>1. TypeInv /\ CountInv => AuditBeforeAnswer
  <2> SUFFICES ASSUME TypeInv, CountInv PROVE AuditBeforeAnswer
    OBVIOUS
  <2>1. \A m \in metrics : m[1] \in MetricName /\ m[2] \in Calls /\ m = <<m[1], m[2]>>
    BY DEF TypeInv, TypeOK
  <2>2. QED
    BY <2>1 DEF CountInv, AuditBeforeAnswer
<1>2. QED
  BY <1>1, TypeInvariant, CountInvariant, PTL
-----------------------------------------------------------------------------
(* The run implements the ledger *)

\* What a step does to the records: nothing, or one claim that wins, or one
\* answer copied from the ledger, or one completion.
RecordStep ==
    \/ UNCHANGED <<purchase, told, run>>
    \/ UNCHANGED <<purchase, told>> /\ run = "ABSENT" /\ run' = "OPEN"
    \/ \E c \in Calls, t \in Calls :
          /\ told[c] = NoRequest
          /\ UNCHANGED run
          /\ \/ /\ purchase[t] # NoRequest
                /\ told' = [told EXCEPT ![c] = purchase[t]]
                /\ UNCHANGED purchase
             \/ \E request \in PurchaseRequest :
                /\ purchase[t] = NoRequest
                /\ purchase' = [purchase EXCEPT ![t] = request]
                /\ told' = [told EXCEPT ![c] = request]
    \/ \E o \in RunOutcome :
          /\ UNCHANGED <<purchase, told>>
          /\ run = "OPEN" /\ run' = o
          /\ o = "PURCHASE_REQUEST_CREATED" =>
                \E t \in Calls : purchase[t] # NoRequest

\* Every step of every handler is one of these.
LEMMA StepsRecord ==
    TypeInv /\ TokenInv /\ EvidenceInv /\ CountInv /\ [Next]_vars => RecordStep
<1> SUFFICES ASSUME TypeInv, TokenInv, EvidenceInv, CountInv, [Next]_vars
             PROVE RecordStep
  OBVIOUS
<1> USE DEF local, store
<1>1. CASE StartSession
  BY <1>1 DEF StartSession, Create, RecordStep, CountInv
<1>2. CASE StartSessionAudit \/ StartSessionReturns \/ StartCrash \/ Tick
  BY <1>2 DEF StartSessionAudit, StartSessionReturns, StartCrash, Tick, AppendAudit,
              RecordStep
<1>3. ASSUME NEW c \in Calls, Utterance(c) PROVE RecordStep
  BY <1>3 DEF Utterance, UtteranceOutOfDomain, UtteranceAmbiguous, UtteranceResolved,
      BeginUtterance, Begin, QuoteRefused, QuoteAsked, SupplierFails, SupplierAnswers,
      PutQuote, EvaluateFails, EvaluateAccepted, EvaluateHumanReview,
      EvaluateRejected, Evaluates, PutEvaluation, RecordStep
<1>4. ASSUME NEW c \in Calls, Confirmation(c) PROVE RecordStep
  <2>1. CASE \/ \E e \in Calls : Decline(c, e)
             \/ \E e \in Calls, t \in Calls \cup {Nobody} : Confirm(c, e, t)
    BY <2>1 DEF Decline, Confirm, Begin, RecordStep
  <2>2. CASE CreateRefused(c) \/ CreateCleared(c) \/ QuoteLapsed(c) \/ QuoteVerified(c)
    BY <2>2 DEF CreateRefused, CreateCleared, QuoteLapsed, QuoteVerified, RecordStep
  <2>3. CASE CreateReplayed(c)
    <3>1. told[c] = NoRequest
      BY <2>3 DEF CreateReplayed, TokenInv
    <3>2. QED
      BY <2>3, <3>1 DEF CreateReplayed, Consumed, RecordStep
  <2>4. CASE ClaimWins(c)
    <3>1. told[c] = NoRequest /\ token[c] \in Calls
      BY <2>4 DEF ClaimWins, TokenInv, TypeInv, ControlOK
    <3>2. Draft(c) \in PurchaseRequest
      BY <2>4 DEF ClaimWins, Draft, PurchaseRequest, TypeInv, ControlOK, TypeOK
    <3>3. QED
      BY <2>4, <3>1, <3>2 DEF ClaimWins, ClaimConfirmation, RecordStep
  <2>5. CASE ClaimLoses(c)
    <3>1. told[c] = NoRequest /\ token[c] \in Calls
      BY <2>5 DEF ClaimLoses, TokenInv, TypeInv, ControlOK
    <3>2. QED
      BY <2>5, <3>1 DEF ClaimLoses, ConfirmationTaken, RecordStep
  <2>6. QED
    BY <1>4, <2>1, <2>2, <2>3, <2>4, <2>5 DEF Confirmation
<1>5. ASSUME NEW c \in Calls, Escalation(c) PROVE RecordStep
  BY <1>5 DEF Escalation, Escalate, Begin, ApprovalRefused, ApprovalFound,
      ApprovalNeeded, ApprovalPut, PutApproval, RecordStep
<1>6. ASSUME NEW c \in Calls, Ending(c) PROVE RecordStep
  <2>1. CASE CompleteWins(c)
    <3>1. outcome[c] \in RunOutcome
      BY <2>1 DEF CompleteWins, TypeInv, TypeOK, ControlOK
    <3>2. QED
      BY <2>1, <3>1 DEF CompleteWins, CompleteRun, EvidenceInv, RecordStep
  <2>2. CASE CompleteLoses(c) \/ Append(c) \/ AppendWon(c) \/ AppendCompleted(c)
             \/ EmitMetrics(c)
    BY <2>2 DEF CompleteLoses, AlreadyCompleted, Append, AppendWon, AppendCompleted,
        AppendAudit, EmitMetrics, RecordStep
  <2>3. QED
    BY <1>6, <2>1, <2>2 DEF Ending
<1>7. ASSUME NEW c \in Calls, Crash(c) PROVE RecordStep
  BY <1>7 DEF Crash, RecordStep
<1>8. CASE UNCHANGED vars
  BY <1>8 DEF vars, RecordStep
<1>9. QED
  BY <1>1, <1>2, <1>3, <1>4, <1>5, <1>6, <1>7, <1>8 DEF Next, Handle, Starting

\* A recorded outcome and a recorded purchase request are never rewritten
\* (the conditional writes of complete and claimConfirmation).
THEOREM RecordsFinal == Spec => RecordsAreFinal
<1>1. TypeInv /\ RecordStep =>
        [ /\ Completed => run' = run
          /\ \A t \in Calls : purchase[t] # NoRequest => purchase'[t] = purchase[t] ]_vars
  BY DEF TypeInv, TypeOK, StoreTypeOK, RecordStep, Completed, RunOutcome
<1>2. QED
  BY <1>1, StepsRecord, TypeInvariant, TokenInvariant, EvidenceInvariant,
     CountInvariant, PTL DEF Spec, RecordsAreFinal

\* Concurrent, repeated and crashing confirmations are indistinguishable, by
\* records and answers, from atomic purchases in a ledger.
THEOREM ImplementsLedger == Spec => ActsAsLedger
<1>1. Init => Ledger!LedgerInit
  BY DEF Init, StoreInit, Ledger!LedgerInit, Exists
<1>2. TypeInv /\ RecordStep => [Ledger!LedgerNext]_(Ledger!ledgerVars)
  <2> SUFFICES ASSUME TypeInv, RecordStep PROVE [Ledger!LedgerNext]_(Ledger!ledgerVars)
    OBVIOUS
  <2> USE DEF Ledger!ledgerVars, Ledger!LedgerNext, Exists
  <2>1. CASE UNCHANGED <<purchase, told, run>>
    BY <2>1
  <2>2. CASE UNCHANGED <<purchase, told>> /\ run = "ABSENT" /\ run' = "OPEN"
    BY <2>2
  <2>3. ASSUME NEW c \in Calls, NEW t \in Calls, told[c] = NoRequest, UNCHANGED run,
               purchase[t] # NoRequest, told' = [told EXCEPT ![c] = purchase[t]],
               UNCHANGED purchase
        PROVE  [Ledger!LedgerNext]_(Ledger!ledgerVars)
    BY <2>3 DEF Ledger!Remind, Ledger!Answer
  <2>4. ASSUME NEW c \in Calls, NEW t \in Calls, NEW request \in PurchaseRequest,
               told[c] = NoRequest, UNCHANGED run, purchase[t] = NoRequest,
               purchase' = [purchase EXCEPT ![t] = request],
               told' = [told EXCEPT ![c] = request]
        PROVE  [Ledger!LedgerNext]_(Ledger!ledgerVars)
    BY <2>4 DEF Ledger!Buy, Ledger!Answer
  <2>5. ASSUME NEW o \in RunOutcome, UNCHANGED <<purchase, told>>, run = "OPEN", run' = o,
               o = "PURCHASE_REQUEST_CREATED" =>
                   \E t \in Calls : purchase[t] # NoRequest
        PROVE  [Ledger!LedgerNext]_(Ledger!ledgerVars)
    BY <2>5 DEF Ledger!Close, RunOutcome
  <2>6. QED
    BY <2>1, <2>2, <2>3, <2>4, <2>5 DEF RecordStep
<1>3. QED
  BY <1>1, <1>2, StepsRecord, TypeInvariant, TokenInvariant, EvidenceInvariant,
     CountInvariant, PTL DEF Spec, ActsAsLedger, Ledger!LedgerSpec
=============================================================================
