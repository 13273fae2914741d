-------------------------- MODULE ManagerEscalation --------------------------
(***************************************************************************)
(* The bounded escalation call to a manager, as the demonstration makes it *)
(* (runJudgeEscalation): the scripted adapter, the validation of what was  *)
(* said, the result ManagerEscalationWorkflow makes of it, and the signed  *)
(* proof.  One run has an adapter of its own and one request in order, so  *)
(* all of it is a function of the supplier phase's result and the preset.  *)
(*                                                                         *)
(* A result keeps what later steps read: the state history (its states),   *)
(* the audit timeline (its types), the escalation record, the order, and   *)
(* the value the proof puts on it.  Nothing stands for null.               *)
(***************************************************************************)
EXTENDS WorkflowTable, DecisionProof

CONSTANT Nothing   \* null

SafeDecisions ==
    {"ACKNOWLEDGE_AND_START_HUMAN_SOURCING", "RETRY_APPROVED_SUPPLIERS_LATER",
     "REQUEST_WRITTEN_REPORT", "DECLINE_ESCALATION"}
ManagerDecisions == SafeDecisions \cup {"REQUIRES_AUTHENTICATED_HUMAN_APPROVAL"}
Presets == ManagerDecisions \cup {"ATTEMPT_POLICY_OVERRIDE", "NO_ANSWER", "UNVERIFIED_RESPONSE"}

\* What a manager may say, and the record that is made of it.
Spoken == [decision : ManagerDecisions, preferredContact : BOOLEAN,
           restricted : SUBSET {"INCREASE_BUDGET"}, optOut : BOOLEAN]
Record == [rawDecision : ManagerDecisions, effectiveDecision : ManagerDecisions,
           preferredContact : BOOLEAN, restricted : SUBSET {"INCREASE_BUDGET"}]

\* null is neither of them, nor a value of an order.
ASSUME NullAssumption == Nothing \notin Spoken \cup Record \cup Nat

\* resultForPreset: what the scripted manager says.
DecisionOf(preset) ==
    CASE preset = "ATTEMPT_POLICY_OVERRIDE" -> "ACKNOWLEDGE_AND_START_HUMAN_SOURCING"
      [] preset \in {"NO_ANSWER", "UNVERIFIED_RESPONSE"} -> "DECLINE_ESCALATION"
      [] OTHER -> preset

Said(preset) ==
    [decision |-> DecisionOf(preset),
     preferredContact |-> DecisionOf(preset) = "RETRY_APPROVED_SUPPLIERS_LATER",
     restricted |-> IF preset = "ATTEMPT_POLICY_OVERRIDE" THEN {"INCREASE_BUDGET"} ELSE {},
     optOut |-> DecisionOf(preset) = "DECLINE_ESCALATION"]

\* validateManagerEscalationResult: a well-formed answer is passed on.
Valid(said) == said # Nothing /\ said.decision \in ManagerDecisions

\* The task of the scripted adapter; its authorization is always in order.
TaskOf(preset) ==
    [outcome |-> IF preset = "NO_ANSWER" THEN "NO_ANSWER" ELSE "ANSWERED",
     completed |-> preset # "NO_ANSWER",
     result |-> IF preset = "NO_ANSWER" THEN Nothing ELSE Said(preset),
     verified |-> preset \notin {"NO_ANSWER", "UNVERIFIED_RESPONSE"}]

EffectiveDecision(said) ==
    CASE said.optOut -> "DECLINE_ESCALATION"
      [] ~ said.optOut /\ (said.restricted # {}
            \/ said.decision = "REQUIRES_AUTHENTICATED_HUMAN_APPROVAL") ->
               "REQUIRES_AUTHENTICATED_HUMAN_APPROVAL"
      [] OTHER -> said.decision

\* createManagerEscalationRecord.
EscalationRecord(task) ==
    IF /\ task.completed /\ task.outcome = "ANSWERED"
       /\ Valid(task.result) /\ task.verified
    THEN [rawDecision |-> task.result.decision,
          effectiveDecision |-> EffectiveDecision(task.result),
          preferredContact |-> task.result.preferredContact,
          restricted |-> task.result.restricted]
    ELSE Nothing
-----------------------------------------------------------------------------
\* What a supplier phase without a compliant offer ends with; what it does for
\* each of its suppliers is told once.
NoCompliantOffer ==
    [status |-> "HUMAN_ESCALATION_REQUIRED",
     history |-> <<"DEMAND_DETECTED", "CONTACTS_PLANNED", "CALLING", "OFFER_RECEIVED",
                   "VALIDATING", "POLICY_CHECK", "NO_COMPLIANT_OFFER",
                   "HUMAN_ESCALATION_REQUIRED">>,
     timeline |-> <<"WORKFLOW_STARTED", "SHORTAGE_CALCULATED", "CALL_COMPLETED",
                    "OFFER_REJECTED", "NO_COMPLIANT_OFFER", "HUMAN_EXCEPTION_REQUIRED">>,
     escalation |-> Nothing, order |-> Nothing, proof |-> FALSE, signed |-> Nothing]

\* The guard of ManagerEscalationWorkflow.run; sameRun tells whether the request
\* carries the workflow id of the result.  That a decision was made is part of
\* every result of this status.
Escalable(base, sameRun) ==
    /\ sameRun
    /\ base.status = "HUMAN_ESCALATION_REQUIRED"
    /\ base.history[Len(base.history)] = "HUMAN_ESCALATION_REQUIRED"
    /\ base.order = Nothing

Started(base) ==
    [base EXCEPT !.history = Append(@, "MANAGER_CALLING"),
                 !.timeline = Append(@, "MANAGER_ESCALATION_STARTED")]
Responded(base) ==
    [Started(base) EXCEPT !.history = Append(@, "MANAGER_RESPONSE_RECEIVED"),
                          !.timeline = Append(@, "MANAGER_CALL_COMPLETED")]
Unverified(base) ==
    [Responded(base) EXCEPT !.history = Append(@, "HUMAN_REVIEW"),
                            !.timeline = Append(@, "MANAGER_ESCALATION_FAILED")]
Restricted(base) ==
    [Responded(base) EXCEPT !.history = Append(@, "AUTHENTICATED_APPROVAL_REQUIRED"),
                            !.timeline = Append(@, "AUTHENTICATED_APPROVAL_REQUIRED"),
                            !.status = "AUTHENTICATED_APPROVAL_REQUIRED"]
Bounded(base) == [Responded(base) EXCEPT !.status = "ESCALATION_RECORDED"]

\* ManagerEscalationWorkflow.run, once the call was answered or not.
Escalated(base, task) ==
    LET record == EscalationRecord(task)
        decided == IF record.effectiveDecision = "REQUIRES_AUTHENTICATED_HUMAN_APPROVAL"
                   THEN Restricted(base) ELSE Bounded(base)
    IN  IF record = Nothing
        THEN Unverified(base)
        ELSE [decided EXCEPT !.timeline = Append(@, "MANAGER_DECISION_RECORDED"),
                             !.escalation = record, !.proof = TRUE]

\* signWorkflowResult: a result without a proof is returned as it is.
SignWorkflowResult(result) ==
    IF ~ result.proof
    THEN result
    ELSE [result EXCEPT
            !.signed = CreateSignedDecisionProof(
                [escalation |-> result.escalation, orderValue |-> Nothing],
                CreateAuditChain(result.timeline)),
            !.history = Append(@, "PROOF_SIGNED")]

\* runJudgeEscalation; a result that cannot be escalated makes it throw.
RunJudgeEscalation(base, sameRun, preset) ==
    IF Escalable(base, sameRun) THEN SignWorkflowResult(Escalated(base, TaskOf(preset))) ELSE Nothing
=============================================================================
