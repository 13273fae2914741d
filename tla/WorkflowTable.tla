---------------------------- MODULE WorkflowTable ----------------------------
(***************************************************************************)
(* The states of a run and the steps between them (stateMachine.ts), which *)
(* the supplier workflow and the manager escalation share.                 *)
(***************************************************************************)
\* The table of stateMachine.ts.
Transitions ==
    [IDLE |-> {"DEMAND_DETECTED", "FAILED", "CANCELLED"},
     DEMAND_DETECTED |-> {"CONTACTS_PLANNED", "HUMAN_REVIEW", "FAILED", "CANCELLED"},
     CONTACTS_PLANNED |-> {"CALLING", "FAILED", "CANCELLED"},
     CALLING |-> {"OFFER_RECEIVED", "HUMAN_REVIEW", "FAILED", "CANCELLED"},
     OFFER_RECEIVED |-> {"CALLING", "VALIDATING", "HUMAN_REVIEW", "FAILED", "CANCELLED"},
     VALIDATING |-> {"POLICY_CHECK", "HUMAN_REVIEW", "FAILED", "CANCELLED"},
     POLICY_CHECK |-> {"SELECTED", "NO_COMPLIANT_OFFER", "HUMAN_REVIEW", "FAILED", "CANCELLED"},
     SELECTED |-> {"ORDER_PREPARED", "HUMAN_REVIEW", "FAILED", "CANCELLED"},
     NO_COMPLIANT_OFFER |-> {"HUMAN_ESCALATION_REQUIRED", "FAILED", "CANCELLED"},
     HUMAN_ESCALATION_REQUIRED |-> {"MANAGER_CALLING", "HUMAN_REVIEW", "FAILED", "CANCELLED"},
     MANAGER_CALLING |-> {"MANAGER_RESPONSE_RECEIVED", "HUMAN_REVIEW", "FAILED", "CANCELLED"},
     MANAGER_RESPONSE_RECEIVED |->
         {"AUTHENTICATED_APPROVAL_REQUIRED", "HUMAN_REVIEW", "PROOF_SIGNED"},
     AUTHENTICATED_APPROVAL_REQUIRED |-> {"PROOF_SIGNED"},
     HUMAN_REVIEW |-> {"PROOF_SIGNED"},
     ORDER_PREPARED |-> {"PROOF_SIGNED", "FAILED"},
     PROOF_SIGNED |-> {}, FAILED |-> {}, CANCELLED |-> {}]

WorkflowStates == DOMAIN Transitions
=============================================================================
