--------------------------- MODULE MCSupplierCalls ---------------------------
(***************************************************************************)
(* The two ways to a supplier's offer, for TLC: the workflow that calls    *)
(* suppliers, and the simulator that answers as one.  The telephone is all *)
(* there is between them, so a behaviour is one of the side that is used,  *)
(* the other being left alone.                                             *)
(***************************************************************************)
EXTENDS MCSupplierWorkflow, SupplierSimulator

VARIABLE side

MCInit ==
    /\ WorkflowInit /\ SimulatorInit /\ side \in {"workflow", "simulator"}
    \* What the other side starts with makes no difference.
    /\ side = "workflow" => \A p \in Profiles :
          profileData[p] = [version |-> 1, state |-> "LATE_DELIVERY"]
    /\ side = "simulator" => input = Regular

MCNext ==
    /\ \/ side = "workflow" /\ WorkflowNext /\ UNCHANGED simulatorVars
       \/ side = "simulator" /\ SimulatorNext /\ UNCHANGED workflowVars
    /\ UNCHANGED side

\* The fairness is WorkflowFairSpec's; it asks nothing of the simulator.
MCFairSpec ==
    /\ MCInit /\ [][MCNext]_<<workflowVars, simulatorVars, side>>
    /\ \A i \in Invocations : WF_workflowVars(Proceed(i))

\* The suppliers of the simulator's demo; a request names one or the other.
MCPersona == [de |-> [locale |-> "de_DE", price |-> 42, currency |-> "EUR"],
              fr |-> [locale |-> "fr_FR", price |-> 38, currency |-> "EUR"]]
MCTestData ==
    [de |-> [version : {1}, state : SupplierStates]
              \cup [version : {2}, state : {"CHANGED_PAYMENT_TERMS"}],
     fr |-> [version : {1}, state : {"LATE_DELIVERY"}]]
=============================================================================
