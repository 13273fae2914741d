--------------------------- MODULE SupplierWorkflow ---------------------------
(***************************************************************************)
(* One workflow id of ProcurementWorkflow (src/server/workflow): the run   *)
(* store that admits one invocation of run, the calls to the suppliers     *)
(* with their timeouts, polls and retries, the choice of an offer and the  *)
(* purchase order.  Invocations are concurrent; other workflow ids share   *)
(* nothing with this one, because every key of the run store, the calling  *)
(* adapter and the order adapter begins with the id.                       *)
(*                                                                         *)
(* The process only gives way at its awaits: a POST, the sleep before a    *)
(* poll, a poll and the order.  An action is the code between two of them. *)
(*                                                                         *)
(* The calling service is external.  It keeps a call per Idempotency-Key,  *)
(* that is per supplier and attempt; the call goes on and ends whether or  *)
(* not the workflow still waits for it.                                    *)
(***************************************************************************)
EXTENDS OfferSelection, FiniteSets, WorkflowTable

CONSTANTS
    Invocations,      \* of run with this workflow id
    SupplierCount,
    MaximumCalls,     \* callAuthorization.maximumCalls
    MaximumAttempts,  \* callPolicy.maximumAttempts
    MaximumPolls,     \* callPolicy.maximumPolls
    EndOfTime,        \* the delivery date of an offer nobody made
    Answers,          \* what suppliers may say
    Reports,          \* <<outcome, answer>> of the snapshots of calls that ended
    Inputs,           \* of the workflow: switch, shortage, who its suppliers are
    Instants,         \* when the offers may be evaluated
    NotPlaced, Ringing,  \* a call that was never placed, and one that has not ended
    Nothing           \* "no such value"

Suppliers == 1 .. SupplierCount
Attempts == 1 .. MaximumAttempts

\* What may be said in a call; and what a task without a structured result is
\* read as.
Answer ==
    [skuConfirmed : BOOLEAN, availableQuantity : Nat, unitPrice : Nat,
     currency : DOMAIN RateToEur, deliveryAt : Nat, validUntil : Nat,
     termsChanged : BOOLEAN, optOut : BOOLEAN, verified : SUBSET EvidenceFields,
     completed : BOOLEAN, confidence : Nat]

NothingSaid ==
    [skuConfirmed |-> FALSE, availableQuantity |-> 0, unitPrice |-> 0,
     currency |-> "EUR", deliveryAt |-> EndOfTime, validUntil |-> 0,
     termsChanged |-> TRUE, optOut |-> FALSE, verified |-> {},
     completed |-> FALSE, confidence |-> 0]

Outcomes == {"ANSWERED", "NO_ANSWER", "VOICEMAIL", "TIMEOUT", "FAILED", "INCOMPLETE"}
Retryable == {"NO_ANSWER", "TIMEOUT", "FAILED"}

\* What executeSupplierCall makes of a call, and of one it could not finish.
Task(report) == [outcome |-> report[1], answer |-> report[2]]
UnresolvedTask(outcome) == [outcome |-> outcome, answer |-> NothingSaid]

Statuses == {"ORDER_CREATED", "HUMAN_ESCALATION_REQUIRED", "NO_ACTION_REQUIRED",
             "EXECUTION_BLOCKED", "FAILED"}

Offer ==
    [supplier : Suppliers, approved : BOOLEAN, consent : BOOLEAN,
     skuConfirmed : BOOLEAN, availableQuantity : Nat, unitPrice : Nat,
     currency : DOMAIN RateToEur, deliveryAt : Nat, validUntil : Nat,
     termsChanged : BOOLEAN, verified : SUBSET EvidenceFields, complete : BOOLEAN,
     confidence : Nat, attempts : Attempts]
Decision == [offer : Offer, at : Instants]
Order == [supplier : Suppliers, quantity : {Required}, unitPriceEur : Nat, totalPriceEur : Nat]
Result == [status : Statuses, state : WorkflowStates, order : Order \cup {Nothing}]

ASSUME WorkflowAssumption ==
    /\ SupplierCount \in Nat \ {0}
    /\ MaximumCalls \in 1 .. 5
    /\ MaximumAttempts \in Nat \ {0}
    /\ MaximumPolls \in Nat \ {0}
    /\ EndOfTime \in Nat
    /\ Answers \subseteq Answer
    /\ Reports \subseteq Outcomes \X (Answers \cup {NothingSaid})
    /\ NotPlaced # Ringing /\ {NotPlaced, Ringing} \cap Reports = {}
    /\ Nothing \notin Result \cup Decision
    /\ Inputs \subseteq [enabled : BOOLEAN, shortage : BOOLEAN,
                       approved : SUBSET Suppliers, consenting : SUBSET Suppliers]
    /\ Instants \subseteq Nat
    /\ "EUR" \in DOMAIN RateToEur
    /\ <<"ANSWERED", NothingSaid>> \notin Reports

VARIABLES
    input,      \* autonomousExecutionEnabled, a shortage, the suppliers' status
    started,    \* run store: the id was begun
    result,     \* run store: the first recorded result
    cancelled,  \* run store: cancellation was asked for
    expired,    \* the call authorization has expired
    counted,    \* adapter: startedCallsByWorkflow
    calls,      \* calling service: the call of a supplier and an attempt
    orders,     \* order adapter: createdOrders
    step,       \* where an invocation stands
    contact, attempt, polls,  \* its loop variables
    offers,     \* the offers it has collected
    decision,   \* the selected offer and the instant it was evaluated at
    history,    \* the states of its state machine
    told        \* what run returned to its caller

runStore == <<started, result, cancelled>>
progress == <<contact, attempt, polls, offers, decision>>
workflowVars == <<input, runStore, expired, counted, calls, orders, step, progress, history, told>>

Blocked == [status |-> "EXECUTION_BLOCKED", state |-> "CANCELLED", order |-> Nothing]

WorkflowInit ==
    /\ input \in Inputs
    /\ started = FALSE /\ result = Nothing /\ cancelled = FALSE
    /\ expired = FALSE /\ counted = 0
    /\ calls = [c \in Suppliers \X Attempts |-> NotPlaced]
    /\ orders = <<>>
    /\ step = [i \in Invocations |-> "idle"]
    /\ contact = [i \in Invocations |-> 1]
    /\ attempt = [i \in Invocations |-> 1]
    /\ polls = [i \in Invocations |-> 0]
    /\ offers = [i \in Invocations |-> <<>>]
    /\ decision = [i \in Invocations |-> Nothing]
    /\ history = [i \in Invocations |-> <<"IDLE">>]
    /\ told = [i \in Invocations |-> Nothing]
-----------------------------------------------------------------------------
Go(i, to) == step' = [step EXCEPT ![i] = to]
Through(i, states) == history' = [history EXCEPT ![i] = @ \o states]

\* finish: the store keeps the first result, the caller gets this one.
Finish(i, status, states, order) ==
    LET completed == [status |-> status, state |-> states[Len(states)], order |-> order]
    IN  /\ Go(i, "ended")
        /\ Through(i, states)
        /\ result' = IF result = Nothing THEN completed ELSE result
        /\ told' = [told EXCEPT ![i] = completed]

\* A call of the next supplier is on its way: its first POST was sent.
CallSupplier(i, supplier) ==
    /\ Go(i, "posting")
    /\ contact' = [contact EXCEPT ![i] = supplier]
    /\ attempt' = [attempt EXCEPT ![i] = 1]
    /\ polls' = [polls EXCEPT ![i] = 0]

Ended(s, a) == calls[<<s, a>>] \notin {NotPlaced, Ringing}
-----------------------------------------------------------------------------
\* What if begin did not remember the id?
BeginAgain(i) == step[i] = "idle" /\ result = Nothing /\ started' = TRUE

\* begin and everything up to the first POST is one synchronous step.
Begin(i) == step[i] = "idle" /\ ~ started /\ started' = TRUE

\* An id that is known: its result, or EXECUTION_BLOCKED while it is running.
RunDuplicate(i) ==
    /\ step[i] = "idle" /\ started
    /\ Go(i, "ended")
    /\ told' = [told EXCEPT ![i] = IF result = Nothing THEN Blocked ELSE result]
    /\ history' = IF result = Nothing THEN [history EXCEPT ![i] = @ \o <<"CANCELLED">>] ELSE history
    /\ UNCHANGED <<input, runStore, expired, counted, calls, orders, progress>>

RunBlocked(i) ==
    /\ Begin(i)
    /\ cancelled \/ ~ input.enabled \/ SupplierCount > MaximumCalls \/ SupplierCount > 5
    /\ Finish(i, "EXECUTION_BLOCKED", <<"CANCELLED">>, Nothing)
    /\ UNCHANGED <<input, cancelled, expired, counted, calls, orders, progress>>

RunPermitted(i) ==
    /\ Begin(i)
    /\ ~ cancelled /\ input.enabled /\ SupplierCount <= MaximumCalls /\ SupplierCount <= 5

RunUnneeded(i) ==
    /\ RunPermitted(i) /\ ~ input.shortage
    /\ Finish(i, "NO_ACTION_REQUIRED", <<"DEMAND_DETECTED", "CANCELLED">>, Nothing)
    /\ UNCHANGED <<input, cancelled, expired, counted, calls, orders, progress>>

RunStarts(i) ==
    /\ RunPermitted(i) /\ input.shortage
    /\ Through(i, <<"DEMAND_DETECTED", "CONTACTS_PLANNED", "CALLING">>)
    /\ CallSupplier(i, 1)
    /\ UNCHANGED <<input, result, cancelled, expired, counted, calls, orders, offers, decision, told>>
-----------------------------------------------------------------------------
\* resultToOffer
ResultToOffer(supplier, task, tries) ==
    LET said == task.answer
    IN  [supplier |-> supplier,
         approved |-> supplier \in input.approved,
         consent |-> supplier \in input.consenting,
         skuConfirmed |-> said.skuConfirmed, availableQuantity |-> said.availableQuantity,
         unitPrice |-> said.unitPrice, currency |-> said.currency,
         deliveryAt |-> said.deliveryAt, validUntil |-> said.validUntil,
         termsChanged |-> said.termsChanged, verified |-> said.verified,
         complete |-> said.completed /\ ~ said.optOut /\ said.verified = EvidenceFields,
         confidence |-> said.confidence, attempts |-> tries]

\* The order is made out for the required quantity at the selected unit price.
OrderFor(offer) ==
    [supplier |-> offer.supplier, quantity |-> Required,
     unitPriceEur |-> UnitPriceEur(offer), totalPriceEur |-> OrderTotalEur(offer)]

\* What if cancellation were only looked at between suppliers?
DecideUncancelled(i, collected, now, compliant) ==
    LET checked == <<"OFFER_RECEIVED", "VALIDATING", "POLICY_CHECK">>
    IN  \/ /\ compliant = {}
           /\ Finish(i, "HUMAN_ESCALATION_REQUIRED",
                     checked \o <<"NO_COMPLIANT_OFFER", "HUMAN_ESCALATION_REQUIRED">>, Nothing)
           /\ UNCHANGED decision
        \/ /\ compliant # {}
           /\ Go(i, "ordering")
           /\ Through(i, checked \o <<"SELECTED">>)
           /\ decision' = [decision EXCEPT ![i] =
                 [offer |-> collected[SelectBest(collected, compliant)], at |-> now]]
           /\ UNCHANGED <<result, told>>

\* Every supplier was called: validate, select, and either send the order or
\* escalate.  One synchronous step, so nothing can cancel it half way.
Decide(i, collected, now, compliant) ==
    LET checked == <<"OFFER_RECEIVED", "VALIDATING", "POLICY_CHECK">>
        selected == checked \o <<"SELECTED">>
    IN  \/ /\ compliant = {}
           /\ Finish(i, "HUMAN_ESCALATION_REQUIRED",
                     checked \o <<"NO_COMPLIANT_OFFER", "HUMAN_ESCALATION_REQUIRED">>, Nothing)
           /\ UNCHANGED decision
        \/ /\ compliant # {} /\ cancelled
           /\ Finish(i, "EXECUTION_BLOCKED", selected \o <<"CANCELLED">>, Nothing)
           /\ UNCHANGED decision
        \/ /\ compliant # {} /\ ~ cancelled
           /\ Go(i, "ordering")
           /\ Through(i, selected)
           /\ decision' = [decision EXCEPT ![i] =
                 [offer |-> collected[SelectBest(collected, compliant)], at |-> now]]
           /\ UNCHANGED <<result, told>>

\* The call loop of run after executeSupplierCall returned.
OfferReceived(i, task) ==
    \E collected \in {Append(offers[i], ResultToOffer(contact[i], task, attempt[i]))} :
       /\ offers' = [offers EXCEPT ![i] = collected]
       /\ \/ /\ contact[i] < SupplierCount /\ cancelled
             /\ Finish(i, "EXECUTION_BLOCKED", <<"OFFER_RECEIVED", "CANCELLED">>, Nothing)
             /\ UNCHANGED <<contact, attempt, polls, decision>>
          \/ /\ contact[i] < SupplierCount /\ ~ cancelled
             /\ Through(i, <<"OFFER_RECEIVED", "CALLING">>)
             /\ CallSupplier(i, contact[i] + 1)
             /\ UNCHANGED <<decision, result, told>>
          \/ /\ contact[i] = SupplierCount
             /\ \E now \in Instants : \E compliant \in {Compliant(collected, now)} :
                   Decide(i, collected, now, compliant)
             /\ UNCHANGED <<contact, attempt, polls>>

Tries == IF MaximumCalls < MaximumAttempts THEN MaximumCalls ELSE MaximumAttempts

\* An attempt is over: retry with the key of the next attempt, or go on.  The
\* retry does not look at the cancellation.
AttemptEnds(i, task) ==
    IF task.outcome \in Retryable /\ attempt[i] < Tries
    THEN /\ Go(i, "posting")
         /\ attempt' = [attempt EXCEPT ![i] = @ + 1]
         /\ polls' = [polls EXCEPT ![i] = 0]
         /\ UNCHANGED <<contact, offers, decision, history, result, told>>
    ELSE OfferReceived(i, task)
-----------------------------------------------------------------------------
Call(i) == <<contact[i], attempt[i]>>

\* startSupplierCall throws before it sends anything.
RefusedByAdapter(i) ==
    expired \/ contact[i] \notin input.consenting \/ counted >= MaximumCalls

PostRefused(i) ==
    /\ step[i] = "posting" /\ RefusedByAdapter(i)
    /\ AttemptEnds(i, UnresolvedTask("FAILED"))
    /\ UNCHANGED <<input, started, cancelled, expired, counted, calls, orders>>

\* The service takes the call, which may have ended when it answers.  Between
\* reading the counter and writing it only this invocation makes calls.
ServiceTakes(i, state) == calls' = [calls EXCEPT ![Call(i)] = state]

PostAccepted(i) ==
    /\ step[i] = "posting" /\ ~ RefusedByAdapter(i)
    /\ ServiceTakes(i, Ringing)
    /\ counted' = counted + 1
    /\ Go(i, "sleeping")
    /\ UNCHANGED <<input, runStore, expired, orders, progress, history, told>>

PostAnswered(i, report) ==
    /\ step[i] = "posting" /\ ~ RefusedByAdapter(i)
    /\ ServiceTakes(i, report)
    /\ counted' = counted + 1
    /\ AttemptEnds(i, Task(report))
    /\ UNCHANGED <<input, started, cancelled, expired, orders>>

\* A timeout, a lost answer or an error, before or after the service took the
\* call: the counter does not move.  (TIMEOUT is retried as FAILED is.)
PostFails(i) ==
    /\ step[i] = "posting" /\ ~ RefusedByAdapter(i)
    /\ ServiceTakes(i, Ringing) \/ UNCHANGED calls
    /\ AttemptEnds(i, UnresolvedTask("FAILED"))
    /\ UNCHANGED <<input, started, cancelled, expired, counted, orders>>

\* An answer without a call id is counted, then thrown away.
PostUnreadable(i) ==
    /\ step[i] = "posting" /\ ~ RefusedByAdapter(i)
    /\ ServiceTakes(i, Ringing)
    /\ counted' = counted + 1
    /\ AttemptEnds(i, UnresolvedTask("FAILED"))
    /\ UNCHANGED <<input, started, cancelled, expired, orders>>
-----------------------------------------------------------------------------
\* The sleep is over: a cancelled run does not poll, and does not retry.
PollCancelled(i) ==
    /\ step[i] = "sleeping" /\ cancelled
    /\ OfferReceived(i, UnresolvedTask("FAILED"))
    /\ UNCHANGED <<input, started, cancelled, expired, counted, calls, orders>>

PollSent(i) ==
    /\ step[i] = "sleeping" /\ ~ cancelled
    /\ Go(i, "polling")
    /\ UNCHANGED <<input, runStore, expired, counted, calls, orders, progress, history, told>>

\* What if every poll asked for the call of the first attempt?
PollFirstCall(i) ==
    /\ step[i] = "polling" /\ Ended(contact[i], 1)
    /\ AttemptEnds(i, Task(calls[<<contact[i], 1>>]))
    /\ UNCHANGED <<input, started, cancelled, expired, counted, calls, orders>>

PollTerminal(i) ==
    /\ step[i] = "polling" /\ Ended(contact[i], attempt[i])
    /\ AttemptEnds(i, Task(calls[Call(i)]))
    /\ UNCHANGED <<input, started, cancelled, expired, counted, calls, orders>>

\* What if a poll that found the call ringing were not counted?
PollUncounted(i) ==
    /\ step[i] = "polling" /\ ~ Ended(contact[i], attempt[i])
    /\ Go(i, "sleeping")
    /\ UNCHANGED <<input, runStore, expired, counted, calls, orders, progress, history, told>>

PollRinging(i) ==
    /\ step[i] = "polling" /\ ~ Ended(contact[i], attempt[i]) /\ polls[i] + 1 < MaximumPolls
    /\ Go(i, "sleeping")
    /\ polls' = [polls EXCEPT ![i] = @ + 1]
    /\ UNCHANGED <<input, runStore, expired, counted, calls, orders,
                   contact, attempt, offers, decision, history, told>>

PollExhausted(i) ==
    /\ step[i] = "polling" /\ ~ Ended(contact[i], attempt[i]) /\ polls[i] + 1 = MaximumPolls
    /\ AttemptEnds(i, UnresolvedTask("TIMEOUT"))
    /\ UNCHANGED <<input, started, cancelled, expired, counted, calls, orders>>

PollFails(i) ==
    /\ step[i] = "polling"
    /\ AttemptEnds(i, UnresolvedTask("FAILED"))
    /\ UNCHANGED <<input, started, cancelled, expired, counted, calls, orders>>
-----------------------------------------------------------------------------
\* The order adapter creates one order per key, that is per workflow id.
OrdersWith(order) == IF orders = <<>> THEN <<order>> ELSE orders

OrderCreated(i) ==
    /\ step[i] = "ordering"
    /\ orders' = OrdersWith(OrderFor(decision[i].offer))
    /\ Finish(i, "ORDER_CREATED", <<"ORDER_PREPARED">>, orders'[1])
    /\ UNCHANGED <<input, started, cancelled, expired, counted, calls, progress>>

\* What if a failed order were handed to a human?
OrderFailsToHuman(i) ==
    /\ step[i] = "ordering"
    /\ orders' = orders
    /\ Finish(i, "HUMAN_ESCALATION_REQUIRED", <<"HUMAN_ESCALATION_REQUIRED">>, Nothing)
    /\ UNCHANGED <<input, started, cancelled, expired, counted, calls, progress>>

\* The adapter fails, before or after it created the order.
OrderFails(i) ==
    /\ step[i] = "ordering"
    /\ orders' \in {orders, OrdersWith(OrderFor(decision[i].offer))}
    /\ Finish(i, "FAILED", <<"FAILED">>, Nothing)
    /\ UNCHANGED <<input, started, cancelled, expired, counted, calls, progress>>
-----------------------------------------------------------------------------
Cancel ==
    /\ ~ cancelled /\ cancelled' = TRUE
    /\ UNCHANGED <<input, started, result, expired, counted, calls, orders,
                   step, progress, history, told>>

AuthorizationExpires ==
    /\ ~ expired /\ expired' = TRUE
    /\ UNCHANGED <<input, runStore, counted, calls, orders, step, progress, history, told>>

\* A call ends, however late.
CallEnds(c, report) ==
    /\ calls[c] = Ringing
    /\ calls' = [calls EXCEPT ![c] = report]
    /\ UNCHANGED <<input, runStore, expired, counted, orders, step, progress, history, told>>

Run(i) == RunDuplicate(i) \/ RunBlocked(i) \/ RunUnneeded(i) \/ RunStarts(i)

\* What an invocation in flight does next, whatever it waits for.
Proceed(i) ==
    \/ PostAccepted(i) \/ PostRefused(i) \/ PostUnreadable(i)
    \/ PollSent(i) \/ PollCancelled(i) \/ PollRinging(i) \/ PollExhausted(i) \/ PollTerminal(i)
    \/ OrderCreated(i) \/ OrderFails(i)
    \/ \E report \in Reports : PostAnswered(i, report)
    \/ PostFails(i) \/ PollFails(i)

WorkflowNext ==
    \/ \E i \in Invocations : Run(i) \/ Proceed(i)
    \/ Cancel \/ AuthorizationExpires
    \/ \E c \in Suppliers \X Attempts, report \in Reports : CallEnds(c, report)

WorkflowSpec == WorkflowInit /\ [][WorkflowNext]_workflowVars

\* Every await of an invocation ends: fetches are aborted, sleeps are timers.
\* Callers, operators and the called suppliers owe nothing.
WorkflowFairSpec == WorkflowSpec /\ \A i \in Invocations : WF_workflowVars(Proceed(i))
-----------------------------------------------------------------------------
Verdict(i) == told[i] # Nothing /\ told[i] # Blocked

InFlightSteps == {"posting", "sleeping", "polling", "ordering"}

\* The stores, the services and the operator.
StoreTypes ==
    /\ input \in Inputs
    /\ started \in BOOLEAN /\ cancelled \in BOOLEAN /\ expired \in BOOLEAN
    /\ counted \in 0 .. MaximumCalls
    /\ calls \in [Suppliers \X Attempts -> Reports \cup {NotPlaced, Ringing}]
    /\ orders \in Seq(Order)

\* The invocations and what they tell.
LoopTypes ==
    /\ result \in Result \cup {Nothing}
    /\ step \in [Invocations -> InFlightSteps \cup {"idle", "ended"}]
    /\ contact \in [Invocations -> Suppliers]
    /\ attempt \in [Invocations -> Attempts]
    /\ polls \in [Invocations -> 0 .. MaximumPolls - 1]
    /\ offers \in [Invocations -> Seq(Offer)]
    /\ decision \in [Invocations -> Decision \cup {Nothing}]
    /\ history \in [Invocations -> Seq(WorkflowStates)]
    /\ told \in [Invocations -> Result \cup {Nothing}]
    /\ \A i \in Invocations : /\ step[i] = "ordering" => decision[i] \in Decision
                              /\ step[i] = "ended" <=> told[i] # Nothing

WorkflowTypeOK == StoreTypes /\ LoopTypes

\* No path of run makes a transition the table of stateMachine.ts forbids:
\* transition would throw, and an id whose run threw has no result for ever.
HistoryFollowsTable ==
    \A i \in Invocations : \A k \in 1 .. Len(history[i]) - 1 :
       history[i][k + 1] \in Transitions[history[i][k]]

\* However often an id is run, at once or again, there is one verdict: every
\* caller is told the recorded result, unless it is told that the run is
\* blocked, and the order of an ORDER_CREATED is the one order there is.
OneVerdict ==
    /\ Len(orders) <= 1
    /\ \A i \in Invocations : Verdict(i) => told[i] = result
    /\ result # Nothing =>
          /\ result.status = "ORDER_CREATED" => orders = <<result.order>>
          /\ orders # <<>> => result.status \in {"ORDER_CREATED", "FAILED"}

\* The order i decided on, and what was said in the attempt its decision names.
Earned(i, order) ==
    LET offer == decision[i].offer
        s == offer.supplier
        said == calls[<<s, offer.attempts>>][2]
    IN  /\ order = OrderFor(offer)
        /\ s \in input.approved \cap input.consenting
        /\ order.totalPriceEur <= Policy.orderLimit
        /\ Ended(s, offer.attempts)
        /\ said.verified = EvidenceFields /\ said.completed
        /\ ~ said.optOut /\ ~ said.termsChanged
        /\ said.availableQuantity >= order.quantity
        /\ said.deliveryAt <= StockoutAt
        /\ UnitPriceEur(said) = order.unitPriceEur
        /\ order.unitPriceEur <= Policy.unitCeiling

\* The order is the one that was decided on, and what its supplier said on the
\* telephone in the very attempt the decision names, in a call that ended: an
\* approved supplier that consented, every field evidenced, the quantity and
\* the date sufficient, the price within both limits.  No retry, timeout or
\* late answer puts another supplier's or another attempt's offer in its place.
OrderIsEarned ==
    \A k \in 1 .. Len(orders) : \E i \in Invocations :
       decision[i] # Nothing /\ Earned(i, orders[k])

\* Once a run is cancelled it turns to no further supplier and sends no order;
\* the supplier it is calling may still be called again, and an order that is
\* on its way arrives.
CancelIsFinal ==
    [][cancelled => \A i \in Invocations :
          /\ contact'[i] = contact[i]
          /\ step'[i] = "ordering" => step[i] = "ordering"
          /\ step[i] = "idle" => step'[i] \in {"idle", "ended"}]_workflowVars

\* A run that was begun is recorded, whatever the service and the suppliers do:
\* attempts, polls and suppliers are bounded and no wait lasts for ever.
RunsAreRecorded == started ~> result # Nothing

\* "is the lowest-cost offer that satisfies every policy requirement"
\* (selection.ts): no other compliant offer would have made a cheaper order.
OrderIsCheapest ==
    \A i \in Invocations : decision[i] # Nothing =>
       \A k \in Compliant(offers[i], decision[i].at) :
          OrderTotalEur(decision[i].offer) <= OrderTotalEur(offers[i][k])
=============================================================================
