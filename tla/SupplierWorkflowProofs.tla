------------------------ MODULE SupplierWorkflowProofs ------------------------
(***************************************************************************)
(* Proofs about SupplierWorkflow for any number of invocations, suppliers, *)
(* attempts and polls, whatever the suppliers say: the choice between the  *)
(* offers, the types and the records of the run, and the order.            *)
(*                                                                         *)
(* The order is earned because every complete offer an invocation holds is *)
(* backed by the call it names, and a call that ended keeps what was said  *)
(* in it: no invocation calls twice under one key, and what it has yet to  *)
(* place, nobody placed.                                                   *)
(***************************************************************************)
EXTENDS SupplierWorkflow, WellFoundedInduction, TLAPS

-----------------------------------------------------------------------------
(* The choice between compliant offers is well defined: however many there *)
(* are, and whatever they say, the sort has a first element                *)

\* A set of natural numbers that is not empty has a least element.
LEMMA LeastNumber ==
    ASSUME NEW S \in SUBSET Nat, S # {}
    PROVE  \E n \in S : \A m \in S : n <= m
<1>1. IsWellFoundedOn({p \in Nat \X Nat : p[1] < p[2]}, Nat)
  BY NatLessThanWellFounded DEF OpToRel
<1>2. PICK n \in S : \A m \in S : <<m, n>> \notin {p \in Nat \X Nat : p[1] < p[2]}
  BY <1>1, WFMin
<1>3. ASSUME NEW m \in S, m < n PROVE FALSE
  <2>1. <<m, n>> \in Nat \X Nat
    OBVIOUS
  <2>2. <<m, n>> \in {p \in Nat \X Nat : p[1] < p[2]}
    BY <1>3, <2>1
  <2>3. QED
    BY <1>2, <2>2
<1>4. QED
  BY <1>3

\* What the policy and the sort need of an offer.
Priced(offer) ==
    /\ offer.unitPrice \in Nat /\ offer.currency \in DOMAIN RateToEur
    /\ offer.availableQuantity \in Nat /\ offer.deliveryAt \in Nat
    /\ offer.confidence \in Nat

\* Prices in euro are natural numbers of cents.
LEMMA PricesAreNatural ==
    ASSUME NEW offer, Priced(offer)
    PROVE  /\ UnitPriceEur(offer) \in Nat
           /\ TotalPriceEur(offer) \in Nat
           /\ OrderTotalEur(offer) \in Nat
<1>1. \A a, b \in Nat : a * b \in Nat
  OBVIOUS
<1>2. \A a \in Nat : (a + 50) \div 100 \in Nat
  OBVIOUS
<1>3. RateToEur[offer.currency] \in Nat
  BY SelectionAssumption DEF Priced
<1>4. offer.unitPrice * RateToEur[offer.currency] \in Nat
  BY <1>1, <1>3 DEF Priced
<1>5. UnitPriceEur(offer) \in Nat
  BY <1>2, <1>4 DEF UnitPriceEur, RoundCurrency
<1>6. QED
  BY <1>1, <1>5, SelectionAssumption DEF Priced, TotalPriceEur, OrderTotalEur

\* The order of the sort: two offers are not before each other, and coming
\* before, like not coming before, carries over from one offer to the next.
LEMMA SortIsAnOrder ==
    ASSUME NEW a, NEW b, NEW c, Priced(a), Priced(b), Priced(c)
    PROVE  /\ ~ (Before(a, b) /\ Before(b, a))
           /\ Before(a, b) /\ ~ Before(c, b) => Before(a, c)
           /\ ~ Before(b, a) /\ ~ Before(c, b) => ~ Before(c, a)
<1>1. /\ TotalPriceEur(a) \in Nat /\ TotalPriceEur(b) \in Nat /\ TotalPriceEur(c) \in Nat
  BY PricesAreNatural
<1>2. QED
  BY <1>1 DEF Before, Priced

\* k comes first among the offers of the set.
IsFirst(listed, set, k) ==
    /\ k \in set
    /\ \A other \in set \ {k} :
          \/ Before(listed[k], listed[other])
          \/ ~ Before(listed[other], listed[k]) /\ k < other

\* An offer more does not take the first one away: it or the new one is first.
LEMMA FirstOfMore ==
    ASSUME NEW listed, NEW set \in SUBSET Nat, NEW n \in Nat, NEW k,
           \A m \in set \cup {n} : Priced(listed[m]),
           \A m \in set : m < n,
           IsFirst(listed, set, k)
    PROVE  \E first : IsFirst(listed, set \cup {n}, first)
<1>1. CASE Before(listed[n], listed[k])
  <2>1. ASSUME NEW m \in set PROVE Before(listed[n], listed[m])
    <3>1. CASE m = k
      BY <1>1, <3>1
    <3>2. CASE m # k
      <4>1. ~ Before(listed[m], listed[k])
        BY <3>2, SortIsAnOrder DEF IsFirst
      <4>2. QED
        BY <1>1, <4>1, SortIsAnOrder DEF IsFirst
    <3>3. QED
      BY <3>1, <3>2
  <2>2. IsFirst(listed, set \cup {n}, n)
    BY <2>1 DEF IsFirst
  <2>3. QED
    BY <2>2
<1>2. CASE ~ Before(listed[n], listed[k])
  <2>1. IsFirst(listed, set \cup {n}, k)
    BY <1>2 DEF IsFirst
  <2>2. QED
    BY <2>1
<1>3. QED
  BY <1>1, <1>2

\* Among any offers there is a first one (there is no shortest list without).
LEMMA FirstExists ==
    ASSUME NEW listed, NEW length \in Nat, NEW compliant \in SUBSET (1 .. length),
           compliant # {}, \A k \in compliant : Priced(listed[k])
    PROVE  \E first : IsFirst(listed, compliant, first)
<1> DEFINE Prefix(n) == compliant \cap 1 .. n
           Bad == {n \in Nat : Prefix(n) # {} /\ ~ \E first : IsFirst(listed, Prefix(n), first)}
<1>1. Bad = {}
  <2> SUFFICES ASSUME Bad # {} PROVE FALSE
    OBVIOUS
  <2>1. PICK n \in Bad : \A m \in Bad : n <= m
    BY LeastNumber
  <2>2. n \in Nat \ {0} /\ n - 1 \in Nat /\ n - 1 \notin Bad
    <3>1. n \in Nat /\ Prefix(n) # {}
      OBVIOUS
    <3>2. n # 0
      BY <3>1
    <3>3. n - 1 \in Nat /\ ~ (n <= n - 1)
      BY <3>1, <3>2
    <3>4. QED
      BY <2>1, <3>1, <3>2, <3>3
  <2>3. n \in compliant
    <3> SUFFICES ASSUME n \notin compliant PROVE FALSE
      OBVIOUS
    <3>1. Prefix(n) = Prefix(n - 1)
      BY <2>2
    <3>2. QED
      BY <2>2, <3>1
  <2>4. Prefix(n) = Prefix(n - 1) \cup {n}
    BY <2>2, <2>3
  <2>5. CASE Prefix(n - 1) = {}
    <3>1. IsFirst(listed, Prefix(n), n)
      BY <2>4, <2>5 DEF IsFirst
    <3>2. QED
      BY <3>1
  <2>6. CASE Prefix(n - 1) # {}
    <3>1. PICK k : IsFirst(listed, Prefix(n - 1), k)
      BY <2>2, <2>6
    <3>2. \A m \in Prefix(n - 1) : m < n
      BY <2>2
    <3>3. \A m \in Prefix(n - 1) \cup {n} : Priced(listed[m])
      BY <2>3
    <3>4. \E first : IsFirst(listed, Prefix(n - 1) \cup {n}, first)
      <4>1. Prefix(n - 1) \in SUBSET Nat
        OBVIOUS
      <4>2. n \in Nat
        BY <2>2
      <4> HIDE DEF Prefix
      <4>3. QED
        BY <4>1, <4>2, <3>1, <3>2, <3>3, FirstOfMore
    <3>5. QED
      BY <2>4, <3>4
  <2>7. QED
    BY <2>5, <2>6
<1>2. Prefix(length) = compliant
  OBVIOUS
<1>3. QED
  BY <1>1, <1>2

\* selectBestCompliantOffer: whatever compliant offers there are, one of them
\* is chosen, and every other one is after it in the sort.
THEOREM BestIsFirst ==
    ASSUME NEW listed, NEW length \in Nat, NEW compliant \in SUBSET (1 .. length),
           compliant # {}, \A k \in compliant : Priced(listed[k])
    PROVE  IsFirst(listed, compliant, SelectBest(listed, compliant))
BY FirstExists DEF IsFirst, SelectBest

-----------------------------------------------------------------------------
(* The checks *)

\* A check that neither fails nor asks for a human has passed.
LEMMA PassedCheck ==
    ASSUME NEW passed \in BOOLEAN
    PROVE  /\ Hard(passed) # "FAIL" => passed
           /\ Soft(passed) # "REQUIRES_HUMAN" => passed
BY DEF Hard, Soft

LEMMA EvidencedCheck ==
    ASSUME NEW offer, NEW field, NEW passed \in BOOLEAN,
           EvidenceAware(offer, field, passed) \notin {"FAIL", "REQUIRES_HUMAN"}
    PROVE  passed
<1>1. CASE field \in offer.verified
  BY <1>1, PassedCheck DEF EvidenceAware
<1>2. CASE field \notin offer.verified
  BY <1>2 DEF EvidenceAware
<1>3. QED
  BY <1>1, <1>2

\* What an offer is that passes every check.
LEMMA PassedChecks ==
    ASSUME NEW offer, NEW at, ValidateOffer(offer, at) = "PASS",
           offer.approved \in BOOLEAN, offer.consent \in BOOLEAN,
           offer.complete \in BOOLEAN, offer.termsChanged \in BOOLEAN
    PROVE  /\ offer.approved /\ offer.consent /\ offer.complete /\ ~ offer.termsChanged
           /\ offer.availableQuantity >= Required
           /\ offer.deliveryAt <= StockoutAt
           /\ UnitPriceEur(offer) <= Policy.unitCeiling
           /\ OrderTotalEur(offer) <= Policy.orderLimit
<1> DEFINE checks == Checks(offer, at)
           sufficient == offer.availableQuantity >= Required
           early == offer.deliveryAt <= StockoutAt
           cheap == UnitPriceEur(offer) <= Policy.unitCeiling
           within == OrderTotalEur(offer) <= Policy.orderLimit
           unchanged == "commercialTermsChanged" \in offer.verified /\ ~ offer.termsChanged
<1>1. \A id \in DOMAIN checks : checks[id] # "FAIL" /\ checks[id] # "REQUIRES_HUMAN"
  BY DEF ValidateOffer
<1>2. {"approved_supplier", "recipient_consent", "quantity_sufficient",
       "delivery_before_stockout", "unit_price_within_ceiling", "total_within_limit",
       "terms_unchanged", "evidence_complete"} \subseteq DOMAIN checks
  BY DEF Checks
<1>3. /\ checks["approved_supplier"] = Hard(offer.approved)
      /\ checks["recipient_consent"] = Hard(offer.consent)
      /\ checks["quantity_sufficient"] = EvidenceAware(offer, "availableQuantity", sufficient)
      /\ checks["delivery_before_stockout"] = EvidenceAware(offer, "deliveryAt", early)
      /\ checks["unit_price_within_ceiling"] = EvidenceAware(offer, "unitPrice", cheap)
      /\ checks["total_within_limit"] = Hard(within)
      /\ checks["terms_unchanged"] = Soft(unchanged)
      /\ checks["evidence_complete"] = Soft(offer.complete)
  BY DEF Checks
<1>4. /\ sufficient \in BOOLEAN /\ early \in BOOLEAN
      /\ cheap \in BOOLEAN /\ within \in BOOLEAN /\ unchanged \in BOOLEAN
  OBVIOUS
<1> HIDE DEF checks, sufficient, early, cheap, within, unchanged
<1>5. offer.approved /\ offer.consent /\ offer.complete /\ within /\ unchanged
  BY <1>1, <1>2, <1>3, <1>4, PassedCheck
<1>6. sufficient /\ early /\ cheap
  BY <1>1, <1>2, <1>3, <1>4, EvidencedCheck
<1>7. QED
  BY <1>5, <1>6 DEF sufficient, early, cheap, within, unchanged

-----------------------------------------------------------------------------
(* What the operators return *)

LEMMA NothingSaidIsAnswer == NothingSaid \in Answer
BY WorkflowAssumption DEF NothingSaid, Answer

LEMMA ReportsHaveAnswers ==
    \A report \in Reports : Task(report).answer = report[2] /\ report[2] \in Answer
BY NothingSaidIsAnswer, WorkflowAssumption DEF Task

LEMMA OfferTyped ==
    ASSUME input \in Inputs, NEW supplier \in Suppliers, NEW tries \in Attempts,
           NEW task, task.answer \in Answer
    PROVE  ResultToOffer(supplier, task, tries) \in Offer
<1> DEFINE said == task.answer
<1>1. said \in Answer
  OBVIOUS
<1> HIDE DEF said
<1>2. /\ (said.completed /\ ~ said.optOut /\ said.verified = EvidenceFields) \in BOOLEAN
      /\ (supplier \in input.approved) \in BOOLEAN /\ (supplier \in input.consenting) \in BOOLEAN
  OBVIOUS
<1>3. QED
  BY <1>1, <1>2 DEF said, ResultToOffer, Offer, Answer

LEMMA OffersArePriced == \A offer \in Offer : Priced(offer)
BY DEF Offer, Priced

LEMMA OrderTyped ==
    ASSUME NEW offer \in Offer PROVE OrderFor(offer) \in Order
<1>1. UnitPriceEur(offer) \in Nat /\ OrderTotalEur(offer) \in Nat
  BY OffersArePriced, PricesAreNatural
<1>2. QED
  BY <1>1 DEF OrderFor, Order, Offer

\* The selected offer is one of the compliant ones.
LEMMA SelectedIsCompliant ==
    ASSUME NEW collected \in Seq(Offer), NEW at, Compliant(collected, at) # {}
    PROVE  /\ SelectBest(collected, Compliant(collected, at)) \in Compliant(collected, at)
           /\ collected[SelectBest(collected, Compliant(collected, at))] \in Offer
<1>1. Compliant(collected, at) \in SUBSET (1 .. Len(collected)) /\ Len(collected) \in Nat
  BY DEF Compliant
<1>2. \A k \in Compliant(collected, at) : collected[k] \in Offer
  BY <1>1
<1>3. IsFirst(collected, Compliant(collected, at), SelectBest(collected, Compliant(collected, at)))
  BY <1>1, <1>2, OffersArePriced, BestIsFirst
<1>4. QED
  BY <1>2, <1>3 DEF IsFirst

-----------------------------------------------------------------------------
(* The transition table *)

\* Every state of the path is entered from the one before it.
Legal(path) == \A k \in 1 .. Len(path) - 1 : path[k + 1] \in Transitions[path[k]]
Last(path) == path[Len(path)]

\* A legal path goes on along a path that starts where it ended.
LEMMA PathGoesOn ==
    ASSUME NEW past \in Seq(WorkflowStates), past # <<>>, Legal(past),
           NEW path \in Seq(WorkflowStates), path # <<>>, Legal(path),
           path[1] \in Transitions[Last(past)]
    PROVE  /\ past \o path \in Seq(WorkflowStates) /\ past \o path # <<>>
           /\ Legal(past \o path)
           /\ (past \o path)[1] = past[1] /\ Last(past \o path) = Last(path)
<1> DEFINE whole == past \o path
<1>1. /\ Len(past) \in Nat \ {0} /\ Len(path) \in Nat \ {0}
      /\ Len(whole) = Len(past) + Len(path)
      /\ \A k \in 1 .. Len(past) : whole[k] = past[k]
      /\ \A k \in 1 .. Len(path) : whole[Len(past) + k] = path[k]
  OBVIOUS
<1> HIDE DEF whole
<1>2. ASSUME NEW k \in 1 .. Len(whole) - 1 PROVE whole[k + 1] \in Transitions[whole[k]]
  <2>1. CASE k < Len(past)
    <3>1. k \in 1 .. Len(past) - 1 /\ k \in 1 .. Len(past) /\ k + 1 \in 1 .. Len(past)
      BY <1>1, <2>1
    <3>2. whole[k] = past[k] /\ whole[k + 1] = past[k + 1]
      BY <1>1, <3>1
    <3>3. QED
      BY <3>1, <3>2 DEF Legal
  <2>2. CASE k = Len(past)
    BY <1>1, <2>2 DEF Last
  <2>3. CASE k > Len(past)
    <3>1. PICK m \in 1 .. Len(path) - 1 : k = Len(past) + m
      <4>1. k - Len(past) \in 1 .. Len(path) - 1 /\ k = Len(past) + (k - Len(past))
        BY <1>1, <2>3
      <4>2. QED
        BY <4>1
    <3>2. whole[k] = path[m] /\ whole[k + 1] = path[m + 1]
      BY <1>1, <3>1
    <3>3. QED
      BY <3>2 DEF Legal
  <2>4. QED
    BY <1>1, <2>1, <2>2, <2>3
<1>3. /\ Last(whole) = Last(path) /\ whole[1] = past[1]
      /\ whole \in Seq(WorkflowStates) /\ whole # <<>>
  <2>1. whole \in Seq(WorkflowStates)
    BY DEF whole
  <2>2. Len(whole) # 0 /\ Len(path) \in 1 .. Len(path) /\ 1 \in 1 .. Len(past)
    BY <1>1
  <2>3. whole[Len(whole)] = path[Len(path)] /\ whole[1] = past[1]
    BY <1>1, <2>2
  <2>4. QED
    BY <2>1, <2>2, <2>3 DEF Last
<1>4. QED
  BY <1>2, <1>3 DEF Legal, whole

\* A legal path that leaves one state and ends in another.
Way(from, path, to) ==
    /\ path \in Seq(WorkflowStates) /\ path # <<>> /\ Legal(path)
    /\ path[1] \in Transitions[from] /\ Last(path) = to

LEMMA WaysJoin ==
    ASSUME NEW a, NEW b, NEW c, NEW p, NEW q, Way(a, p, b), Way(b, q, c)
    PROVE  Way(a, p \o q, c)
BY PathGoesOn DEF Way

\* The transitions the code makes are in the table.
LEMMA TableAllows ==
    /\ {"DEMAND_DETECTED", "CANCELLED"} \subseteq Transitions["IDLE"]
    /\ {"CONTACTS_PLANNED", "CANCELLED"} \subseteq Transitions["DEMAND_DETECTED"]
    /\ "CALLING" \in Transitions["CONTACTS_PLANNED"]
    /\ "OFFER_RECEIVED" \in Transitions["CALLING"]
    /\ {"CALLING", "VALIDATING", "CANCELLED"} \subseteq Transitions["OFFER_RECEIVED"]
    /\ "POLICY_CHECK" \in Transitions["VALIDATING"]
    /\ {"SELECTED", "NO_COMPLIANT_OFFER"} \subseteq Transitions["POLICY_CHECK"]
    /\ {"ORDER_PREPARED", "FAILED", "CANCELLED"} \subseteq Transitions["SELECTED"]
    /\ "HUMAN_ESCALATION_REQUIRED" \in Transitions["NO_COMPLIANT_OFFER"]
BY DEF Transitions

Checked == <<"OFFER_RECEIVED", "VALIDATING", "POLICY_CHECK">>

\* The ways of the code.
LEMMA WaysOfRun ==
    /\ Way("IDLE", <<"CANCELLED">>, "CANCELLED")
    /\ Way("IDLE", <<"DEMAND_DETECTED", "CANCELLED">>, "CANCELLED")
    /\ Way("IDLE", <<"DEMAND_DETECTED", "CONTACTS_PLANNED", "CALLING">>, "CALLING")
    /\ Way("CALLING", <<"OFFER_RECEIVED", "CANCELLED">>, "CANCELLED")
    /\ Way("CALLING", <<"OFFER_RECEIVED", "CALLING">>, "CALLING")
    /\ Way("CALLING", Checked \o <<"NO_COMPLIANT_OFFER", "HUMAN_ESCALATION_REQUIRED">>,
           "HUMAN_ESCALATION_REQUIRED")
    /\ Way("CALLING", Checked \o <<"SELECTED">>, "SELECTED")
    /\ Way("CALLING", (Checked \o <<"SELECTED">>) \o <<"CANCELLED">>, "CANCELLED")
    /\ Way("SELECTED", <<"ORDER_PREPARED">>, "ORDER_PREPARED")
    /\ Way("SELECTED", <<"FAILED">>, "FAILED")
<1>1. \A from : \A a \in WorkflowStates : a \in Transitions[from] => Way(from, <<a>>, a)
  BY DEF Way, Legal, Last
<1>2. \A from : \A a, b \in WorkflowStates :
         a \in Transitions[from] /\ b \in Transitions[a] => Way(from, <<a, b>>, b)
  BY DEF Way, Legal, Last
<1>3. \A from : \A a, b, c \in WorkflowStates :
         a \in Transitions[from] /\ b \in Transitions[a] /\ c \in Transitions[b]
            => Way(from, <<a, b, c>>, c)
  BY DEF Way, Legal, Last
<1>4. {"CANCELLED", "DEMAND_DETECTED", "CONTACTS_PLANNED", "CALLING", "OFFER_RECEIVED",
       "VALIDATING", "POLICY_CHECK", "SELECTED", "NO_COMPLIANT_OFFER",
       "HUMAN_ESCALATION_REQUIRED", "ORDER_PREPARED", "FAILED"} \subseteq WorkflowStates
  BY DEF WorkflowStates, Transitions
<1>5. /\ Way("IDLE", <<"CANCELLED">>, "CANCELLED")
      /\ Way("SELECTED", <<"ORDER_PREPARED">>, "ORDER_PREPARED")
      /\ Way("SELECTED", <<"FAILED">>, "FAILED")
      /\ Way("SELECTED", <<"CANCELLED">>, "CANCELLED")
      /\ Way("POLICY_CHECK", <<"SELECTED">>, "SELECTED")
  BY <1>1, <1>4, TableAllows
<1>6. /\ Way("IDLE", <<"DEMAND_DETECTED", "CANCELLED">>, "CANCELLED")
      /\ Way("CALLING", <<"OFFER_RECEIVED", "CANCELLED">>, "CANCELLED")
      /\ Way("CALLING", <<"OFFER_RECEIVED", "CALLING">>, "CALLING")
      /\ Way("POLICY_CHECK", <<"NO_COMPLIANT_OFFER", "HUMAN_ESCALATION_REQUIRED">>,
             "HUMAN_ESCALATION_REQUIRED")
  BY <1>2, <1>4, TableAllows
<1>7. /\ Way("IDLE", <<"DEMAND_DETECTED", "CONTACTS_PLANNED", "CALLING">>, "CALLING")
      /\ Way("CALLING", Checked, "POLICY_CHECK")
  BY <1>3, <1>4, TableAllows DEF Checked
<1>8. /\ Way("CALLING", Checked \o <<"NO_COMPLIANT_OFFER", "HUMAN_ESCALATION_REQUIRED">>,
             "HUMAN_ESCALATION_REQUIRED")
      /\ Way("CALLING", Checked \o <<"SELECTED">>, "SELECTED")
  BY <1>5, <1>6, <1>7, WaysJoin
<1>9. Way("CALLING", (Checked \o <<"SELECTED">>) \o <<"CANCELLED">>, "CANCELLED")
  BY <1>5, <1>8, WaysJoin
<1>10. QED
  BY <1>5, <1>6, <1>7, <1>8, <1>9

\* The paths of the state machine that the actions append.
Paths ==
    {<<"CANCELLED">>, <<"DEMAND_DETECTED", "CANCELLED">>,
     <<"DEMAND_DETECTED", "CONTACTS_PLANNED", "CALLING">>,
     <<"OFFER_RECEIVED", "CANCELLED">>, <<"OFFER_RECEIVED", "CALLING">>,
     Checked \o <<"NO_COMPLIANT_OFFER", "HUMAN_ESCALATION_REQUIRED">>,
     Checked \o <<"SELECTED">>, (Checked \o <<"SELECTED">>) \o <<"CANCELLED">>,
     <<"ORDER_PREPARED">>, <<"FAILED">>}

LEMMA PathsTyped == Paths \subseteq Seq(WorkflowStates) \ {<<>>}
BY WaysOfRun DEF Paths, Way

-----------------------------------------------------------------------------
(* Types *)

\* What a step that finishes an invocation, and only such a step, leaves behind.
AfterFinish(i) ==
    /\ result' \in Result \cup {Nothing}
    /\ step' \in [Invocations -> InFlightSteps \cup {"idle", "ended"}]
    /\ history' \in [Invocations -> Seq(WorkflowStates)]
    /\ told' \in [Invocations -> Result \cup {Nothing}]
    /\ step'[i] = "ended"
    /\ \A j \in Invocations : step'[j] = "ended" <=> told'[j] # Nothing
    /\ \A j \in Invocations : step'[j] = "ordering" => step[j] = "ordering"

LEMMA FinishTypes ==
    ASSUME LoopTypes, NEW i \in Invocations, NEW status \in Statuses,
           NEW states \in Seq(WorkflowStates), states # <<>>,
           NEW order \in Order \cup {Nothing},
           Finish(i, status, states, order)
    PROVE  AfterFinish(i)
<1> DEFINE completed == [status |-> status, state |-> states[Len(states)], order |-> order]
<1>1. states[Len(states)] \in WorkflowStates
  OBVIOUS
<1>2. completed \in Result
  BY <1>1 DEF Result
<1>3. completed # Nothing
  BY <1>2, WorkflowAssumption
<1> HIDE DEF completed
<1>4. /\ step' = [step EXCEPT ![i] = "ended"]
      /\ history' = [history EXCEPT ![i] = @ \o states]
      /\ result' = IF result = Nothing THEN completed ELSE result
      /\ told' = [told EXCEPT ![i] = completed]
  BY DEF Finish, Go, Through, completed
<1>5. history[i] \o states \in Seq(WorkflowStates)
  BY DEF LoopTypes
<1>6. QED
  BY <1>2, <1>3, <1>4, <1>5 DEF LoopTypes, AfterFinish


\* Deciding ends with the verdict told or with the order sent.
LEMMA DecideTypes ==
    ASSUME LoopTypes, NEW i \in Invocations, step[i] \in InFlightSteps,
           NEW collected \in Seq(Offer), NEW at \in Instants, NEW compliant,
           compliant = Compliant(collected, at),
           Decide(i, collected, at, compliant)
    PROVE  /\ result' \in Result \cup {Nothing}
           /\ step' \in [Invocations -> InFlightSteps \cup {"idle", "ended"}]
           /\ decision' \in [Invocations -> Decision \cup {Nothing}]
           /\ history' \in [Invocations -> Seq(WorkflowStates)]
           /\ told' \in [Invocations -> Result \cup {Nothing}]
           /\ \A j \in Invocations : /\ step'[j] = "ordering" => decision'[j] \in Decision
                                     /\ step'[j] = "ended" <=> told'[j] # Nothing
<1>1. CASE /\ compliant = {}
           /\ Finish(i, "HUMAN_ESCALATION_REQUIRED",
                     Checked \o <<"NO_COMPLIANT_OFFER", "HUMAN_ESCALATION_REQUIRED">>, Nothing)
           /\ UNCHANGED decision
  <2>1. "HUMAN_ESCALATION_REQUIRED" \in Statuses
    BY DEF Statuses
  <2>2. Checked \o <<"NO_COMPLIANT_OFFER", "HUMAN_ESCALATION_REQUIRED">> \in Paths
    BY DEF Paths
  <2>3. QED
    <3>1. AfterFinish(i)
      BY <1>1, <2>1, <2>2, PathsTyped, FinishTypes
    <3>2. QED
      BY <1>1, <3>1 DEF LoopTypes, AfterFinish
<1>2. CASE /\ Finish(i, "EXECUTION_BLOCKED", (Checked \o <<"SELECTED">>) \o <<"CANCELLED">>, Nothing)
           /\ UNCHANGED decision
  <2>1. "EXECUTION_BLOCKED" \in Statuses
    BY DEF Statuses
  <2>2. (Checked \o <<"SELECTED">>) \o <<"CANCELLED">> \in Paths
    BY DEF Paths
  <2>3. QED
    <3>1. AfterFinish(i)
      BY <1>2, <2>1, <2>2, PathsTyped, FinishTypes
    <3>2. QED
      BY <1>2, <3>1 DEF LoopTypes, AfterFinish
<1>3. CASE /\ compliant # {}
           /\ Go(i, "ordering")
           /\ Through(i, Checked \o <<"SELECTED">>)
           /\ decision' = [decision EXCEPT ![i] =
                 [offer |-> collected[SelectBest(collected, compliant)], at |-> at]]
           /\ UNCHANGED <<result, told>>
  <2>1. collected[SelectBest(collected, compliant)] \in Offer
    BY <1>3, SelectedIsCompliant
  <2>2. [offer |-> collected[SelectBest(collected, compliant)], at |-> at] \in Decision
    BY <2>1 DEF Decision
  <2>3. Checked \o <<"SELECTED">> \in Seq(WorkflowStates)
    <3>1. Checked \o <<"SELECTED">> \in Paths
      BY DEF Paths
    <3>2. QED
      BY <3>1, PathsTyped
  <2>4. history[i] \o (Checked \o <<"SELECTED">>) \in Seq(WorkflowStates)
    BY <2>3 DEF LoopTypes
  <2>5. step[i] # "ended" /\ "ordering" \in InFlightSteps
    BY DEF InFlightSteps
  <2>6. /\ step' = [step EXCEPT ![i] = "ordering"]
        /\ history' = [history EXCEPT ![i] = history[i] \o (Checked \o <<"SELECTED">>)]
    BY <1>3 DEF Go, Through
  <2>7. /\ step' \in [Invocations -> InFlightSteps \cup {"idle", "ended"}]
        /\ history' \in [Invocations -> Seq(WorkflowStates)]
        /\ decision' \in [Invocations -> Decision \cup {Nothing}]
    BY <1>3, <2>2, <2>4, <2>5, <2>6 DEF LoopTypes
  <2>8. QED
    BY <1>3, <2>2, <2>5, <2>6, <2>7 DEF LoopTypes
<1>4. QED
  BY <1>1, <1>2, <1>3 DEF Decide, Checked

\* The next supplier, if the list goes on.
LEMMA NextSupplier ==
    /\ 1 \in Suppliers /\ 1 \in Attempts /\ 0 \in 0 .. MaximumPolls - 1
    /\ \A s \in Suppliers : s < SupplierCount => s + 1 \in Suppliers
    /\ \A a \in Attempts : a < Tries => a + 1 \in Attempts
BY WorkflowAssumption DEF Suppliers, Attempts, Tries

LEMMA OfferReceivedTypes ==
    ASSUME LoopTypes, input \in Inputs, NEW i \in Invocations, step[i] \in InFlightSteps,
           NEW task, task.answer \in Answer, OfferReceived(i, task)
    PROVE  LoopTypes'
<1>1. /\ contact[i] \in Suppliers /\ attempt[i] \in Attempts /\ offers[i] \in Seq(Offer)
      /\ history[i] \in Seq(WorkflowStates) /\ step[i] # "ended"
  BY DEF LoopTypes, InFlightSteps
<1>2. Append(offers[i], ResultToOffer(contact[i], task, attempt[i])) \in Seq(Offer)
  BY <1>1, OfferTyped
<1> DEFINE collected == Append(offers[i], ResultToOffer(contact[i], task, attempt[i]))
<1>3. offers' = [offers EXCEPT ![i] = collected]
  BY DEF OfferReceived
<1>4. offers' \in [Invocations -> Seq(Offer)]
  BY <1>2, <1>3 DEF LoopTypes
<1> HIDE DEF collected
<1>5. CASE /\ Finish(i, "EXECUTION_BLOCKED", <<"OFFER_RECEIVED", "CANCELLED">>, Nothing)
           /\ UNCHANGED <<contact, attempt, polls, decision>>
  <2>1. "EXECUTION_BLOCKED" \in Statuses
    BY DEF Statuses
  <2>2. <<"OFFER_RECEIVED", "CANCELLED">> \in Paths
    BY DEF Paths
  <2>3. QED
    <3>1. AfterFinish(i)
      BY <1>5, <2>1, <2>2, PathsTyped, FinishTypes
    <3>2. QED
      BY <1>4, <1>5, <3>1 DEF LoopTypes, AfterFinish
<1>6. CASE /\ contact[i] < SupplierCount
           /\ Through(i, <<"OFFER_RECEIVED", "CALLING">>)
           /\ CallSupplier(i, contact[i] + 1)
           /\ UNCHANGED <<decision, result, told>>
  <2>1. <<"OFFER_RECEIVED", "CALLING">> \in Seq(WorkflowStates)
    <3>1. <<"OFFER_RECEIVED", "CALLING">> \in Paths
      BY DEF Paths
    <3>2. QED
      BY <3>1, PathsTyped
  <2>2. history' \in [Invocations -> Seq(WorkflowStates)]
    BY <1>6, <2>1 DEF Through, LoopTypes
  <2>3. QED
    BY <1>1, <1>4, <1>6, <2>2, NextSupplier DEF LoopTypes, CallSupplier, Go, InFlightSteps
<1>7. CASE /\ \E now \in Instants : \E compliant \in {Compliant(collected, now)} :
                 Decide(i, collected, now, compliant)
           /\ UNCHANGED <<contact, attempt, polls>>
  <2>1. PICK now \in Instants : Decide(i, collected, now, Compliant(collected, now))
    BY <1>7
  <2>2. collected \in Seq(Offer)
    BY <1>2 DEF collected
  <2>3. QED
    BY <1>4, <1>7, <2>1, <2>2, DecideTypes DEF LoopTypes
<1>8. QED
  BY <1>5, <1>6, <1>7 DEF OfferReceived, collected

LEMMA AttemptEndsTypes ==
    ASSUME LoopTypes, input \in Inputs, NEW i \in Invocations, step[i] \in InFlightSteps,
           NEW task, task.answer \in Answer, AttemptEnds(i, task)
    PROVE  LoopTypes'
<1>1. CASE /\ attempt[i] < Tries
           /\ Go(i, "posting")
           /\ attempt' = [attempt EXCEPT ![i] = @ + 1]
           /\ polls' = [polls EXCEPT ![i] = 0]
           /\ UNCHANGED <<contact, offers, decision, history, result, told>>
  BY <1>1, NextSupplier DEF LoopTypes, Go, InFlightSteps
<1>2. QED
  BY <1>1, OfferReceivedTypes DEF AttemptEnds

LEMMA TypeInit == WorkflowInit => WorkflowTypeOK
<1> SUFFICES ASSUME WorkflowInit PROVE WorkflowTypeOK
  OBVIOUS
<1>1. <<"IDLE">> \in Seq(WorkflowStates)
  BY DEF WorkflowStates, Transitions
<1>2. 0 \in 0 .. MaximumCalls
  BY WorkflowAssumption
<1>3. <<>> \in Seq(Order) /\ <<>> \in Seq(Offer)
  OBVIOUS
<1>4. /\ orders \in Seq(Order)
      /\ offers \in [Invocations -> Seq(Offer)]
      /\ history \in [Invocations -> Seq(WorkflowStates)]
  BY <1>1, <1>3 DEF WorkflowInit
<1>5. calls \in [Suppliers \X Attempts -> Reports \cup {NotPlaced, Ringing}]
  BY DEF WorkflowInit
<1>6. /\ step \in [Invocations -> {"idle", "posting", "sleeping", "polling", "ordering", "ended"}]
      /\ contact \in [Invocations -> Suppliers] /\ attempt \in [Invocations -> Attempts]
      /\ polls \in [Invocations -> 0 .. MaximumPolls - 1]
      /\ decision \in [Invocations -> Decision \cup {Nothing}]
      /\ told \in [Invocations -> Result \cup {Nothing}]
  BY NextSupplier DEF WorkflowInit
<1>7. QED
  BY <1>2, <1>4, <1>5, <1>6 DEF WorkflowInit, WorkflowTypeOK, StoreTypes, LoopTypes, InFlightSteps

LEMMA TypeParts ==
    /\ WorkflowTypeOK <=> StoreTypes /\ LoopTypes
    /\ WorkflowTypeOK' <=> StoreTypes' /\ LoopTypes'
BY DEF WorkflowTypeOK

\* A run that is admitted, refused or told of an earlier one.
LEMMA RunTypes ==
    ASSUME WorkflowTypeOK, NEW i \in Invocations, Run(i) PROVE WorkflowTypeOK'
<1>1. LoopTypes /\ StoreTypes /\ Blocked \in Result
  BY TypeParts DEF Blocked, Result, Statuses, WorkflowStates, Transitions
<1>2. {"EXECUTION_BLOCKED", "NO_ACTION_REQUIRED"} \subseteq Statuses
  BY DEF Statuses
<1>3. /\ <<"CANCELLED">> \in Paths
      /\ <<"DEMAND_DETECTED", "CANCELLED">> \in Paths
      /\ <<"DEMAND_DETECTED", "CONTACTS_PLANNED", "CALLING">> \in Paths
  BY DEF Paths
<1>4. CASE RunDuplicate(i)
  <2>1. history' \in [Invocations -> Seq(WorkflowStates)]
    <3>1. <<"CANCELLED">> \in Seq(WorkflowStates)
      BY <1>3, PathsTyped
    <3>2. history[i] \o <<"CANCELLED">> \in Seq(WorkflowStates)
      BY <1>1, <3>1 DEF LoopTypes
    <3>3. QED
      BY <1>1, <1>4, <3>2 DEF RunDuplicate, LoopTypes
  <2>2. told'[i] # Nothing /\ told' \in [Invocations -> Result \cup {Nothing}]
    BY <1>1, <1>4, WorkflowAssumption DEF RunDuplicate, LoopTypes
  <2>3. LoopTypes'
    BY <1>1, <1>4, <2>1, <2>2 DEF RunDuplicate, LoopTypes, Go, runStore, progress
  <2>4. QED
    BY <1>4, <2>3, TypeParts DEF StoreTypes, RunDuplicate, runStore
<1>5. CASE RunBlocked(i)
  <2>1. LoopTypes'
    <3>1. AfterFinish(i)
      BY <1>1, <1>2, <1>3, <1>5, PathsTyped, FinishTypes DEF RunBlocked
    <3>2. QED
      BY <1>1, <1>5, <3>1 DEF RunBlocked, LoopTypes, AfterFinish, progress
  <2>2. QED
    BY <1>5, <2>1, TypeParts DEF StoreTypes, RunBlocked, Begin
<1>6. CASE RunUnneeded(i)
  <2>1. LoopTypes'
    <3>1. AfterFinish(i)
      BY <1>1, <1>2, <1>3, <1>6, PathsTyped, FinishTypes DEF RunUnneeded
    <3>2. QED
      BY <1>1, <1>6, <3>1 DEF RunUnneeded, LoopTypes, AfterFinish, progress
  <2>2. QED
    BY <1>6, <2>1, TypeParts DEF StoreTypes, RunUnneeded, RunPermitted, Begin
<1>7. CASE RunStarts(i)
  <2>1. history' \in [Invocations -> Seq(WorkflowStates)]
    <3>1. <<"DEMAND_DETECTED", "CONTACTS_PLANNED", "CALLING">> \in Seq(WorkflowStates)
      BY <1>3, PathsTyped
    <3>2. history[i] \o <<"DEMAND_DETECTED", "CONTACTS_PLANNED", "CALLING">> \in Seq(WorkflowStates)
      BY <1>1, <3>1 DEF LoopTypes
    <3>3. QED
      BY <1>1, <1>7, <3>2 DEF RunStarts, Through, LoopTypes
  <2>2. LoopTypes'
    <3>1. step[i] # "ended" /\ "posting" \in InFlightSteps
      BY <1>7 DEF RunStarts, RunPermitted, Begin, InFlightSteps
    <3>2. /\ step' = [step EXCEPT ![i] = "posting"]
          /\ contact' = [contact EXCEPT ![i] = 1]
          /\ attempt' = [attempt EXCEPT ![i] = 1]
          /\ polls' = [polls EXCEPT ![i] = 0]
          /\ UNCHANGED <<offers, decision, told, result>>
      BY <1>7 DEF RunStarts, CallSupplier, Go
    <3>3. QED
      BY <1>1, <2>1, <3>1, <3>2, NextSupplier DEF LoopTypes
  <2>3. QED
    BY <1>7, <2>2, TypeParts DEF StoreTypes, RunStarts, RunPermitted, Begin
<1>8. QED
  BY <1>4, <1>5, <1>6, <1>7 DEF Run

\* An invocation in flight that posts, sleeps, polls or orders.
LEMMA ProceedTypes ==
    ASSUME WorkflowTypeOK, NEW i \in Invocations, Proceed(i) PROVE WorkflowTypeOK'
<1>1. /\ LoopTypes /\ input \in Inputs
      /\ started \in BOOLEAN /\ cancelled \in BOOLEAN /\ expired \in BOOLEAN
      /\ counted \in 0 .. MaximumCalls
      /\ calls \in [Suppliers \X Attempts -> Reports \cup {NotPlaced, Ringing}]
      /\ orders \in Seq(Order)
  BY TypeParts DEF StoreTypes
<1>2. Call(i) \in Suppliers \X Attempts
  BY <1>1 DEF Call, LoopTypes
<1>3. ASSUME NEW state \in Reports \cup {Ringing}, ServiceTakes(i, state)
      PROVE  calls' \in [Suppliers \X Attempts -> Reports \cup {NotPlaced, Ringing}]
  BY <1>1, <1>3 DEF ServiceTakes
<1>4. \A outcome : UnresolvedTask(outcome).answer \in Answer
  BY NothingSaidIsAnswer DEF UnresolvedTask
<1>5. ~ RefusedByAdapter(i) => counted + 1 \in 0 .. MaximumCalls
  BY <1>1, WorkflowAssumption DEF RefusedByAdapter
<1>6. step[i] # "ended" \/ told[i] # Nothing
  BY <1>1 DEF LoopTypes
<1>7. CASE PostRefused(i)
  <2>1. step[i] \in InFlightSteps /\ AttemptEnds(i, UnresolvedTask("FAILED"))
    BY <1>7 DEF PostRefused, InFlightSteps
  <2>2. LoopTypes'
    BY <1>1, <1>4, <2>1, AttemptEndsTypes
  <2>3. QED
    BY <1>1, <1>7, <2>2, TypeParts DEF StoreTypes, PostRefused
<1>8. CASE PostAccepted(i)
  <2>1. LoopTypes'
    BY <1>1, <1>8 DEF PostAccepted, LoopTypes, Go, InFlightSteps, runStore, progress
  <2>2. QED
    BY <1>1, <1>3, <1>5, <1>8, <2>1, TypeParts DEF StoreTypes, PostAccepted, runStore
<1>9. ASSUME NEW report \in Reports, PostAnswered(i, report) PROVE WorkflowTypeOK'
  <2>1. step[i] \in InFlightSteps /\ AttemptEnds(i, Task(report)) /\ Task(report).answer \in Answer
    BY <1>9, ReportsHaveAnswers DEF PostAnswered, InFlightSteps
  <2>2. LoopTypes'
    BY <1>1, <2>1, AttemptEndsTypes
  <2>3. QED
    BY <1>1, <1>3, <1>5, <1>9, <2>2, TypeParts DEF StoreTypes, PostAnswered
<1>10. CASE PostFails(i)
  <2>1. step[i] \in InFlightSteps /\ AttemptEnds(i, UnresolvedTask("FAILED"))
    BY <1>10 DEF PostFails, InFlightSteps
  <2>2. LoopTypes'
    BY <1>1, <1>4, <2>1, AttemptEndsTypes
  <2>3. QED
    BY <1>1, <1>3, <1>10, <2>2, TypeParts DEF StoreTypes, PostFails
<1>11. CASE PostUnreadable(i)
  <2>1. step[i] \in InFlightSteps /\ AttemptEnds(i, UnresolvedTask("FAILED"))
    BY <1>11 DEF PostUnreadable, InFlightSteps
  <2>2. LoopTypes'
    BY <1>1, <1>4, <2>1, AttemptEndsTypes
  <2>3. QED
    BY <1>1, <1>3, <1>5, <1>11, <2>2, TypeParts DEF StoreTypes, PostUnreadable
<1>12. CASE PollCancelled(i)
  <2>1. step[i] \in InFlightSteps /\ OfferReceived(i, UnresolvedTask("FAILED"))
    BY <1>12 DEF PollCancelled, InFlightSteps
  <2>2. LoopTypes'
    BY <1>1, <1>4, <2>1, OfferReceivedTypes
  <2>3. QED
    BY <1>1, <1>12, <2>2, TypeParts DEF StoreTypes, PollCancelled
<1>13. CASE PollSent(i)
  <2>1. LoopTypes'
    BY <1>1, <1>13 DEF PollSent, LoopTypes, Go, InFlightSteps, runStore, progress
  <2>2. QED
    BY <1>1, <1>13, <2>1, TypeParts DEF StoreTypes, PollSent, runStore
<1>14. CASE PollTerminal(i)
  <2>1. calls[Call(i)] \in Reports
    BY <1>1, <1>2, <1>14 DEF PollTerminal, Ended, Call
  <2>2. /\ step[i] \in InFlightSteps /\ AttemptEnds(i, Task(calls[Call(i)]))
        /\ Task(calls[Call(i)]).answer \in Answer
    BY <1>14, <2>1, ReportsHaveAnswers DEF PollTerminal, InFlightSteps
  <2>3. LoopTypes'
    BY <1>1, <2>2, AttemptEndsTypes
  <2>4. QED
    BY <1>1, <1>14, <2>3, TypeParts DEF StoreTypes, PollTerminal
<1>15. CASE PollRinging(i)
  <2>1. polls[i] + 1 \in 0 .. MaximumPolls - 1
    BY <1>1, <1>15, WorkflowAssumption DEF PollRinging, LoopTypes
  <2>2. LoopTypes'
    BY <1>1, <1>15, <2>1 DEF PollRinging, LoopTypes, Go, InFlightSteps, runStore
  <2>3. QED
    BY <1>1, <1>15, <2>2, TypeParts DEF StoreTypes, PollRinging, runStore
<1>16. CASE PollExhausted(i)
  <2>1. step[i] \in InFlightSteps /\ AttemptEnds(i, UnresolvedTask("TIMEOUT"))
    BY <1>16 DEF PollExhausted, InFlightSteps
  <2>2. LoopTypes'
    BY <1>1, <1>4, <2>1, AttemptEndsTypes
  <2>3. QED
    BY <1>1, <1>16, <2>2, TypeParts DEF StoreTypes, PollExhausted
<1>17. CASE PollFails(i)
  <2>1. step[i] \in InFlightSteps /\ AttemptEnds(i, UnresolvedTask("FAILED"))
    BY <1>17 DEF PollFails, InFlightSteps
  <2>2. LoopTypes'
    BY <1>1, <1>4, <2>1, AttemptEndsTypes
  <2>3. QED
    BY <1>1, <1>17, <2>2, TypeParts DEF StoreTypes, PollFails
<1>18. ASSUME step[i] = "ordering"
       PROVE  /\ OrderFor(decision[i].offer) \in Order
              /\ OrdersWith(OrderFor(decision[i].offer)) \in Seq(Order) \ {<<>>}
  <2>1. decision[i].offer \in Offer
    <3>1. decision[i] \in Decision
      BY <1>1, <1>18 DEF LoopTypes
    <3>2. QED
      BY <3>1 DEF Decision
  <2>2. OrderFor(decision[i].offer) \in Order
    BY <2>1, OrderTyped
  <2>3. QED
    BY <1>1, <2>2 DEF OrdersWith
<1>19. CASE OrderCreated(i)
  <2>1. orders' \in Seq(Order) \ {<<>>}
    BY <1>18, <1>19 DEF OrderCreated
  <2>2. orders'[1] \in Order
    BY <2>1
  <2>3. <<"ORDER_PREPARED">> \in Paths /\ "ORDER_CREATED" \in Statuses
    BY DEF Paths, Statuses
  <2>4. Finish(i, "ORDER_CREATED", <<"ORDER_PREPARED">>, orders'[1])
    BY <1>19 DEF OrderCreated
  <2>5. LoopTypes'
    <3>1. AfterFinish(i)
      BY <1>1, <2>2, <2>3, <2>4, PathsTyped, FinishTypes
    <3>2. QED
      BY <1>1, <1>19, <3>1 DEF OrderCreated, LoopTypes, AfterFinish, progress
  <2>6. QED
    BY <1>1, <1>19, <2>1, <2>5, TypeParts DEF StoreTypes, OrderCreated
<1>20. CASE OrderFails(i)
  <2>1. orders' \in Seq(Order)
    BY <1>1, <1>18, <1>20 DEF OrderFails
  <2>2. <<"FAILED">> \in Paths /\ "FAILED" \in Statuses
    BY DEF Paths, Statuses
  <2>3. LoopTypes'
    <3>1. AfterFinish(i)
      BY <1>1, <1>20, <2>2, PathsTyped, FinishTypes DEF OrderFails
    <3>2. QED
      BY <1>1, <1>20, <3>1 DEF OrderFails, LoopTypes, AfterFinish, progress
  <2>4. QED
    BY <1>1, <1>20, <2>1, <2>3, TypeParts DEF StoreTypes, OrderFails
<1>21. QED
  BY <1>7, <1>8, <1>9, <1>10, <1>11, <1>12, <1>13, <1>14, <1>15, <1>16, <1>17, <1>19, <1>20
  DEF Proceed

LEMMA TypeStep == WorkflowTypeOK /\ [WorkflowNext]_workflowVars => WorkflowTypeOK'
<1> SUFFICES ASSUME WorkflowTypeOK, [WorkflowNext]_workflowVars PROVE WorkflowTypeOK'
  OBVIOUS
<1>1. CASE \E i \in Invocations : Run(i) \/ Proceed(i)
  BY <1>1, RunTypes, ProceedTypes
<1>2. CASE Cancel
  BY <1>2 DEF Cancel, WorkflowTypeOK, StoreTypes, LoopTypes, progress
<1>3. CASE AuthorizationExpires
  BY <1>3 DEF AuthorizationExpires, WorkflowTypeOK, StoreTypes, LoopTypes, progress, runStore
<1>4. ASSUME NEW c \in Suppliers \X Attempts, NEW report \in Reports, CallEnds(c, report)
      PROVE  WorkflowTypeOK'
  BY <1>4 DEF CallEnds, WorkflowTypeOK, StoreTypes, LoopTypes, progress, runStore
<1>5. CASE UNCHANGED workflowVars
  BY <1>5 DEF workflowVars, WorkflowTypeOK, StoreTypes, LoopTypes, progress, runStore
<1>6. QED
  BY <1>1, <1>2, <1>3, <1>4, <1>5 DEF WorkflowNext

\* The variables have their types: a choice is always one of the offers, the
\* counters stay within the limits of the authorization and of the policy, and
\* an invocation has told its result when, and only when, it has ended.
THEOREM WorkflowTypeCorrect == WorkflowSpec => []WorkflowTypeOK
BY TypeInit, TypeStep, PTL DEF WorkflowSpec

-----------------------------------------------------------------------------
(* The history follows the table *)

CallingSteps == {"posting", "sleeping", "polling"}

\* Where an invocation stands is where its history ends.
HistoryInv ==
    \A i \in Invocations :
        /\ history[i] # <<>> /\ Legal(history[i])
        /\ step[i] = "idle" => Last(history[i]) = "IDLE"
        /\ step[i] \in CallingSteps => Last(history[i]) = "CALLING"
        /\ step[i] = "ordering" => Last(history[i]) = "SELECTED"

\* i alone moves, along a way to the state its next step stands for.
Walks(i) ==
    \E path \in Seq(WorkflowStates), to \in WorkflowStates :
        /\ Way(Last(history[i]), path, to)
        /\ history' = [history EXCEPT ![i] = @ \o path]
        /\ \A j \in Invocations \ {i} : step'[j] = step[j]
        /\ step'[i] # "idle"
        /\ step'[i] \in CallingSteps => to = "CALLING"
        /\ step'[i] = "ordering" => to = "SELECTED"

\* i alone moves, between steps of one state or to its end.
Stays(i) ==
    /\ history' = history
    /\ \A j \in Invocations \ {i} : step'[j] = step[j]
    /\ \/ step'[i] = "ended"
       \/ step[i] \in CallingSteps /\ step'[i] \in CallingSteps

LEMMA MovesKeepHistory ==
    ASSUME WorkflowTypeOK, HistoryInv, NEW i \in Invocations, Walks(i) \/ Stays(i)
    PROVE  HistoryInv'
<1>1. history \in [Invocations -> Seq(WorkflowStates)]
  BY DEF WorkflowTypeOK, LoopTypes
<1>2. CASE Walks(i)
  <2>1. PICK path \in Seq(WorkflowStates), to \in WorkflowStates :
            /\ Way(Last(history[i]), path, to)
            /\ history' = [history EXCEPT ![i] = @ \o path]
            /\ \A j \in Invocations \ {i} : step'[j] = step[j]
            /\ step'[i] # "idle"
            /\ step'[i] \in CallingSteps => to = "CALLING"
            /\ step'[i] = "ordering" => to = "SELECTED"
    BY <1>2 DEF Walks
  <2>2. /\ history[i] \o path # <<>> /\ Legal(history[i] \o path)
        /\ Last(history[i] \o path) = to
    BY <1>1, <2>1, PathGoesOn DEF HistoryInv, Way
  <2>3. \A j \in Invocations \ {i} : history'[j] = history[j]
    BY <1>1, <2>1
  <2>4. history'[i] = history[i] \o path
    BY <1>1, <2>1
  <2>5. ASSUME NEW j \in Invocations
        PROVE  /\ history'[j] # <<>> /\ Legal(history'[j])
               /\ step'[j] = "idle" => Last(history'[j]) = "IDLE"
               /\ step'[j] \in CallingSteps => Last(history'[j]) = "CALLING"
               /\ step'[j] = "ordering" => Last(history'[j]) = "SELECTED"
    <3>1. CASE j = i
      BY <2>1, <2>2, <2>4, <3>1
    <3>2. CASE j # i
      BY <2>1, <2>3, <3>2 DEF HistoryInv
    <3>3. QED
      BY <3>1, <3>2
  <2>6. QED
    BY <2>5 DEF HistoryInv, Legal, Last, CallingSteps
<1>3. CASE Stays(i)
  BY <1>3 DEF Stays, HistoryInv, Legal, Last, CallingSteps
<1>4. QED
  BY <1>2, <1>3

LEMMA WayTyped ==
    ASSUME NEW from, NEW path, NEW to, Way(from, path, to)
    PROVE  path \in Seq(WorkflowStates) /\ to \in WorkflowStates
<1>1. Len(path) \in 1 .. Len(path)
  BY DEF Way
<1>2. QED
  BY <1>1 DEF Way, Last

\* To finish along a way is to walk.
LEMMA FinishWalks ==
    ASSUME LoopTypes, NEW i \in Invocations, NEW status, NEW path, NEW to, NEW order,
           Way(Last(history[i]), path, to), Finish(i, status, path, order)
    PROVE  Walks(i)
<1>1. path \in Seq(WorkflowStates) /\ to \in WorkflowStates
  BY WayTyped
<1>2. /\ history' = [history EXCEPT ![i] = @ \o path]
      /\ step' = [step EXCEPT ![i] = "ended"]
  BY DEF Finish, Through, Go
<1>3. step'[i] = "ended" /\ \A j \in Invocations \ {i} : step'[j] = step[j]
  BY <1>2 DEF LoopTypes
<1>4. step'[i] \notin CallingSteps
  BY <1>3 DEF CallingSteps
<1>5. QED
  BY <1>1, <1>2, <1>3, <1>4 DEF Walks

LEMMA DecideWalks ==
    ASSUME LoopTypes, NEW i \in Invocations, Last(history[i]) = "CALLING",
           NEW collected, NEW at, NEW compliant, Decide(i, collected, at, compliant)
    PROVE  Walks(i)
<1>1. CASE Finish(i, "HUMAN_ESCALATION_REQUIRED",
                  Checked \o <<"NO_COMPLIANT_OFFER", "HUMAN_ESCALATION_REQUIRED">>, Nothing)
  BY <1>1, WaysOfRun, FinishWalks
<1>2. CASE Finish(i, "EXECUTION_BLOCKED", (Checked \o <<"SELECTED">>) \o <<"CANCELLED">>, Nothing)
  BY <1>2, WaysOfRun, FinishWalks
<1>3. CASE Go(i, "ordering") /\ Through(i, Checked \o <<"SELECTED">>)
  <2>1. /\ step' = [step EXCEPT ![i] = "ordering"]
        /\ history' = [history EXCEPT ![i] = @ \o (Checked \o <<"SELECTED">>)]
    BY <1>3 DEF Go, Through
  <2>2. step'[i] = "ordering" /\ \A j \in Invocations \ {i} : step'[j] = step[j]
    BY <2>1 DEF LoopTypes
  <2>3. /\ Checked \o <<"SELECTED">> \in Seq(WorkflowStates) /\ "SELECTED" \in WorkflowStates
        /\ Way(Last(history[i]), Checked \o <<"SELECTED">>, "SELECTED")
    BY WaysOfRun, WayTyped
  <2>4. QED
    BY <2>1, <2>2, <2>3 DEF Walks, CallingSteps
<1>4. QED
  BY <1>1, <1>2, <1>3 DEF Decide, Checked

LEMMA OfferReceivedWalks ==
    ASSUME LoopTypes, NEW i \in Invocations, Last(history[i]) = "CALLING",
           NEW task, OfferReceived(i, task)
    PROVE  Walks(i)
<1>1. CASE Finish(i, "EXECUTION_BLOCKED", <<"OFFER_RECEIVED", "CANCELLED">>, Nothing)
  BY <1>1, WaysOfRun, FinishWalks
<1>2. CASE /\ Through(i, <<"OFFER_RECEIVED", "CALLING">>)
           /\ CallSupplier(i, contact[i] + 1)
  <2>1. /\ step' = [step EXCEPT ![i] = "posting"]
        /\ history' = [history EXCEPT ![i] = @ \o <<"OFFER_RECEIVED", "CALLING">>]
    BY <1>2 DEF CallSupplier, Go, Through
  <2>2. step'[i] = "posting" /\ \A j \in Invocations \ {i} : step'[j] = step[j]
    BY <2>1 DEF LoopTypes
  <2>3. /\ <<"OFFER_RECEIVED", "CALLING">> \in Seq(WorkflowStates) /\ "CALLING" \in WorkflowStates
        /\ Way(Last(history[i]), <<"OFFER_RECEIVED", "CALLING">>, "CALLING")
    BY WaysOfRun, WayTyped
  <2>4. QED
    BY <2>1, <2>2, <2>3 DEF Walks, CallingSteps
<1>3. ASSUME NEW collected, NEW now, NEW compliant, Decide(i, collected, now, compliant)
      PROVE  Walks(i)
  BY <1>3, DecideWalks
<1>4. QED
  BY <1>1, <1>2, <1>3 DEF OfferReceived

LEMMA AttemptEndsMoves ==
    ASSUME LoopTypes, NEW i \in Invocations, step[i] \in CallingSteps,
           Last(history[i]) = "CALLING", NEW task, AttemptEnds(i, task)
    PROVE  Walks(i) \/ Stays(i)
<1>1. CASE Go(i, "posting") /\ UNCHANGED history
  <2>1. step' = [step EXCEPT ![i] = "posting"]
    BY <1>1 DEF Go
  <2>2. step'[i] = "posting" /\ \A j \in Invocations \ {i} : step'[j] = step[j]
    BY <2>1 DEF LoopTypes
  <2>3. QED
    BY <1>1, <2>2 DEF Stays, CallingSteps
<1>2. QED
  BY <1>1, OfferReceivedWalks DEF AttemptEnds

\* Every step of an invocation walks along a way of the table, or stays.
LEMMA ProceedMoves ==
    ASSUME WorkflowTypeOK, HistoryInv, NEW i \in Invocations, Proceed(i)
    PROVE  Walks(i) \/ Stays(i)
<1>1. /\ LoopTypes
      /\ step[i] \in CallingSteps => Last(history[i]) = "CALLING"
      /\ step[i] = "ordering" => Last(history[i]) = "SELECTED"
  BY TypeParts DEF HistoryInv
<1>2. ASSUME step[i] \in CallingSteps, NEW task, AttemptEnds(i, task) PROVE Walks(i) \/ Stays(i)
  BY <1>1, <1>2, AttemptEndsMoves
<1>3. ASSUME step[i] \in CallingSteps, NEW to \in CallingSteps, Go(i, to), UNCHANGED history
      PROVE  Stays(i)
  <2>1. step'[i] = to /\ \A j \in Invocations \ {i} : step'[j] = step[j]
    BY <1>1, <1>3 DEF Go, LoopTypes
  <2>2. QED
    BY <1>3, <2>1 DEF Stays
<1>4. CASE PostRefused(i) \/ PostFails(i) \/ PostUnreadable(i) \/ PollExhausted(i) \/ PollFails(i)
  <2>1. step[i] \in CallingSteps /\ \E task : AttemptEnds(i, task)
    BY <1>4 DEF PostRefused, PostFails, PostUnreadable, PollExhausted, PollFails, CallingSteps
  <2>2. QED
    BY <1>2, <2>1
<1>5. CASE PollTerminal(i) \/ \E report \in Reports : PostAnswered(i, report)
  <2>1. step[i] \in CallingSteps /\ \E task : AttemptEnds(i, task)
    BY <1>5 DEF PostAnswered, PollTerminal, CallingSteps
  <2>2. QED
    BY <1>2, <2>1
<1>6. CASE PollCancelled(i)
  <2>1. step[i] \in CallingSteps /\ OfferReceived(i, UnresolvedTask("FAILED"))
    BY <1>6 DEF PollCancelled, CallingSteps
  <2>2. QED
    BY <1>1, <2>1, OfferReceivedWalks
<1>7. CASE PostAccepted(i)
  BY <1>3, <1>7 DEF PostAccepted, CallingSteps
<1>8. CASE PollSent(i)
  BY <1>3, <1>8 DEF PollSent, CallingSteps
<1>9. CASE PollRinging(i)
  BY <1>3, <1>9 DEF PollRinging, CallingSteps
<1>10. CASE OrderCreated(i)
  BY <1>1, <1>10, WaysOfRun, FinishWalks DEF OrderCreated
<1>11. CASE OrderFails(i)
  BY <1>1, <1>11, WaysOfRun, FinishWalks DEF OrderFails
<1>12. QED
  BY <1>4, <1>5, <1>6, <1>7, <1>8, <1>9, <1>10, <1>11 DEF Proceed

LEMMA RunMoves ==
    ASSUME WorkflowTypeOK, HistoryInv, NEW i \in Invocations, Run(i)
    PROVE  Walks(i) \/ Stays(i)
<1>1. /\ LoopTypes
      /\ step[i] = "idle" => Last(history[i]) = "IDLE"
  BY TypeParts DEF HistoryInv
<1>2. step[i] = "idle"
  BY DEF Run, RunDuplicate, RunBlocked, RunUnneeded, RunStarts, RunPermitted, Begin
<1>3. CASE RunDuplicate(i)
  <2>1. step'[i] = "ended" /\ \A j \in Invocations \ {i} : step'[j] = step[j]
    BY <1>1, <1>3 DEF RunDuplicate, Go, LoopTypes
  <2>2. CASE UNCHANGED history
    BY <2>1, <2>2 DEF Stays
  <2>3. CASE history' = [history EXCEPT ![i] = @ \o <<"CANCELLED">>]
    <3>1. /\ <<"CANCELLED">> \in Seq(WorkflowStates) /\ "CANCELLED" \in WorkflowStates
          /\ Way(Last(history[i]), <<"CANCELLED">>, "CANCELLED")
      BY <1>1, <1>2, WaysOfRun, WayTyped
    <3>2. QED
      BY <2>1, <2>3, <3>1 DEF Walks, CallingSteps
  <2>4. QED
    BY <1>3, <2>2, <2>3 DEF RunDuplicate
<1>4. CASE RunBlocked(i)
  BY <1>1, <1>2, <1>4, WaysOfRun, FinishWalks DEF RunBlocked
<1>5. CASE RunUnneeded(i)
  BY <1>1, <1>2, <1>5, WaysOfRun, FinishWalks DEF RunUnneeded
<1>6. CASE RunStarts(i)
  <2>1. /\ step' = [step EXCEPT ![i] = "posting"]
        /\ history' = [history EXCEPT ![i] = @ \o <<"DEMAND_DETECTED", "CONTACTS_PLANNED", "CALLING">>]
    BY <1>6 DEF RunStarts, CallSupplier, Go, Through
  <2>2. step'[i] = "posting" /\ \A j \in Invocations \ {i} : step'[j] = step[j]
    BY <1>1, <2>1 DEF LoopTypes
  <2>3. /\ <<"DEMAND_DETECTED", "CONTACTS_PLANNED", "CALLING">> \in Seq(WorkflowStates)
        /\ "CALLING" \in WorkflowStates
        /\ Way(Last(history[i]), <<"DEMAND_DETECTED", "CONTACTS_PLANNED", "CALLING">>, "CALLING")
    BY <1>1, <1>2, WaysOfRun, WayTyped
  <2>4. QED
    BY <2>1, <2>2, <2>3 DEF Walks, CallingSteps
<1>7. QED
  BY <1>3, <1>4, <1>5, <1>6 DEF Run

LEMMA HistoryInit == WorkflowInit => HistoryInv
BY DEF WorkflowInit, HistoryInv, Legal, Last, CallingSteps

LEMMA HistoryStep ==
    WorkflowTypeOK /\ HistoryInv /\ [WorkflowNext]_workflowVars => HistoryInv'
<1> SUFFICES ASSUME WorkflowTypeOK, HistoryInv, [WorkflowNext]_workflowVars PROVE HistoryInv'
  OBVIOUS
<1>1. ASSUME NEW i \in Invocations, Run(i) \/ Proceed(i) PROVE HistoryInv'
  BY <1>1, RunMoves, ProceedMoves, MovesKeepHistory
<1>2. ASSUME UNCHANGED <<step, history>> PROVE HistoryInv'
  BY <1>2 DEF HistoryInv, Legal, Last, CallingSteps
<1>3. QED
  BY <1>1, <1>2
  DEF WorkflowNext, Cancel, AuthorizationExpires, CallEnds, workflowVars

\* transition never throws: no path of the workflow, whatever its calls, its
\* operator and its order adapter do, leaves the table of stateMachine.ts.
THEOREM HistoryLegal == WorkflowSpec => []HistoryFollowsTable
<1>1. HistoryInv => HistoryFollowsTable
  BY DEF HistoryInv, HistoryFollowsTable, Legal
<1>2. QED
  BY <1>1, TypeInit, TypeStep, HistoryInit, HistoryStep, PTL DEF WorkflowSpec

-----------------------------------------------------------------------------
(* One verdict *)

InFlight(i) == step[i] \in InFlightSteps

\* One invocation is in flight at most, and until it ends there is no result
\* and no order.
VerdictInv ==
    /\ started \/ /\ result = Nothing /\ orders = <<>>
                  /\ \A i \in Invocations : step[i] = "idle"
    /\ \A i \in Invocations : InFlight(i) =>
          /\ result = Nothing /\ orders = <<>>
          /\ \A j \in Invocations : InFlight(j) => i = j
    /\ OneVerdict

\* i goes on, or ends without having ordered.
GoesOn(i) ==
    /\ step'[i] \in InFlightSteps
    /\ \A j \in Invocations \ {i} : step'[j] = step[j]
    /\ UNCHANGED <<result, told>>

EndsWithout(i) ==
    /\ step'[i] = "ended"
    /\ \A j \in Invocations \ {i} : step'[j] = step[j]
    /\ \E completed \in Result :
          /\ completed.status # "ORDER_CREATED"
          /\ result' = IF result = Nothing THEN completed ELSE result
          /\ told' = [told EXCEPT ![i] = completed]

LEMMA FinishEnds ==
    ASSUME LoopTypes, NEW i \in Invocations, NEW status \in Statuses, status # "ORDER_CREATED",
           NEW path \in Seq(WorkflowStates), path # <<>>,
           Finish(i, status, path, Nothing)
    PROVE  EndsWithout(i)
<1> DEFINE completed == [status |-> status, state |-> path[Len(path)], order |-> Nothing]
<1>1. completed \in Result /\ completed.status = status
  BY DEF Result
<1>2. /\ step' = [step EXCEPT ![i] = "ended"]
      /\ result' = IF result = Nothing THEN completed ELSE result
      /\ told' = [told EXCEPT ![i] = completed]
  BY DEF Finish, Go
<1> HIDE DEF completed
<1>3. step'[i] = "ended" /\ \A j \in Invocations \ {i} : step'[j] = step[j]
  BY <1>2 DEF LoopTypes
<1>4. QED
  BY <1>1, <1>2, <1>3 DEF EndsWithout

LEMMA OfferReceivedEnds ==
    ASSUME LoopTypes, NEW i \in Invocations, NEW task, OfferReceived(i, task)
    PROVE  GoesOn(i) \/ EndsWithout(i)
<1>1. ASSUME NEW to \in InFlightSteps, Go(i, to), UNCHANGED <<result, told>> PROVE GoesOn(i)
  <2>1. step'[i] = to /\ \A j \in Invocations \ {i} : step'[j] = step[j]
    BY <1>1 DEF Go, LoopTypes
  <2>2. QED
    BY <1>1, <2>1 DEF GoesOn
<1>2. CASE Finish(i, "EXECUTION_BLOCKED", <<"OFFER_RECEIVED", "CANCELLED">>, Nothing)
  <2>1. <<"OFFER_RECEIVED", "CANCELLED">> \in Paths
    BY DEF Paths
  <2>2. QED
    BY <1>2, <2>1, PathsTyped, FinishEnds DEF Statuses
<1>3. CASE CallSupplier(i, contact[i] + 1) /\ UNCHANGED <<decision, result, told>>
  BY <1>1, <1>3 DEF CallSupplier, InFlightSteps
<1>4. ASSUME NEW collected, NEW now, NEW compliant, Decide(i, collected, now, compliant)
      PROVE  GoesOn(i) \/ EndsWithout(i)
  <2>1. CASE Finish(i, "HUMAN_ESCALATION_REQUIRED",
                    Checked \o <<"NO_COMPLIANT_OFFER", "HUMAN_ESCALATION_REQUIRED">>, Nothing)
    <3>1. Checked \o <<"NO_COMPLIANT_OFFER", "HUMAN_ESCALATION_REQUIRED">> \in Paths
      BY DEF Paths
    <3>2. QED
      BY <2>1, <3>1, PathsTyped, FinishEnds DEF Statuses
  <2>2. CASE Finish(i, "EXECUTION_BLOCKED", (Checked \o <<"SELECTED">>) \o <<"CANCELLED">>, Nothing)
    <3>1. (Checked \o <<"SELECTED">>) \o <<"CANCELLED">> \in Paths
      BY DEF Paths
    <3>2. QED
      BY <2>2, <3>1, PathsTyped, FinishEnds DEF Statuses
  <2>3. CASE Go(i, "ordering") /\ UNCHANGED <<result, told>>
    BY <1>1, <2>3 DEF InFlightSteps
  <2>4. QED
    BY <1>4, <2>1, <2>2, <2>3 DEF Decide, Checked
<1>5. QED
  BY <1>2, <1>3, <1>4 DEF OfferReceived

LEMMA AttemptEndsEnds ==
    ASSUME LoopTypes, NEW i \in Invocations, NEW task, AttemptEnds(i, task)
    PROVE  GoesOn(i) \/ EndsWithout(i)
<1>1. CASE Go(i, "posting") /\ UNCHANGED <<result, told>>
  <2>1. step'[i] = "posting" /\ \A j \in Invocations \ {i} : step'[j] = step[j]
    BY <1>1 DEF Go, LoopTypes
  <2>2. QED
    BY <1>1, <2>1 DEF GoesOn, InFlightSteps
<1>2. QED
  BY <1>1, OfferReceivedEnds DEF AttemptEnds

\* Until the order is sent, no step orders anything.
LEMMA CallingEnds ==
    ASSUME WorkflowTypeOK, NEW i \in Invocations, Proceed(i), step[i] # "ordering"
    PROVE  /\ GoesOn(i) \/ EndsWithout(i)
           /\ UNCHANGED <<orders, started>>
           /\ step[i] \in CallingSteps
<1>1. LoopTypes
  BY TypeParts
<1>2. ASSUME NEW to \in InFlightSteps, Go(i, to), UNCHANGED <<result, told>> PROVE GoesOn(i)
  <2>1. step'[i] = to /\ \A j \in Invocations \ {i} : step'[j] = step[j]
    BY <1>1, <1>2 DEF Go, LoopTypes
  <2>2. QED
    BY <1>2, <2>1 DEF GoesOn
<1>3. /\ UNCHANGED <<orders, started>>
      /\ step[i] \in CallingSteps
  BY DEF Proceed, PostAccepted, PostRefused, PostUnreadable, PollSent, PollCancelled,
     PollRinging, PollExhausted, PollTerminal, OrderCreated, OrderFails, PostAnswered,
     PostFails, PollFails, runStore, CallingSteps
<1>4. CASE \E task : AttemptEnds(i, task) \/ OfferReceived(i, task)
  BY <1>1, <1>3, <1>4, AttemptEndsEnds, OfferReceivedEnds
<1>5. CASE PostAccepted(i) \/ PollSent(i) \/ PollRinging(i)
  BY <1>2, <1>3, <1>5 DEF PostAccepted, PollSent, PollRinging, InFlightSteps, runStore
<1>6. (\E task : AttemptEnds(i, task) \/ OfferReceived(i, task))
         \/ PostAccepted(i) \/ PollSent(i) \/ PollRinging(i)
  BY DEF Proceed, PostRefused, PostUnreadable, PollCancelled, PollExhausted, PollTerminal,
     OrderCreated, OrderFails, PostAnswered, PostFails, PollFails
<1>7. QED
  BY <1>4, <1>5, <1>6

\* Whoever goes on or ends in flight leaves the verdict one.
LEMMA EndsKeepVerdict ==
    ASSUME WorkflowTypeOK, VerdictInv, NEW i \in Invocations, started',
           InFlight(i) \/ ~ started, GoesOn(i) \/ EndsWithout(i), UNCHANGED orders
    PROVE  VerdictInv'
<1>1. /\ result = Nothing /\ orders = <<>>
      /\ \A j \in Invocations \ {i} : ~ InFlight(j)
  BY DEF VerdictInv, InFlight, InFlightSteps
<1>2. told \in [Invocations -> Result \cup {Nothing}]
  BY DEF WorkflowTypeOK, LoopTypes
<1>3. \A j \in Invocations : ~ Verdict(j)
  BY <1>1 DEF VerdictInv, OneVerdict, Verdict
<1>4. CASE GoesOn(i)
  <2>1. OneVerdict'
    BY <1>1, <1>3, <1>4 DEF GoesOn, OneVerdict, Verdict
  <2>2. \A j \in Invocations \ {i} : ~ InFlight(j)'
    BY <1>1, <1>4 DEF GoesOn, InFlight
  <2>3. QED
    BY <1>1, <1>4, <2>1, <2>2 DEF GoesOn, VerdictInv, InFlight
<1>5. CASE EndsWithout(i)
  <2>1. PICK completed \in Result :
            /\ completed.status # "ORDER_CREATED"
            /\ result' = completed
            /\ told' = [told EXCEPT ![i] = completed]
    BY <1>1, <1>5 DEF EndsWithout
  <2>2. told'[i] = result' /\ \A j \in Invocations \ {i} : told'[j] = told[j]
    BY <1>2, <2>1
  <2>3. \A j \in Invocations : Verdict(j)' => told'[j] = result'
    BY <1>3, <2>2 DEF Verdict, Blocked
  <2>4. OneVerdict'
    BY <1>1, <2>1, <2>3 DEF OneVerdict
  <2>5. \A j \in Invocations : ~ InFlight(j)'
    BY <1>1, <1>5 DEF EndsWithout, InFlight, InFlightSteps
  <2>6. QED
    BY <2>4, <2>5 DEF VerdictInv
<1>6. QED
  BY <1>4, <1>5

LEMMA VerdictInit == WorkflowInit => VerdictInv
BY DEF WorkflowInit, VerdictInv, InFlight, InFlightSteps, OneVerdict, Verdict

LEMMA VerdictStep ==
    WorkflowTypeOK /\ VerdictInv /\ [WorkflowNext]_workflowVars => VerdictInv'
<1> SUFFICES ASSUME WorkflowTypeOK, VerdictInv, [WorkflowNext]_workflowVars PROVE VerdictInv'
  OBVIOUS
<1>1. LoopTypes /\ StoreTypes
  BY TypeParts
<1>2. ASSUME NEW i \in Invocations, RunDuplicate(i) PROVE VerdictInv'
  <2>1. started /\ UNCHANGED <<result, orders, started>>
    BY <1>2 DEF RunDuplicate, runStore
  <2>2. /\ step'[i] = "ended" /\ \A j \in Invocations \ {i} : step'[j] = step[j]
        /\ told'[i] \in {result, Blocked} /\ \A j \in Invocations \ {i} : told'[j] = told[j]
    BY <1>1, <1>2 DEF RunDuplicate, Go, LoopTypes
  <2>3. OneVerdict'
    BY <2>1, <2>2 DEF VerdictInv, OneVerdict, Verdict, Blocked
  <2>4. \A j \in Invocations : InFlight(j)' => InFlight(j)
    BY <2>2 DEF InFlight, InFlightSteps
  <2>5. QED
    BY <2>1, <2>3, <2>4 DEF VerdictInv
<1>3. ASSUME NEW i \in Invocations, RunBlocked(i) \/ RunUnneeded(i) \/ RunStarts(i) PROVE VerdictInv'
  <2>1. ~ started /\ started' /\ UNCHANGED orders
    BY <1>3 DEF RunBlocked, RunUnneeded, RunStarts, RunPermitted, Begin
  <2>2. GoesOn(i) \/ EndsWithout(i)
    <3>1. CASE RunBlocked(i)
      <4>1. <<"CANCELLED">> \in Paths /\ "EXECUTION_BLOCKED" \in Statuses
        BY DEF Paths, Statuses
      <4>2. QED
        BY <1>1, <3>1, <4>1, PathsTyped, FinishEnds DEF RunBlocked
    <3>2. CASE RunUnneeded(i)
      <4>1. <<"DEMAND_DETECTED", "CANCELLED">> \in Paths /\ "NO_ACTION_REQUIRED" \in Statuses
        BY DEF Paths, Statuses
      <4>2. QED
        BY <1>1, <3>2, <4>1, PathsTyped, FinishEnds DEF RunUnneeded
    <3>3. CASE RunStarts(i)
      <4>1. step'[i] = "posting" /\ \A j \in Invocations \ {i} : step'[j] = step[j]
        BY <1>1, <3>3 DEF RunStarts, CallSupplier, Go, LoopTypes
      <4>2. QED
        BY <3>3, <4>1 DEF RunStarts, GoesOn, InFlightSteps
    <3>4. QED
      BY <1>3, <3>1, <3>2, <3>3
  <2>3. QED
    BY <2>1, <2>2, EndsKeepVerdict
<1>4. ASSUME NEW i \in Invocations, Proceed(i), step[i] # "ordering" PROVE VerdictInv'
  <2>1. /\ GoesOn(i) \/ EndsWithout(i)
        /\ UNCHANGED <<orders, started>>
        /\ InFlight(i)
    BY <1>4, CallingEnds DEF CallingSteps, InFlight, InFlightSteps
  <2>2. started
    BY <2>1 DEF VerdictInv, InFlight, InFlightSteps
  <2>3. QED
    BY <2>1, <2>2, EndsKeepVerdict
<1>5. ASSUME NEW i \in Invocations, OrderCreated(i) \/ OrderFails(i) PROVE VerdictInv'
  <2>1. /\ InFlight(i) /\ result = Nothing /\ orders = <<>> /\ started
        /\ \A j \in Invocations \ {i} : ~ InFlight(j)
    BY <1>5 DEF VerdictInv, OrderCreated, OrderFails, InFlight, InFlightSteps
  <2>2. \A j \in Invocations : ~ Verdict(j)
    BY <2>1 DEF VerdictInv, OneVerdict, Verdict
  <2>3. started'
    BY <1>5, <2>1 DEF OrderCreated, OrderFails
  <2>4. ASSUME NEW status, NEW path, NEW order, Finish(i, status, path, order)
        PROVE  /\ result'.status = status /\ result'.order = order
               /\ told'[i] = result' /\ \A j \in Invocations \ {i} : told'[j] = told[j]
               /\ \A j \in Invocations : ~ InFlight(j)'
    <3>1. /\ step' = [step EXCEPT ![i] = "ended"]
          /\ result' = [status |-> status, state |-> path[Len(path)], order |-> order]
          /\ told' = [told EXCEPT ![i] = result']
      BY <2>1, <2>4 DEF Finish, Go
    <3>2. step'[i] = "ended" /\ \A j \in Invocations \ {i} : step'[j] = step[j]
      BY <1>1, <3>1 DEF LoopTypes
    <3>3. told'[i] = result' /\ \A j \in Invocations \ {i} : told'[j] = told[j]
      BY <1>1, <3>1 DEF LoopTypes
    <3>4. QED
      BY <2>1, <3>1, <3>2, <3>3 DEF InFlight, InFlightSteps
  <2>5. CASE OrderCreated(i)
    <3>1. \E order : orders' = <<order>> /\ orders'[1] = order
      BY <2>1, <2>5 DEF OrderCreated, OrdersWith
    <3>2. Finish(i, "ORDER_CREATED", <<"ORDER_PREPARED">>, orders'[1])
      BY <2>5 DEF OrderCreated
    <3>3. /\ result'.status = "ORDER_CREATED" /\ orders' = <<result'.order>> /\ Len(orders') = 1
          /\ told'[i] = result' /\ \A j \in Invocations \ {i} : told'[j] = told[j]
          /\ \A j \in Invocations : ~ InFlight(j)'
      BY <2>4, <3>1, <3>2
    <3>4. \A j \in Invocations : Verdict(j)' => told'[j] = result'
      BY <2>2, <3>3 DEF Verdict, Blocked
    <3>5. OneVerdict'
      BY <3>3, <3>4 DEF OneVerdict
    <3>6. QED
      BY <2>3, <3>3, <3>5 DEF VerdictInv
  <2>6. CASE OrderFails(i)
    <3>1. Len(orders') <= 1
      <4>1. orders' = <<>> \/ \E order : orders' = <<order>>
        BY <2>1, <2>6 DEF OrderFails, OrdersWith
      <4>2. CASE orders' = <<>>
        BY <4>2
      <4>3. ASSUME NEW order, orders' = <<order>> PROVE Len(orders') <= 1
        <5>1. Len(<<order>>) = 1
          OBVIOUS
        <5>2. QED
          BY <4>3, <5>1
      <4>4. QED
        BY <4>1, <4>2, <4>3
    <3>2. Finish(i, "FAILED", <<"FAILED">>, Nothing)
      BY <2>6 DEF OrderFails
    <3>3. /\ result'.status = "FAILED"
          /\ told'[i] = result' /\ \A j \in Invocations \ {i} : told'[j] = told[j]
          /\ \A j \in Invocations : ~ InFlight(j)'
      BY <2>4, <3>2
    <3>4. \A j \in Invocations : Verdict(j)' => told'[j] = result'
      BY <2>2, <3>3 DEF Verdict, Blocked
    <3>5. OneVerdict'
      BY <3>1, <3>3, <3>4 DEF OneVerdict
    <3>6. QED
      BY <2>3, <3>3, <3>5 DEF VerdictInv
  <2>7. QED
    BY <1>5, <2>5, <2>6
<1>6. ASSUME UNCHANGED <<started, result, orders, step, told>> PROVE VerdictInv'
  BY <1>6 DEF VerdictInv, OneVerdict, Verdict, Blocked, InFlight
<1>7. ASSUME NEW i \in Invocations, Proceed(i), step[i] = "ordering"
      PROVE  OrderCreated(i) \/ OrderFails(i)
  BY <1>7 DEF Proceed, PostAccepted, PostRefused, PostUnreadable, PollSent, PollCancelled,
     PollRinging, PollExhausted, PollTerminal, PostAnswered, PostFails, PollFails
<1>8. ASSUME NEW i \in Invocations, Run(i) \/ Proceed(i) PROVE VerdictInv'
  BY <1>2, <1>3, <1>4, <1>5, <1>7, <1>8 DEF Run
<1>9. QED
  BY <1>6, <1>8
  DEF WorkflowNext, Cancel, AuthorizationExpires, CallEnds, workflowVars, runStore

\* However many invocations of an id there are, and however they interleave:
\* one order, one result, and nobody is told another one.
THEOREM VerdictIsOne == WorkflowSpec => []OneVerdict
<1>1. VerdictInv => OneVerdict
  BY DEF VerdictInv
<1>2. QED
  BY <1>1, TypeInit, TypeStep, VerdictInit, VerdictStep, PTL DEF WorkflowSpec

-----------------------------------------------------------------------------
(* Cancellation *)

\* A cancelled run keeps its supplier and sends no order.
Holds(i) ==
    /\ contact' = contact
    /\ step'[i] # "ordering"
    /\ \A j \in Invocations \ {i} : step'[j] = step[j]

LEMMA FinishHolds ==
    ASSUME LoopTypes, NEW i \in Invocations, NEW status, NEW path, NEW order,
           Finish(i, status, path, order)
    PROVE  step'[i] = "ended" /\ \A j \in Invocations \ {i} : step'[j] = step[j]
BY DEF Finish, Go, LoopTypes

LEMMA CancelledOfferReceived ==
    ASSUME LoopTypes, cancelled, NEW i \in Invocations, NEW task, OfferReceived(i, task)
    PROVE  Holds(i)
<1>1. CASE /\ Finish(i, "EXECUTION_BLOCKED", <<"OFFER_RECEIVED", "CANCELLED">>, Nothing)
           /\ UNCHANGED <<contact, attempt, polls, decision>>
  BY <1>1, FinishHolds DEF Holds
<1>2. ASSUME NEW collected, NEW now, NEW compliant, Decide(i, collected, now, compliant),
             UNCHANGED <<contact, attempt, polls>>
      PROVE  Holds(i)
  BY <1>2, FinishHolds DEF Decide, Holds
<1>3. QED
  BY <1>1, <1>2 DEF OfferReceived

LEMMA CancelledAttemptEnds ==
    ASSUME LoopTypes, cancelled, NEW i \in Invocations, NEW task, AttemptEnds(i, task)
    PROVE  Holds(i)
<1>1. CASE Go(i, "posting") /\ UNCHANGED contact
  BY <1>1 DEF Holds, Go, LoopTypes
<1>2. QED
  BY <1>1, CancelledOfferReceived DEF AttemptEnds

\* What a step may do to a cancelled workflow.
CancelledAction ==
    cancelled => \A i \in Invocations :
        /\ contact'[i] = contact[i]
        /\ step'[i] = "ordering" => step[i] = "ordering"
        /\ step[i] = "idle" => step'[i] \in {"idle", "ended"}

LEMMA CancelledStep == WorkflowTypeOK /\ [WorkflowNext]_workflowVars => CancelledAction
<1> SUFFICES ASSUME WorkflowTypeOK, [WorkflowNext]_workflowVars, cancelled PROVE CancelledAction
  BY DEF CancelledAction
<1>1. LoopTypes
  BY TypeParts
<1>2. ASSUME NEW i \in Invocations, Proceed(i) PROVE CancelledAction
  <2>1. step[i] # "idle"
    BY <1>2 DEF Proceed, PostAccepted, PostRefused, PostUnreadable, PollSent, PollCancelled,
       PollRinging, PollExhausted, PollTerminal, OrderCreated, OrderFails, PostAnswered,
       PostFails, PollFails
  <2>2. Holds(i)
    <3>1. CASE \E task : AttemptEnds(i, task) \/ OfferReceived(i, task)
      BY <1>1, <3>1, CancelledAttemptEnds, CancelledOfferReceived
    <3>2. CASE PostAccepted(i) \/ PollSent(i) \/ PollRinging(i)
      BY <1>1, <3>2 DEF PostAccepted, PollSent, PollRinging, Go, LoopTypes, Holds, progress
    <3>3. CASE OrderCreated(i) \/ OrderFails(i)
      BY <1>1, <3>3, FinishHolds DEF OrderCreated, OrderFails, Holds, progress
    <3>4. QED
      BY <1>2, <3>1, <3>2, <3>3
      DEF Proceed, PostRefused, PostUnreadable, PollCancelled, PollExhausted, PollTerminal,
          PostAnswered, PostFails, PollFails
  <2>3. QED
    BY <2>1, <2>2 DEF Holds, CancelledAction
<1>3. ASSUME NEW i \in Invocations, Run(i) PROVE CancelledAction
  <2>1. RunDuplicate(i) \/ RunBlocked(i)
    BY <1>3 DEF Run, RunUnneeded, RunStarts, RunPermitted
  <2>2. step'[i] = "ended" /\ (\A j \in Invocations \ {i} : step'[j] = step[j]) /\ contact' = contact
    BY <1>1, <2>1, FinishHolds DEF RunDuplicate, RunBlocked, Go, LoopTypes, progress
  <2>3. QED
    BY <2>2 DEF CancelledAction
<1>4. ASSUME UNCHANGED <<contact, step>> PROVE CancelledAction
  BY <1>4 DEF CancelledAction
<1>5. QED
  BY <1>2, <1>3, <1>4
  DEF WorkflowNext, Cancel, AuthorizationExpires, CallEnds, workflowVars, progress

\* Once the operator has cancelled, no further supplier is called and no order
\* is sent, at whatever await the cancellation found the run.
THEOREM CancellationHolds == WorkflowSpec => CancelIsFinal
<1>1. WorkflowTypeOK /\ [WorkflowNext]_workflowVars =>
        [cancelled => \A i \in Invocations :
          /\ contact'[i] = contact[i]
          /\ step'[i] = "ordering" => step[i] = "ordering"
          /\ step[i] = "idle" => step'[i] \in {"idle", "ended"}]_workflowVars
  BY CancelledStep DEF CancelledAction
<1>2. QED
  BY <1>1, TypeInit, TypeStep, PTL DEF WorkflowSpec, CancelIsFinal

-----------------------------------------------------------------------------
(* The order is earned *)

\* A complete offer is what its supplier said in the call it is the result of.
Backed(offer) ==
    offer.complete =>
       /\ Ended(offer.supplier, offer.attempts)
       /\ offer = ResultToOffer(offer.supplier, Task(calls[<<offer.supplier, offer.attempts>>]),
                                offer.attempts)

\* The calls an invocation in its loop has yet to place, and has not placed.
Later(i, s, a) ==
    \/ s > contact[i]
    \/ s = contact[i] /\ a > attempt[i]
    \/ s = contact[i] /\ a = attempt[i] /\ step[i] = "posting"

Unplaced(i) == \A s \in Suppliers, a \in Attempts : Later(i, s, a) => calls[<<s, a>>] = NotPlaced

OffersBacked(i) == \A k \in 1 .. Len(offers[i]) : Backed(offers[i][k])

DecisionSound(i) ==
    /\ Backed(decision[i].offer)
    /\ ValidateOffer(decision[i].offer, decision[i].at) = "PASS"

Sound(i) ==
    /\ step[i] \in CallingSteps => Unplaced(i)
    /\ OffersBacked(i)
    /\ step[i] = "ordering" => DecisionSound(i)

EarnedInv ==
    /\ started \/ \A s \in Suppliers, a \in Attempts : calls[<<s, a>>] = NotPlaced
    /\ \A i \in Invocations : Sound(i)
    /\ OrderIsEarned

\* A call that ended keeps what was said in it.
Keeps ==
    /\ input' = input
    /\ \A s \in Suppliers, a \in Attempts : Ended(s, a) => calls'[<<s, a>>] = calls[<<s, a>>]

LEMMA BackedStays ==
    ASSUME Keeps, NEW offer \in Offer, Backed(offer) PROVE Backed(offer)'
<1>1. offer.supplier \in Suppliers /\ offer.attempts \in Attempts
  BY DEF Offer
<1>2. QED
  BY <1>1 DEF Keeps, Backed, Ended, ResultToOffer

\* Orders stay earned while their decisions stay.
LEMMA OrdersStay ==
    ASSUME WorkflowTypeOK, Keeps, UNCHANGED orders, orders = <<>> \/ UNCHANGED decision,
           OrderIsEarned
    PROVE  OrderIsEarned'
<1>1. CASE orders = <<>>
  <2>1. Len(orders') = 0
    BY <1>1
  <2> QED BY <2>1 DEF OrderIsEarned
<1>2. CASE UNCHANGED decision
  <2>1. ASSUME NEW k \in 1 .. Len(orders)
        PROVE  \E i \in Invocations : decision'[i] # Nothing /\ Earned(i, orders[k])'
    <3>1. PICK i \in Invocations : decision[i] # Nothing /\ Earned(i, orders[k])
      BY <2>1 DEF OrderIsEarned
    <3>2. PICK offer \in Offer : offer = decision[i].offer
      BY <3>1 DEF WorkflowTypeOK, LoopTypes, Decision
    <3>3. calls'[<<offer.supplier, offer.attempts>>] = calls[<<offer.supplier, offer.attempts>>]
      BY <3>1, <3>2 DEF Keeps, Earned, Offer
    <3>4. Earned(i, orders[k])'
      BY <1>2, <3>1, <3>2, <3>3 DEF Keeps, Earned, Ended
    <3> QED BY <1>2, <3>1, <3>4
  <2> QED BY <2>1 DEF OrderIsEarned
<1> QED BY <1>1, <1>2

\* The result of the call that ended, or of none, is a backed offer.
LEMMA BackedResult ==
    ASSUME UNCHANGED input, NEW s \in Suppliers, NEW a \in Attempts, NEW task,
           NEW offer, offer = ResultToOffer(s, task, a),
           task.answer.completed => /\ calls'[<<s, a>>] \notin {NotPlaced, Ringing}
                                    /\ task = Task(calls'[<<s, a>>])
    PROVE  Backed(offer)'
<1>1. /\ offer.supplier = s /\ offer.attempts = a
      /\ offer.complete => task.answer.completed
  BY DEF ResultToOffer
<1>2. ResultToOffer(s, task, a)' = ResultToOffer(s, task, a)
  BY DEF ResultToOffer
<1>3. QED
  BY <1>1, <1>2 DEF Backed, Ended, ResultToOffer

\* An order for a sound decision is earned.
LEMMA OrderForEarned ==
    ASSUME NEW i \in Invocations, NEW offer \in Offer, NEW at,
           decision[i] # Nothing, decision[i].offer = offer,
           Backed(offer), ValidateOffer(offer, at) = "PASS",
           UNCHANGED <<input, calls, decision>>, orders' = <<OrderFor(offer)>>
    PROVE  OrderIsEarned'
<1>1. /\ offer.approved /\ offer.consent /\ offer.complete /\ ~ offer.termsChanged
      /\ offer.availableQuantity >= Required /\ offer.deliveryAt <= StockoutAt
      /\ UnitPriceEur(offer) <= Policy.unitCeiling /\ OrderTotalEur(offer) <= Policy.orderLimit
  BY PassedChecks DEF Offer
<1> DEFINE s == offer.supplier
           a == offer.attempts
           said == calls[<<s, a>>][2]
<1>2. /\ Ended(s, a)
      /\ offer = ResultToOffer(s, Task(calls[<<s, a>>]), a)
  BY <1>1 DEF Backed
<1> HIDE DEF s, a
<1>3. Task(calls[<<s, a>>]).answer = said
  BY DEF Task
<1> HIDE DEF said
<1>4. /\ offer.approved = (s \in input.approved) /\ offer.consent = (s \in input.consenting)
      /\ offer.complete = (said.completed /\ ~ said.optOut /\ said.verified = EvidenceFields)
      /\ offer.termsChanged = said.termsChanged
      /\ offer.availableQuantity = said.availableQuantity
      /\ offer.deliveryAt = said.deliveryAt
      /\ offer.unitPrice = said.unitPrice /\ offer.currency = said.currency
  BY <1>2, <1>3 DEF ResultToOffer
<1>5. /\ s \in input.approved /\ s \in input.consenting
      /\ said.completed /\ ~ said.optOut /\ said.verified = EvidenceFields
      /\ ~ said.termsChanged
  BY <1>1, <1>4
<1>6. UnitPriceEur(said) = UnitPriceEur(offer)
  BY <1>4 DEF UnitPriceEur
<1>7. /\ OrderFor(offer).quantity = Required
      /\ OrderFor(offer).unitPriceEur = UnitPriceEur(offer)
      /\ OrderFor(offer).totalPriceEur = OrderTotalEur(offer)
  BY DEF OrderFor
<1>8. Earned(i, OrderFor(offer))
  <2>1. /\ s \in input.approved \cap input.consenting
        /\ OrderFor(offer).totalPriceEur <= Policy.orderLimit /\ Ended(s, a)
        /\ said.verified = EvidenceFields /\ said.completed
        /\ ~ said.optOut /\ ~ said.termsChanged
        /\ said.availableQuantity >= OrderFor(offer).quantity
        /\ said.deliveryAt <= StockoutAt
        /\ UnitPriceEur(said) = OrderFor(offer).unitPriceEur
        /\ OrderFor(offer).unitPriceEur <= Policy.unitCeiling
    BY <1>1, <1>2, <1>4, <1>5, <1>6, <1>7
  <2> QED BY <2>1 DEF Earned, said, s, a
<1>9. \A k \in 1 .. Len(orders') : orders'[k] = OrderFor(offer)
  <2>1. \A order : Len(<<order>>) = 1 /\ <<order>>[1] = order
    OBVIOUS
  <2>2. Len(orders') = 1 /\ orders'[1] = OrderFor(offer)
    BY <2>1
  <2>3. QED
    BY <2>2
<1>10. decision'[i] # Nothing /\ Earned(i, OrderFor(offer))'
  BY <1>8 DEF Earned, Ended, OrderFor
<1>11. \A k \in 1 .. Len(orders') : Earned(i, orders[k])'
  BY <1>9, <1>10 DEF Earned, OrderFor, Ended
<1>12. QED
  BY <1>10, <1>11 DEF OrderIsEarned

\* Offers that were collected stay backed.
LEMMA OffersStay ==
    ASSUME WorkflowTypeOK, EarnedInv, Keeps, NEW i \in Invocations, offers'[i] = offers[i]
    PROVE  OffersBacked(i)'
<1>1. offers[i] \in Seq(Offer)
  BY DEF WorkflowTypeOK, LoopTypes
<1>2. ASSUME NEW k \in 1 .. Len(offers'[i]) PROVE Backed(offers[i][k])'
  <2>1. PICK offer \in Offer : offer = offers[i][k] /\ Backed(offer)
    BY <1>1, <1>2 DEF EarnedInv, Sound, OffersBacked
  <2>2. Backed(offer)'
    BY <2>1, BackedStays
  <2>3. QED
    BY <2>1, <2>2
<1>3. QED
  BY <1>2 DEF OffersBacked

\* Invocations that a step leaves alone stay sound: none of them is in flight.
LEMMA OthersSound ==
    ASSUME WorkflowTypeOK, VerdictInv, EarnedInv, Keeps, NEW i \in Invocations,
           InFlight(i) \/ ~ started,
           NEW j \in Invocations, j # i, step'[j] = step[j], offers'[j] = offers[j]
    PROVE  Sound(j)'
<1>1. step'[j] \notin CallingSteps /\ step'[j] # "ordering"
  BY DEF VerdictInv, InFlight, InFlightSteps, CallingSteps
<1>2. OffersBacked(j)'
  BY OffersStay
<1>3. QED
  BY <1>1, <1>2 DEF Sound

\* The attempt of i is over: its offer is collected, or there is another attempt.
Collects(i, offer) ==
    /\ offers' = [offers EXCEPT ![i] = Append(offers[i], offer)]
    /\ \A j \in Invocations \ {i} : step'[j] = step[j]
    /\ \/ step'[i] = "ended"
       \/ step'[i] = "posting" /\ contact'[i] = contact[i] + 1
       \/ /\ step'[i] = "ordering"
          /\ \E k \in 1 .. Len(offers[i]) + 1 :
                decision'[i].offer = Append(offers[i], offer)[k]
          /\ ValidateOffer(decision'[i].offer, decision'[i].at) = "PASS"

Retries(i) ==
    /\ UNCHANGED offers
    /\ \A j \in Invocations \ {i} : step'[j] = step[j]
    /\ step'[i] = "posting" /\ contact'[i] = contact[i] /\ attempt'[i] = attempt[i] + 1

LEMMA OfferReceivedCollects ==
    ASSUME LoopTypes, input \in Inputs, NEW i \in Invocations, NEW task, task.answer \in Answer,
           OfferReceived(i, task)
    PROVE  Collects(i, ResultToOffer(contact[i], task, attempt[i]))
<1> DEFINE offer == ResultToOffer(contact[i], task, attempt[i])
           collected == Append(offers[i], offer)
<1>1. /\ offers[i] \in Seq(Offer) /\ offer \in Offer
      /\ contact[i] \in Suppliers
  BY OfferTyped DEF LoopTypes
<1>2. offers' = [offers EXCEPT ![i] = collected]
  BY DEF OfferReceived
<1>3. collected \in Seq(Offer) /\ Len(collected) = Len(offers[i]) + 1
  BY <1>1
<1> HIDE DEF offer
<1> SUFFICES Collects(i, offer)
  BY DEF offer
<1>4. ASSUME NEW status, NEW path, NEW order, Finish(i, status, path, order)
      PROVE  Collects(i, offer)
  BY <1>2, <1>4, FinishHolds DEF Collects
<1>5. CASE CallSupplier(i, contact[i] + 1)
  <2>1. step' = [step EXCEPT ![i] = "posting"] /\ contact' = [contact EXCEPT ![i] = contact[i] + 1]
    BY <1>5 DEF CallSupplier, Go
  <2>2. /\ step'[i] = "posting" /\ \A j \in Invocations \ {i} : step'[j] = step[j]
        /\ contact'[i] = contact[i] + 1
    BY <2>1 DEF LoopTypes
  <2>3. QED
    BY <1>2, <2>2 DEF Collects
<1>6. ASSUME NEW now \in Instants, Decide(i, collected, now, Compliant(collected, now))
      PROVE  Collects(i, offer)
  <2> DEFINE best == SelectBest(collected, Compliant(collected, now))
  <2>1. CASE /\ Compliant(collected, now) # {}
             /\ Go(i, "ordering")
             /\ decision' = [decision EXCEPT ![i] = [offer |-> collected[best], at |-> now]]
    <3>1. best \in Compliant(collected, now)
      BY <1>3, <2>1, SelectedIsCompliant
    <3> HIDE DEF best, collected
    <3>2. best \in 1 .. Len(offers[i]) + 1 /\ ValidateOffer(collected[best], now) = "PASS"
      BY <1>3, <3>1 DEF Compliant
    <3>3. decision'[i].offer = collected[best] /\ decision'[i].at = now
      BY <2>1 DEF LoopTypes
    <3>4. step'[i] = "ordering" /\ \A j \in Invocations \ {i} : step'[j] = step[j]
      BY <2>1 DEF Go, LoopTypes
    <3>5. QED
      BY <1>2, <3>2, <3>3, <3>4 DEF Collects, collected
  <2>2. QED
    BY <1>4, <1>6, <2>1 DEF Decide
<1>7. CASE \E now \in Instants : \E compliant \in {Compliant(collected, now)} :
              Decide(i, collected, now, compliant)
  BY <1>6, <1>7
<1>8. collected = Append(offers[i], ResultToOffer(contact[i], task, attempt[i]))
  BY DEF offer
<1> HIDE DEF collected
<1>9. QED
  BY <1>4, <1>5, <1>7, <1>8 DEF OfferReceived

LEMMA AttemptEndsCollects ==
    ASSUME LoopTypes, input \in Inputs, NEW i \in Invocations, NEW task, task.answer \in Answer,
           AttemptEnds(i, task)
    PROVE  Collects(i, ResultToOffer(contact[i], task, attempt[i])) \/ Retries(i)
<1>1. CASE /\ Go(i, "posting")
           /\ attempt' = [attempt EXCEPT ![i] = @ + 1]
           /\ UNCHANGED <<contact, offers>>
  BY <1>1 DEF Retries, Go, LoopTypes
<1>2. QED
  BY <1>1, OfferReceivedCollects DEF AttemptEnds

\* The only call a step of i changes is its own.
OwnCall(i) ==
    \A s \in Suppliers, a \in Attempts :
       <<s, a>> # <<contact[i], attempt[i]>> => calls'[<<s, a>>] = calls[<<s, a>>]

\* When the attempt of i is over, all invocations are sound again.
LEMMA OverSound ==
    ASSUME WorkflowTypeOK, VerdictInv, EarnedInv, Keeps, NEW i \in Invocations,
           step[i] \in CallingSteps, OwnCall(i), UNCHANGED <<started, orders>>,
           NEW offer \in Offer, Backed(offer)', Collects(i, offer) \/ Retries(i)
    PROVE  EarnedInv'
<1>1. /\ LoopTypes /\ StoreTypes /\ InFlight(i) /\ started
      /\ offers[i] \in Seq(Offer) /\ contact[i] \in Suppliers /\ attempt[i] \in Attempts
      /\ orders = <<>>
  BY TypeParts DEF LoopTypes, InFlight, CallingSteps, InFlightSteps, VerdictInv
<1>2. OrderIsEarned'
  BY <1>1, OrdersStay DEF EarnedInv
<1>3. \A j \in Invocations \ {i} : step'[j] = step[j] /\ offers'[j] = offers[j]
  BY <1>1 DEF Collects, Retries, LoopTypes
<1>4. \A j \in Invocations \ {i} : Sound(j)'
  BY <1>1, <1>3, OthersSound
<1>5. Unplaced(i)
  BY DEF EarnedInv, Sound
<1>6. ASSUME NEW k \in 1 .. Len(offers[i]) PROVE Backed(offers[i][k]) /\ offers[i][k] \in Offer
  BY <1>1, <1>6 DEF EarnedInv, Sound, OffersBacked
<1>7. CASE Retries(i)
  <2>1. Unplaced(i)'
    BY <1>1, <1>5, <1>7 DEF Retries, Unplaced, Later, OwnCall, Suppliers, Attempts
  <2>2. OffersBacked(i)'
    <3>1. ASSUME NEW k \in 1 .. Len(offers[i]) PROVE Backed(offers[i][k])'
      <4>1. PICK one \in Offer : one = offers[i][k] /\ Backed(one)
        BY <1>6
      <4>2. Backed(one)'
        BY <4>1, BackedStays
      <4>3. QED
        BY <1>7, <4>1, <4>2 DEF Retries
    <3>2. QED
      BY <1>7, <3>1 DEF Retries, OffersBacked
  <2>3. QED
    BY <1>1, <1>2, <1>4, <1>7, <2>1, <2>2 DEF EarnedInv, Sound, Retries
<1>8. CASE Collects(i, offer)
  <2>1. offers'[i] = Append(offers[i], offer)
    BY <1>1, <1>8 DEF Collects, LoopTypes
  <2>2. ASSUME NEW k \in 1 .. Len(offers[i]) + 1
        PROVE  \E one \in Offer : one = Append(offers[i], offer)[k] /\ Backed(one)'
    <3>1. CASE k \in 1 .. Len(offers[i])
      <4>1. PICK one \in Offer : one = offers[i][k] /\ Backed(one)
        BY <1>6, <3>1
      <4>2. Append(offers[i], offer)[k] = one
        BY <1>1, <3>1, <4>1
      <4>3. Backed(one)'
        BY <4>1, BackedStays
      <4>4. QED
        BY <4>2, <4>3
    <3>2. CASE k = Len(offers[i]) + 1
      <4>1. Append(offers[i], offer)[k] = offer
        BY <1>1, <3>2
      <4>2. QED
        BY <4>1
    <3>3. QED
      BY <1>1, <3>1, <3>2
  <2>3. step'[i] \in CallingSteps => Unplaced(i)'
    BY <1>1, <1>5, <1>8 DEF Collects, CallingSteps, Unplaced, Later, OwnCall, Suppliers, Attempts
  <2>4. OffersBacked(i)'
    <3>1. ASSUME NEW k \in 1 .. Len(offers'[i]) PROVE Backed(offers[i][k])'
      <4>1. k \in 1 .. Len(offers[i]) + 1
        BY <1>1, <2>1, <3>1
      <4>2. PICK one \in Offer : one = Append(offers[i], offer)[k] /\ Backed(one)'
        BY <2>2, <4>1
      <4>3. QED
        BY <2>1, <4>2
    <3>2. QED
      BY <3>1 DEF OffersBacked
  <2>5. ASSUME step'[i] = "ordering" PROVE DecisionSound(i)'
    <3>1. PICK k \in 1 .. Len(offers[i]) + 1 : decision'[i].offer = Append(offers[i], offer)[k]
      BY <1>8, <2>5 DEF Collects
    <3>2. PICK one \in Offer : one = decision'[i].offer /\ Backed(one)'
      BY <2>2, <3>1
    <3>3. Backed(decision[i].offer)'
      BY <3>2
    <3>4. ValidateOffer(decision'[i].offer, decision'[i].at) = "PASS"
      BY <1>8, <2>5 DEF Collects
    <3>5. QED
      BY <3>3, <3>4 DEF DecisionSound
  <2>6. QED
    BY <1>1, <1>2, <1>4, <2>3, <2>4, <2>5 DEF EarnedInv, Sound
<1>9. QED
  BY <1>7, <1>8

\* Steps that place no call, collect no offer and send no order.
LEMMA QuietSound ==
    ASSUME WorkflowTypeOK, EarnedInv, Keeps, started => started',
           \A s \in Suppliers, a \in Attempts :
              calls[<<s, a>>] = NotPlaced => calls'[<<s, a>>] = NotPlaced,
           UNCHANGED <<contact, attempt, offers, decision, orders>>,
           \A i \in Invocations :
              \/ step'[i] = step[i]
              \/ step'[i] = "ended"
              \/ step[i] \in CallingSteps /\ step'[i] \in {"sleeping", "polling"}
    PROVE  EarnedInv'
<1>1. OrderIsEarned'
  BY OrdersStay, TypeParts DEF EarnedInv
<1>2. ASSUME NEW i \in Invocations PROVE Sound(i)'
  <2>1. OffersBacked(i)'
    BY OffersStay
  <2>2. Sound(i)
    BY DEF EarnedInv
  <2>3. ASSUME step'[i] \in CallingSteps PROVE Unplaced(i)'
    <3>1. step[i] \in CallingSteps /\ (step'[i] = "posting" => step[i] = "posting")
      BY <2>3 DEF CallingSteps
    <3>2. Unplaced(i)
      BY <2>2, <3>1 DEF Sound
    <3>3. QED
      BY <3>1, <3>2 DEF Unplaced, Later
  <2>4. ASSUME step'[i] = "ordering" PROVE DecisionSound(i)'
    <3>1. step[i] = "ordering"
      BY <2>4
    <3>2. DecisionSound(i) /\ decision[i].offer \in Offer
      BY <2>2, <3>1 DEF Sound, WorkflowTypeOK, LoopTypes, Decision
    <3>3. PICK offer \in Offer : offer = decision[i].offer /\ Backed(offer)
      BY <3>2 DEF DecisionSound
    <3>4. Backed(offer)'
      BY <3>3, BackedStays
    <3>5. Backed(decision[i].offer)'
      BY <3>3, <3>4
    <3>6. QED
      BY <3>2, <3>5 DEF DecisionSound
  <2>5. QED
    BY <2>1, <2>3, <2>4 DEF Sound
<1>3. QED
  BY <1>1, <1>2 DEF EarnedInv

\* The call of i was placed, and i sleeps.
LEMMA PlacedSound ==
    ASSUME WorkflowTypeOK, VerdictInv, EarnedInv, NEW i \in Invocations, Keeps, OwnCall(i),
           PostAccepted(i)
    PROVE  EarnedInv'
<1>1. /\ LoopTypes /\ StoreTypes /\ step[i] = "posting" /\ InFlight(i) /\ started
      /\ UNCHANGED <<started, orders, offers, contact, attempt, decision>>
  BY TypeParts DEF PostAccepted, InFlight, InFlightSteps, VerdictInv, runStore, progress
<1>2. step'[i] = "sleeping" /\ \A j \in Invocations \ {i} : step'[j] = step[j]
  BY <1>1 DEF PostAccepted, Go, LoopTypes
<1>3. OrderIsEarned'
  BY <1>1, OrdersStay DEF EarnedInv
<1>4. \A j \in Invocations \ {i} : Sound(j)'
  BY <1>1, <1>2, OthersSound
<1>5. Unplaced(i)'
  <2>1. Unplaced(i) /\ contact[i] \in Suppliers /\ attempt[i] \in Attempts
    BY <1>1 DEF EarnedInv, Sound, CallingSteps, LoopTypes
  <2>2. QED
    BY <1>1, <1>2, <2>1 DEF Unplaced, Later, OwnCall, Suppliers, Attempts
<1>6. OffersBacked(i)'
  BY <1>1, OffersStay
<1>7. QED
  BY <1>1, <1>2, <1>3, <1>4, <1>5, <1>6 DEF EarnedInv, Sound

\* An attempt that is over with this task leaves sound invocations behind.
LEMMA TaskSound ==
    ASSUME WorkflowTypeOK, VerdictInv, EarnedInv, Keeps, NEW i \in Invocations,
           step[i] \in CallingSteps, OwnCall(i), UNCHANGED <<started, orders>>,
           NEW task, task.answer \in Answer, AttemptEnds(i, task) \/ OfferReceived(i, task),
           task.answer.completed => /\ calls'[Call(i)] \notin {NotPlaced, Ringing}
                                    /\ task = Task(calls'[Call(i)])
    PROVE  EarnedInv'
<1>1. /\ LoopTypes /\ input \in Inputs
      /\ contact[i] \in Suppliers /\ attempt[i] \in Attempts
  BY TypeParts DEF LoopTypes, StoreTypes
<1>2. PICK offer \in Offer : offer = ResultToOffer(contact[i], task, attempt[i])
  BY <1>1, OfferTyped
<1>3. Collects(i, offer) \/ Retries(i)
  BY <1>1, <1>2, OfferReceivedCollects, AttemptEndsCollects
<1>4. Backed(offer)'
  <2>1. PICK s \in Suppliers, a \in Attempts : s = contact[i] /\ a = attempt[i]
    BY <1>1
  <2>2. offer = ResultToOffer(s, task, a) /\ Call(i) = <<s, a>>
    BY <1>2, <2>1 DEF Call
  <2>3. calls'[Call(i)] = calls'[<<s, a>>]
    BY <2>2
  <2>4. QED
    BY <2>2, <2>3, BackedResult DEF Keeps
<1>5. QED
  BY <1>3, <1>4, OverSound

\* A service that takes the call of i found none under its key.
LEMMA TakenOnce ==
    ASSUME WorkflowTypeOK, EarnedInv, NEW i \in Invocations, step[i] = "posting",
           UNCHANGED input, NEW state, ServiceTakes(i, state)
    PROVE  Keeps /\ OwnCall(i) /\ calls'[Call(i)] = state
<1>1. /\ calls \in [Suppliers \X Attempts -> Reports \cup {NotPlaced, Ringing}]
      /\ contact[i] \in Suppliers /\ attempt[i] \in Attempts
      /\ calls' = [calls EXCEPT ![Call(i)] = state]
  BY TypeParts DEF StoreTypes, LoopTypes, ServiceTakes
<1>2. Unplaced(i)
  BY DEF EarnedInv, Sound, CallingSteps
<1>3. calls[<<contact[i], attempt[i]>>] = NotPlaced
  BY <1>1, <1>2 DEF Unplaced, Later
<1>4. OwnCall(i) /\ calls'[Call(i)] = state
  BY <1>1 DEF OwnCall, Call
<1>5. QED
  BY <1>3, <1>4 DEF Keeps, OwnCall, Ended

LEMMA CallingSound ==
    ASSUME WorkflowTypeOK, VerdictInv, EarnedInv, NEW i \in Invocations, Proceed(i),
           step[i] # "ordering"
    PROVE  EarnedInv'
<1>1. /\ LoopTypes
      /\ step[i] \in CallingSteps /\ UNCHANGED <<started, orders>>
  BY TypeParts, CallingEnds
<1>2. UNCHANGED calls /\ UNCHANGED input => Keeps /\ OwnCall(i)
  BY DEF Keeps, OwnCall
<1>3. \A outcome : /\ UnresolvedTask(outcome).answer \in Answer
                   /\ ~ UnresolvedTask(outcome).answer.completed
  BY NothingSaidIsAnswer DEF UnresolvedTask, NothingSaid
<1>4. ASSUME NEW outcome, Keeps, OwnCall(i),
             AttemptEnds(i, UnresolvedTask(outcome)) \/ OfferReceived(i, UnresolvedTask(outcome))
      PROVE  EarnedInv'
  BY <1>1, <1>3, <1>4, TaskSound
<1>5. CASE PostRefused(i) \/ PollCancelled(i) \/ PollExhausted(i) \/ PollFails(i)
  BY <1>2, <1>4, <1>5 DEF PostRefused, PollCancelled, PollExhausted, PollFails
<1>6. CASE PostUnreadable(i) \/ PostFails(i)
  <2>1. Keeps /\ OwnCall(i)
    BY <1>2, <1>6, TakenOnce DEF PostUnreadable, PostFails
  <2>2. QED
    BY <1>4, <1>6, <2>1 DEF PostUnreadable, PostFails
<1>7. CASE PostAccepted(i)
  <2>1. Keeps /\ OwnCall(i)
    BY <1>7, TakenOnce DEF PostAccepted
  <2>2. QED
    BY <1>7, <2>1, PlacedSound
<1>8. ASSUME NEW report \in Reports, PostAnswered(i, report) PROVE EarnedInv'
  <2>1. Keeps /\ OwnCall(i) /\ calls'[Call(i)] = report
    BY <1>8, TakenOnce DEF PostAnswered
  <2>2. Task(report).answer \in Answer /\ report \notin {NotPlaced, Ringing}
    BY ReportsHaveAnswers, WorkflowAssumption
  <2>3. QED
    BY <1>1, <1>8, <2>1, <2>2, TaskSound DEF PostAnswered
<1>9. CASE PollTerminal(i)
  <2>1. /\ Keeps /\ OwnCall(i) /\ UNCHANGED calls
        /\ AttemptEnds(i, Task(calls[Call(i)]))
        /\ calls[Call(i)] \notin {NotPlaced, Ringing}
    BY <1>2, <1>9 DEF PollTerminal, Ended, Call
  <2>2. calls[Call(i)] \in Reports
    <3>1. Call(i) \in Suppliers \X Attempts
      BY <1>1 DEF LoopTypes, Call
    <3>2. QED
      BY <2>1, <3>1, TypeParts DEF StoreTypes
  <2>3. PICK report \in Reports : report = calls[Call(i)]
    BY <2>2
  <2>4. Task(report).answer \in Answer
    BY ReportsHaveAnswers
  <2>5. QED
    BY <1>1, <2>1, <2>3, <2>4, TaskSound
<1>10. CASE PollSent(i) \/ PollRinging(i)
  <2>1. /\ UNCHANGED <<input, calls, started, contact, attempt, offers, decision, orders>>
        /\ Go(i, "polling") \/ Go(i, "sleeping")
    BY <1>10 DEF PollSent, PollRinging, runStore, progress
  <2>2. \A j \in Invocations : step'[j] = step[j] \/ (j = i /\ step'[j] \in {"sleeping", "polling"})
    BY <1>1, <2>1 DEF Go, LoopTypes
  <2>3. QED
    BY <1>1, <1>2, <2>1, <2>2, QuietSound
<1>11. QED
  BY <1>5, <1>6, <1>7, <1>8, <1>9, <1>10 DEF Proceed, OrderCreated, OrderFails

\* The order that is sent is the one that was decided on.
LEMMA OrderingSound ==
    ASSUME WorkflowTypeOK, VerdictInv, EarnedInv, NEW i \in Invocations,
           OrderCreated(i) \/ OrderFails(i)
    PROVE  EarnedInv'
<1>1. /\ LoopTypes /\ StoreTypes /\ step[i] = "ordering" /\ InFlight(i) /\ started
      /\ UNCHANGED <<input, calls, started, contact, attempt, offers, decision>>
      /\ decision[i] \in Decision /\ orders = <<>>
  BY TypeParts DEF OrderCreated, OrderFails, LoopTypes, InFlight, InFlightSteps, VerdictInv, progress
<1>2. Keeps
  BY <1>1 DEF Keeps
<1>3. step'[i] = "ended" /\ \A j \in Invocations \ {i} : step'[j] = step[j]
  BY <1>1, FinishHolds DEF OrderCreated, OrderFails
<1>4. DecisionSound(i)
  BY <1>1 DEF EarnedInv, Sound
<1>5. OrderIsEarned'
  <2>1. orders' = orders \/ orders' = <<OrderFor(decision[i].offer)>>
    BY <1>1 DEF OrderCreated, OrderFails, OrdersWith
  <2>2. CASE orders' = orders
    BY <1>1, <1>2, <2>2, OrdersStay DEF EarnedInv
  <2>3. CASE orders' = <<OrderFor(decision[i].offer)>>
    <3>1. PICK offer \in Offer, at \in Instants : decision[i].offer = offer /\ decision[i].at = at
      BY <1>1 DEF Decision
    <3>2. Backed(offer) /\ ValidateOffer(offer, at) = "PASS"
      BY <1>4, <3>1 DEF DecisionSound
    <3>3. QED
      BY <1>1, <2>3, <3>1, <3>2, OrderForEarned, WorkflowAssumption
  <2>4. QED
    BY <2>1, <2>2, <2>3
<1>6. \A j \in Invocations : OffersBacked(j)'
  BY <1>1, <1>2, OffersStay
<1>7. Sound(i)'
  BY <1>3, <1>6 DEF Sound, CallingSteps
<1>8. \A j \in Invocations \ {i} : Sound(j)'
  BY <1>1, <1>2, <1>3, OthersSound
<1>9. QED
  BY <1>1, <1>5, <1>7, <1>8 DEF EarnedInv

LEMMA RunSound ==
    ASSUME WorkflowTypeOK, VerdictInv, EarnedInv, NEW i \in Invocations, Run(i)
    PROVE  EarnedInv'
<1>1. /\ LoopTypes /\ StoreTypes
      /\ UNCHANGED <<input, calls, orders, offers, decision>>
  BY TypeParts
  DEF Run, RunDuplicate, RunBlocked, RunUnneeded, RunStarts, progress
<1>2. Keeps
  BY <1>1 DEF Keeps
<1>3. CASE RunDuplicate(i) \/ RunBlocked(i) \/ RunUnneeded(i)
  <2>1. step'[i] = "ended" /\ \A j \in Invocations \ {i} : step'[j] = step[j]
    BY <1>1, <1>3, FinishHolds DEF RunDuplicate, RunBlocked, RunUnneeded, Go, LoopTypes
  <2>2. (started => started') /\ UNCHANGED <<contact, attempt>>
    BY <1>3 DEF RunDuplicate, RunBlocked, RunUnneeded, RunPermitted, Begin, runStore, progress
  <2>3. QED
    BY <1>1, <1>2, <2>1, <2>2, QuietSound
<1>4. CASE RunStarts(i)
  <2>1. ~ started /\ started'
    BY <1>4 DEF RunStarts, RunPermitted, Begin
  <2>2. step'[i] = "posting" /\ \A j \in Invocations \ {i} : step'[j] = step[j]
    BY <1>1, <1>4 DEF RunStarts, CallSupplier, Go, LoopTypes
  <2>3. Unplaced(i)'
    BY <1>1, <2>1 DEF EarnedInv, Unplaced, Later
  <2>4. OffersBacked(i)'
    BY <1>1, <1>2, OffersStay
  <2>5. OrderIsEarned'
    BY <1>1, <1>2, OrdersStay DEF EarnedInv
  <2>6. \A j \in Invocations \ {i} : Sound(j)'
    BY <1>1, <1>2, <2>1, <2>2, OthersSound
  <2>7. QED
    BY <2>1, <2>2, <2>3, <2>4, <2>5, <2>6 DEF EarnedInv, Sound
<1>5. QED
  BY <1>3, <1>4 DEF Run

LEMMA EarnedInit == WorkflowInit => EarnedInv
<1> SUFFICES ASSUME WorkflowInit PROVE EarnedInv
  OBVIOUS
<1>1. /\ \A s \in Suppliers, a \in Attempts : calls[<<s, a>>] = NotPlaced
      /\ \A i \in Invocations : step[i] = "idle" /\ offers[i] = <<>>
      /\ Len(orders) = 0
  BY DEF WorkflowInit
<1>2. OrderIsEarned
  BY <1>1 DEF OrderIsEarned
<1>3. \A i \in Invocations : OffersBacked(i)
  BY <1>1 DEF OffersBacked
<1>4. QED
  BY <1>1, <1>2, <1>3 DEF EarnedInv, Sound, CallingSteps

LEMMA EarnedStep ==
    WorkflowTypeOK /\ VerdictInv /\ EarnedInv /\ [WorkflowNext]_workflowVars => EarnedInv'
<1> SUFFICES ASSUME WorkflowTypeOK, VerdictInv, EarnedInv, [WorkflowNext]_workflowVars
             PROVE  EarnedInv'
  OBVIOUS
<1>1. ASSUME NEW i \in Invocations, Proceed(i) PROVE EarnedInv'
  <2>1. CASE step[i] # "ordering"
    BY <1>1, <2>1, CallingSound
  <2>2. CASE step[i] = "ordering"
    <3>1. OrderCreated(i) \/ OrderFails(i)
      BY <1>1, <2>2 DEF Proceed, PostAccepted, PostRefused, PostUnreadable, PollSent, PollCancelled,
         PollRinging, PollExhausted, PollTerminal, PostAnswered, PostFails, PollFails
    <3>2. QED
      BY <3>1, OrderingSound
  <2>3. QED
    BY <2>1, <2>2
<1>2. CASE Cancel \/ AuthorizationExpires \/ UNCHANGED workflowVars
  <2>1. UNCHANGED <<input, started, calls, contact, attempt, offers, decision, orders, step>>
    BY <1>2 DEF Cancel, AuthorizationExpires, workflowVars, runStore, progress
  <2>2. Keeps
    BY <2>1 DEF Keeps
  <2>3. QED
    BY <2>1, <2>2, QuietSound
<1>3. ASSUME NEW c \in Suppliers \X Attempts, NEW report \in Reports, CallEnds(c, report)
      PROVE  EarnedInv'
  <2>1. /\ UNCHANGED <<input, started, contact, attempt, offers, decision, orders, step>>
        /\ calls[c] = Ringing /\ calls' = [calls EXCEPT ![c] = report]
    BY <1>3 DEF CallEnds, runStore, progress
  <2>2. \A d \in Suppliers \X Attempts : calls[d] # Ringing => calls'[d] = calls[d]
    BY <2>1, TypeParts DEF StoreTypes
  <2>3. \A s \in Suppliers, a \in Attempts :
           calls[<<s, a>>] # Ringing => calls'[<<s, a>>] = calls[<<s, a>>]
    BY <2>2
  <2>4. Keeps
    BY <2>1, <2>3 DEF Keeps, Ended
  <2>5. \A s \in Suppliers, a \in Attempts :
           calls[<<s, a>>] = NotPlaced => calls'[<<s, a>>] = NotPlaced
    BY <2>3, WorkflowAssumption
  <2>6. QED
    BY <2>1, <2>4, <2>5, QuietSound
<1>4. QED
  BY <1>1, <1>2, <1>3, RunSound DEF WorkflowNext

\* What is ordered was offered on the telephone, in the attempt the decision
\* names and in a call that ended, by an approved supplier that consented,
\* within the limits of the policy: whatever timed out, was retried, got lost or
\* came late on the way.
THEOREM OrderEarned == WorkflowSpec => []OrderIsEarned
<1>1. EarnedInv => OrderIsEarned
  BY DEF EarnedInv
<1>2. QED
  BY <1>1, TypeInit, TypeStep, VerdictInit, VerdictStep, EarnedInit, EarnedStep, PTL
  DEF WorkflowSpec
==============================================================================
