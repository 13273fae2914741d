------------------------ MODULE SupplierSimulatorProofs ------------------------
(***************************************************************************)
(* Proofs about SupplierSimulator for any number of profiles, requests for *)
(* quotation, routing codes and calls: where a code leads, of what a call  *)
(* hears, and that only an available supplier makes a compliant offer.     *)
(***************************************************************************)
EXTENDS SupplierSimulator, TLAPS

(* The policy and the quotes *)

\* The check each state of a supplier fails.
Reason == [PARTIAL_STOCK |-> "quantity_sufficient",
           OUT_OF_STOCK |-> "quantity_sufficient",
           LATE_DELIVERY |-> "delivery_before_stockout",
           PRICE_CHANGED |-> "unit_price_within_ceiling",
           OFFER_EXPIRED |-> "offer_validity",
           CHANGED_PAYMENT_TERMS |-> "terms_unchanged"]

\* Changed terms need a human, so that the offer is not compliant.
LEMMA ChangedTermsNeedHuman ==
    ASSUME NEW quote, quote.state = "CHANGED_PAYMENT_TERMS", NEW day
    PROVE  /\ Checks(OfferOf(quote), day).terms_unchanged = "REQUIRES_HUMAN"
           /\ ValidateOffer(OfferOf(quote), day) # "PASS"
<1>1. OfferOf(quote).termsChanged = TRUE
  BY DEF OfferOf, QuoteFor
<1>2. Checks(OfferOf(quote), day).terms_unchanged = "REQUIRES_HUMAN"
  BY <1>1 DEF Checks, Soft
<1>3. "terms_unchanged" \in DOMAIN Checks(OfferOf(quote), day)
  BY DEF Checks
<1>4. QED
  BY <1>2, <1>3 DEF ValidateOffer

\* Less than everything: seventy percent, rounded up, of more than three pieces.
LEMMA PartialIsLess ==
    ASSUME Required > 3
    PROVE  (7 * Required + 10 - 1) \div 10 < Required
<1>1. Required \in Nat
  BY SelectionAssumption
<1>2. QED
  BY <1>1

LEMMA RaiseTyped == ASSUME NEW n \in Nat PROVE (16 * n + 5) \div 10 \in Nat
OBVIOUS

LEMMA CentsTyped == ASSUME NEW c \in Nat PROVE RoundCurrency(c) \in Nat
BY DEF RoundCurrency

\* Every other state but AVAILABLE fails the check it stands for.
LEMMA StateFailsItsCheck ==
    ASSUME NEW quote, quote.profile \in Profiles, quote.state \in SupplierStates \ {"AVAILABLE"},
           Required > 3, NEW day \in TestDays
    PROVE  Checks(OfferOf(quote), day)[Reason[quote.state]] # "PASS"
<1> DEFINE offer == OfferOf(quote)
<1>1. Required \in Nat /\ StockoutAt \in Nat /\ StockoutAt >= 10
  BY SelectionAssumption, SimulatorAssumption
<1>2. CASE quote.state = "PARTIAL_STOCK"
  <2>1. offer.availableQuantity = (7 * Required + 10 - 1) \div 10 /\ offer.verified = EvidenceFields
    BY <1>2 DEF OfferOf, QuoteFor
  <2>2. ~ (offer.availableQuantity >= Required)
    BY <1>1, <2>1, PartialIsLess
  <2>3. QED
    BY <1>2, <2>1, <2>2 DEF Checks, EvidenceAware, Hard, EvidenceFields, Reason
<1>3. CASE quote.state = "OUT_OF_STOCK"
  <2>1. offer.availableQuantity = 0 /\ offer.verified = EvidenceFields
    BY <1>3 DEF OfferOf, QuoteFor
  <2>2. ~ (offer.availableQuantity >= Required)
    BY <1>1, <2>1
  <2>3. QED
    BY <1>3, <2>1, <2>2 DEF Checks, EvidenceAware, Hard, EvidenceFields, Reason
<1>4. CASE quote.state = "LATE_DELIVERY"
  <2>1. offer.deliveryAt = StockoutAt + 8 /\ offer.verified = EvidenceFields
    BY <1>4 DEF OfferOf, QuoteFor, DeliveryDay
  <2>2. ~ (offer.deliveryAt <= StockoutAt)
    BY <1>1, <2>1
  <2>3. QED
    BY <1>4, <2>1, <2>2 DEF Checks, EvidenceAware, Hard, EvidenceFields, Reason
<1>5. CASE quote.state = "PRICE_CHANGED"
  <2>1. /\ offer.unitPrice = RaisedPrice(quote.profile) /\ offer.verified = EvidenceFields
        /\ offer.currency = Persona[quote.profile].currency
    BY <1>5 DEF OfferOf, QuoteFor
  <2>2. UnitPriceEur(offer) > Policy.unitCeiling
    BY <2>1, PersonaAssumption DEF UnitPriceEur
  <2>3. UnitPriceEur(offer) \in Int /\ Policy.unitCeiling \in Nat
    <3>1. RaisedPrice(quote.profile) \in Nat
      BY PersonaAssumption, RaiseTyped DEF RaisedPrice
    <3>2. RateToEur[offer.currency] \in Nat
      BY <2>1, PersonaAssumption, SelectionAssumption
    <3>3. offer.unitPrice * RateToEur[offer.currency] \in Nat
      BY <2>1, <3>1, <3>2
    <3>4. UnitPriceEur(offer) \in Nat
      BY <3>3, CentsTyped DEF UnitPriceEur
    <3>5. QED
      BY <3>4, SelectionAssumption
  <2>4. QED
    BY <1>5, <2>1, <2>2, <2>3 DEF Checks, EvidenceAware, Hard, EvidenceFields, Reason
<1>6. CASE quote.state = "OFFER_EXPIRED"
  <2>1. offer.validUntil = StockoutAt - 10 /\ offer.verified = EvidenceFields
    BY <1>6 DEF OfferOf, QuoteFor
  <2>2. ~ (offer.validUntil >= day)
    BY <1>1, <2>1 DEF TestDays
  <2>3. QED
    BY <1>6, <2>1, <2>2 DEF Checks, EvidenceAware, Hard, EvidenceFields, Reason
<1>7. CASE quote.state = "CHANGED_PAYMENT_TERMS"
  BY <1>7, ChangedTermsNeedHuman DEF Reason
<1>8. QED
  BY <1>2, <1>3, <1>4, <1>5, <1>6, <1>7 DEF SupplierStates
-----------------------------------------------------------------------------
(* The table: a code leads to the request that reserved it *)

\* Whatever is stored is a request that was created, under its own keys.
TableInv ==
    /\ clock \in Nat
    /\ \A p \in Profiles : profileData[p] \in TestData[p]
    /\ issued \subseteq Requests
    /\ \A r \in Rfqs : rfqItem[r] # Missing => rfqItem[r] \in issued /\ rfqItem[r].rfq = r
    /\ \A k \in Codes : routingItem[k] # Missing => routingItem[k] \in issued /\ routingItem[k].code = k
    /\ rfqItem \in [Rfqs -> issued \cup {Missing}]
    /\ routingItem \in [Codes -> issued \cup {Missing}]
    /\ profileData \in [Profiles -> UNION {TestData[p] : p \in Profiles}]

HomeInv == TableInv /\ CodesLeadHome

LEMMA HomeInit == SimulatorInit => HomeInv
BY DEF SimulatorInit, HomeInv, TableInv, CodesLeadHome

\* A new request takes two free keys, so no living request loses one.
LEMMA CreateHome ==
    ASSUME HomeInv, NEW r \in Rfqs, NEW k \in Codes, NEW p \in Profiles, CreateRfq(r, k, p)
    PROVE  HomeInv'
<1> DEFINE new == [rfq |-> r, code |-> k, profile |-> p,
                   version |-> profileData[p].version, until |-> clock + RfqTTL]
<1> USE DEF HomeInv, TableInv
<1>1. /\ rfqItem' = [rfqItem EXCEPT ![r] = new] /\ routingItem' = [routingItem EXCEPT ![k] = new]
      /\ issued' = issued \cup {new} /\ UNCHANGED <<clock, profileData>>
      /\ rfqItem[r] = Missing /\ routingItem[k] = Missing
  BY DEF CreateRfq, PutBoth
<1>2. new \in Requests
  <2>1. profileData[p].version \in Versions
    BY DEF Versions
  <2>2. clock + RfqTTL \in Nat
    BY SimulatorAssumption
  <2>3. QED
    BY <2>1, <2>2 DEF Requests
<1>3. new.rfq = r /\ new.code = k
  OBVIOUS
<1> HIDE DEF new
<1>4. TableInv'
  BY <1>1, <1>2, <1>3
<1>5. CodesLeadHome'
  <2>1. ASSUME NEW rfq \in issued, rfq.until > clock
        PROVE  rfqItem'[rfq.rfq] = rfq /\ routingItem'[rfq.code] = rfq
    <3>1. rfqItem[rfq.rfq] = rfq /\ routingItem[rfq.code] = rfq
      BY <2>1 DEF CodesLeadHome
    <3>2. rfq # Missing /\ rfq.rfq \in Rfqs /\ rfq.code \in Codes
      BY <2>1, SimulatorAssumption DEF Requests
    <3>3. QED
      BY <1>1, <3>1, <3>2
  <2>2. rfqItem'[new.rfq] = new /\ routingItem'[new.code] = new
    BY <1>1, <1>3
  <2>3. QED
    BY <1>1, <2>1, <2>2 DEF CodesLeadHome
<1>6. QED
  BY <1>4, <1>5

\* The table drops only what has expired.
LEMMA DropHome ==
    ASSUME HomeInv, (\E r \in Rfqs : DropRfq(r)) \/ (\E k \in Codes : DropRouting(k))
    PROVE  HomeInv'
<1> USE DEF HomeInv, TableInv
<1>1. \A rfq \in issued : rfq.until \in Nat /\ rfq.rfq \in Rfqs /\ rfq.code \in Codes
  BY DEF Requests
<1>2. ASSUME NEW r \in Rfqs, DropRfq(r) PROVE HomeInv'
  <2>1. /\ rfqItem' = [rfqItem EXCEPT ![r] = Missing]
        /\ UNCHANGED <<clock, profileData, routingItem, issued>>
        /\ ~ (rfqItem[r].until > clock)
    <3>1. rfqItem[r] \in issued
      BY <1>2 DEF DropRfq
    <3>2. QED
      BY <1>1, <1>2, <3>1 DEF DropRfq
  <2>2. TableInv'
    BY <2>1
  <2>3. CodesLeadHome'
    BY <1>1, <2>1 DEF CodesLeadHome
  <2>4. QED
    BY <2>2, <2>3
<1>3. ASSUME NEW k \in Codes, DropRouting(k) PROVE HomeInv'
  <2>1. /\ routingItem' = [routingItem EXCEPT ![k] = Missing]
        /\ UNCHANGED <<clock, profileData, rfqItem, issued>>
        /\ ~ (routingItem[k].until > clock)
    <3>1. routingItem[k] \in issued
      BY <1>3 DEF DropRouting
    <3>2. QED
      BY <1>1, <1>3, <3>1 DEF DropRouting
  <2>2. TableInv'
    BY <2>1
  <2>3. CodesLeadHome'
    BY <1>1, <2>1 DEF CodesLeadHome
  <2>4. QED
    BY <2>2, <2>3
<1>4. QED
  BY <1>2, <1>3

\* No turn of a call touches the table.
LEMMA CallsRead == ASSUME NEW c, CallGoesOn(c) PROVE UNCHANGED <<clock, storeVars>>
BY DEF CallGoesOn, Dial, TurnRefused, Identify, Ask, RfqRead, RfqRejected, Routes, Quotes,
       ProfileRejected, Speaks, TurnFails

LEMMA HomeStep == HomeInv /\ [SimulatorNext]_simulatorVars => HomeInv'
<1> SUFFICES ASSUME HomeInv, [SimulatorNext]_simulatorVars PROVE HomeInv'
  OBVIOUS
<1> USE DEF HomeInv, TableInv
<1>1. ASSUME NEW r \in Rfqs, NEW k \in Codes, NEW p \in Profiles, CreateRfq(r, k, p)
      PROVE  HomeInv'
  BY <1>1, CreateHome
<1>2. ASSUME NEW p \in Profiles, NEW data \in TestData[p], NEW expected,
             UpdateProfile(p, expected, data)
      PROVE  HomeInv'
  BY <1>2 DEF UpdateProfile, CodesLeadHome
<1>3. CASE (\E r \in Rfqs : DropRfq(r)) \/ (\E k \in Codes : DropRouting(k))
  BY <1>3, DropHome
<1>4. CASE PassTime
  <2>1. clock' = clock + 1 /\ UNCHANGED storeVars
    BY <1>4 DEF PassTime
  <2>2. \A rfq \in issued : rfq.until \in Nat
    BY DEF Requests
  <2>3. QED
    BY <2>1, <2>2 DEF storeVars, CodesLeadHome
<1>5. ASSUME NEW c \in Callers, CallGoesOn(c) PROVE HomeInv'
  BY <1>5, CallsRead DEF storeVars, CodesLeadHome
<1>6. CASE UNCHANGED simulatorVars
  BY <1>6 DEF simulatorVars, storeVars, CodesLeadHome
<1>7. QED
  BY <1>1, <1>2, <1>3, <1>4, <1>5, <1>6 DEF SimulatorNext

LEMMA HomeInvariant == SimulatorSpec => []HomeInv
<1>1. QED
  BY HomeInit, HomeStep, PTL DEF SimulatorSpec

\* As long as a request lives its name and its code both lead to it, however
\* names and codes are used again and items dropped (createRfq).
THEOREM CodesHome == SimulatorSpec => []CodesLeadHome
<1>1. HomeInv => CodesLeadHome
  BY DEF HomeInv
<1>2. QED
  BY <1>1, HomeInvariant, PTL
-----------------------------------------------------------------------------
(* The calls: of what a call hears *)

Quoted == [rfq : Rfqs, profile : Profiles, version : Versions, state : SupplierStates]

TalkSteps == {"unused", "listening", "routing", "route", "asking", "quote", "speaking", "closed"}
Hearings == SUBSET [rfq : Rfqs, profile : Profiles, version : Versions]

Talk == [step : TalkSteps,
         locale : Locales, code : Codes \cup {Missing}, wanted : Profiles \cup {Missing},
         rfq : Rfqs \cup {Missing}, asks : Rfqs \cup {Missing}, read : Requests \cup {Missing},
         quote : Quoted \cup {Missing},
         heard : Hearings, turns : Nat]

\* What t reads and quotes is a request that was created, under the code or the
\* name it asked for, and of the profile it wants.
ReadsPinned(t) ==
    /\ t.step \in {"unused", "routing", "route"} => t.rfq = Missing
    /\ t.step = "unused" => t.code = Missing
    /\ t.step = "routing" => t.code \in Codes
    /\ t.step = "route" => t.read \in issued /\ t.read.code = t.code
    /\ t.step = "asking" => t.asks \in Rfqs /\ t.rfq \in {Missing, t.asks}
    /\ t.step \in {"quote", "speaking"} =>
          /\ t.read \in issued
          /\ t.rfq \in {Missing, t.read.rfq} /\ t.wanted \in {Missing, t.read.profile}
    /\ t.step = "speaking" =>
          /\ t.quote \in Quoted /\ t.quote.rfq = t.read.rfq /\ t.quote.profile = t.read.profile
          /\ t.quote.version = t.read.version /\ t.locale = Persona[t.read.profile].locale

\* A code that was said led to a request, and the call is about that one.
CodePinned(t) ==
    (t.code # Missing /\ (t.rfq # Missing \/ t.step \in {"listening", "asking", "quote", "speaking"}))
        => \E rfq \in issued : rfq.code = t.code /\ rfq.rfq = t.rfq /\ rfq.profile = t.wanted

\* What was heard is of the request and the profile the call is about.
HeardPinned(t) ==
    \A quote \in t.heard :
        /\ quote.rfq = t.rfq /\ quote.profile = t.wanted /\ t.locale = Persona[quote.profile].locale
        /\ \E rfq \in issued :
              rfq.rfq = quote.rfq /\ rfq.profile = quote.profile /\ rfq.version = quote.version

Pinned(t) == ReadsPinned(t) /\ CodePinned(t) /\ HeardPinned(t)

TalkInv == talk \in [Callers -> Talk] /\ \A c \in Callers : Pinned(talk[c])

LEMMA TalkInit == SimulatorInit => TalkInv
<1> SUFFICES ASSUME SimulatorInit PROVE TalkInv
  OBVIOUS
<1>1. Unused \in Talk
  BY DEF Unused, Talk, TalkSteps, Hearings, Locales
<1>2. Pinned(Unused)
  BY DEF Unused, Pinned, ReadsPinned, CodePinned, HeardPinned
<1>3. QED
  BY <1>1, <1>2 DEF SimulatorInit, TalkInv

\* More requests pin no less.
LEMMA IssuedGrows ==
    ASSUME TalkInv, talk' = talk, issued \subseteq issued'
    PROVE  TalkInv'
BY DEF TalkInv, Pinned, ReadsPinned, CodePinned, HeardPinned

\* A turn changes one call.
LEMMA TurnKeeps ==
    ASSUME TalkInv, NEW c \in Callers, NEW t \in Talk, Pinned(t),
           talk' = [talk EXCEPT ![c] = t], issued' = issued
    PROVE  TalkInv'
<1>1. \A b \in Callers : talk'[b] = IF b = c THEN t ELSE talk[b]
  BY DEF TalkInv
<1>2. talk' \in [Callers -> Talk]
  BY DEF TalkInv
<1>3. \A b \in Callers : Pinned(talk'[b])
  BY <1>1 DEF TalkInv
<1>4. QED
  BY <1>2, <1>3 DEF TalkInv, Pinned, ReadsPinned, CodePinned, HeardPinned

\* A call that is about no request heard of none.
LEMMA NothingHeardYet ==
    ASSUME NEW t \in Talk, HeardPinned(t), t.rfq = Missing
    PROVE  t.heard = {}
BY SimulatorAssumption DEF Talk, TalkSteps, Hearings, HeardPinned

LEMMA ClosesKeeps ==
    ASSUME TalkInv, NEW c \in Callers, Closes(c), issued' = issued
    PROVE  TalkInv'
<1> DEFINE t == [talk[c] EXCEPT !.step = "closed", !.asks = Missing, !.read = Missing,
                                !.quote = Missing]
<1>1. talk[c] \in Talk /\ Pinned(talk[c])
  BY DEF TalkInv
<1>2. t \in Talk
  BY <1>1 DEF Talk, TalkSteps, Hearings
<1>3. /\ t.step = "closed" /\ t.code = talk[c].code /\ t.wanted = talk[c].wanted
      /\ t.rfq = talk[c].rfq /\ t.locale = talk[c].locale /\ t.heard = talk[c].heard
  BY <1>1 DEF Talk, TalkSteps, Hearings
<1>4. talk' = [talk EXCEPT ![c] = t]
  BY DEF Closes
<1> HIDE DEF t
<1>5. Pinned(t)
  BY <1>1, <1>3 DEF Pinned, ReadsPinned, CodePinned, HeardPinned
<1>6. QED
  BY <1>2, <1>4, <1>5, TurnKeeps

LEMMA DialKeeps ==
    ASSUME TalkInv, NEW c \in Callers, NEW locale \in Locales, Dial(c, locale)
    PROVE  TalkInv'
<1> DEFINE t == [talk[c] EXCEPT !.step = "listening", !.locale = locale]
<1>1. talk[c] \in Talk /\ Pinned(talk[c]) /\ talk[c].step = "unused"
  BY DEF TalkInv, Dial, At
<1>2. t \in Talk
  BY <1>1 DEF Talk, TalkSteps, Hearings
<1>3. /\ t.step = "listening" /\ t.code = talk[c].code /\ t.rfq = talk[c].rfq
      /\ t.heard = talk[c].heard
  BY <1>1 DEF Talk, TalkSteps, Hearings
<1>4. talk' = [talk EXCEPT ![c] = t] /\ issued' = issued
  BY <1>1 DEF Dial, storeVars, TalkInv
<1> HIDE DEF t
<1>5. t.code = Missing /\ t.heard = {}
  BY <1>1, <1>3, NothingHeardYet DEF Pinned, ReadsPinned
<1>6. Pinned(t)
  BY <1>3, <1>5 DEF Pinned, ReadsPinned, CodePinned, HeardPinned
<1>7. QED
  BY <1>2, <1>4, <1>6, TurnKeeps

LEMMA IdentifyKeeps ==
    ASSUME TalkInv, NEW c \in Callers, NEW k \in Codes, NEW p \in Profiles \cup {Missing},
           Identify(c, k, p)
    PROVE  TalkInv'
<1> DEFINE t == [talk[c] EXCEPT !.step = "routing", !.code = k, !.wanted = p]
<1>1. talk[c] \in Talk /\ Pinned(talk[c]) /\ talk[c].rfq = Missing
  BY DEF TalkInv, Identify
<1>2. t \in Talk
  <2>1. "routing" \in TalkSteps
    BY DEF TalkSteps
  <2> QED BY <1>1, <2>1 DEF Talk
<1>3. t.step = "routing" /\ t.code = k /\ t.rfq = Missing /\ t.heard = talk[c].heard
  BY <1>1 DEF Talk, TalkSteps, Hearings
<1>4. talk' = [talk EXCEPT ![c] = t] /\ issued' = issued
  BY <1>1 DEF Identify, storeVars, TalkInv
<1> HIDE DEF t
<1>5. t.heard = {}
  BY <1>1, <1>3, NothingHeardYet DEF Pinned
<1>6. Pinned(t)
  BY <1>3, <1>5 DEF Pinned, ReadsPinned, CodePinned, HeardPinned
<1>7. QED
  BY <1>2, <1>4, <1>6, TurnKeeps

\* Who asks again asks of the request and the profile of the call.
LEMMA AskKeeps ==
    ASSUME TalkInv, TableInv, NEW c \in Callers, NEW slot \in Rfqs \cup {Missing},
           NEW p \in Profiles \cup {Missing}, Ask(c, slot, p)
    PROVE  TalkInv'
<1> DEFINE wanted == IF talk[c].wanted = Missing THEN p ELSE talk[c].wanted
           turns == talk[c].turns + 1
           asks == Effective(c, slot)
           t == [talk[c] EXCEPT !.step = "asking", !.turns = turns, !.asks = asks,
                                !.wanted = wanted]
<1>1. talk[c] \in Talk /\ Pinned(talk[c]) /\ talk[c].step = "listening"
  BY DEF TalkInv, Ask, At
<1>2. asks \in Rfqs /\ talk[c].rfq \in {Missing, asks}
  BY <1>1, SimulatorAssumption DEF Ask, Effective, Talk, TalkSteps, Hearings
<1>3. wanted \in Profiles \cup {Missing} /\ (talk[c].wanted # Missing => wanted = talk[c].wanted)
  BY <1>1 DEF Talk, TalkSteps, Hearings
<1>4. t \in Talk
  <2>1. turns \in Nat
    BY <1>1 DEF Talk, TalkSteps, Hearings
  <2> HIDE DEF wanted, turns, asks
  <2>2. QED
    BY <1>1, <1>2, <1>3, <2>1 DEF Talk, TalkSteps, Hearings
<1>5. /\ t.step = "asking" /\ t.asks = asks /\ t.wanted = wanted
      /\ t.code = talk[c].code /\ t.rfq = talk[c].rfq /\ t.heard = talk[c].heard
      /\ t.locale = talk[c].locale
  BY <1>1 DEF Talk, TalkSteps, Hearings
<1>6. talk' = [talk EXCEPT ![c] = t] /\ issued' = issued
  BY <1>1 DEF Ask, storeVars, TalkInv
<1> HIDE DEF t, wanted, turns, asks
<1>7. ReadsPinned(t)
  BY <1>2, <1>5 DEF ReadsPinned
<1>8. CodePinned(t)
  <2> SUFFICES ASSUME t.code # Missing
               PROVE  \E rfq \in issued : rfq.code = t.code /\ rfq.rfq = t.rfq /\ rfq.profile = t.wanted
    BY DEF CodePinned
  <2>1. PICK rfq \in issued :
           rfq.code = talk[c].code /\ rfq.rfq = talk[c].rfq /\ rfq.profile = talk[c].wanted
    BY <1>1, <1>5 DEF Pinned, CodePinned
  <2>2. rfq.profile # Missing
    BY SimulatorAssumption DEF TableInv, Requests
  <2>3. QED
    BY <1>3, <1>5, <2>1, <2>2
<1>9. HeardPinned(t)
  <2>1. \A quote \in talk[c].heard : quote.profile # Missing
    BY <1>1, SimulatorAssumption DEF Talk, TalkSteps, Hearings
  <2>2. \A quote \in talk[c].heard : quote.profile = t.wanted
    BY <1>1, <1>3, <1>5, <2>1 DEF Pinned, HeardPinned
  <2>3. QED
    BY <1>1, <1>5, <2>2 DEF Pinned, HeardPinned
<1>10. QED
  BY <1>4, <1>6, <1>7, <1>8, <1>9, TurnKeeps DEF Pinned

\* What is found under a code or a name reserved that code or has that name.
LEMMA ReadKeeps ==
    ASSUME TalkInv, TableInv, NEW c \in Callers, RfqRead(c)
    PROVE  TalkInv'
<1> DEFINE item == Lookup(c)
           step == IF talk[c].step = "routing" THEN "route" ELSE "quote"
           t == [talk[c] EXCEPT !.step = step, !.read = item]
<1>1. /\ talk[c] \in Talk /\ Pinned(talk[c]) /\ talk[c].step \in {"routing", "asking"}
      /\ item # Missing /\ talk[c].wanted \in {Missing, item.profile}
  BY DEF TalkInv, RfqRead, Served
<1>2. CASE talk[c].step = "routing"
  <2>1. item \in issued /\ item.code = talk[c].code /\ item \in Requests
    BY <1>1, <1>2 DEF Lookup, At, TableInv, Pinned, ReadsPinned
  <2>2. step = "route"
    BY <1>2
  <2> HIDE DEF item, step
  <2>3. t \in Talk /\ talk' = [talk EXCEPT ![c] = t] /\ issued' = issued
    <3>1. t \in Talk
      BY <1>1, <2>1, <2>2 DEF Talk, TalkSteps, Hearings
    <3>2. QED
      BY <3>1, <1>1 DEF RfqRead, storeVars, TalkInv, item, step
  <2>4. /\ t.step = "route" /\ t.read = item /\ t.code = talk[c].code /\ t.rfq = talk[c].rfq
        /\ t.heard = talk[c].heard
    BY <1>1, <2>2 DEF Talk, TalkSteps, Hearings
  <2> HIDE DEF t
  <2>5. t.rfq = Missing /\ t.heard = {}
    BY <1>1, <1>2, <2>4, NothingHeardYet DEF Pinned, ReadsPinned
  <2>6. Pinned(t)
    BY <2>1, <2>4, <2>5 DEF Pinned, ReadsPinned, CodePinned, HeardPinned
  <2>7. QED
    BY <2>3, <2>6, TurnKeeps
<1>3. CASE talk[c].step = "asking"
  <2>1. item \in issued /\ item \in Requests /\ talk[c].rfq \in {Missing, item.rfq}
    BY <1>1, <1>3 DEF Lookup, At, TableInv, Pinned, ReadsPinned
  <2>2. step = "quote"
    BY <1>3
  <2> HIDE DEF item, step
  <2>3. t \in Talk /\ talk' = [talk EXCEPT ![c] = t] /\ issued' = issued
    <3>1. t \in Talk
      BY <1>1, <2>1, <2>2 DEF Talk, TalkSteps, Hearings
    <3>2. QED
      BY <3>1, <1>1 DEF RfqRead, storeVars, TalkInv, item, step
  <2>4. /\ t.step = "quote" /\ t.read = item /\ t.code = talk[c].code /\ t.rfq = talk[c].rfq
        /\ t.wanted = talk[c].wanted /\ t.heard = talk[c].heard /\ t.locale = talk[c].locale
    BY <1>1, <2>2 DEF Talk, TalkSteps, Hearings
  <2> HIDE DEF t
  <2>5. Pinned(t)
    BY <1>1, <1>3, <2>1, <2>4 DEF Pinned, ReadsPinned, CodePinned, HeardPinned
  <2>6. QED
    BY <2>3, <2>5, TurnKeeps
<1>4. QED
  BY <1>1, <1>2, <1>3

LEMMA RoutesKeeps ==
    ASSUME TalkInv, TableInv, NEW c \in Callers, Routes(c)
    PROVE  TalkInv'
<1> DEFINE read == talk[c].read
           locale == Persona[read.profile].locale
           t == [talk[c] EXCEPT !.step = "listening", !.rfq = read.rfq, !.read = Missing,
                                !.wanted = read.profile, !.locale = locale]
<1>1. /\ talk[c] \in Talk /\ Pinned(talk[c]) /\ talk[c].step = "route" /\ talk[c].rfq = Missing
      /\ read \in issued /\ read.code = talk[c].code
  BY DEF TalkInv, Routes, At, Pinned, ReadsPinned
<1>2. read.rfq \in Rfqs /\ read.profile \in Profiles
  BY <1>1 DEF TableInv, Requests
<1>3. locale \in Locales
  BY <1>2 DEF Locales
<1>4. talk' = [talk EXCEPT ![c] = t] /\ issued' = issued
  BY <1>1 DEF Routes, storeVars, TalkInv
<1> HIDE DEF read, locale
<1>5. t \in Talk
  <2>1. "listening" \in TalkSteps
    BY DEF TalkSteps
  <2> QED BY <1>1, <1>2, <1>3, <2>1 DEF Talk
<1>6. /\ t.step = "listening" /\ t.rfq = read.rfq /\ t.wanted = read.profile
      /\ t.code = talk[c].code /\ t.heard = talk[c].heard
  BY <1>1 DEF Talk, TalkSteps, Hearings
<1> HIDE DEF t
<1>7. t.heard = {}
  BY <1>1, <1>6, NothingHeardYet DEF Pinned
<1>8. Pinned(t)
  BY <1>1, <1>6, <1>7 DEF Pinned, ReadsPinned, CodePinned, HeardPinned
<1>9. QED
  BY <1>4, <1>5, <1>8, TurnKeeps

\* A quote is of the version its request was created for.
LEMMA QuotesKeeps ==
    ASSUME TalkInv, TableInv, NEW c \in Callers, Quotes(c)
    PROVE  TalkInv'
<1> DEFINE read == talk[c].read
           data == profileData[read.profile]
           quote == [rfq |-> read.rfq, profile |-> read.profile,
                     version |-> data.version, state |-> data.state]
           t == [talk[c] EXCEPT !.step = "speaking", !.quote = quote]
<1>1. /\ talk[c] \in Talk /\ Pinned(talk[c]) /\ talk[c].step = "quote"
      /\ read \in issued /\ data.version = read.version
      /\ talk[c].locale = Persona[read.profile].locale
  BY DEF TalkInv, Quotes, SameVersion, At, Pinned, ReadsPinned
<1>2. read.rfq \in Rfqs /\ read.profile \in Profiles /\ read.version \in Versions
  BY <1>1 DEF TableInv, Requests
<1>3. data.state \in SupplierStates
  BY <1>2, SimulatorAssumption DEF TableInv
<1>4. talk' = [talk EXCEPT ![c] = t] /\ issued' = issued
  BY <1>1 DEF Quotes, storeVars, TalkInv
<1>5. quote \in Quoted /\ quote.rfq = read.rfq /\ quote.profile = read.profile
      /\ quote.version = read.version
  BY <1>1, <1>2, <1>3 DEF Quoted
<1> HIDE DEF quote, data
<1>6. t \in Talk
  BY <1>1, <1>5 DEF Talk, TalkSteps, Hearings
<1>7. /\ t.step = "speaking" /\ t.quote = quote /\ t.read = read /\ t.rfq = talk[c].rfq
      /\ t.wanted = talk[c].wanted /\ t.locale = talk[c].locale
      /\ t.code = talk[c].code /\ t.heard = talk[c].heard
  BY <1>1 DEF Talk, TalkSteps, Hearings
<1> HIDE DEF t
<1>8. ReadsPinned(t)
  BY <1>1, <1>5, <1>7 DEF Pinned, ReadsPinned
<1>9. CodePinned(t) /\ HeardPinned(t)
  BY <1>1, <1>7 DEF Pinned, CodePinned, HeardPinned
<1>10. QED
  BY <1>4, <1>6, <1>8, <1>9, TurnKeeps DEF Pinned

LEMMA SpeaksKeeps ==
    ASSUME TalkInv, TableInv, NEW c \in Callers, NEW step \in {"listening", "closed"},
           Speaks(c, step)
    PROVE  TalkInv'
<1> DEFINE quote == talk[c].quote
           heard == talk[c].heard \cup {Heard(quote)}
           t == [talk[c] EXCEPT !.step = step, !.rfq = quote.rfq, !.wanted = quote.profile,
                                !.heard = heard,
                                !.asks = Missing, !.read = Missing, !.quote = Missing]
<1>1. /\ talk[c] \in Talk /\ Pinned(talk[c]) /\ talk[c].step = "speaking"
      /\ talk[c].read \in issued /\ quote \in Quoted
      /\ quote.rfq = talk[c].read.rfq /\ quote.profile = talk[c].read.profile
      /\ quote.version = talk[c].read.version
      /\ talk[c].locale = Persona[quote.profile].locale
      /\ talk[c].rfq \in {Missing, quote.rfq} /\ talk[c].wanted \in {Missing, quote.profile}
  BY DEF TalkInv, Speaks, At, Pinned, ReadsPinned
<1>2. quote.rfq \in Rfqs /\ quote.profile \in Profiles /\ quote.version \in Versions
  BY <1>1 DEF Quoted
<1>3. heard \subseteq [rfq : Rfqs, profile : Profiles, version : Versions]
  BY <1>1, <1>2 DEF Talk, TalkSteps, Hearings, Heard
<1>4. talk' = [talk EXCEPT ![c] = t] /\ issued' = issued
  BY <1>1 DEF Speaks, storeVars, TalkInv
<1> HIDE DEF quote, heard
<1>5. t \in Talk
  BY <1>1, <1>2, <1>3 DEF Talk, TalkSteps, Hearings
<1>6. /\ t.step = step /\ t.rfq = quote.rfq /\ t.wanted = quote.profile /\ t.heard = heard
      /\ t.locale = talk[c].locale /\ t.code = talk[c].code
  BY <1>1 DEF Talk, TalkSteps, Hearings
<1> HIDE DEF t
<1>7. ReadsPinned(t)
  BY <1>6 DEF ReadsPinned
<1>8. CodePinned(t)
  <2> SUFFICES ASSUME t.code # Missing
               PROVE  \E rfq \in issued : rfq.code = t.code /\ rfq.rfq = t.rfq /\ rfq.profile = t.wanted
    BY DEF CodePinned
  <2>1. PICK rfq \in issued :
           rfq.code = talk[c].code /\ rfq.rfq = talk[c].rfq /\ rfq.profile = talk[c].wanted
    BY <1>1, <1>6 DEF Pinned, CodePinned
  <2>2. rfq.rfq # Missing /\ rfq.profile # Missing
    BY SimulatorAssumption DEF TableInv, Requests
  <2>3. QED
    BY <1>1, <1>6, <2>1, <2>2
<1>9. HeardPinned(t)
  <2>1. ASSUME NEW q \in talk[c].heard
        PROVE  /\ q.rfq = t.rfq /\ q.profile = t.wanted /\ t.locale = Persona[q.profile].locale
               /\ \E rfq \in issued :
                     rfq.rfq = q.rfq /\ rfq.profile = q.profile /\ rfq.version = q.version
    <3>1. q.rfq # Missing /\ q.profile # Missing
      BY <1>1, <2>1, SimulatorAssumption DEF Talk, TalkSteps, Hearings
    <3>2. /\ q.rfq = talk[c].rfq /\ q.profile = talk[c].wanted
          /\ talk[c].locale = Persona[q.profile].locale
          /\ \E rfq \in issued :
                rfq.rfq = q.rfq /\ rfq.profile = q.profile /\ rfq.version = q.version
      BY <1>1, <2>1 DEF Pinned, HeardPinned
    <3>3. QED
      BY <1>1, <1>6, <3>1, <3>2
  <2>2. /\ Heard(quote).rfq = quote.rfq /\ Heard(quote).profile = quote.profile
        /\ Heard(quote).version = quote.version
    BY DEF Heard
  <2>3. QED
    BY <1>1, <1>6, <2>1, <2>2 DEF HeardPinned, heard
<1>10. QED
  BY <1>4, <1>5, <1>7, <1>8, <1>9, TurnKeeps DEF Pinned

\* What is served, heard and routed stays pinned.
LEMMA TalkStep == TalkInv /\ TableInv /\ [SimulatorNext]_simulatorVars => TalkInv'
<1> SUFFICES ASSUME TalkInv, TableInv, [SimulatorNext]_simulatorVars PROVE TalkInv'
  OBVIOUS
<1>1. ASSUME NEW r \in Rfqs, NEW k \in Codes, NEW p \in Profiles, CreateRfq(r, k, p)
      PROVE  TalkInv'
  BY <1>1, IssuedGrows DEF CreateRfq
<1>2. ASSUME NEW p \in Profiles, NEW data \in TestData[p], NEW expected,
             UpdateProfile(p, expected, data)
      PROVE  TalkInv'
  BY <1>2, IssuedGrows DEF UpdateProfile
<1>3. CASE (\E r \in Rfqs : DropRfq(r)) \/ (\E k \in Codes : DropRouting(k)) \/ PassTime
  BY <1>3, IssuedGrows DEF DropRfq, DropRouting, PassTime, storeVars
<1>4. ASSUME NEW c \in Callers, CallGoesOn(c) PROVE TalkInv'
  <2>1. issued' = issued
    BY <1>4, CallsRead DEF storeVars
  <2>2. CASE TurnRefused(c) \/ RfqRejected(c) \/ ProfileRejected(c) \/ TurnFails(c)
    BY <2>1, <2>2, ClosesKeeps DEF TurnRefused, RfqRejected, ProfileRejected, TurnFails
  <2>3. CASE RfqRead(c) \/ Routes(c) \/ Quotes(c)
    BY <2>3, ReadKeeps, RoutesKeeps, QuotesKeeps
  <2>4. QED
    BY <1>4, <2>2, <2>3, DialKeeps, IdentifyKeeps, AskKeeps, SpeaksKeeps DEF CallGoesOn
<1>5. CASE UNCHANGED simulatorVars
  BY <1>5, IssuedGrows DEF simulatorVars, storeVars
<1>6. QED
  BY <1>1, <1>2, <1>3, <1>4, <1>5 DEF SimulatorNext

LEMMA TalkInvariant == SimulatorSpec => []TalkInv
<1>1. HomeInv => TableInv
  BY DEF HomeInv
<1>2. QED
  BY <1>1, TalkInit, TalkStep, HomeInvariant, PTL DEF SimulatorSpec

\* A call hears of one request and one supplier only, of the one that reserved
\* the code if one was said, in a version it was created for and in the
\* supplier's locale (resolveContext, createSupplierSimulatorLexHandler).
THEOREM HeardOfOne == SimulatorSpec => []HeardAsPinned
<1>1. TalkInv /\ TableInv => HeardAsPinned
  <2> SUFFICES ASSUME TalkInv, TableInv, NEW c \in Callers, NEW quote \in talk[c].heard
               PROVE  LET its == {rfq \in issued :
                                    rfq.rfq = quote.rfq /\ rfq.profile = quote.profile}
                      IN  /\ \E rfq \in its : rfq.version = quote.version
                          /\ talk[c].code # Missing => \E rfq \in its : rfq.code = talk[c].code
                          /\ talk[c].locale = Persona[quote.profile].locale
                          /\ \A other \in talk[c].heard :
                                other.rfq = quote.rfq /\ other.profile = quote.profile
    BY DEF HeardAsPinned
  <2>1. talk[c] \in Talk /\ CodePinned(talk[c]) /\ HeardPinned(talk[c])
    BY DEF TalkInv, Pinned
  <2>2. quote.rfq # Missing
    BY <2>1, SimulatorAssumption DEF Talk, TalkSteps, Hearings
  <2>3. talk[c].code # Missing =>
           \E rfq \in issued : rfq.code = talk[c].code /\ rfq.rfq = quote.rfq
                                  /\ rfq.profile = quote.profile
    BY <2>1, <2>2 DEF CodePinned, HeardPinned
  <2>4. QED
    BY <2>1, <2>3 DEF HeardPinned
<1>2. HomeInv => TableInv
  BY DEF HomeInv
<1>3. QED
  BY <1>1, <1>2, TalkInvariant, HomeInvariant, PTL

\* A supplier's call cannot lead to an order unless the operators made it
\* available: its quote fails the policy for the reason of its state, and
\* changed terms always need a human (quoteFor, validateOffer).
THEOREM OnlyAvailable == SimulatorSpec => []OnlyAvailableComplies
<1>1. TalkInv => OnlyAvailableComplies
  <2> SUFFICES ASSUME TalkInv, NEW c \in Callers, At(c, "speaking"), NEW day \in TestDays
               PROVE  LET state == talk[c].quote.state
                          offer == OfferOf(talk[c].quote)
                      IN  /\ state = "CHANGED_PAYMENT_TERMS" => ValidateOffer(offer, day) # "PASS"
                          /\ state # "AVAILABLE" /\ Required > 3 =>
                                Checks(offer, day)[Reason[state]] # "PASS"
    BY DEF OnlyAvailableComplies, Reason
  <2>1. talk[c].quote \in Quoted
    BY DEF TalkInv, Pinned, ReadsPinned, At
  <2>2. talk[c].quote.profile \in Profiles /\ talk[c].quote.state \in SupplierStates
    BY <2>1 DEF Quoted
  <2>3. QED
    BY <2>2, ChangedTermsNeedHuman, StateFailsItsCheck
<1>2. QED
  BY <1>1, TalkInvariant, PTL
=============================================================================
