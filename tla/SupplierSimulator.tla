-------------------------- MODULE SupplierSimulator --------------------------
(***************************************************************************)
(* The synthetic supplier that answers test calls: its data in the table   *)
(* (DynamoSyntheticSupplierStore), the service that makes a quote of it    *)
(* (SupplierSimulatorService), and the Lex handler that leads a call from  *)
(* a spoken routing code to the quote (lexV2).                             *)
(*                                                                         *)
(* A turn is split at its awaits: the request for quotation is read, then  *)
(* the profile, then the model that words the answer is asked.  Meanwhile  *)
(* operators change profiles and requests, and the table drops what has    *)
(* expired, one item at a time.  A profile keeps its locale and its base   *)
(* price; what a quote says follows from its state.                        *)
(***************************************************************************)
EXTENDS OfferSelection, Integers

CONSTANTS
    Persona,        \* profile -> [locale, price, currency]
    TestData,       \* profile -> the versions and states the operators put it in
    Rfqs,           \* names of requests for quotation
    Codes,          \* routing codes
    Callers,        \* calls to the simulator
    Qualification,  \* the request of a call that names none, or Missing
    Missing,        \* nothing stored, not said: null
    RfqTTL,         \* life of a request
    MaxClock,       \* bound on the clock
    MaxAsks         \* bound on the questions of a call

VARIABLES
    clock,
    profileData,  \* SYNTHETIC_PROFILE#: version and state of a profile
    rfqItem,      \* SYNTHETIC_RFQ#
    routingItem,  \* SYNTHETIC_ROUTING#
    issued,       \* the requests that were ever created
    talk          \* the calls

storeVars == <<profileData, rfqItem, routingItem, issued>>
simulatorVars == <<clock, storeVars, talk>>

Profiles == DOMAIN Persona
SupplierStates ==
    {"AVAILABLE", "PARTIAL_STOCK", "OUT_OF_STOCK", "LATE_DELIVERY", "PRICE_CHANGED",
     "OFFER_EXPIRED", "CHANGED_PAYMENT_TERMS"}
RouterLocale == "en_GB"
Locales == {RouterLocale} \cup {Persona[p].locale : p \in Profiles}

Versions == {data.version : data \in UNION {TestData[p] : p \in Profiles}}
Requests == [rfq : Rfqs, code : Codes, profile : Profiles, version : Versions, until : Nat]

\* The price of a profile that raised it by sixty percent.
RaisedPrice(profile) == (16 * Persona[profile].price + 5) \div 10

ASSUME SimulatorAssumption ==
    /\ \A p \in Profiles : {d.state : d \in TestData[p]} \subseteq SupplierStates
    /\ Qualification \in Rfqs \cup {Missing}
    /\ Missing \notin Rfqs \cup Codes \cup Profiles /\ Missing \notin Requests
    /\ RfqTTL \in Nat \ {0} /\ MaxClock \in Nat /\ MaxAsks \in Nat
    /\ StockoutAt >= 10   \* so that no day of a quote is negative

\* What a persona asks once it raised its price is above the ceiling of the
\* policy (the four of profiles.ts, the policy and rates of runDemoWorkflow.ts).
ASSUME PersonaAssumption ==
    \A p \in Profiles :
        /\ Persona[p].price \in Nat /\ Persona[p].currency \in DOMAIN RateToEur
        /\ UnitPriceEur([unitPrice |-> RaisedPrice(p), currency |-> Persona[p].currency])
               > Policy.unitCeiling

Unused == [step |-> "unused", locale |-> RouterLocale, code |-> Missing, wanted |-> Missing,
           rfq |-> Missing, asks |-> Missing, read |-> Missing, quote |-> Missing, heard |-> {}, turns |-> 0]

SimulatorInit ==
    /\ clock = 0
    /\ profileData \in [Profiles -> UNION {TestData[p] : p \in Profiles}]
    /\ \A p \in Profiles : profileData[p] \in TestData[p]
    /\ rfqItem = [r \in Rfqs |-> Missing] /\ routingItem = [k \in Codes |-> Missing]
    /\ issued = {}
    /\ talk = [c \in Callers |-> Unused]
-----------------------------------------------------------------------------
(* the table *)

\* What if the transaction only looked at the key of the request?
PutEither(r, k) == rfqItem[r] = Missing /\ k \in Codes

\* Both keys are free: one of the two conditions fails the transaction.
PutBoth(r, k) == rfqItem[r] = Missing /\ routingItem[k] = Missing

\* createRfq; a request in the past and a duplicate change nothing.  The request
\* carries the version its profile has then.
CreateRfq(r, k, p) ==
    /\ PutBoth(r, k)
    /\ LET rfq == [rfq |-> r, code |-> k, profile |-> p,
                   version |-> profileData[p].version, until |-> clock + RfqTTL]
       IN  /\ rfqItem' = [rfqItem EXCEPT ![r] = rfq]
           /\ routingItem' = [routingItem EXCEPT ![k] = rfq]
           /\ issued' = issued \cup {rfq}
    /\ UNCHANGED <<clock, profileData, talk>>

\* updateProfile: whoever changes a profile names the version it replaces.
UpdateProfile(p, expected, data) ==
    /\ profileData[p].version = expected
    /\ profileData' = [profileData EXCEPT ![p] = data]
    /\ UNCHANGED <<clock, rfqItem, routingItem, issued, talk>>

\* The table's time to live: each item goes when it has expired.
DropRfq(r) ==
    /\ rfqItem[r] # Missing /\ rfqItem[r].until <= clock
    /\ rfqItem' = [rfqItem EXCEPT ![r] = Missing]
    /\ UNCHANGED <<clock, profileData, routingItem, issued, talk>>

DropRouting(k) ==
    /\ routingItem[k] # Missing /\ routingItem[k].until <= clock
    /\ routingItem' = [routingItem EXCEPT ![k] = Missing]
    /\ UNCHANGED <<clock, profileData, rfqItem, issued, talk>>

PassTime ==
    /\ clock < MaxClock
    /\ clock' = clock + 1
    /\ UNCHANGED <<storeVars, talk>>
-----------------------------------------------------------------------------
(* quoteFor, in days; a quote is in the terms of the policy's offers *)

\* What if the switch on the state forgot a case?
NeverLate(state) == StockoutAt - 1

DeliveryDay(state) == IF state = "LATE_DELIVERY" THEN StockoutAt + 8 ELSE StockoutAt - 1

QuoteFor(profile, state) ==
    LET wanted == Required
        ceiling(n, d) == (n + d - 1) \div d
    IN  [availableQuantity |-> CASE state = "PARTIAL_STOCK" -> ceiling(7 * wanted, 10)
                                 [] state = "OUT_OF_STOCK" -> 0
                                 [] state = "LATE_DELIVERY" -> ceiling(12 * wanted, 10)
                                 [] OTHER -> wanted,
         unitPrice |-> IF state = "PRICE_CHANGED" THEN RaisedPrice(profile)
                       ELSE Persona[profile].price,
         currency |-> Persona[profile].currency,
         deliveryAt |-> DeliveryDay(state),
         validUntil |-> IF state = "OFFER_EXPIRED" THEN StockoutAt - 10 ELSE StockoutAt - 6,
         termsChanged |-> state = "CHANGED_PAYMENT_TERMS",
         skuConfirmed |-> TRUE]
-----------------------------------------------------------------------------
(* a turn *)

At(c, step) == talk[c].step = step
Closes(c) ==
    talk' = [talk EXCEPT ![c] =
       [@ EXCEPT !.step = "closed", !.asks = Missing, !.read = Missing, !.quote = Missing]]

\* The contact flow opens the router's bot, or the bot of a fixed supplier.
Dial(c, locale) ==
    /\ At(c, "unused")
    /\ talk' = [talk EXCEPT ![c].step = "listening", ![c].locale = locale]
    /\ UNCHANGED <<clock, storeVars>>

\* failed: the simulator is off, the bot, alias or locale is not allowed, the
\* intent is unknown, or the code or the request is missing.
TurnRefused(c) ==
    /\ At(c, "listening")
    /\ Closes(c)
    /\ UNCHANGED <<clock, storeVars>>

\* IdentifySyntheticRfq: the digits that were said, and perhaps a profile.
Identify(c, code, wanted) ==
    /\ At(c, "listening") /\ talk[c].locale = RouterLocale /\ talk[c].rfq = Missing
    /\ talk' = [talk EXCEPT ![c].step = "routing", ![c].code = code, ![c].wanted = wanted]
    /\ UNCHANGED <<clock, storeVars>>

\* The request of a question: of the call's attributes, of a slot, or the fixed one.
Effective(c, slot) ==
    CASE talk[c].rfq # Missing -> talk[c].rfq
      [] talk[c].rfq = Missing /\ slot # Missing -> slot
      [] OTHER -> Qualification

Ask(c, slot, wanted) ==
    /\ At(c, "listening") /\ Effective(c, slot) # Missing /\ talk[c].turns < MaxAsks
    /\ talk' = [talk EXCEPT ![c] =
          [@ EXCEPT !.step = "asking", !.turns = talk[c].turns + 1, !.asks = Effective(c, slot),
                    !.wanted = IF talk[c].wanted = Missing THEN wanted ELSE talk[c].wanted]]
    /\ UNCHANGED <<clock, storeVars>>

\* The item a turn looks up: by its code, or by the name of its request.
Lookup(c) == IF At(c, "routing") THEN routingItem[talk[c].code] ELSE rfqItem[talk[c].asks]

Served(item, wanted) ==
    item # Missing /\ item.until > clock /\ wanted \in {Missing, item.profile}

RfqRead(c) ==
    /\ talk[c].step \in {"routing", "asking"} /\ Served(Lookup(c), talk[c].wanted)
    /\ talk' = [talk EXCEPT ![c].step = IF @ = "routing" THEN "route" ELSE "quote",
                            ![c].read = Lookup(c)]
    /\ UNCHANGED <<clock, storeVars>>

\* Unknown, expired, or of another profile.
RfqRejected(c) ==
    /\ talk[c].step \in {"routing", "asking"} /\ ~ Served(Lookup(c), talk[c].wanted)
    /\ Closes(c)
    /\ UNCHANGED <<clock, storeVars>>

\* What if a profile were taken as it is?
AnyVersion(c) == talk[c].read # Missing

SameVersion(c) == profileData[talk[c].read.profile].version = talk[c].read.version

\* The attributes of the call name what was found; the contact flow goes on in
\* the bot of the supplier's locale.
Routes(c) ==
    /\ At(c, "route") /\ SameVersion(c)
    /\ talk' = [talk EXCEPT ![c] =
          [@ EXCEPT !.step = "listening", !.rfq = talk[c].read.rfq, !.read = Missing,
                    !.wanted = talk[c].read.profile,
                    !.locale = Persona[talk[c].read.profile].locale]]
    /\ UNCHANGED <<clock, storeVars>>

Quotes(c) ==
    LET read == talk[c].read
        data == profileData[read.profile]
    IN  /\ At(c, "quote") /\ SameVersion(c) /\ talk[c].locale = Persona[read.profile].locale
        /\ talk' = [talk EXCEPT ![c].step = "speaking",
                                ![c].quote = [rfq |-> read.rfq, profile |-> read.profile,
                                              version |-> data.version, state |-> data.state]]
        /\ UNCHANGED <<clock, storeVars>>

\* Another version, or a bot of another locale.
ProfileRejected(c) ==
    /\ \/ talk[c].step \in {"route", "quote"} /\ ~ SameVersion(c)
       \/ At(c, "quote") /\ talk[c].locale # Persona[talk[c].read.profile].locale
    /\ Closes(c)
    /\ UNCHANGED <<clock, storeVars>>

\* What the attributes of the call keep of a quote.
Heard(quote) == [rfq |-> quote.rfq, profile |-> quote.profile, version |-> quote.version]

\* Worded by the model or, if that fails, as it is: the facts are the same.
\* EndConversation closes the call.
Speaks(c, step) ==
    /\ At(c, "speaking")
    /\ talk' = [talk EXCEPT ![c] =
          [@ EXCEPT !.step = step, !.rfq = talk[c].quote.rfq, !.wanted = talk[c].quote.profile,
                    !.heard = talk[c].heard \cup {Heard(talk[c].quote)},
                    !.asks = Missing, !.read = Missing, !.quote = Missing]]
    /\ UNCHANGED <<clock, storeVars>>

\* The table throws or has an unreadable item, or the history has grown too long.
TurnFails(c) ==
    /\ talk[c].step \in {"routing", "asking", "route", "quote", "speaking"}
    /\ Closes(c)
    /\ UNCHANGED <<clock, storeVars>>

CallGoesOn(c) ==
    \/ (\E locale \in Locales : Dial(c, locale)) \/ TurnRefused(c)
    \/ \E p \in Profiles \cup {Missing} :
          \/ \E k \in Codes : Identify(c, k, p)
          \/ \E r \in Rfqs \cup {Missing} : Ask(c, r, p)
    \/ RfqRead(c) \/ RfqRejected(c) \/ Routes(c) \/ Quotes(c) \/ ProfileRejected(c)
    \/ (\E step \in {"listening", "closed"} : Speaks(c, step)) \/ TurnFails(c)

SimulatorNext ==
    \/ \E r \in Rfqs, k \in Codes, p \in Profiles : CreateRfq(r, k, p)
    \/ \E p \in Profiles : \E data \in TestData[p], expected \in {d.version : d \in TestData[p]} :
          UpdateProfile(p, expected, data)
    \/ \E r \in Rfqs : DropRfq(r)
    \/ \E k \in Codes : DropRouting(k)
    \/ PassTime
    \/ \E c \in Callers : CallGoesOn(c)

SimulatorSpec == SimulatorInit /\ [][SimulatorNext]_simulatorVars
-----------------------------------------------------------------------------
(* What must hold *)

\* A routing code is a locator: as long as a request lives, its name and the
\* code it reserved both lead to it and to nothing else, though names and codes
\* are used again and the table drops expired items one by one (createRfq and
\* its two conditions).
CodesLeadHome ==
    \A rfq \in issued : rfq.until > clock =>
        rfqItem[rfq.rfq] = rfq /\ routingItem[rfq.code] = rfq

\* A call hears of one request and one supplier only: if a code was said, of the
\* one that reserved it.  Whatever operators change between the reads of a turn
\* or between turns, each quote is of a dataset version that request was created
\* for, in its supplier's locale (resolveContext, createSupplierSimulatorLexHandler).
HeardAsPinned ==
    \A c \in Callers : \A quote \in talk[c].heard :
        LET its == {rfq \in issued : rfq.rfq = quote.rfq /\ rfq.profile = quote.profile}
        IN  /\ \E rfq \in its : rfq.version = quote.version
            /\ talk[c].code # Missing => \E rfq \in its : rfq.code = talk[c].code
            /\ talk[c].locale = Persona[quote.profile].locale
            /\ \A other \in talk[c].heard :
                  other.rfq = quote.rfq /\ other.profile = quote.profile

\* toMockSupplierResult, and what the workflow adds for an approved supplier
\* whose every word was understood.
OfferOf(quote) ==
    LET said == QuoteFor(quote.profile, quote.state)
    IN  [skuConfirmed |-> said.skuConfirmed, availableQuantity |-> said.availableQuantity,
         unitPrice |-> said.unitPrice, currency |-> said.currency,
         deliveryAt |-> said.deliveryAt, validUntil |-> said.validUntil,
         termsChanged |-> said.termsChanged, approved |-> TRUE, consent |-> TRUE,
         verified |-> EvidenceFields, complete |-> TRUE,
         confidence |-> Policy.minimumConfidence, attempts |-> 1]

\* The days on which an offer that is said to have expired has expired.
TestDays == StockoutAt - 9 .. StockoutAt

\* A test call cannot lead to an order unless the operators made the supplier
\* available: every other state fails the policy for the reason it stands for,
\* and changed terms, the state of the supplier called for real, always need a
\* human (quoteFor, read with validateOffer).  Three pieces or fewer are left
\* out: seventy percent of them, rounded up, are all of them.
OnlyAvailableComplies ==
    \A c \in Callers : At(c, "speaking") => \A day \in TestDays :
        LET state == talk[c].quote.state
            offer == OfferOf(talk[c].quote)
            reason == [PARTIAL_STOCK |-> "quantity_sufficient",
                       OUT_OF_STOCK |-> "quantity_sufficient",
                       LATE_DELIVERY |-> "delivery_before_stockout",
                       PRICE_CHANGED |-> "unit_price_within_ceiling",
                       OFFER_EXPIRED |-> "offer_validity",
                       CHANGED_PAYMENT_TERMS |-> "terms_unchanged"]
        IN  /\ state = "CHANGED_PAYMENT_TERMS" => ValidateOffer(offer, day) # "PASS"
            /\ state # "AVAILABLE" /\ Required > 3 => Checks(offer, day)[reason[state]] # "PASS"
=============================================================================
