---------------------------- MODULE OfferSelection ----------------------------
(***************************************************************************)
(* The deterministic procurement rules of src/domain: normalisation of an  *)
(* offer to euro, the checks of the policy and the choice between the      *)
(* offers that pass all of them.                                           *)
(*                                                                         *)
(* Prices are whole cents, exchange rates whole hundredths, instants       *)
(* natural numbers.  A field nobody stated and a field whose excerpt is    *)
(* not in the transcript are treated alike by every check, so both are     *)
(* "not verified".                                                         *)
(***************************************************************************)
EXTENDS Naturals, Sequences

CONSTANTS
    Policy,     \* orderLimit, unitCeiling, minimumConfidence, maximumAttempts, currencies
    Required,   \* forecast.requiredQuantity
    StockoutAt, \* forecast.stockoutAt
    RateToEur   \* euro cents for a hundred cents of a currency

EvidenceFields ==
    {"skuConfirmed", "availableQuantity", "unitPrice", "currency",
     "deliveryAt", "offerValidUntil", "commercialTermsChanged"}

ASSUME SelectionAssumption ==
    /\ Required \in Nat \ {0}
    /\ StockoutAt \in Nat
    /\ \A field \in {"orderLimit", "unitCeiling", "minimumConfidence", "maximumAttempts"} :
          Policy[field] \in Nat
    /\ Policy.currencies \subseteq DOMAIN RateToEur
    /\ \A c \in DOMAIN RateToEur : RateToEur[c] \in Nat \ {0}

\* To whole cents, half up.
RoundCurrency(hundredthsOfCents) == (hundredthsOfCents + 50) \div 100

UnitPriceEur(offer) == RoundCurrency(offer.unitPrice * RateToEur[offer.currency])

\* The price of everything the supplier has.
TotalPriceEur(offer) == UnitPriceEur(offer) * offer.availableQuantity

\* What is really spent: the order is made out for the required quantity.
OrderTotalEur(offer) == UnitPriceEur(offer) * Required

Hard(passed) == IF passed THEN "PASS" ELSE "FAIL"
Soft(passed) == IF passed THEN "PASS" ELSE "REQUIRES_HUMAN"
EvidenceAware(offer, field, passed) ==
    IF field \in offer.verified THEN Hard(passed) ELSE "REQUIRES_HUMAN"

Checks(offer, now) ==
    [approved_supplier         |-> Hard(offer.approved),
     recipient_consent         |-> Hard(offer.consent),
     exact_sku                 |-> EvidenceAware(offer, "skuConfirmed", offer.skuConfirmed),
     quantity_sufficient       |-> EvidenceAware(offer, "availableQuantity",
                                                 offer.availableQuantity >= Required),
     delivery_before_stockout  |-> EvidenceAware(offer, "deliveryAt", offer.deliveryAt <= StockoutAt),
     unit_price_within_ceiling |-> EvidenceAware(offer, "unitPrice",
                                                 UnitPriceEur(offer) <= Policy.unitCeiling),
     total_within_limit        |-> Hard(OrderTotalEur(offer) <= Policy.orderLimit),
     approved_currency         |-> EvidenceAware(offer, "currency",
                                                 offer.currency \in Policy.currencies),
     offer_validity            |-> EvidenceAware(offer, "offerValidUntil", offer.validUntil >= now),
     terms_unchanged           |-> Soft(/\ "commercialTermsChanged" \in offer.verified
                                        /\ ~ offer.termsChanged),
     evidence_complete         |-> Soft(offer.complete),
     confidence_threshold      |-> Soft(offer.confidence >= Policy.minimumConfidence),
     retry_policy              |-> Hard(offer.attempts <= Policy.maximumAttempts)]

\* "BLOCK", "REQUIRES_HUMAN" or "PASS"
ValidateOffer(offer, now) ==
    LET checks == Checks(offer, now)
        Some(status) == \E id \in DOMAIN checks : checks[id] = status
    IN  IF Some("FAIL") THEN "BLOCK"
        ELSE IF Some("REQUIRES_HUMAN") THEN "REQUIRES_HUMAN" ELSE "PASS"

Compliant(offers, now) ==
    {k \in DOMAIN offers : ValidateOffer(offers[k], now) = "PASS"}

\* The order of the sort: cheaper in total, then earlier, then more confident.
Before(left, right) ==
    \/ TotalPriceEur(left) < TotalPriceEur(right)
    \/ /\ TotalPriceEur(left) = TotalPriceEur(right)
       /\ \/ left.deliveryAt < right.deliveryAt
          \/ /\ left.deliveryAt = right.deliveryAt
             /\ left.confidence > right.confidence

\* The sort is stable: of equals the supplier that was called first.
SelectBest(offers, compliant) ==
    CHOOSE k \in compliant :
       \A other \in compliant \ {k} :
          \/ Before(offers[k], offers[other])
          \/ ~ Before(offers[other], offers[k]) /\ k < other
=============================================================================
