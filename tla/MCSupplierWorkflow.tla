-------------------------- MODULE MCSupplierWorkflow --------------------------
(* The policy of one instance and what its suppliers may say. *)
EXTENDS SupplierWorkflow, TLC

MCPolicy == [orderLimit |-> 500, unitCeiling |-> 45, minimumConfidence |-> 9,
             maximumAttempts |-> 2, currencies |-> {"EUR"}]
MCRateToEur == [c \in {"EUR"} |-> 100]

\* Ten units, all there are, at 42; the offer lapses early.
Scarce == [skuConfirmed |-> TRUE, availableQuantity |-> 10, unitPrice |-> 42,
           currency |-> "EUR", deliveryAt |-> 1, validUntil |-> 0,
           termsChanged |-> FALSE, optOut |-> FALSE, verified |-> EvidenceFields,
           completed |-> TRUE, confidence |-> 9]
\* Cheaper by the unit, but there are thirty of them.
Ample == [Scarce EXCEPT !.availableQuantity = 30, !.unitPrice = 37]
\* Cheapest, but the price is not in the transcript.
Hearsay == [Scarce EXCEPT !.unitPrice = 30, !.verified = @ \ {"unitPrice"}]

MCAnswers == {Scarce, Ample, Hearsay}
\* The second one is retried: nobody was reached, or so the failure text says.
MCReports == {<<"ANSWERED", Scarce>>, <<"NO_ANSWER", Hearsay>>}
\* Two good offers.
MCQuotes == {<<"ANSWERED", Scarce>>, <<"ANSWERED", Ample>>}

Regular == [enabled |-> TRUE, shortage |-> TRUE,
            approved |-> Suppliers, consenting |-> Suppliers]
MCInputs == {Regular,
             [Regular EXCEPT !.enabled = FALSE], [Regular EXCEPT !.shortage = FALSE],
             [Regular EXCEPT !.approved = Suppliers \ {1}, !.consenting = {1}]}
=============================================================================
