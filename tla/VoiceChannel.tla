----------------------------- MODULE VoiceChannel -----------------------------
(***************************************************************************)
(* One spoken conversation: the Lex fulfilment handler (lexVoiceHandler)   *)
(* between the judge on the phone and the procurement core.  The only      *)
(* memory of a conversation is its Lex session attributes, which the       *)
(* handler receives with every turn and returns with every reply.  The     *)
(* contact flow hangs up after a reply that closes the conversation.       *)
(*                                                                         *)
(* The core is used through its methods, each with everything it stores:   *)
(* nobody else knows the procurement sessions of this conversation, so no  *)
(* other request comes between the steps of a method.  A method that       *)
(* throws (or dies with its instance) has stored some of it.  What turn n  *)
(* mints, a session, an evaluation or a token, is called n.                *)
(***************************************************************************)
EXTENDS SpokenRequest

CONSTANTS
    Sentences,  \* what the judge may ask for: the words, and what they mean
    Mission,    \* the default mission: quantity, days, categories
    MaxTurns    \* bound on the turns of the conversation

VARIABLES
    call,        \* "listening", "start", "utterance", "escalate", "confirm",
                 \* "decline", or how the reply closed it: "Fulfilled", "Failed"
    present,     \* the judge is still on the line
    turn,        \* turns taken so far
    said,        \* the sentence of the turn
    resolved,    \* what the core understood of it
    attributes,  \* the Lex session attributes: session, evaluation, token
    working,     \* the handler's copy of them
    runs,        \* the outcome of the procurement session turn n opened
    evaluations, \* the evaluation of turn n
    purchases,   \* the turn that bought with the token of turn n
    offers       \* the turns whose offer the judge heard and was asked about

coreVars == <<runs, evaluations, purchases>>
channelVars == <<call, present, turn, said, resolved, attributes, working, coreVars, offers>>

Turns == 1 .. MaxTurns
None == 0
Attributes == [session : Turns \cup {None}, evaluation : Turns \cup {None},
               token : Turns \cup {None}]
NoAttributes == [session |-> None, evaluation |-> None, token |-> None]
NoEvaluation == [outcome |-> "NONE"]
Silent == [words |-> <<>>]
Ununderstood == [search |-> "NONE"]

EvaluationOutcome == {"ACCEPTED", "REJECTED", "HUMAN_REVIEW_REQUIRED"}

ASSUME ChannelAssumption ==
    /\ MaxTurns \in Nat
    /\ {Mission.quantity, Mission.days} \subseteq Nat \ {0}

ChannelInit ==
    /\ call = "listening"
    /\ present = TRUE
    /\ turn = 0
    /\ said = Silent
    /\ resolved = Ununderstood
    /\ attributes = NoAttributes
    /\ working = NoAttributes
    /\ runs = [n \in Turns |-> "ABSENT"]
    /\ evaluations = [n \in Turns |-> NoEvaluation]
    /\ purchases = [n \in Turns |-> None]
    /\ offers = {}
-----------------------------------------------------------------------------
(* What the core understands of a sentence, the first thing a turn does *)

Stated(field, default) == IF field = Nothing THEN default ELSE field

\* The request the core works on; the mission fills in what was not said.
Understood(s) ==
    LET recognized == InterpretUtterance(s)
        best == BestMatches(recognized.product, Mission.categories)
    IN  [search |-> SearchStatus(best),
         sku |-> IF Cardinality(best) = 1 THEN CHOOSE sku \in best : TRUE ELSE Nothing,
         quantity |-> Stated(recognized.quantity, Mission.quantity),
         days |-> Stated(recognized.days, Mission.days)]

Meaning == [s \in Sentences |-> Understood(s.words)]
-----------------------------------------------------------------------------
(* The turn reaches the handler *)

Take(s, understood, step) ==
    /\ call = "listening"
    /\ present
    /\ turn < MaxTurns
    /\ turn' = turn + 1
    /\ said' = s
    /\ resolved' = understood
    /\ working' = attributes
    /\ call' = step
    /\ UNCHANGED <<present, attributes, coreVars, offers>>

\* A bot, an alias or a locale outside of the guard, or voice disabled: known
\* with the first turn, since the deployment decides it.
Guarded == turn = 0 /\ Take(Silent, Ununderstood, "Failed")

\* An empty transcript is answered with an example.
Silence == Take(Silent, Ununderstood, "listening")

Request(s) ==
    Take(s, Meaning[s], IF attributes.session = None THEN "start" ELSE "utterance")

\* Answered with "There is nothing to confirm yet".
NothingToConfirm == attributes.session = None \/ attributes.evaluation = None

Yes == Take(Silent, Ununderstood, IF NothingToConfirm THEN "listening"
                  ELSE IF attributes.token = None THEN "decline" ELSE "confirm")

No == Take(Silent, Ununderstood, IF NothingToConfirm THEN "listening" ELSE "decline")

\* reply: the attributes go back to Lex, and the judge hears the message.
Reply(step, a, heard) ==
    /\ call' = step
    /\ attributes' = a
    /\ offers' = IF present THEN offers \cup heard ELSE offers
    /\ UNCHANGED <<present, turn, said, resolved, working>>

\* Mutant: the conversation stays open after an error.
FailsOpen ==
    /\ call' = "listening"
    /\ UNCHANGED <<present, turn, said, resolved, attributes, working, offers>>

\* The catch, or the end of the instance: Lex keeps the attributes it sent.
Fails ==
    /\ call' = "Failed"
    /\ UNCHANGED <<present, turn, said, resolved, attributes, working, offers>>

HangUp ==
    /\ present
    /\ call \notin {"Fulfilled", "Failed"}
    /\ present' = FALSE
    /\ UNCHANGED <<call, turn, said, resolved, attributes, working, coreVars, offers>>
-----------------------------------------------------------------------------
(* startSession *)

Opened == runs' = [runs EXCEPT ![turn] = "OPEN"]

StartSession ==
    /\ call = "start"
    /\ Opened
    /\ call' = "utterance"
    /\ working' = [working EXCEPT !.session = turn]
    /\ UNCHANGED <<present, turn, said, resolved, attributes, evaluations, purchases, offers>>

StartFails ==
    /\ call = "start"
    /\ Opened \/ UNCHANGED runs
    /\ Fails
    /\ UNCHANGED <<evaluations, purchases>>
-----------------------------------------------------------------------------
(* handleUtterance *)

\* complete and the events of the run: the first outcome stands.
CompleteRun(o) ==
    runs' = [runs EXCEPT ![working.session] = IF @ = "OPEN" THEN o ELSE @]

Orderable == resolved.quantity \in Catalog[resolved.sku].least .. Catalog[resolved.sku].most

\* evaluatePurchase on the quote for the request, both stored.
Evaluated(o) ==
    evaluations' = [evaluations EXCEPT ![turn] =
        [outcome |-> o, session |-> working.session, sku |-> resolved.sku,
         quantity |-> resolved.quantity, days |-> resolved.days]]

\* Out of domain, without a quote, or without an evaluation: the run is over.
GivesUp(o) ==
    /\ \/ o = "OUT_OF_DOMAIN" /\ resolved.search = "OUT_OF_DOMAIN"
       \/ o = "REJECTED_BY_POLICY" /\ resolved.search = "RESOLVED"   \* range, or expired
       \/ o = "TOOL_FAILURE" /\ resolved.search = "RESOLVED" /\ Orderable
    /\ CompleteRun(o)
    /\ UNCHANGED <<evaluations, purchases>>

AsksWhich == resolved.search = "AMBIGUOUS" /\ UNCHANGED coreVars

Evaluates(o) ==
    /\ resolved.search = "RESOLVED"
    /\ Orderable
    /\ Evaluated(o)
    /\ IF o = "REJECTED" THEN CompleteRun("REJECTED_BY_POLICY") ELSE UNCHANGED runs
    /\ UNCHANGED purchases

\* Nothing to decide: the judge hears why, and may try again.
Explains ==
    /\ call = "utterance"
    /\ AsksWhich \/ (\E o \in {"OUT_OF_DOMAIN", "REJECTED_BY_POLICY", "TOOL_FAILURE"} : GivesUp(o))
       \/ Evaluates("REJECTED")
    /\ Reply("listening", working, {})

\* Mutant: an offer is kept in the attributes only if there is none yet.
OffersFirst ==
    /\ call = "utterance"
    /\ Evaluates("ACCEPTED")
    /\ Reply("listening",
             IF working.evaluation = None
             THEN [working EXCEPT !.evaluation = turn, !.token = turn] ELSE working,
             {turn})

\* "Shall I create the purchase request?"
Offers ==
    /\ call = "utterance"
    /\ Evaluates("ACCEPTED")
    /\ Reply("listening", [working EXCEPT !.evaluation = turn, !.token = turn], {turn})

NeedsHuman ==
    /\ call = "utterance"
    /\ Evaluates("HUMAN_REVIEW_REQUIRED")
    /\ call' = "escalate"
    /\ UNCHANGED <<present, turn, said, resolved, attributes, working, offers>>

\* It throws: before anything, with an evaluation stored and the run open, or
\* with all of it stored and only the audit missing.
UtteranceFails ==
    /\ call = "utterance"
    /\ \/ UNCHANGED coreVars
       \/ resolved.search = "RESOLVED" /\ Orderable /\ Evaluated("REJECTED") /\ UNCHANGED <<runs, purchases>>
       \/ \E o \in EvaluationOutcome : Evaluates(o)
       \/ \E o \in {"OUT_OF_DOMAIN", "REJECTED_BY_POLICY", "TOOL_FAILURE"} : GivesUp(o)
    /\ Fails
-----------------------------------------------------------------------------
(* escalate and confirm; each of them closes the conversation *)

Escalate ==
    /\ call = "escalate"
    /\ CompleteRun("HUMAN_APPROVAL_REQUESTED") \/ UNCHANGED runs   \* refused: expired
    /\ UNCHANGED <<evaluations, purchases>>
    /\ Reply("Fulfilled", working, {}) \/ Fails

\* Mutant: a refusal is only noted, the run stays open.
DeclineNoted ==
    /\ call = "decline"
    /\ UNCHANGED coreVars
    /\ Reply("Fulfilled", working, {})

Decline ==
    /\ call = "decline"
    /\ CompleteRun("DECLINED_BY_USER")
    /\ UNCHANGED <<evaluations, purchases>>
    /\ Reply("Fulfilled", working, {})

\* What createPurchaseRequest compares with the stored evaluation.
Cleared ==
    /\ working.token = working.evaluation
    /\ evaluations[working.evaluation].outcome = "ACCEPTED"
    /\ evaluations[working.evaluation].session = working.session

\* The token has no purchase yet: the reply to one closed the conversation.
Buys ==
    /\ Cleared
    /\ purchases[working.token] = None
    /\ purchases' = [purchases EXCEPT ![working.token] = turn]

Spent == [working EXCEPT !.evaluation = None, !.token = None]

Confirm ==
    /\ call = "confirm"
    /\ \/ Buys /\ CompleteRun("PURCHASE_REQUEST_CREATED")
       \/ CompleteRun("REJECTED_BY_POLICY") /\ UNCHANGED purchases   \* not cleared, or lapsed
    /\ UNCHANGED evaluations
    /\ Reply("Fulfilled", Spent, {})

\* confirm throws: before anything, between the claim and complete, or after.
ConfirmFails ==
    /\ call \in {"confirm", "decline"}
    /\ \/ UNCHANGED <<runs, purchases>>
       \/ call = "decline" /\ CompleteRun("DECLINED_BY_USER") /\ UNCHANGED purchases
       \/ call = "confirm" /\ CompleteRun("REJECTED_BY_POLICY") /\ UNCHANGED purchases
       \/ call = "confirm" /\ Buys /\ UNCHANGED runs
       \/ call = "confirm" /\ Buys /\ CompleteRun("PURCHASE_REQUEST_CREATED")
    /\ UNCHANGED evaluations
    /\ Fails

Turn ==
    \/ Guarded \/ Silence \/ Yes \/ No \/ (\E s \in Sentences : Request(s))
    \/ StartSession \/ StartFails
    \/ Explains \/ Offers \/ NeedsHuman \/ UtteranceFails
    \/ Escalate \/ Decline \/ Confirm \/ ConfirmFails

ChannelNext == Turn \/ HangUp

ChannelSpec == ChannelInit /\ [][ChannelNext]_channelVars
-----------------------------------------------------------------------------
(* What must hold *)

\* An evaluation is of what the judge asked for: the item, the quantity and the
\* deadline of the sentence, in whatever order they were said, and the values
\* of the mission exactly where the sentence states none (interpretUtterance,
\* searchCatalog and the defaults of handleUtterance).
HeardAsSaid ==
    turn > 0 /\ evaluations[turn].outcome # "NONE" =>
        /\ evaluations[turn].sku = said.sku
        /\ evaluations[turn].quantity = Stated(said.quantity, Mission.quantity)
        /\ evaluations[turn].days = Stated(said.days, Mission.days)

\* "Yes" buys the last offer the judge heard in this conversation, once: not an
\* older one, not one that was evaluated but never spoken, and whatever was
\* rejected, misunderstood or lost in between (the attributes of the handler).
YesBuysLastOffer ==
    \A t \in Turns : purchases[t] # None =>
        /\ t \in offers
        /\ \A other \in offers : other <= t
        /\ \A other \in Turns : purchases[other] # None => other = t

\* A conversation is one run: it opens one procurement session, whatever fails
\* on the way, and when StockGuard itself ends it that run has an outcome,
\* unless it waited for a human and the escalation came too late.
CallIsOneRun ==
    /\ \A n, m \in Turns : runs[n] # "ABSENT" /\ runs[m] # "ABSENT" => n = m
    /\ call = "Fulfilled" =>
          \E n \in Turns :
             \/ runs[n] \notin {"ABSENT", "OPEN"}
             \/ runs[n] = "OPEN" /\ evaluations[turn].outcome = "HUMAN_REVIEW_REQUIRED"
=============================================================================
