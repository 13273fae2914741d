--------------------------- MODULE JudgeWalkthrough ---------------------------
(***************************************************************************)
(* The guided walkthrough of the demonstration (JudgeWalkthrough.tsx): a   *)
(* page of eight steps, whose four computing steps run the phases of the   *)
(* workflow in the browser.                                                *)
(*                                                                         *)
(* A phase is asynchronous: a flight carries what its closure captured and *)
(* writes to the page when it ends, whatever the user has done meanwhile   *)
(* (another step, another answer, a restart).  The final result is a       *)
(* function of the answer it was made for, so that answer stands for it.   *)
(*                                                                         *)
(* Every input that is built has a workflow id of its own.  An id is only  *)
(* ever compared with that of the supplier result on the page, which was   *)
(* put there with its input: sameRun tells whether that is still the one.  *)
(***************************************************************************)
EXTENDS ManagerEscalation

CONSTANTS
    Answers,   \* of the answers the page offers, those given
    Flights    \* bounds the phases in progress at a time

VARIABLES
    index,      \* the step on the screen
    completed,  \* the steps marked done
    phase,      \* idle, running or done; running disables the primary action
    data,       \* what the steps have produced
    flight      \* the phases in progress

walkthroughVars == <<index, completed, phase, data, flight>>

\* steps.ts
Steps == <<"shortage", "rfq", "contact", "offers", "policy", "noncompliance",
           "escalation", "proof">>
Computes == {"shortage", "contact", "escalation", "proof"}
Positions == 1 .. Len(Steps)

\* The answers the page offers.
ManagerOptions ==
    {"ACKNOWLEDGE_AND_START_HUMAN_SOURCING", "RETRY_APPROVED_SUPPLIERS_LATER",
     "ATTEMPT_POLICY_OVERRIDE", "DECLINE_ESCALATION"}

FinalResult(response) == RunJudgeEscalation(NoCompliantOffer, TRUE, response)

InitialData ==
    [input |-> FALSE, forecast |-> FALSE, supplierResult |-> FALSE, sameRun |-> FALSE,
     final |-> Nothing,
     response |-> "ATTEMPT_POLICY_OVERRIDE", verification |-> Nothing, tamper |-> Nothing]

Idle == [kind |-> "none", of |-> Nothing]
Flight == [kind : {"none", "contact", "escalation", "proof", "tamper"},
           of : Answers \cup {Nothing}]

ASSUME WalkthroughAssumption ==
    /\ "ATTEMPT_POLICY_OVERRIDE" \in Answers /\ Answers \subseteq ManagerOptions
    /\ Nothing \notin ManagerOptions /\ Nothing \notin BOOLEAN

WalkthroughTypeOK ==
    /\ index \in Positions
    /\ completed \subseteq {Steps[n] : n \in Positions}
    /\ phase \in {"idle", "running", "done"}
    /\ data \in [input : BOOLEAN, forecast : BOOLEAN, supplierResult : BOOLEAN,
                 sameRun : BOOLEAN, final : Answers \cup {Nothing}, response : Answers,
                 verification : BOOLEAN \cup {Nothing}, tamper : BOOLEAN \cup {Nothing}]
    /\ flight \in [Flights -> Flight]

WalkthroughInit ==
    /\ index = 1 /\ completed = {} /\ phase = "idle" /\ data = InitialData
    /\ flight = [f \in Flights |-> Idle]
-----------------------------------------------------------------------------
(* moving between steps *)

Step == Steps[index]
IsComplete == Step \in completed

\* A review step is complete as soon as it is reached.
Show(n) ==
    /\ index' = n
    /\ completed' = completed \cup ({Steps[n]} \ Computes)
    /\ UNCHANGED <<phase, data, flight>>

\* The button, or the right arrow.
Forward == index < Len(Steps) /\ IsComplete /\ Show(index + 1)

Back == index > 1 /\ Show(index - 1)

Rail(n) == n # index /\ (Steps[n] \in completed \/ n <= index) /\ Show(n)

Restart ==
    /\ data' = InitialData /\ completed' = {} /\ index' = 1 /\ phase' = "idle"
    /\ UNCHANGED flight

\* What if another answer left the marks of the old one?
SelectOnly(response) ==
    /\ Step = "escalation" /\ response # data.response
    /\ data' = [data EXCEPT !.response = response, !.final = Nothing,
                            !.verification = Nothing, !.tamper = Nothing]
    /\ UNCHANGED <<index, completed, phase, flight>>

SelectResponse(response) ==
    /\ Step = "escalation" /\ response # data.response
    /\ data' = [data EXCEPT !.response = response, !.final = Nothing,
                            !.verification = Nothing, !.tamper = Nothing]
    /\ completed' = completed \ {"escalation", "proof"}
    /\ UNCHANGED <<index, phase, flight>>
-----------------------------------------------------------------------------
(* runPrimaryAction: a click on the action of a computing step *)

\* The action of a step that ran is hidden; only the call can be made again.
Clicked(step) ==
    /\ Step = step /\ phase # "running"
    /\ step # "escalation" => ~ IsComplete

Starts(f, kind, of) ==
    /\ flight[f] = Idle
    /\ flight' = [flight EXCEPT ![f] = [kind |-> kind, of |-> of]]

\* The input is built anew, whatever supplier result a late phase has left.
DetectShortage ==
    /\ Clicked("shortage")
    /\ data' = [data EXCEPT !.input = TRUE, !.forecast = TRUE, !.sameRun = FALSE]
    /\ completed' = completed \cup {"shortage"}
    /\ UNCHANGED <<index, phase, flight>>

ContactSuppliers(f) ==
    /\ Clicked("contact") /\ Starts(f, "contact", Nothing)
    /\ phase' = "running"
    /\ UNCHANGED <<index, completed, data>>

\* A request that cannot be escalated throws: its flight carries no answer.
CallManager(f) ==
    /\ Clicked("escalation") /\ data.input /\ data.supplierResult
    /\ Starts(f, "escalation",
              IF Escalable(NoCompliantOffer, data.sameRun) THEN data.response ELSE Nothing)
    /\ phase' = "running"
    /\ UNCHANGED <<index, completed, data>>

\* "Supplier phase has not run yet"
CallManagerTooEarly ==
    /\ Clicked("escalation") /\ ~ (data.input /\ data.supplierResult)
    /\ phase' = "idle"
    /\ UNCHANGED <<index, completed, data, flight>>

\* Without a signed proof the action throws; StepsAreEarned shows that it is
\* never offered then.
VerifyProof(f) ==
    /\ Clicked("proof") /\ data.final # Nothing
    /\ Starts(f, "proof", data.final)
    /\ UNCHANGED <<index, completed, phase, data>>

\* tamperWithProof
Tamper(f) ==
    /\ Step = "proof" /\ data.final # Nothing
    /\ Starts(f, "tamper", data.final)
    /\ UNCHANGED <<index, completed, phase, data>>
-----------------------------------------------------------------------------
(* the end of a phase *)

Ends(f, kind) == flight[f].kind = kind /\ flight' = [flight EXCEPT ![f] = Idle]
Proof(response) == FinalResult(response).signed
MarkDone(step) == completed' = completed \cup {step}

ContactEnds(f) ==
    /\ Ends(f, "contact") /\ MarkDone("contact") /\ phase' = "done"
    /\ data' = [data EXCEPT !.input = TRUE, !.supplierResult = TRUE, !.sameRun = TRUE]
    /\ UNCHANGED index

EscalationEnds(f) ==
    /\ flight[f].of # Nothing /\ Ends(f, "escalation") /\ MarkDone("escalation") /\ phase' = "done"
    /\ data' = [data EXCEPT !.final = flight[f].of,
                            !.verification = Nothing, !.tamper = Nothing]
    /\ UNCHANGED index

ProofEnds(f) ==
    /\ Ends(f, "proof") /\ MarkDone("proof")
    /\ data' = [data EXCEPT !.verification = VerifyDecisionProof(Proof(flight[f].of))]
    /\ UNCHANGED <<index, phase>>

Tampered(proof) == [proof EXCEPT !.payload.decided.orderValue = 999999]

TamperEnds(f) ==
    /\ Ends(f, "tamper")
    /\ data' = [data EXCEPT !.tamper = VerifyDecisionProof(Tampered(Proof(flight[f].of)))]
    /\ UNCHANGED <<index, completed, phase>>

\* The phase throws: the result is of another run than the input, or the
\* cryptography of the browser refuses.
FlightFails(f) ==
    /\ flight[f] # Idle /\ flight' = [flight EXCEPT ![f] = Idle]
    /\ phase' = IF flight[f].kind = "tamper" THEN phase ELSE "idle"
    /\ UNCHANGED <<index, completed, data>>

WalkthroughNext ==
    \/ Forward \/ Back \/ Restart \/ \E n \in Positions : Rail(n)
    \/ \E response \in Answers : SelectResponse(response)
    \/ DetectShortage \/ CallManagerTooEarly
    \/ \E f \in Flights :
          \/ ContactSuppliers(f) \/ CallManager(f) \/ VerifyProof(f) \/ Tamper(f)
          \/ ContactEnds(f) \/ EscalationEnds(f) \/ ProofEnds(f) \/ TamperEnds(f)
          \/ FlightFails(f)

WalkthroughSpec == WalkthroughInit /\ [][WalkthroughNext]_walkthroughVars
-----------------------------------------------------------------------------
(* What the walkthrough promises *)

\* Whatever is clicked while a phase is in progress, a step is marked done
\* exactly as long as its product is there, a verification is shown only with
\* its step done, the verification is offered only with a proof to verify, and
\* the page is busy only while a phase is in progress, so never for ever.
StepsAreEarned ==
    /\ "shortage" \in completed => data.forecast /\ data.input
    /\ "contact" \in completed <=> data.supplierResult
    /\ data.supplierResult => data.input
    /\ "escalation" \in completed <=> data.final # Nothing
    /\ data.verification # Nothing => "proof" \in completed
    /\ Step = "proof" /\ ~ IsComplete => data.final # Nothing
    /\ phase = "running" => \E f \in Flights : flight[f].kind \in {"contact", "escalation"}

FollowsTable(history) ==
    \A n \in 1 .. Len(history) - 1 : history[n + 1] \in Transitions[history[n]]

\* Ways to change a signed record: what was decided, the end of the trail, the
\* trail hashed anew, all of it hashed anew but for the signature, and the key
\* the signature is checked against.
Changed(proof, chain) ==
    LET payload == [proof.payload EXCEPT !.auditChain = chain, !.auditRootHash = Root(chain)]
    IN  [proof EXCEPT !.payload = payload, !.payloadHash = Sha256(payload)]
Edits(proof) ==
    LET chain == proof.payload.auditChain
        decided == "effectiveDecision"
    IN  {[proof EXCEPT !.payload.decided.escalation[decided] = "REQUEST_WRITTEN_REPORT"],
         [proof EXCEPT !.payload.auditChain = SubSeq(@, 1, Len(@) - 1)],
         [proof EXCEPT !.payload.auditChain = CreateAuditChain(<<"WORKFLOW_STARTED">>)],
         Changed(proof, SubSeq(chain, 1, Len(chain) - 1)),
         [proof EXCEPT !.publicKey = KeyFor(Genesis)]}

\* What the page says of a proof is true: the record verifies, the tampered copy
\* does not, nor does any other change short of a new signature under a key of
\* its own.  The record it vouches for was earned by a run that kept to the table
\* of states, ordered nothing, and gives no effect to a spoken request for a
\* restricted action.
VerdictsHold ==
    /\ data.verification # Nothing => data.verification
    /\ data.tamper # Nothing => ~ data.tamper
    /\ data.final # Nothing =>
          LET result == FinalResult(data.final) IN
          /\ VerifyDecisionProof(result.signed)
          /\ \A edited \in Edits(result.signed) : ~ VerifyDecisionProof(edited)
          /\ FollowsTable(result.history) /\ result.order = Nothing
          /\ [n \in 1 .. Len(result.timeline) |-> result.signed.payload.auditChain[n].payload]
                = result.timeline
          /\ result.escalation.restricted # {} =>
                result.escalation.effectiveDecision \in
                    {"REQUIRES_AUTHENTICATED_HUMAN_APPROVAL", "DECLINE_ESCALATION"}
-----------------------------------------------------------------------------
(* What the repository says and the code does not do *)

\* "Label once the action has been performed." (steps.ts, of "Proof verified").
ProofVerifiedIsVerified == "proof" \in completed => data.verification # Nothing
=============================================================================
