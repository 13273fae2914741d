-------------------------- MODULE JudgeChannelsProofs --------------------------
(***************************************************************************)
(* Proofs about the two channels on which a judge talks to the procurement *)
(* orchestrator: JudgePortal, for any number of runs, clicks and voice     *)
(* sessions, and VoiceChannel, for any number of turns, sentences and      *)
(* items of the catalog, whatever fails on the way.                        *)
(***************************************************************************)
EXTENDS JudgePortal, VoiceChannel, TLAPS

-----------------------------------------------------------------------------
(* The page: a purchase made from it is the one the judge asked for *)

\* A run has an evaluation only after its turn, and it has one turn.
EvaluatedOnce == \A r \in Runs : run[r] \in {"unclicked", "start", "say"} => evaluation[r] = "NONE"

\* A decision under way has captured what it needs.
ClicksCarry == \A d \in Decisions : act[d] = "decide" => click[d] \in Clicks

PageInv == PageTypeOK /\ EvaluatedOnce /\ ClicksCarry /\ PurchaseIsShown

LEMMA PageInitInv == PageInit => PageInv
BY DEF PageInit, PageInv, PageTypeOK, EvaluatedOnce, ClicksCarry, PurchaseIsShown

\* Steps that touch neither the runs nor the decisions.
LEMMA TextUntouched ==
    ASSUME PageInv, UNCHANGED <<run, act, click, started, evaluation, purchase>>,
           phase' \in {phase, "idle"}, shown' \in {shown, Unset}, channel' \in {channel, Unset},
           session' \in Voices \cup {session, Unset}
    PROVE  PageInv'
<1>1. PageTypeOK'
  BY DEF PageInv, PageTypeOK
<1>2. EvaluatedOnce' /\ ClicksCarry' /\ PurchaseIsShown'
  BY DEF PageInv, EvaluatedOnce, ClicksCarry, PurchaseIsShown
<1> QED BY <1>1, <1>2 DEF PageInv

LEMMA RunsKeep ==
    ASSUME PageInv, NEW r \in Runs,
           Run(r) \/ Started(r) \/ Reported(r) \/ RunThrows(r)
    PROVE  PageInv'
<1>1. /\ UNCHANGED <<act, click, evaluation, purchase>>
      /\ \E step \in {"start", "say", "ended"} : run' = [run EXCEPT ![r] = step]
      /\ evaluation[r] = "NONE" \/ run'[r] = "ended"
  <2>1. CASE Run(r)
    BY <2>1 DEF Run, RunGoes, PageInv, EvaluatedOnce
  <2>2. CASE Started(r)
    BY <2>2 DEF Started, RunGoes, PageInv, EvaluatedOnce
  <2>3. CASE Reported(r)
    BY <2>3 DEF Reported, RunGoes, PageInv, PageTypeOK
  <2>4. CASE RunThrows(r)
    BY <2>4 DEF RunThrows, RunGoes, PageInv, PageTypeOK
  <2> QED BY <2>1, <2>2, <2>3, <2>4
<1>2. /\ phase' \in {phase, "running", "done", "idle"} /\ shown' = shown
      /\ channel' \in {channel, r} /\ session' \in {session, r}
      /\ started' \in {started, started \cup {r}}
  BY DEF Run, Started, Reported, RunThrows
<1>3. PageTypeOK'
  BY <1>1, <1>2 DEF PageInv, PageTypeOK
<1>4. EvaluatedOnce'
  BY <1>1 DEF PageInv, PageTypeOK, EvaluatedOnce
<1>5. ClicksCarry' /\ PurchaseIsShown'
  BY <1>1 DEF PageInv, ClicksCarry, PurchaseIsShown
<1> QED BY <1>3, <1>4, <1>5 DEF PageInv

LEMMA SaidKeeps ==
    ASSUME PageInv, NEW r \in Runs, NEW o \in Outcomes \cup {"NONE"}, Said(r, o)
    PROVE  PageInv'
<1>1. /\ UNCHANGED <<channel, session, act, click, started, purchase>>
      /\ shown' = r /\ evaluation' = [evaluation EXCEPT ![r] = o]
      /\ run' \in {[run EXCEPT ![r] = "ended"], [run EXCEPT ![r] = "report"]}
      /\ phase' \in {phase, "awaiting-decision"}
  BY DEF Said, RunGoes
<1>2. evaluation[r] = "NONE" /\ purchase[r] = Unset
  BY DEF Said, PageInv, EvaluatedOnce, PurchaseIsShown
<1>3. PageTypeOK'
  BY <1>1 DEF PageInv, PageTypeOK
<1>4. EvaluatedOnce'
  BY <1>1 DEF PageInv, PageTypeOK, EvaluatedOnce
<1>5. ClicksCarry'
  BY <1>1 DEF PageInv, ClicksCarry
<1>6. PurchaseIsShown'
  BY <1>1, <1>2 DEF PageInv, PageTypeOK, PurchaseIsShown
<1> QED BY <1>3, <1>4, <1>5, <1>6 DEF PageInv

LEMMA DecideKeeps ==
    ASSUME PageInv, NEW d \in Decisions, NEW accepted \in BOOLEAN, Decide(d, accepted)
    PROVE  PageInv'
<1> DEFINE c == [channel |-> channel, session |-> session, turn |-> shown,
                 accepted |-> accepted]
<1>1. c \in Clicks
  BY DEF Decide, PageInv, PageTypeOK, Clicks
<1>2. /\ act' = [act EXCEPT ![d] = "decide"] /\ click' = [click EXCEPT ![d] = c]
      /\ phase' = "running"
      /\ UNCHANGED <<shown, channel, session, run, started, evaluation, purchase>>
  BY DEF Decide
<1> HIDE DEF c
<1>3. PageTypeOK'
  BY <1>1, <1>2 DEF PageInv, PageTypeOK
<1>4. EvaluatedOnce' /\ PurchaseIsShown'
  BY <1>2 DEF PageInv, EvaluatedOnce, PurchaseIsShown
<1>5. ClicksCarry'
  BY <1>1, <1>2 DEF PageInv, PageTypeOK, ClicksCarry
<1> QED BY <1>3, <1>4, <1>5 DEF PageInv

LEMMA DecidedKeeps ==
    ASSUME PageInv, NEW d \in Decisions, Decided(d)
    PROVE  PageInv'
<1> DEFINE c == click[d]
<1>1. c \in Clicks
  BY DEF Decided, PageInv, ClicksCarry
<1>2. /\ act' = [act EXCEPT ![d] = "report"]
      /\ UNCHANGED <<phase, shown, channel, session, run, click, started, evaluation>>
  BY DEF Decided
<1>3. Known(c) /\ (Confirms(c) \/ Resolves(c))
  BY DEF Decided
<1> HIDE DEF c
<1>4. \/ purchase' = purchase
      \/ /\ purchase' = [purchase EXCEPT ![c.session] = c]
         /\ c.session = c.channel /\ c.turn = c.channel /\ c.accepted
         /\ evaluation[c.turn] = "ACCEPTED"
  BY <1>3 DEF Known, Confirms, Resolves, Purchasable
<1>5. c.session = c.channel => c.session \in Runs
  BY <1>1 DEF Clicks
<1>6. PageTypeOK'
  BY <1>1, <1>2, <1>4 DEF PageInv, PageTypeOK
<1>7. EvaluatedOnce'
  BY <1>2 DEF PageInv, EvaluatedOnce
<1>8. ClicksCarry'
  BY <1>2 DEF PageInv, PageTypeOK, ClicksCarry
<1>9. PurchaseIsShown'
  BY <1>2, <1>4, <1>5 DEF PageInv, PageTypeOK, PurchaseIsShown
<1> QED BY <1>6, <1>7, <1>8, <1>9 DEF PageInv

LEMMA ActEndsKeeps ==
    ASSUME PageInv, NEW d \in Decisions, DecisionReported(d) \/ DecisionThrows(d)
    PROVE  PageInv'
<1>1. /\ act' = [act EXCEPT ![d] = "ended"] /\ click' = [click EXCEPT ![d] = Unset]
      /\ phase' \in {"done", "awaiting-decision"}
      /\ UNCHANGED <<shown, channel, session, run, started, evaluation, purchase>>
  BY DEF DecisionReported, DecisionThrows, ActEnds
<1>2. PageTypeOK'
  BY <1>1 DEF PageInv, PageTypeOK
<1>3. EvaluatedOnce' /\ PurchaseIsShown'
  BY <1>1 DEF PageInv, EvaluatedOnce, PurchaseIsShown
<1>4. ClicksCarry'
  BY <1>1 DEF PageInv, PageTypeOK, ClicksCarry
<1> QED BY <1>2, <1>3, <1>4 DEF PageInv

\* The voice channel writes to nothing of the runs but the session.
LEMMA VoiceKeeps ==
    ASSUME PageInv, NEW v \in Voices, VoiceGoesOn(v) \/ StartVoice(v)
    PROVE  PageInv'
<1>1. /\ UNCHANGED textVars /\ session' \in Voices \cup {session, Unset}
  BY DEF VoiceGoesOn, MicrophoneRefused, AskBackend, NotAsked, VoiceRefused, VoiceReady,
         Joined, JoinFails, Connected, HungUp, Stopped, StartVoice
<1> QED BY <1>1, TextUntouched DEF textVars

LEMMA SignInKeeps ==
    ASSUME PageInv, SubmitAccessCode \/ SignInAnswered \/ SignOut \/ End \/ Reset
    PROVE  PageInv'
<1>1. CASE SubmitAccessCode \/ SignInAnswered \/ SignOut \/ End
  BY <1>1, TextUntouched DEF SubmitAccessCode, SignInAnswered, SignOut, End, textVars
<1>2. CASE Reset
  BY <1>2, TextUntouched DEF Reset
<1> QED BY <1>1, <1>2

LEMMA PageStepInv == PageInv /\ [PageNext]_pageVars => PageInv'
<1> SUFFICES ASSUME PageInv, [PageNext]_pageVars PROVE PageInv'
  OBVIOUS
<1>1. CASE Settles
  <2>1. ASSUME NEW r \in Runs, Started(r) \/ Reported(r) \/ RunThrows(r) PROVE PageInv'
    BY <2>1, RunsKeep
  <2>2. ASSUME NEW r \in Runs, NEW o \in Outcomes \cup {"NONE"}, Said(r, o) PROVE PageInv'
    BY <2>2, SaidKeeps
  <2>3. ASSUME NEW d \in Decisions, Decided(d) PROVE PageInv'
    BY <2>3, DecidedKeeps
  <2>4. ASSUME NEW d \in Decisions, DecisionReported(d) \/ DecisionThrows(d) PROVE PageInv'
    BY <2>4, ActEndsKeeps
  <2> QED BY <1>1, <2>1, <2>2, <2>3, <2>4 DEF Settles
<1>2. CASE Click
  <2>1. ASSUME NEW r \in Runs, Run(r) PROVE PageInv'
    BY <2>1, RunsKeep
  <2>2. ASSUME NEW d \in Decisions, NEW accepted \in BOOLEAN, Decide(d, accepted) PROVE PageInv'
    BY <2>2, DecideKeeps
  <2>3. ASSUME NEW v \in Voices, StartVoice(v) PROVE PageInv'
    BY <2>3, VoiceKeeps
  <2> QED BY <1>2, <2>1, <2>2, <2>3, SignInKeeps DEF Click
<1>3. CASE SignInAnswered
  BY <1>3, SignInKeeps
<1>4. ASSUME NEW v \in Voices, VoiceGoesOn(v) PROVE PageInv'
  BY <1>4, VoiceKeeps
<1>5. CASE UNCHANGED pageVars
  BY <1>5, TextUntouched DEF pageVars, textVars
<1> QED BY <1>1, <1>2, <1>3, <1>4, <1>5 DEF PageNext

\* The page's types hold and a purchase request made from the page is the one
\* the judge asked for on the result that was on the screen: JudgePortalPanel's
\* handlers may interleave in any order, with any number of runs, decisions and
\* voice sessions.
THEOREM PurchaseIsAlwaysShown == PageSpec => []PurchaseIsShown
<1>1. PageInv => PurchaseIsShown
  BY DEF PageInv
<1> QED BY PageInitInv, PageStepInv, <1>1, PTL DEF PageSpec

-----------------------------------------------------------------------------
(* The line: what a conversation remembers between its turns *)

Closed == {"Fulfilled", "Failed"}
Thinking == {"start", "utterance", "escalate", "confirm", "decline"}

\* The session of the attributes is the only run there is.
RunIs(s) == \A n \in Turns : runs[n] # "ABSENT" <=> n = s

\* The token of the attributes is the last offer the judge heard.
Heard(t) ==
    IF t = None THEN offers = {}
    ELSE t \in offers /\ \A other \in offers : other <= t

LineTypes ==
    /\ call \in {"listening"} \cup Thinking \cup Closed
    /\ present \in BOOLEAN
    /\ turn \in 0 .. MaxTurns
    /\ attributes \in Attributes /\ working \in Attributes
    /\ DOMAIN runs = Turns /\ DOMAIN evaluations = Turns
    /\ purchases \in [Turns -> Turns \cup {None}]

\* Nothing is called after a turn that was not taken yet.
Minted ==
    /\ call \in Thinking => turn > 0
    /\ \A n \in Turns : n > turn => runs[n] = "ABSENT" /\ evaluations[n].outcome = "NONE"
    /\ \A n \in offers : n \in 1 .. turn

\* What the turn works on, and what an escalation has found.
TurnKnows ==
    /\ call \in {"start", "utterance"} => said \in Sentences /\ resolved = Meaning[said]
    /\ call = "escalate" => evaluations[turn].outcome = "HUMAN_REVIEW_REQUIRED"

\* At most one run, and what the attributes say of it while the line is open.
RunKnown ==
    /\ \A n, m \in Turns : runs[n] # "ABSENT" /\ runs[m] # "ABSENT" => n = m
    /\ call = "listening" => RunIs(attributes.session)
    /\ call \in Thinking => RunIs(working.session)
    /\ call \in Thinking => (call = "start" <=> working.session = None)

\* No purchase while the line is open, and the offer a "yes" would buy.
OfferKnown ==
    /\ call \notin Closed => \A n \in Turns : purchases[n] = None
    /\ call = "listening" /\ present => Heard(attributes.token)
    /\ call \in Thinking => Heard(working.token)
    /\ call = "confirm" => working.token # None

\* An evaluation made in this turn is of what was understood of its sentence.
EvaluationKnown ==
    turn > 0 /\ evaluations[turn].outcome # "NONE" =>
        /\ said \in Sentences /\ resolved = Meaning[said] /\ resolved.search = "RESOLVED"
        /\ evaluations[turn].sku = resolved.sku
        /\ evaluations[turn].quantity = resolved.quantity
        /\ evaluations[turn].days = resolved.days

LineInv ==
    /\ LineTypes /\ Minted /\ TurnKnows /\ RunKnown /\ OfferKnown /\ EvaluationKnown
    /\ YesBuysLastOffer /\ CallIsOneRun

LEMMA LineInitInv == ChannelInit => LineInv
<1> SUFFICES ASSUME ChannelInit PROVE LineInv
  OBVIOUS
<1>1. LineTypes /\ Minted /\ TurnKnows /\ EvaluationKnown
  BY ChannelAssumption DEF ChannelInit, LineTypes, Minted, TurnKnows, EvaluationKnown, Attributes,
     NoAttributes, NoEvaluation, Thinking, Closed, Turns, None
<1>2. RunKnown /\ OfferKnown /\ YesBuysLastOffer /\ CallIsOneRun
  BY DEF ChannelInit, RunKnown, OfferKnown, YesBuysLastOffer, CallIsOneRun, RunIs, Heard,
     NoAttributes, Thinking, Closed, Turns, None
<1> QED BY <1>1, <1>2 DEF LineInv

-----------------------------------------------------------------------------
(* A turn reaches the handler *)

LEMMA TakeKeeps ==
    ASSUME LineInv, NEW s, NEW understood,
           NEW step \in {"listening", "Failed", "start", "utterance", "confirm", "decline"},
           Take(s, understood, step),
           step \in {"start", "utterance"} => s \in Sentences /\ understood = Meaning[s],
           step \in Thinking => (step = "start" <=> attributes.session = None),
           step = "confirm" => attributes.token # None
    PROVE  LineInv'
<1>1. /\ call = "listening" /\ present /\ turn' = turn + 1 /\ turn' \in 1 .. MaxTurns
      /\ said' = s /\ resolved' = understood /\ working' = attributes /\ call' = step
      /\ UNCHANGED <<present, attributes, runs, evaluations, purchases, offers>>
  BY ChannelAssumption DEF Take, coreVars, LineInv, LineTypes
<1>2. LineTypes' /\ Minted'
  BY <1>1, ChannelAssumption DEF LineInv, LineTypes, Minted, Turns, Thinking, Closed
<1>3. evaluations'[turn'].outcome = "NONE"
  BY <1>1 DEF LineInv, LineTypes, Minted, Turns
<1>4. TurnKnows' /\ EvaluationKnown'
  BY <1>1, <1>3 DEF TurnKnows, EvaluationKnown
<1>5. RunKnown'
  BY <1>1 DEF LineInv, RunKnown, RunIs, Thinking
<1>6. OfferKnown'
  BY <1>1 DEF LineInv, OfferKnown, Heard, Thinking, Closed
<1>7. YesBuysLastOffer' /\ CallIsOneRun'
  BY <1>1 DEF LineInv, YesBuysLastOffer, CallIsOneRun, OfferKnown, Closed
<1> QED BY <1>2, <1>4, <1>5, <1>6, <1>7 DEF LineInv

LEMMA TurnsKeep ==
    ASSUME LineInv,
           Guarded \/ Silence \/ Yes \/ No \/ (\E s \in Sentences : Request(s))
    PROVE  LineInv'
<1>1. CASE Guarded
  BY <1>1, TakeKeeps DEF Guarded, Thinking
<1>2. CASE Silence
  BY <1>2, TakeKeeps DEF Silence, Thinking
<1>3. CASE Yes
  BY <1>3, TakeKeeps DEF Yes, NothingToConfirm, Thinking
<1>4. CASE No
  BY <1>4, TakeKeeps DEF No, NothingToConfirm, Thinking
<1>5. ASSUME NEW s \in Sentences, Request(s) PROVE LineInv'
  BY <1>5, TakeKeeps DEF Request, Thinking
<1> QED BY <1>1, <1>2, <1>3, <1>4, <1>5

LEMMA HangUpKeeps == ASSUME LineInv, HangUp PROVE LineInv'
<1>1. /\ present' = FALSE
      /\ UNCHANGED <<call, turn, said, resolved, attributes, working, runs, evaluations,
                     purchases, offers>>
  BY DEF HangUp, coreVars
<1>2. LineTypes' /\ Minted' /\ TurnKnows' /\ EvaluationKnown'
  BY <1>1 DEF LineInv, LineTypes, Minted, TurnKnows, EvaluationKnown
<1>3. RunKnown' /\ OfferKnown' /\ YesBuysLastOffer' /\ CallIsOneRun'
  BY <1>1 DEF LineInv, RunKnown, RunIs, OfferKnown, Heard, YesBuysLastOffer, CallIsOneRun
<1> QED BY <1>2, <1>3 DEF LineInv

-----------------------------------------------------------------------------
(* startSession *)

LEMMA StartKeeps == ASSUME LineInv, StartSession \/ StartFails PROVE LineInv'
<1>1. /\ call = "start" /\ turn \in Turns /\ working.session = None
      /\ \A n \in Turns : runs[n] = "ABSENT"
      /\ UNCHANGED <<present, turn, said, resolved, attributes, evaluations, purchases, offers>>
  BY DEF StartSession, StartFails, Fails, LineInv, LineTypes, Minted, RunKnown, RunIs, Thinking,
     Turns, None
<1>2. \/ call' = "utterance" /\ Opened /\ working' = [working EXCEPT !.session = turn]
      \/ call' = "Failed" /\ (Opened \/ UNCHANGED runs) /\ UNCHANGED working
  BY DEF StartSession, StartFails, Fails
<1>3. /\ DOMAIN runs' = Turns
      /\ \A n \in Turns : n # turn => runs'[n] = "ABSENT"
      /\ call' = "utterance" => runs'[turn] = "OPEN"
  BY <1>1, <1>2 DEF Opened, LineInv, LineTypes
<1>4. /\ working' \in Attributes /\ working'.token = working.token
      /\ call' = "utterance" => working'.session = turn
  BY <1>1, <1>2 DEF LineInv, LineTypes, Attributes
<1>5. LineTypes' /\ Minted'
  BY <1>1, <1>2, <1>3, <1>4 DEF LineInv, LineTypes, Minted, Thinking, Closed, Turns
<1>6. TurnKnows' /\ EvaluationKnown'
  BY <1>1, <1>2 DEF LineInv, TurnKnows, EvaluationKnown
<1>7. RunKnown'
  BY <1>1, <1>2, <1>3, <1>4 DEF RunKnown, RunIs, Thinking, Turns, None
<1>8. OfferKnown' /\ YesBuysLastOffer'
  BY <1>1, <1>2, <1>4 DEF LineInv, OfferKnown, Heard, YesBuysLastOffer, Thinking, Closed
<1>9. CallIsOneRun'
  BY <1>1, <1>2, <1>3 DEF CallIsOneRun
<1> QED BY <1>5, <1>6, <1>7, <1>8, <1>9 DEF LineInv

-----------------------------------------------------------------------------
(* What the methods of the core store *)

\* Only the outcome of a run that exists may change.
RunsKept == DOMAIN runs' = Turns /\ \A n \in Turns : runs'[n] = "ABSENT" <=> runs[n] = "ABSENT"

LEMMA RunCompleted ==
    ASSUME LineInv, call \in Thinking \ {"start"}, NEW o, o \notin {"ABSENT", "OPEN"}, CompleteRun(o)
    PROVE  /\ RunsKept
           /\ working.session \in Turns
           /\ runs'[working.session] \notin {"ABSENT", "OPEN"}
<1>1. working.session \in Turns /\ runs[working.session] # "ABSENT" /\ DOMAIN runs = Turns
  BY DEF LineInv, LineTypes, RunKnown, RunIs, Attributes, Thinking
<1>2. runs' = [runs EXCEPT ![working.session] = IF runs[working.session] = "OPEN" THEN o ELSE runs[working.session]]
  BY DEF CompleteRun
<1> QED BY <1>1, <1>2 DEF RunsKept

LEMMA Evaluation ==
    ASSUME LineInv, call = "utterance", UNCHANGED <<turn, said, resolved>>,
           \/ UNCHANGED evaluations
           \/ resolved.search = "RESOLVED" /\ \E o \in EvaluationOutcome : Evaluated(o)
    PROVE  /\ DOMAIN evaluations' = Turns
           /\ \A n \in Turns : n > turn => evaluations'[n].outcome = "NONE"
           /\ EvaluationKnown'
<1>1. CASE UNCHANGED evaluations
  BY <1>1 DEF LineInv, LineTypes, Minted, EvaluationKnown
<1>2. ASSUME resolved.search = "RESOLVED", NEW o \in EvaluationOutcome, Evaluated(o)
      PROVE  /\ DOMAIN evaluations' = Turns
             /\ \A n \in Turns : n > turn => evaluations'[n].outcome = "NONE"
             /\ EvaluationKnown'
  <2>1. turn \in Turns /\ said \in Sentences /\ resolved = Meaning[said]
    BY DEF LineInv, LineTypes, Minted, TurnKnows, Thinking, Turns
  <2> DEFINE e == [outcome |-> o, session |-> working.session, sku |-> resolved.sku,
                   quantity |-> resolved.quantity, days |-> resolved.days]
  <2>2. evaluations' = [evaluations EXCEPT ![turn] = e]
    BY <1>2 DEF Evaluated
  <2>3. e.sku = resolved.sku /\ e.quantity = resolved.quantity /\ e.days = resolved.days
    OBVIOUS
  <2> HIDE DEF e
  <2>4. DOMAIN evaluations' = Turns /\ evaluations'[turn] = e
        /\ \A n \in Turns : n # turn => evaluations'[n] = evaluations[n]
    BY <2>1, <2>2 DEF LineInv, LineTypes
  <2>5. \A n \in Turns : n > turn => evaluations'[n].outcome = "NONE"
    BY <2>1, <2>4 DEF LineInv, Minted, Turns
  <2>6. EvaluationKnown'
    BY <1>2, <2>1, <2>3, <2>4 DEF EvaluationKnown
  <2> QED BY <2>4, <2>5, <2>6
<1> QED BY <1>1, <1>2

-----------------------------------------------------------------------------
(* handleUtterance *)

LEMMA GivesUpStores ==
    ASSUME LineInv, call = "utterance",
           \E o \in {"OUT_OF_DOMAIN", "REJECTED_BY_POLICY", "TOOL_FAILURE"} : GivesUp(o)
    PROVE  RunsKept /\ UNCHANGED <<evaluations, purchases>>
BY RunCompleted DEF GivesUp, Thinking

LEMMA EvaluatesStores ==
    ASSUME LineInv, call = "utterance", NEW o \in EvaluationOutcome, Evaluates(o)
    PROVE  /\ RunsKept /\ UNCHANGED purchases
           /\ resolved.search = "RESOLVED" /\ Evaluated(o)
<1>1. RunsKept
  BY RunCompleted DEF Evaluates, Thinking, RunsKept, LineInv, LineTypes
<1> QED BY <1>1 DEF Evaluates

\* What is common to the ends of a request that was understood.
LEMMA UtteranceStores ==
    ASSUME LineInv, Explains \/ Offers \/ NeedsHuman \/ UtteranceFails
    PROVE  /\ call = "utterance" /\ turn \in Turns
           /\ RunsKept
           /\ UNCHANGED <<present, turn, said, resolved, working, purchases>>
           /\ \/ UNCHANGED evaluations
              \/ resolved.search = "RESOLVED" /\ \E o \in EvaluationOutcome : Evaluated(o)
<1>1. /\ call = "utterance" /\ turn \in Turns
      /\ UNCHANGED <<present, turn, said, resolved, working>>
  BY DEF Explains, Offers, NeedsHuman, UtteranceFails, Reply, Fails, LineInv, LineTypes, Minted,
     Thinking, Turns
<1>2. CASE \E o \in EvaluationOutcome : Evaluates(o)
  BY <1>1, <1>2, EvaluatesStores
<1>3. CASE \E o \in {"OUT_OF_DOMAIN", "REJECTED_BY_POLICY", "TOOL_FAILURE"} : GivesUp(o)
  BY <1>1, <1>3, GivesUpStores
<1>4. CASE UNCHANGED coreVars
  BY <1>1, <1>4 DEF coreVars, RunsKept, LineInv, LineTypes
<1>5. CASE resolved.search = "RESOLVED" /\ Evaluated("REJECTED") /\ UNCHANGED <<runs, purchases>>
  BY <1>1, <1>5 DEF RunsKept, LineInv, LineTypes, EvaluationOutcome
<1> QED
  BY <1>2, <1>3, <1>4, <1>5
     DEF Explains, Offers, NeedsHuman, UtteranceFails, AsksWhich, EvaluationOutcome

LEMMA UtteranceKeeps ==
    ASSUME LineInv, Explains \/ Offers \/ NeedsHuman \/ UtteranceFails
    PROVE  LineInv'
<1>1. /\ call = "utterance" /\ turn \in Turns
      /\ RunsKept
      /\ UNCHANGED <<present, turn, said, resolved, working, purchases>>
  BY UtteranceStores
<1>2. /\ DOMAIN evaluations' = Turns
      /\ \A n \in Turns : n > turn => evaluations'[n].outcome = "NONE"
      /\ EvaluationKnown'
  BY UtteranceStores, Evaluation
<1>3. \/ call' = "listening" /\ attributes' = working /\ UNCHANGED offers
      \/ /\ call' = "listening"
         /\ attributes' = [working EXCEPT !.evaluation = turn, !.token = turn]
         /\ offers' = IF present THEN offers \cup {turn} ELSE offers
      \/ /\ call' = "escalate" /\ UNCHANGED <<attributes, offers>>
         /\ evaluations'[turn].outcome = "HUMAN_REVIEW_REQUIRED"
      \/ call' = "Failed" /\ UNCHANGED <<attributes, offers>>
  <2>1. CASE Explains
    BY <2>1 DEF Explains, Reply
  <2>2. CASE Offers
    BY <2>2 DEF Offers, Reply
  <2>3. CASE NeedsHuman
    BY <1>1, <2>3 DEF NeedsHuman, Evaluates, Evaluated, LineInv, LineTypes
  <2>4. CASE UtteranceFails
    BY <2>4 DEF UtteranceFails, Fails
  <2> QED BY <2>1, <2>2, <2>3, <2>4
<1>4. /\ attributes' \in Attributes
      /\ call' = "listening" => attributes'.session = working.session
      /\ call' = "listening" =>
            \/ attributes'.token = working.token /\ UNCHANGED offers
            \/ attributes'.token = turn /\ offers' = IF present THEN offers \cup {turn} ELSE offers
      /\ offers' \subseteq offers \cup {turn}
  BY <1>1, <1>3 DEF LineInv, LineTypes, Attributes
<1>5. LineTypes'
  BY <1>1, <1>2, <1>3, <1>4 DEF LineInv, LineTypes, RunsKept, Thinking, Closed
<1>6. Minted'
  <2>1. \A n \in Turns : n > turn' => runs'[n] = "ABSENT"
    BY <1>1 DEF LineInv, Minted, RunsKept
  <2>2. \A n \in offers' : n \in 1 .. turn'
    BY <1>1, <1>4 DEF LineInv, Minted, Turns
  <2> QED BY <1>1, <1>2, <2>1, <2>2 DEF Minted, Turns
<1>7. TurnKnows'
  BY <1>1, <1>3 DEF TurnKnows
<1>8. RunKnown'
  BY <1>1, <1>3, <1>4 DEF LineInv, RunKnown, RunIs, RunsKept, Thinking
<1>9. OfferKnown'
  <2>1. \A n \in Turns : purchases'[n] = None
    BY <1>1 DEF LineInv, OfferKnown, Closed
  <2>2. Heard(working.token)
    BY <1>1 DEF LineInv, OfferKnown, Thinking
  <2>3. call' = "listening" /\ present' => Heard(attributes.token)'
    <3>1. CASE attributes'.token = working.token /\ UNCHANGED offers
      BY <2>2, <3>1 DEF Heard
    <3>2. CASE attributes'.token = turn /\ present /\ offers' = offers \cup {turn}
      BY <1>1, <3>2 DEF Heard, LineInv, Minted, Turns, None
    <3> QED BY <1>1, <1>4, <3>1, <3>2
  <2>4. call' \in Thinking => call' = "escalate" /\ UNCHANGED offers
    BY <1>3 DEF Thinking
  <2>5. call' \in Thinking => Heard(working.token)'
    BY <1>1, <2>2, <2>4 DEF Heard
  <2> QED BY <1>3, <2>1, <2>3, <2>5 DEF OfferKnown
<1>10. YesBuysLastOffer'
  BY <1>1 DEF LineInv, OfferKnown, YesBuysLastOffer, Closed
<1>11. CallIsOneRun'
  BY <1>1, <1>3 DEF LineInv, CallIsOneRun, RunsKept
<1> QED BY <1>2, <1>5, <1>6, <1>7, <1>8, <1>9, <1>10, <1>11 DEF LineInv

-----------------------------------------------------------------------------
(* escalate, confirm and decline: each of them closes the conversation *)

\* The run has its outcome, or it waited for a human.
RunEnds ==
    \/ working.session \in Turns /\ runs'[working.session] \notin {"ABSENT", "OPEN"}
    \/ /\ call = "escalate" /\ UNCHANGED runs
       /\ working.session \in Turns /\ runs[working.session] # "ABSENT"

LEMMA ClosingKeeps ==
    ASSUME LineInv, call \in {"escalate", "confirm", "decline"}, call' \in Closed,
           UNCHANGED <<present, turn, said, resolved, working, evaluations, offers>>,
           attributes' \in Attributes,
           RunsKept,
           \/ UNCHANGED purchases
           \/ call = "confirm" /\ purchases' = [purchases EXCEPT ![working.token] = turn],
           call' = "Fulfilled" => RunEnds
    PROVE  LineInv'
<1>1. turn \in Turns /\ call \notin Closed
  BY DEF LineInv, LineTypes, Minted, Turns, Thinking, Closed
<1>2. LineTypes'
  <2>1. purchases' \in [Turns -> Turns \cup {None}]
    BY <1>1 DEF LineInv, LineTypes
  <2> QED BY <2>1 DEF LineInv, LineTypes, RunsKept
<1>3. Minted' /\ TurnKnows' /\ EvaluationKnown'
  BY DEF LineInv, Minted, TurnKnows, EvaluationKnown, RunsKept, Thinking, Closed
<1>4. RunKnown' /\ OfferKnown'
  BY DEF LineInv, RunKnown, OfferKnown, RunsKept, Thinking, Closed
<1>5. YesBuysLastOffer'
  <2>1. \A n \in Turns : purchases[n] = None
    BY <1>1 DEF LineInv, OfferKnown
  <2>2. CASE UNCHANGED purchases
    BY <2>1, <2>2 DEF YesBuysLastOffer
  <2>3. CASE call = "confirm" /\ purchases' = [purchases EXCEPT ![working.token] = turn]
    <3>1. working.token \in offers /\ \A other \in offers : other <= working.token
      BY <2>3 DEF LineInv, OfferKnown, Heard, Thinking
    <3>2. \A n \in Turns : purchases'[n] # None => n = working.token
      BY <2>1, <2>3 DEF LineInv, LineTypes
    <3> QED BY <3>1, <3>2 DEF YesBuysLastOffer
  <2> QED BY <2>2, <2>3
<1>6. CallIsOneRun'
  <2>1. \A n, m \in Turns : runs'[n] # "ABSENT" /\ runs'[m] # "ABSENT" => n = m
    BY DEF LineInv, RunKnown, RunsKept
  <2>2. call = "escalate" => evaluations'[turn'].outcome = "HUMAN_REVIEW_REQUIRED"
    BY DEF LineInv, TurnKnows
  <2> QED BY <2>1, <2>2 DEF CallIsOneRun, RunEnds
<1> QED BY <1>2, <1>3, <1>4, <1>5, <1>6 DEF LineInv

LEMMA OutcomeIsKnown ==
    ASSUME LineInv, call \in {"escalate", "confirm", "decline"},
           NEW o \in {"HUMAN_APPROVAL_REQUESTED", "DECLINED_BY_USER", "PURCHASE_REQUEST_CREATED",
                      "REJECTED_BY_POLICY"},
           CompleteRun(o)
    PROVE  RunsKept /\ RunEnds
BY RunCompleted DEF RunEnds, Thinking

LEMMA OutcomeIsOpen ==
    ASSUME LineInv, call \in {"escalate", "confirm", "decline"}, UNCHANGED runs
    PROVE  RunsKept /\ (call = "escalate" => RunEnds)
<1>1. working.session \in Turns /\ runs[working.session] # "ABSENT"
  BY DEF LineInv, LineTypes, RunKnown, RunIs, Attributes, Thinking
<1> QED BY <1>1 DEF RunsKept, RunEnds, LineInv, LineTypes

LEMMA Replies ==
    ASSUME LineInv, NEW a \in Attributes, Reply("Fulfilled", a, {}) \/ Fails
    PROVE  /\ call' \in Closed /\ attributes' \in Attributes
           /\ UNCHANGED <<present, turn, said, resolved, working, offers>>
BY DEF Reply, Fails, LineInv, LineTypes, Closed

LEMMA EscalateKeeps == ASSUME LineInv, Escalate PROVE LineInv'
<1>1. RunsKept /\ RunEnds
  BY OutcomeIsKnown, OutcomeIsOpen DEF Escalate
<1>2. working \in Attributes
  BY DEF LineInv, LineTypes
<1> QED BY <1>1, <1>2, Replies, ClosingKeeps DEF Escalate

LEMMA DeclineKeeps == ASSUME LineInv, Decline PROVE LineInv'
<1>1. RunsKept /\ RunEnds
  BY OutcomeIsKnown DEF Decline
<1>2. working \in Attributes
  BY DEF LineInv, LineTypes
<1> QED BY <1>1, <1>2, Replies, ClosingKeeps DEF Decline

LEMMA ConfirmKeeps == ASSUME LineInv, Confirm PROVE LineInv'
<1>1. RunsKept /\ RunEnds
  BY OutcomeIsKnown DEF Confirm
<1>2. Spent \in Attributes
  BY DEF LineInv, LineTypes, Spent, Attributes
<1>3. \/ UNCHANGED purchases
      \/ purchases' = [purchases EXCEPT ![working.token] = turn]
  BY DEF Confirm, Buys
<1> QED BY <1>1, <1>2, <1>3, Replies, ClosingKeeps DEF Confirm

LEMMA ConfirmFailsKeeps == ASSUME LineInv, ConfirmFails PROVE LineInv'
<1>1. RunsKept
  BY OutcomeIsKnown, OutcomeIsOpen DEF ConfirmFails
<1>2. working \in Attributes
  BY DEF LineInv, LineTypes
<1>3. \/ UNCHANGED purchases
      \/ call = "confirm" /\ purchases' = [purchases EXCEPT ![working.token] = turn]
  BY DEF ConfirmFails, Buys
<1>4. call' # "Fulfilled"
  BY DEF ConfirmFails, Fails
<1> QED BY <1>1, <1>2, <1>3, <1>4, Replies, ClosingKeeps DEF ConfirmFails

-----------------------------------------------------------------------------
(* What holds of every conversation *)

LEMMA LineStepInv == LineInv /\ [ChannelNext]_channelVars => LineInv'
<1> SUFFICES ASSUME LineInv, [ChannelNext]_channelVars PROVE LineInv'
  OBVIOUS
<1>1. CASE Turn
  BY <1>1, TurnsKeep, StartKeeps, UtteranceKeeps, EscalateKeeps, DeclineKeeps, ConfirmKeeps,
     ConfirmFailsKeeps DEF Turn
<1>2. CASE HangUp
  BY <1>2, HangUpKeeps
<1>3. CASE UNCHANGED channelVars
  <2>1. UNCHANGED <<call, present, turn, said, resolved, attributes, working, runs, evaluations,
                    purchases, offers>>
    BY <1>3 DEF channelVars, coreVars
  <2>2. LineTypes' /\ Minted' /\ TurnKnows' /\ EvaluationKnown'
    BY <2>1 DEF LineInv, LineTypes, Minted, TurnKnows, EvaluationKnown
  <2>3. RunKnown' /\ OfferKnown' /\ YesBuysLastOffer' /\ CallIsOneRun'
    BY <2>1 DEF LineInv, RunKnown, RunIs, OfferKnown, Heard, YesBuysLastOffer, CallIsOneRun
  <2> QED BY <2>2, <2>3 DEF LineInv
<1> QED BY <1>1, <1>2, <1>3 DEF ChannelNext

LEMMA LineInvariant == ChannelSpec => []LineInv
BY LineInitInv, LineStepInv, PTL DEF ChannelSpec

\* "Yes" buys the last offer the judge heard, once: the Lex attributes of a line
\* that is open always hold the token of that offer, however many turns were
\* rejected, misunderstood or lost since (lexVoiceHandler and its core).
THEOREM YesAlwaysBuysLastOffer == ChannelSpec => []YesBuysLastOffer
<1>1. LineInv => YesBuysLastOffer
  BY DEF LineInv
<1> QED BY LineInvariant, <1>1, PTL

\* A conversation opens one procurement session, whatever its turns are and
\* whichever of them fail, and the session has its outcome when StockGuard ends
\* the conversation, unless it was to wait for a human (startSession, complete).
THEOREM CallIsAlwaysOneRun == ChannelSpec => []CallIsOneRun
<1>1. LineInv => CallIsOneRun
  BY DEF LineInv
<1> QED BY LineInvariant, <1>1, PTL

\* The parser finds in every sentence what the judge means by it.
ParserUnderstands ==
    \A s \in Sentences : Meaning[s].search = "RESOLVED" =>
        /\ Meaning[s].sku = s.sku
        /\ Meaning[s].quantity = Stated(s.quantity, Mission.quantity)
        /\ Meaning[s].days = Stated(s.days, Mission.days)

\* If interpretUtterance and searchCatalog understand the sentences, every
\* evaluation is of what the judge asked for: no turn is evaluated on the item,
\* the quantity or the deadline of another one.
THEOREM HeardIfUnderstood == ParserUnderstands => (ChannelSpec => []HeardAsSaid)
<1> SUFFICES ASSUME ParserUnderstands PROVE ChannelSpec => []HeardAsSaid
  OBVIOUS
<1>1. LineInv => HeardAsSaid
  BY DEF ParserUnderstands, LineInv, EvaluationKnown, HeardAsSaid
<1> QED BY LineInvariant, <1>1, PTL
=============================================================================
