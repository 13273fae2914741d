----------------------------- MODULE JudgePortal -----------------------------
(***************************************************************************)
(* The page of the judge portal (JudgePortalPanel): a procurement run over *)
(* the text channel in the page itself, and a voice session asked from the *)
(* protected backend, side by side.  The page keeps what it shows in React *)
(* state and its channel, session and call in refs.                        *)
(*                                                                         *)
(* Every handler is split at its awaits: whatever the judge clicks in      *)
(* between, Reset included, the handler goes on when its answer arrives,   *)
(* and writes to the refs and the screen as they are by then.              *)
(*                                                                         *)
(* Run r makes a channel and an orchestrator of its own; its session, its  *)
(* evaluation and its token are called r, and no other channel knows them. *)
(* What becomes of that session besides a purchase is ProcurementRun's;    *)
(* the decision, the report and the error shown beside a turn decide       *)
(* nothing and are left out.                                               *)
(* The procurement session of voice session v is called v.                 *)
(***************************************************************************)
EXTENDS Naturals

CONSTANTS
    Runs,       \* clicks on "Run the mission"
    Decisions,  \* clicks on a decision button
    Voices,     \* clicks on "Start Voice Demo"
    Unset

VARIABLES
    phase,       \* "idle", "running", "awaiting-decision" or "done"
    shown,       \* the run whose result is on the screen
    channel,     \* channelRef: the run it belongs to
    session,     \* sessionRef: a run or a voice session
    run,         \* where each run is
    act,         \* where each decision is
    click,       \* what the click on a decision captured, while it is under way
    started,     \* the runs whose orchestrator has started its session
    evaluation,  \* the evaluation of a run, "NONE" without one
    purchase,    \* the click that made the purchase request of a run
    signIn,      \* "signed-out" (or failed), "signing-in" or "signed-in"
    token,       \* whether judgeSession.ts holds a token
    voice,       \* where each voice session is
    starting,    \* whether the voice session on the screen is being started
    meeting,     \* the call on the screen: "idle" (ended and failed too),
                 \* "microphone" (asked for) or "active" (connecting too)
    callRef      \* the call End and Reset would stop

textVars == <<phase, shown, channel, run, act, click, started, evaluation, purchase>>
voiceVars == <<signIn, token, voice, starting, meeting, callRef>>
pageVars == <<textVars, session, voiceVars>>

ASSUME PageAssumption ==
    /\ Unset \notin Runs \cup Decisions \cup Voices
    /\ Runs \cap Voices = {}

Outcomes == {"ACCEPTED", "REJECTED", "HUMAN_REVIEW_REQUIRED"}
Clicks == [channel : Runs, session : Runs \cup Voices, turn : Runs, accepted : BOOLEAN]

PageTypeOK ==
    /\ phase \in {"idle", "running", "awaiting-decision", "done"}
    /\ shown \in Runs \cup {Unset} /\ channel \in Runs \cup {Unset}
    /\ session \in Runs \cup Voices \cup {Unset}
    /\ run \in [Runs -> {"unclicked", "start", "say", "report", "ended"}]
    /\ act \in [Decisions -> {"unclicked", "decide", "report", "ended"}]
    /\ click \in [Decisions -> Clicks \cup {Unset}]
    /\ started \subseteq Runs
    /\ evaluation \in [Runs -> Outcomes \cup {"NONE"}]
    /\ purchase \in [Runs -> Clicks \cup {Unset}]

PageInit ==
    /\ phase = "idle" /\ shown = Unset
    /\ channel = Unset /\ session = Unset
    /\ run = [r \in Runs |-> "unclicked"]
    /\ act = [d \in Decisions |-> "unclicked"]
    /\ click = [d \in Decisions |-> Unset]
    /\ started = {}
    /\ evaluation = [r \in Runs |-> "NONE"]
    /\ purchase = [r \in Runs |-> Unset]
    /\ signIn = "signed-out" /\ token = FALSE
    /\ voice = [v \in Voices |-> "unclicked"]
    /\ starting = FALSE /\ meeting = "idle" /\ callRef = Unset
-----------------------------------------------------------------------------
(* run: one turn over a channel of its own *)

RunGoes(r, step) == run' = [run EXCEPT ![r] = step]

Run(r) ==
    /\ run[r] = "unclicked"
    /\ phase # "running"
    /\ phase' = "running"
    /\ channel' = r
    /\ RunGoes(r, "start")
    /\ UNCHANGED <<shown, session, act, click, started, evaluation, purchase, voiceVars>>

Started(r) ==
    /\ run[r] = "start"
    /\ started' = started \cup {r}
    /\ session' = r
    /\ RunGoes(r, "say")
    /\ UNCHANGED <<phase, shown, channel, act, click, evaluation, purchase,
                   voiceVars>>

\* The turn ends without a question, or with an evaluation.
Said(r, o) ==
    /\ run[r] = "say"
    /\ evaluation' = [evaluation EXCEPT ![r] = o]
    /\ shown' = r
    /\ IF o \in {"ACCEPTED", "HUMAN_REVIEW_REQUIRED"}
       THEN RunGoes(r, "ended") /\ phase' = "awaiting-decision"
       ELSE RunGoes(r, "report") /\ UNCHANGED phase
    /\ UNCHANGED <<channel, session, act, click, started, purchase, voiceVars>>

Reported(r) ==
    /\ run[r] = "report"
    /\ RunGoes(r, "ended")
    /\ phase' = "done"
    /\ UNCHANGED <<shown, channel, session, act, click, started, evaluation,
                   purchase, voiceVars>>

\* Mutant: the catch shows the error and forgets the phase.
RunThrowsSilently(r) ==
    /\ run[r] \in {"start", "say", "report"}
    /\ RunGoes(r, "ended")
    /\ UNCHANGED <<phase, shown, channel, session, act, click, started, evaluation,
                   purchase, voiceVars>>

RunThrows(r) ==
    /\ run[r] \in {"start", "say", "report"}
    /\ RunGoes(r, "ended")
    /\ phase' = "idle"
    /\ UNCHANGED <<shown, channel, session, act, click, started, evaluation,
                   purchase, voiceVars>>
-----------------------------------------------------------------------------
(* decide: the buttons show while a decision is awaited on a turn that has *)
(* an evaluation.  The click captures the refs and the turn on the screen. *)

Decide(d, accepted) ==
    /\ act[d] = "unclicked"
    /\ phase = "awaiting-decision"
    /\ shown # Unset /\ channel # Unset /\ session # Unset
    /\ evaluation[shown] # "NONE"
    /\ act' = [act EXCEPT ![d] = "decide"]
    /\ click' = [click EXCEPT ![d] = [channel |-> channel, session |-> session,
                                      turn |-> shown, accepted |-> accepted]]
    /\ phase' = "running"
    /\ UNCHANGED <<shown, channel, session, run, started, evaluation, purchase,
                   voiceVars>>

\* The channel's orchestrator knows the session; any other is "Unknown session".
Known(c) == c.session = c.channel /\ c.session \in started

\* Mutant: the evaluation is not looked up among those of the session.
PurchasableAnywhere(c) == evaluation[c.turn] = "ACCEPTED"

\* The session holds the evaluation of the turn, and it is the accepted one.
Purchasable(c) == c.turn = c.channel /\ evaluation[c.turn] = "ACCEPTED"

\* confirm(..., true) on a token that is fresh or was used before; a decision on
\* a turn that needs a human goes to escalate instead.
Confirms(c) ==
    /\ evaluation[c.turn] # "HUMAN_REVIEW_REQUIRED" /\ c.accepted
    /\ Purchasable(c)
    /\ purchase' = IF purchase[c.session] = Unset
                   THEN [purchase EXCEPT ![c.session] = c] ELSE purchase

\* An escalation, a decline, or a refusal: of another evaluation's token, or
\* because the quote has lapsed.
Resolves(c) == UNCHANGED purchase

Decided(d) ==
    /\ act[d] = "decide"
    /\ Known(click[d])
    /\ Confirms(click[d]) \/ Resolves(click[d])
    /\ act' = [act EXCEPT ![d] = "report"]
    /\ UNCHANGED <<phase, shown, channel, session, run, click, started, evaluation, voiceVars>>

ActEnds(d) ==
    /\ act' = [act EXCEPT ![d] = "ended"]
    /\ click' = [click EXCEPT ![d] = Unset]
    /\ UNCHANGED <<shown, channel, session, run, started, evaluation, purchase,
                   voiceVars>>

DecisionReported(d) == act[d] = "report" /\ phase' = "done" /\ ActEnds(d)

DecisionThrows(d) ==
    act[d] \in {"decide", "report"} /\ phase' = "awaiting-decision" /\ ActEnds(d)
-----------------------------------------------------------------------------
(* sign-in *)

SubmitAccessCode ==
    /\ signIn = "signed-out"
    /\ signIn' = "signing-in"
    /\ UNCHANGED <<textVars, session, token, voice, starting, meeting, callRef>>

SignInAnswered ==
    /\ signIn = "signing-in"
    /\ \/ signIn' = "signed-in" /\ token' = TRUE
       \/ signIn' = "signed-out" /\ UNCHANGED token
    /\ UNCHANGED <<textVars, session, voice, starting, meeting, callRef>>

Live == {"joined", "talking"}

\* stop on the call the ref holds; a call that has ended ignores it.
StopsCall(step) ==
    voice' = IF callRef # Unset /\ voice[callRef] \in Live
             THEN [voice EXCEPT ![callRef] = step] ELSE voice

\* endVoice: the ref is dropped when the call has stopped.
EndVoice ==
    /\ StopsCall("ending")
    /\ callRef' = IF voice' = voice THEN Unset ELSE callRef

SignOut ==
    /\ signIn = "signed-in"
    /\ signIn' = "signed-out"
    /\ token' = FALSE
    /\ EndVoice
    /\ UNCHANGED <<textVars, session, starting, meeting>>
-----------------------------------------------------------------------------
(* startVoice: the microphone, the backend, the meeting *)

VoiceGoes(v, step) == voice' = [voice EXCEPT ![v] = step]

StartVoice(v) ==
    /\ voice[v] = "unclicked"
    /\ signIn = "signed-in"
    /\ meeting = "idle" /\ ~ starting
    /\ VoiceGoes(v, "microphone")
    /\ meeting' = "microphone"
    /\ UNCHANGED <<textVars, session, signIn, token, starting, callRef>>

MicrophoneRefused(v) ==
    /\ voice[v] = "microphone"
    /\ VoiceGoes(v, "ended")
    /\ meeting' = "idle"
    /\ UNCHANGED <<textVars, session, signIn, token, starting, callRef>>

\* The header is read now: a token that is gone is not replaced by an old one.
AskBackend(v) ==
    /\ voice[v] = "microphone"
    /\ token
    /\ VoiceGoes(v, "asked")
    /\ starting' = TRUE
    /\ UNCHANGED <<textVars, session, signIn, token, meeting, callRef>>

\* Signed out meanwhile, or the token has expired and is dropped.
NotAsked(v) ==
    /\ voice[v] = "microphone"
    /\ VoiceGoes(v, "ended")
    /\ token' = FALSE
    /\ starting' = FALSE
    /\ meeting' = "idle"
    /\ UNCHANGED <<textVars, session, signIn, callRef>>

VoiceRefused(v) ==
    /\ voice[v] = "asked"
    /\ VoiceGoes(v, "ended")
    /\ starting' = FALSE
    /\ meeting' = "idle"
    /\ UNCHANGED <<textVars, session, signIn, token, callRef>>

\* The session of the page is now the one of the voice channel.
VoiceReady(v) ==
    /\ voice[v] = "asked"
    /\ VoiceGoes(v, "joining")
    /\ starting' = FALSE
    /\ session' = v
    /\ meeting' = "active"
    /\ UNCHANGED <<textVars, signIn, token, callRef>>

Joined(v) ==
    /\ voice[v] = "joining"
    /\ VoiceGoes(v, "joined")
    /\ callRef' = v
    /\ UNCHANGED <<textVars, session, signIn, token, starting, meeting>>

JoinFails(v) ==
    /\ voice[v] = "joining"
    /\ VoiceGoes(v, "ended")
    /\ callRef' = Unset
    /\ meeting' = "idle"
    /\ UNCHANGED <<textVars, session, signIn, token, starting>>

\* The observer: audioVideoDidStart, audioVideoDidStop.
Connected(v) ==
    /\ voice[v] = "joined"
    /\ VoiceGoes(v, "talking")
    /\ meeting' = "active"
    /\ UNCHANGED <<textVars, session, signIn, token, starting, callRef>>

HungUp(v) ==
    /\ voice[v] \in Live
    /\ VoiceGoes(v, "ended")
    /\ meeting' = "idle"
    /\ UNCHANGED <<textVars, session, signIn, token, starting, callRef>>

End ==
    /\ meeting = "active"
    /\ EndVoice
    /\ UNCHANGED <<textVars, session, signIn, token, starting, meeting>>

\* stop has destroyed the devices.
Stopped(v) ==
    /\ voice[v] \in {"ending", "stopping"}
    /\ VoiceGoes(v, "ended")
    /\ meeting' = "idle"
    /\ callRef' = IF voice[v] = "ending" THEN Unset ELSE callRef
    /\ UNCHANGED <<textVars, session, signIn, token, starting>>

\* The button (while there is something on the screen) or another mission
\* (while nothing runs): at any time one of the two can be clicked.
Reset ==
    /\ phase' = "idle" /\ shown' = Unset
    /\ channel' = Unset /\ session' = Unset
    /\ starting' = FALSE /\ meeting' = "idle" /\ callRef' = Unset
    /\ StopsCall("stopping")
    /\ UNCHANGED <<run, act, click, started, evaluation, purchase, signIn, token>>

\* What goes on without the judge, on the text channel ...
Settles ==
    \/ \E r \in Runs : Started(r) \/ Reported(r) \/ RunThrows(r)
                       \/ \E o \in Outcomes \cup {"NONE"} : Said(r, o)
    \/ \E d \in Decisions : Decided(d) \/ DecisionReported(d) \/ DecisionThrows(d)

\* ... and on the voice channel.
VoiceGoesOn(v) ==
    \/ MicrophoneRefused(v) \/ AskBackend(v) \/ NotAsked(v) \/ VoiceRefused(v)
    \/ VoiceReady(v) \/ Joined(v) \/ JoinFails(v) \/ Connected(v) \/ HungUp(v) \/ Stopped(v)

Click ==
    \/ \E r \in Runs : Run(r)
    \/ \E d \in Decisions, accepted \in BOOLEAN : Decide(d, accepted)
    \/ \E v \in Voices : StartVoice(v)
    \/ SubmitAccessCode \/ SignOut \/ End \/ Reset

PageNext == Click \/ Settles \/ SignInAnswered \/ (\E v \in Voices : VoiceGoesOn(v))

\* A promise of the page's own orchestrator settles; nobody has to click, and
\* neither the backend nor the meeting has to answer.
PageSpec == PageInit /\ [][PageNext]_pageVars /\ WF_pageVars(Settles)
-----------------------------------------------------------------------------
(* What must hold *)

\* A purchase request made from the page is the one the judge asked for: of the
\* run whose result was on the screen when "Yes" was clicked, accepted by
\* policy, though results of an older run, a Reset, a voice
\* session or a second click change the screen and the refs in between
\* (decide, and the records createPurchaseRequest goes back to).
PurchaseIsShown ==
    \A r \in Runs : purchase[r] # Unset =>
        purchase[r].turn = r /\ purchase[r].accepted /\ evaluation[r] = "ACCEPTED"

\* The page does not stay busy: whatever was clicked and in whatever order the
\* answers arrive, the buttons come back (run, decide and their catches).
RunSettles == phase = "running" ~> phase # "running"
=============================================================================
