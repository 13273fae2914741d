----------------------------- MODULE JudgeBackend -----------------------------
(***************************************************************************)
(* The whole judge backend: the call of a session (JudgeCall), its way     *)
(* back (JudgeWebhook), the calling service in between, and getRunStatus,  *)
(* by which the judge's browser learns the outcome.  A session owns one    *)
(* run, so a run has the name of its session.                              *)
(***************************************************************************)
EXTENDS JudgeCall, JudgeWebhook

CONSTANTS MaxEmitted,  \* bound on the events the service emits
          MaxLost      \* bound on deliveries that die half way

VARIABLES
    emitted,   \* the events the calling service has emitted
    poll,      \* getRunStatus in flight for s: "idle" or "results"
    shown      \* the terminal states of a JudgeRunStatus the judge of s was shown

backendVars == <<callVars, webhookVars, emitted, poll, shown>>

ASSUME BackendAssumption ==
    /\ Runs = Sessions
    /\ NoReport \notin Report \cup Event
    /\ MaxEmitted \in Nat /\ MaxLost \in Nat

BackendInit ==
    /\ CallInit /\ WebhookInit
    /\ emitted = {}
    /\ poll = [s \in Sessions |-> "idle"]
    /\ shown = [s \in Sessions |-> {}]
-----------------------------------------------------------------------------
\* The service reports on a call it received; an identifier may come back with
\* another body, but never for another run.
Emit(e) ==
    /\ \E r \in posted : session[r] = e.run
    /\ \A f \in emitted : f.id = e.id => f.run = e.run
    /\ Cardinality(emitted) < MaxEmitted
    /\ emitted' = emitted \cup {e}
    /\ UNCHANGED <<callVars, webhookVars, poll, shown>>

\* What if the evidence were not looked for in the transcript?
StateWithoutEvidence(e) ==
    IF e.report = "restricted"
        THEN "AUTHENTICATED_APPROVAL_REQUIRED" ELSE "MANAGER_RESPONSE_RECEIVED"

\* createManagerEscalationRecord and the state getRunStatus derives from it.
StateOf(e) ==
    CASE e.report = "restricted" -> "AUTHENTICATED_APPROVAL_REQUIRED"
      [] e.report = "answered"   -> "MANAGER_RESPONSE_RECEIVED"
      [] OTHER                   -> "HUMAN_REVIEW"

HasClaim(s) == \E k \in Keys : claims[s][k] # NoClaim
HasFailed(s) == \E k \in Keys : claims[s][k].status = "FAILED"
Readable(s) == status[s] \in {"ACTIVE", "CONSUMED"} /\ until[s] > now

Show(s, state) == shown' = [shown EXCEPT ![s] = @ \cup {state}]

\* getRunStatus reads the session.  A session that is not readable is refused,
\* one without a claim is shown as waiting: both without a trace.
PollFailed(s) ==
    /\ poll[s] = "idle" /\ Readable(s) /\ HasFailed(s)
    /\ Show(s, "FAILED")
    /\ UNCHANGED <<callVars, webhookVars, emitted, poll>>

\* What if the results were read before the status of the claim?
ResultsFirst(s) ==
    /\ poll[s] = "idle" /\ Readable(s) /\ HasClaim(s)
    /\ poll' = [poll EXCEPT ![s] = "results"]
    /\ UNCHANGED <<callVars, webhookVars, emitted, shown>>

PollSession(s) ==
    /\ poll[s] = "idle" /\ Readable(s) /\ HasClaim(s) /\ ~ HasFailed(s)
    /\ poll' = [poll EXCEPT ![s] = "results"]
    /\ UNCHANGED <<callVars, webhookVars, emitted, shown>>

\* What if the last recorded result won?
LastResultWins(s) ==
    /\ poll[s] = "results"
    /\ poll' = [poll EXCEPT ![s] = "idle"]
    /\ IF results[s] = <<>>
           THEN UNCHANGED shown ELSE Show(s, StateOf(results[s][Len(results[s])]))
    /\ UNCHANGED <<callVars, webhookVars, emitted>>

\* The first recorded result wins; without one the judge is shown as being
\* called, which is not terminal.
PollResults(s) ==
    /\ poll[s] = "results"
    /\ poll' = [poll EXCEPT ![s] = "idle"]
    /\ IF results[s] = <<>> THEN UNCHANGED shown ELSE Show(s, StateOf(results[s][1]))
    /\ UNCHANGED <<callVars, webhookVars, emitted>>

Poll(s) == PollFailed(s) \/ PollSession(s) \/ PollResults(s)

Webhook(d) ==
    /\ \/ \E e \in emitted : Deliver(d, e)
       \/ Ingest(d)
       \/ /\ Cardinality({l \in Deliveries : stage[l] = "crashed"}) < MaxLost
          /\ IngestCrash(d)
    /\ UNCHANGED <<callVars, emitted, poll, shown>>

Calling == CallNext /\ UNCHANGED <<webhookVars, emitted, poll, shown>>

BackendNext ==
    \/ Calling
    \/ \E e \in Event : Emit(e)
    \/ \E d \in Deliveries : Webhook(d)
    \/ \E s \in Sessions : Poll(s)

BackendSpec == BackendInit /\ [][BackendNext]_backendVars
-----------------------------------------------------------------------------
(* What the code promises *)

\* What was shown of a recorded result stands: later events for the run,
\* conflicting ones included, do not replace it (InMemoryManagerResultSink.read).
ResultStands == \A s \in Sessions : Cardinality(shown[s] \ {"FAILED"}) <= 1

\* A judge is shown a decision only if their session placed a call and the
\* service reported that decision, with evidence, for that call
\* (getRunStatus, createManagerEscalationRecord).
DecisionIsEvidenced ==
    \A s \in Sessions :
        /\ shown[s] \ {"FAILED"} # {} => \E r \in posted : session[r] = s
        /\ "MANAGER_RESPONSE_RECEIVED" \in shown[s] =>
               \E e \in emitted : e.run = s /\ e.report = "answered"
        /\ "AUTHENTICATED_APPROVAL_REQUIRED" \in shown[s] =>
               \E e \in emitted : e.run = s /\ e.report = "restricted"

\* Once the judge was shown a failure, nothing else is ever shown: a result
\* that arrives after all does not revive the run (getRunStatus).
FailureIsFinal ==
    [][\A s \in Sessions : "FAILED" \in shown[s] => shown'[s] = shown[s]]_backendVars
-----------------------------------------------------------------------------
(* What must eventually happen.  Started handlers run to their end; the     *)
(* provider need not redeliver anything.                                    *)

FairBackendSpec ==
    /\ BackendSpec
    /\ \A d \in Deliveries : WF_backendVars(Ingest(d) /\ UNCHANGED <<callVars, emitted, poll, shown>>)
    /\ \A r \in Requests :
          WF_backendVars(Proceed(r) /\ UNCHANGED <<webhookVars, emitted, poll, shown>>)

\* When no delivery dies, an event that was claimed as a usable result is in
\* the results in the end, although a redelivery of it would do nothing
\* (ingest claims the event before it records the result).
AcceptedIsRecorded ==
    \A id \in EventIds :
        events[id] \in Recordable
            ~> \E run \in Runs : \E i \in 1 .. Len(results[run]) : results[run][i].id = id
-----------------------------------------------------------------------------
(* What the repository says and the code does not do *)

\* The service reported that s was not answered, nothing else, and every report
\* was handled.
UnansweredHandled(s) ==
    /\ \E e \in emitted : e.run = s
    /\ \A e \in emitted : e.run = s => e.report = "unanswered" /\ events[e.id] = e.report

\* "No answer or voicemail: HUMAN_REVIEW" (docs/judge-mode-manager-escalation.md):
\* a judge who asks after an unanswered call was handled is not left waiting.
UnansweredIsReviewed ==
    [][\A s \in Sessions :
          poll[s] = "results" /\ poll'[s] = "idle" /\ UnansweredHandled(s)
              => shown'[s] # {}]_backendVars
=============================================================================
