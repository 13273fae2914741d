----------------------------- MODULE JudgeWebhook -----------------------------
(***************************************************************************)
(* The way back of a manager call: JudgeWebhookService.ingest              *)
(* (src/server/judge/backend/webhook.ts), the deduplication of events in   *)
(* DynamoJudgeWebhookEventStore and the first-wins sink of the results.    *)
(*                                                                         *)
(* A delivery is one invocation of ingest.  What it carries is abstracted  *)
(* to the report, which is also what the hash of its body distinguishes:   *)
(*   "answered"    completed, schema valid, evidence found in transcript   *)
(*   "restricted"  the same, asking for a restricted action and not opting *)
(*                 out                                                     *)
(*   "unverified"  completed, schema valid, but the evidence is not in the *)
(*                 transcript or nobody answered                           *)
(*   "invalid"     completed, structured result fails its schema           *)
(*   "unanswered"  call.failed, or a call that did not complete            *)
(* A delivery that is not authentic or cannot be parsed leaves no trace.   *)
(***************************************************************************)
EXTENDS Naturals, Sequences

CONSTANTS
    Runs,        \* the runs calls are placed for
    EventIds,    \* identifiers of the provider's events
    Deliveries,  \* invocations of ingest
    NoReport     \* "no such event"

VARIABLES
    events,      \* WEBHOOK#id: the body it was first claimed with
    results,     \* the sink: per run, the events recorded, in order
    stage,       \* "idle", "claim", "record", "ended" or "crashed"
    letter       \* the event it carries

webhookVars == <<events, results, stage, letter>>

Report == {"answered", "restricted", "unverified", "invalid", "unanswered"}
Event == [id : EventIds, run : Runs, report : Report]

\* What reaches the sink: a terminal call with a schema-valid result.
Recordable == {"answered", "restricted", "unverified"}

WebhookInit ==
    /\ events = [id \in EventIds |-> NoReport]
    /\ results = [run \in Runs |-> <<>>]
    /\ stage = [d \in Deliveries |-> "idle"]
    /\ letter = [d \in Deliveries |-> NoReport]

Advance(d, to) == stage' = [stage EXCEPT ![d] = to]

\* A delivery that is authentic and parses.
Deliver(d, e) ==
    /\ stage[d] = "idle"
    /\ Advance(d, "claim")
    /\ letter' = [letter EXCEPT ![d] = e]
    /\ UNCHANGED <<events, results>>

Unclaimed(d) == events[letter[d].id] = NoReport

\* DUPLICATE or EVENT_ID_CONFLICT
EventRepeated(d) ==
    /\ stage[d] = "claim" /\ ~ Unclaimed(d)
    /\ Advance(d, "ended")
    /\ UNCHANGED <<events, results, letter>>

\* What if the Put of the event were not conditional?
ClaimEventAnyway(d) ==
    /\ stage[d] = "claim"
    /\ events' = [events EXCEPT ![letter[d].id] = letter[d].report]

ClaimEvent(d) ==
    /\ stage[d] = "claim" /\ Unclaimed(d)
    /\ events' = [events EXCEPT ![letter[d].id] = letter[d].report]

\* IGNORED_NON_TERMINAL or QUARANTINED_SCHEMA: nothing but the claim remains.
EventSetAside(d) ==
    /\ ClaimEvent(d)
    /\ letter[d].report \notin Recordable
    /\ Advance(d, "ended")
    /\ UNCHANGED <<results, letter>>

\* What if the delivery were acknowledged before its result is recorded?
AcknowledgedFirst(d) ==
    /\ ClaimEvent(d)
    /\ letter[d].report \in Recordable
    /\ Advance(d, "ended")
    /\ UNCHANGED <<results, letter>>

EventUsable(d) ==
    /\ ClaimEvent(d)
    /\ letter[d].report \in Recordable
    /\ Advance(d, "record")
    /\ UNCHANGED <<results, letter>>

RecordResult(d) ==
    /\ stage[d] = "record"
    /\ results' = [results EXCEPT ![letter[d].run] = Append(@, letter[d])]
    /\ Advance(d, "ended")
    /\ UNCHANGED <<events, letter>>

IngestCrash(d) ==
    /\ stage[d] \in {"claim", "record"}
    /\ Advance(d, "crashed")
    /\ UNCHANGED <<events, results, letter>>

Ingest(d) == EventRepeated(d) \/ EventSetAside(d) \/ EventUsable(d) \/ RecordResult(d)
-----------------------------------------------------------------------------
\* However often an event is delivered, and by whichever instances at once, it
\* is recorded at most once, and with the body that was claimed: a conflicting
\* body under the same identifier never becomes a result (events.claim).
EventRecordedOnce ==
    /\ \A run \in Runs : \A i \in 1 .. Len(results[run]) :
          results[run][i].report = events[results[run][i].id]
    /\ \A run, other \in Runs :
          \A i \in 1 .. Len(results[run]), j \in 1 .. Len(results[other]) :
             results[run][i].id = results[other][j].id => run = other /\ i = j
=============================================================================
