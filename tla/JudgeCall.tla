------------------------------ MODULE JudgeCall ------------------------------
(***************************************************************************)
(* The one telephone call of a judge session: createSession and            *)
(* startManagerCall of JudgeBackendService (src/server/judge/backend), the *)
(* session item, the call budget and the attempt windows of                *)
(* src/server/judge/aws/dynamo.ts, and the adapter that places the call.   *)
(*                                                                         *)
(* A request is what is left of startManagerCall between its awaits.  The  *)
(* session s names the item, its token and the run minted with it; a       *)
(* caller holds the token of the session it names (any other is refused    *)
(* without a trace).  A call placed by request r is the task "r".          *)
(***************************************************************************)
EXTENDS Naturals, FiniteSets

CONSTANTS
    Sessions,        \* sessions createSession may mint
    Requests,        \* invocations of startManagerCall
    Keys,            \* idempotency keys the browser sends
    TaskStatus,      \* statuses the calling service answers with
    None,            \* no request, no task, no attempt in flight
    SessionTTL,      \* life of a session (sessionTtlMs)
    Second,          \* clock ticks in a second of expiresAtEpoch
    Window,          \* length of an attempt window (windowMs)
    MaximumAttempts, \* attempts per window
    MaximumCalls,    \* the global call budget
    MaxTime,         \* bound on the clock
    MaxCrashes       \* bound on requests that die half way

VARIABLES
    now, killSwitch,
    attempts,   \* WINDOW#b: authorization attempts in window b
    visit,      \* createSession in flight for s: its clock reading, or None
    status,     \* session item: status, "ABSENT" when there is no item
    until,      \* session item: expiresAt
    claims,     \* session item: the call claims by idempotency key
    budgetUsed, \* BUDGET#: calls paid for
    step,       \* where a request stands
    session, key,  \* its arguments
    readAt,     \* its clock reading for the claim
    reply,      \* the task status it was answered with
    told,       \* what it returned: a task, "pending" or an error
    posted,     \* the requests whose POST /v1/calls reached the service
    crashes

item == <<status, until, claims>>
request == <<step, session, key, readAt, reply, told>>
environment == <<now, killSwitch, crashes>>
callVars == <<environment, attempts, visit, item, budgetUsed, request, posted>>

ClaimStatus == {"PENDING", "QUEUED", "CALLING", "COMPLETED", "FAILED"}
NoClaim == [status |-> "NONE", task |-> None]
Errors == {"INVALID", "CONSUMED", "BUDGET", "NOT_STARTED"}
Steps == {"idle", "claim", "write", "again", "budget", "call", "answer",
          "record", "fail", "ended", "crashed"}

ASSUME CallAssumption ==
    /\ TaskStatus \subseteq ClaimStatus \ {"PENDING"}
    /\ None \notin Requests \cup Sessions \cup Keys \cup Nat \cup Errors
    /\ Requests \cap (Errors \cup {"pending"}) = {}
    /\ Second \in Nat \ {0} /\ Window \in Nat \ {0}
    /\ {SessionTTL, MaximumAttempts, MaximumCalls, MaxTime, MaxCrashes} \subseteq Nat
    /\ 0 \notin {MaximumAttempts, MaximumCalls}  \* the counter lets a first one through

CallTypeOK ==
    /\ now \in 0 .. MaxTime /\ killSwitch \in BOOLEAN /\ crashes \in 0 .. MaxCrashes
    /\ attempts \in [0 .. MaxTime \div Window -> 0 .. MaximumAttempts]
    /\ visit \in [Sessions -> Nat \cup {None}]
    /\ status \in [Sessions -> {"ABSENT", "ACTIVE", "CONSUMED", "REVOKED"}]
    /\ until \in [Sessions -> Nat]
    /\ claims \in [Sessions -> [Keys ->
                      [status : ClaimStatus \cup {"NONE"}, task : Requests \cup {None}]]]
    /\ budgetUsed \in 0 .. MaximumCalls
    /\ step \in [Requests -> Steps]
    /\ session \in [Requests -> Sessions \cup {None}]
    /\ key \in [Requests -> Keys \cup {None}]
    /\ readAt \in [Requests -> Nat]
    /\ reply \in [Requests -> TaskStatus \cup {None}]
    /\ told \in [Requests -> Requests \cup Errors \cup {"pending", None}]
    /\ posted \subseteq Requests

CallInit ==
    /\ now = 0 /\ killSwitch = FALSE /\ crashes = 0
    /\ attempts = [b \in 0 .. MaxTime \div Window |-> 0]
    /\ visit = [s \in Sessions |-> None]
    /\ status = [s \in Sessions |-> "ABSENT"]
    /\ until = [s \in Sessions |-> 0]
    /\ claims = [s \in Sessions |-> [k \in Keys |-> NoClaim]]
    /\ budgetUsed \in 0 .. MaximumCalls  \* sessions of earlier days have used some
    /\ step = [r \in Requests |-> "idle"]
    /\ session = [r \in Requests |-> None] /\ key = [r \in Requests |-> None]
    /\ readAt = [r \in Requests |-> 0]
    /\ reply = [r \in Requests |-> None] /\ told = [r \in Requests |-> None]
    /\ posted = {}
-----------------------------------------------------------------------------
(* createSession: an attempt is counted before the code is verified *)

\* What if the last attempt were let through by an off-by-one?
AdmitOneMore(s) ==
    /\ status[s] = "ABSENT" /\ visit[s] = None
    /\ attempts[now \div Window] <= MaximumAttempts
    /\ attempts' = [attempts EXCEPT ![now \div Window] = @ + 1]
    /\ visit' = [visit EXCEPT ![s] = now]
    /\ UNCHANGED <<environment, item, budgetUsed, request, posted>>

Admit(s) ==
    /\ status[s] = "ABSENT" /\ visit[s] = None
    /\ attempts[now \div Window] < MaximumAttempts
    /\ attempts' = [attempts EXCEPT ![now \div Window] = @ + 1]
    /\ visit' = [visit EXCEPT ![s] = now]
    /\ UNCHANGED <<environment, item, budgetUsed, request, posted>>

\* A wrong code, or a handler that dies before it stores the session.
Denied(s) ==
    /\ visit[s] # None
    /\ visit' = [visit EXCEPT ![s] = None]
    /\ UNCHANGED <<environment, attempts, item, budgetUsed, request, posted>>

Create(s) ==
    /\ visit[s] # None
    /\ status' = [status EXCEPT ![s] = "ACTIVE"]
    /\ until' = [until EXCEPT ![s] = visit[s] + SessionTTL]
    /\ visit' = [visit EXCEPT ![s] = None]
    /\ UNCHANGED <<environment, attempts, claims, budgetUsed, request, posted>>

Revoke(s) ==
    /\ status[s] # "ABSENT"
    /\ status' = [status EXCEPT ![s] = "REVOKED"]
    /\ UNCHANGED <<environment, attempts, visit, until, claims, budgetUsed, request, posted>>
-----------------------------------------------------------------------------
(* startManagerCall *)

Goto(r, to) == step' = [step EXCEPT ![r] = to]

\* r returns what to its caller.
Return(r, what) == Goto(r, "ended") /\ told' = [told EXCEPT ![r] = what]

\* The session r names, read at time t, is neither revoked nor expired.
Honoured(r, t) == status[session[r]] # "REVOKED" /\ until[session[r]] > t
Claim(r) == claims[session[r]][key[r]]
Claimed(r) == Claim(r) # NoClaim

\* Consent and number are checked and the kill switch is read: with the switch
\* on the request is refused and leaves no trace.
Start(r, s, k) ==
    /\ step[r] = "idle" /\ status[s] # "ABSENT" /\ ~ killSwitch
    /\ Goto(r, "claim")
    /\ session' = [session EXCEPT ![r] = s]
    /\ key' = [key EXCEPT ![r] = k]
    /\ UNCHANGED <<environment, attempts, visit, item, budgetUsed, readAt, reply, told, posted>>

\* The reading that classifies r's claim: at first the clock, after a lost
\* write the instant it was read before.
ClaimTime(r) == IF step[r] = "claim" THEN now ELSE readAt[r]

\* The session is not honoured; or its run was minted by another instance and
\* has no context here, which authenticateForRun's caller finds out first.
ClaimInvalid(r) ==
    /\ \/ step[r] = "claim"
       \/ step[r] = "again" /\ ~ Honoured(r, ClaimTime(r))
    /\ Return(r, "INVALID")
    /\ UNCHANGED <<environment, attempts, visit, item, budgetUsed, session, key, readAt, reply, posted>>

ClaimDuplicate(r) ==
    /\ step[r] \in {"claim", "again"}
    /\ Honoured(r, ClaimTime(r)) /\ Claimed(r)
    /\ Return(r, IF Claim(r).task = None THEN "pending" ELSE Claim(r).task)
    /\ UNCHANGED <<environment, attempts, visit, item, budgetUsed, session, key, readAt, reply, posted>>

\* Another key has the call; after a lost write this is also the answer when
\* the second reading finds nothing wrong.
ClaimConsumed(r) ==
    /\ \/ step[r] = "claim" /\ status[session[r]] = "CONSUMED"
       \/ step[r] = "again"
    /\ Honoured(r, ClaimTime(r)) /\ ~ Claimed(r)
    /\ Return(r, "CONSUMED")
    /\ UNCHANGED <<environment, attempts, visit, item, budgetUsed, session, key, readAt, reply, posted>>

ClaimFree(r) ==
    /\ step[r] = "claim" /\ Honoured(r, now) /\ status[session[r]] = "ACTIVE"
    /\ readAt' = [readAt EXCEPT ![r] = now]
    /\ Goto(r, "write")
    /\ UNCHANGED <<environment, attempts, visit, item, budgetUsed, session, key, reply, told, posted>>

\* What if the write only checked that its own key is new?
KeyIsNew(r) ==
    /\ until[session[r]] \div Second > readAt[r] \div Second
    /\ ~ Claimed(r)

\* What if the write rounded the clock up instead of down?
ClockRoundedUp(r) ==
    /\ status[session[r]] = "ACTIVE"
    /\ until[session[r]] \div Second > (readAt[r] + Second - 1) \div Second
    /\ ~ Claimed(r)

\* The condition of the claim's write; the item keeps its expiry in seconds.
ClaimCondition(r) ==
    /\ status[session[r]] = "ACTIVE"
    /\ until[session[r]] \div Second > readAt[r] \div Second
    /\ ~ Claimed(r)

ClaimWins(r) ==
    /\ step[r] = "write" /\ ClaimCondition(r)
    /\ status' = [status EXCEPT ![session[r]] = "CONSUMED"]
    /\ claims' = [claims EXCEPT ![session[r]][key[r]] = [status |-> "PENDING", task |-> None]]
    /\ Goto(r, "budget")
    /\ UNCHANGED <<environment, attempts, visit, until, budgetUsed, session, key, readAt, reply, told, posted>>

ClaimLoses(r) ==
    /\ step[r] = "write" /\ ~ ClaimCondition(r)
    /\ Goto(r, "again")
    /\ UNCHANGED <<environment, attempts, visit, item, budgetUsed, session, key, readAt, reply, told, posted>>

BudgetPaid(r) ==
    /\ step[r] = "budget" /\ budgetUsed < MaximumCalls
    /\ budgetUsed' = budgetUsed + 1
    /\ Goto(r, "call")
    /\ UNCHANGED <<environment, attempts, visit, item, session, key, readAt, reply, told, posted>>

\* The error is remembered: it is thrown after the claim is marked FAILED.
BudgetExhausted(r) ==
    /\ step[r] = "budget" /\ budgetUsed >= MaximumCalls
    /\ Goto(r, "fail")
    /\ told' = [told EXCEPT ![r] = "BUDGET"]
    /\ UNCHANGED <<environment, attempts, visit, item, budgetUsed, session, key, readAt, reply, posted>>

\* The adapter checks its authorization, in which the kill switch is always
\* off, and the POST reaches the calling service.
Post(r) ==
    /\ step[r] = "call" /\ until[session[r]] > now
    /\ posted' = posted \cup {r}
    /\ Goto(r, "answer")
    /\ UNCHANGED <<environment, attempts, visit, item, budgetUsed, session, key, readAt, reply, told>>

Answered(r) ==
    /\ step[r] = "answer"
    /\ \E answered \in TaskStatus : reply' = [reply EXCEPT ![r] = answered]
    /\ Goto(r, "record")
    /\ UNCHANGED <<environment, attempts, visit, item, budgetUsed, session, key, readAt, told, posted>>

\* What if a call that threw got its unit of the budget back?
ThrowRefunds(r) ==
    /\ step[r] \in {"call", "answer"}
    /\ budgetUsed' = budgetUsed - 1
    /\ Goto(r, "fail")
    /\ told' = [told EXCEPT ![r] = "NOT_STARTED"]
    /\ UNCHANGED <<environment, attempts, visit, item, session, key, readAt, reply, posted>>

\* What if it returned without deciding its claim?
ThrowLeavesClaim(r) ==
    /\ step[r] \in {"call", "answer"}
    /\ Return(r, "NOT_STARTED")
    /\ UNCHANGED <<environment, attempts, visit, item, budgetUsed, session, key, readAt, reply, posted>>

\* Whatever throws: the authorization expired, real calls are disabled, the
\* service is out of reach - or its answer is lost or unusable after the call
\* was placed.
CallThrows(r) ==
    /\ step[r] \in {"call", "answer"}
    /\ Goto(r, "fail")
    /\ told' = [told EXCEPT ![r] = "NOT_STARTED"]
    /\ UNCHANGED <<environment, attempts, visit, item, budgetUsed, session, key, readAt, reply, posted>>

\* completeClaim writes over whatever the claim holds.
CompleteClaim(r, claim) == claims' = [claims EXCEPT ![session[r]][key[r]] = claim]

RecordTask(r) ==
    /\ step[r] = "record"
    /\ CompleteClaim(r, [status |-> reply[r], task |-> r])
    /\ Return(r, r)
    /\ UNCHANGED <<environment, attempts, visit, status, until, budgetUsed, session, key, readAt, reply, posted>>

\* What if a failed claim were given back, so that the judge can try again?
FailureGivesBack(r) ==
    /\ step[r] = "fail"
    /\ CompleteClaim(r, NoClaim)
    /\ status' = [status EXCEPT ![session[r]] = "ACTIVE"]
    /\ Goto(r, "ended")
    /\ UNCHANGED <<environment, attempts, visit, until, budgetUsed, session, key, readAt, reply, told, posted>>

RecordFailure(r) ==
    /\ step[r] = "fail"
    /\ CompleteClaim(r, [status |-> "FAILED", task |-> None])
    /\ Goto(r, "ended")
    /\ UNCHANGED <<environment, attempts, visit, status, until, budgetUsed, session, key, readAt, reply, told, posted>>
-----------------------------------------------------------------------------
InFlight(r) == step[r] \notin {"idle", "ended", "crashed"}

\* The instance that serves r dies, or its store refuses to answer.
Crash(r) ==
    /\ InFlight(r) /\ crashes < MaxCrashes
    /\ crashes' = crashes + 1
    /\ Goto(r, "crashed")
    /\ UNCHANGED <<now, killSwitch, attempts, visit, item, budgetUsed, session, key, readAt, reply, told, posted>>

Tick ==
    /\ now < MaxTime
    /\ now' = now + 1
    /\ UNCHANGED <<killSwitch, crashes, attempts, visit, item, budgetUsed, request, posted>>

FlipSwitch ==
    /\ killSwitch' = ~ killSwitch
    /\ UNCHANGED <<now, crashes, attempts, visit, item, budgetUsed, request, posted>>

Authorize(s) == Admit(s) \/ Denied(s) \/ Create(s)

\* A started request goes on to its next await.
Proceed(r) ==
    \/ ClaimInvalid(r) \/ ClaimDuplicate(r) \/ ClaimConsumed(r) \/ ClaimFree(r)
    \/ ClaimWins(r) \/ ClaimLoses(r) \/ BudgetPaid(r) \/ BudgetExhausted(r)
    \/ Post(r) \/ Answered(r) \/ CallThrows(r) \/ RecordTask(r) \/ RecordFailure(r)

CallNext ==
    \/ \E s \in Sessions : Authorize(s) \/ Revoke(s)
    \/ \E r \in Requests, s \in Sessions, k \in Keys : Start(r, s, k)
    \/ \E r \in Requests : Proceed(r) \/ Crash(r)
    \/ Tick \/ FlipSwitch

CallSpec == CallInit /\ [][CallNext]_callVars
-----------------------------------------------------------------------------
(* What the code promises *)

\* However many requests race for a session, under one key or several, with
\* whatever crashes, at most one of them calls the judge (the claim precedes
\* the call and is never given back).
OneCallPerSession ==
    \A p, q \in posted : session[p] = session[q] => p = q

\* Every call placed was paid for, crashed and failed ones included, and all
\* sessions together, those before these too, pay for no more calls than the
\* budget allows (GlobalCallBudget.claim).
CallsWithinBudget ==
    Cardinality(posted) <= budgetUsed /\ budgetUsed <= MaximumCalls

\* Two requests of a session that are told a call are told the same one, and
\* it was placed for that session (responseFromClaim).
DuplicatesAgree ==
    \A p, q \in Requests :
        told[p] \in Requests =>
            /\ told[p] \in posted /\ session[told[p]] = session[p]
            /\ (told[q] \in Requests /\ session[q] = session[p]) => told[q] = told[p]

\* A session that placed a call is consumed for good, whatever becomes of the
\* call: a decided claim is never decided again, a consumed or revoked session
\* never becomes active (claimCall, completeClaim, revoke).
ClaimsAreFinal ==
    [][ \A s \in Sessions :
          /\ status[s] \in {"CONSUMED", "REVOKED"} => status'[s] \in {"CONSUMED", "REVOKED"}
          /\ \A k \in Keys :
                /\ claims[s][k] # NoClaim => claims'[s][k] # NoClaim
                /\ claims[s][k].status \notin {"NONE", "PENDING"}
                      => claims'[s][k] = claims[s][k] ]_callVars

\* Who is told that the call was consumed has a session whose call was claimed,
\* or one in the last, partial second of its life, when the write refuses what
\* the reading let through (classifySession, claimCall).
ConsumedIsWarranted ==
    \A r \in Requests : told[r] = "CONSUMED" =>
        \/ \E k \in Keys : claims[session[r]][k] # NoClaim
        \/ until[session[r]] \div Second <= readAt[r] \div Second

\* Without crashes no judge is left with a claim nobody decides
\* (every path after the claim reaches completeClaim).
ClaimsAreDecided ==
    \A s \in Sessions, k \in Keys :
        claims[s][k].status = "PENDING" ~> claims[s][k].status # "PENDING"
=============================================================================
