--------------------------- MODULE JudgeCallProofs ---------------------------
(***************************************************************************)
(* Proofs about JudgeCall for every set of sessions, requests and keys,    *)
(* every budget and any number of crashes.                                 *)
(***************************************************************************)
EXTENDS JudgeCall, TLAPS, FiniteSetTheorems

\* Counting once more below the maximum stays within it.
LEMMA CountBelow ==
    ASSUME NEW D, NEW M \in Nat, NEW f \in [D -> 0 .. M], NEW w, f[w] < M
    PROVE  [f EXCEPT ![w] = @ + 1] \in [D -> 0 .. M]
<1>1. CASE w \in D
  BY <1>1
<1>2. CASE w \notin D
  BY <1>2
<1>3. QED
  BY <1>1, <1>2

\* A request that started has its arguments, one that records a task has an
\* answer to record.
ArgumentsOK ==
    \A r \in Requests :
        /\ step[r] # "idle" => session[r] \in Sessions /\ key[r] \in Keys
        /\ step[r] = "record" => reply[r] \in TaskStatus

TypeInv == CallTypeOK /\ ArgumentsOK

\* Nothing has happened yet.
LEMMA TypeInit == CallInit => TypeInv
<1> SUFFICES ASSUME CallInit PROVE TypeInv
  OBVIOUS
<1>1. {SessionTTL, MaximumAttempts, MaximumCalls, MaxTime, MaxCrashes} \subseteq Nat
  BY CallAssumption
<1>2. /\ now \in 0 .. MaxTime /\ crashes \in 0 .. MaxCrashes
      /\ budgetUsed \in 0 .. MaximumCalls
  BY <1>1 DEF CallInit
<1>3. attempts \in [0 .. MaxTime \div Window -> 0 .. MaximumAttempts]
  <2>1. 0 \in 0 .. MaximumAttempts
    BY <1>1
  <2>2. QED
    BY <2>1 DEF CallInit
<1>4. QED
  BY <1>2, <1>3
  DEF CallInit, TypeInv, CallTypeOK, ArgumentsOK, Steps, NoClaim

\* Every step keeps the types, and leaves for a step only with what it needs.
LEMMA TypeStep == TypeInv /\ [CallNext]_callVars => TypeInv'
<1> SUFFICES ASSUME TypeInv, [CallNext]_callVars PROVE TypeInv'
  OBVIOUS
<1> USE CallAssumption
    DEF TypeInv, CallTypeOK, ArgumentsOK, Steps, item, request, environment, Goto, Return
<1>1. ASSUME NEW s \in Sessions, Authorize(s) \/ Revoke(s) PROVE TypeInv'
  <2>1. CASE Admit(s)
    <3>1. attempts' \in [0 .. MaxTime \div Window -> 0 .. MaximumAttempts]
      BY <2>1, CountBelow DEF Admit
    <3>2. QED
      BY <2>1, <3>1, SMTT(20) DEF Admit
  <2>2. CASE Denied(s)
    BY <2>2 DEF Denied
  <2>3. CASE Create(s)
    BY <2>3, SMTT(20) DEF Create
  <2>4. CASE Revoke(s)
    BY <2>4 DEF Revoke
  <2>5. QED
    BY <1>1, <2>1, <2>2, <2>3, <2>4 DEF Authorize
<1>2. ASSUME NEW r \in Requests, NEW s \in Sessions, NEW k \in Keys, Start(r, s, k)
      PROVE TypeInv'
  BY <1>2 DEF Start
<1>3. ASSUME NEW r \in Requests, Proceed(r) PROVE TypeInv'
  <2>1. CASE ClaimInvalid(r)
    BY <2>1, SMTT(20) DEF ClaimInvalid, Errors
  <2>2. CASE ClaimDuplicate(r)
    BY <2>2 DEF ClaimDuplicate, Claim, Claimed
  <2>3. CASE ClaimConsumed(r)
    BY <2>3 DEF ClaimConsumed, Errors
  <2>4. CASE ClaimFree(r)
    BY <2>4 DEF ClaimFree
  <2>5. CASE ClaimWins(r)
    BY <2>5 DEF ClaimWins, ClaimStatus
  <2>6. CASE ClaimLoses(r)
    BY <2>6 DEF ClaimLoses
  <2>7. CASE BudgetPaid(r)
    BY <2>7 DEF BudgetPaid
  <2>8. CASE BudgetExhausted(r)
    BY <2>8 DEF BudgetExhausted, Errors
  <2>9. CASE Post(r)
    BY <2>9 DEF Post
  <2>10. CASE Answered(r)
    BY <2>10 DEF Answered
  <2>11. CASE CallThrows(r)
    BY <2>11 DEF CallThrows, Errors
  <2>12. CASE RecordTask(r)
    BY <2>12 DEF RecordTask, CompleteClaim
  <2>13. CASE RecordFailure(r)
    BY <2>13 DEF RecordFailure, CompleteClaim, ClaimStatus
  <2>14. QED
    BY <1>3, <2>1, <2>2, <2>3, <2>4, <2>5, <2>6, <2>7, <2>8, <2>9, <2>10, <2>11, <2>12, <2>13 DEF Proceed
<1>4. ASSUME NEW r \in Requests, Crash(r) PROVE TypeInv'
  BY <1>4, SMTT(20) DEF Crash, InFlight
<1>5. CASE Tick
  BY <1>5 DEF Tick
<1>6. CASE FlipSwitch
  BY <1>6 DEF FlipSwitch
<1>7. CASE UNCHANGED callVars
  BY <1>7 DEF callVars
<1>8. QED
  BY <1>1, <1>2, <1>3, <1>4, <1>5, <1>6, <1>7 DEF CallNext

\* The inductive type invariant of a request.
LEMMA TypeInvariant == CallSpec => []TypeInv
<1>1. QED
  BY TypeInit, TypeStep, PTL DEF CallSpec

\* Every variable keeps its type, so the counters of attempts, of calls paid
\* for and of crashes never pass their bounds.
THEOREM CallTypeCorrect == CallSpec => []CallTypeOK
<1>1. TypeInv => CallTypeOK
  BY DEF TypeInv
<1>2. QED
  BY <1>1, TypeInvariant, PTL
-----------------------------------------------------------------------------
(* One call per session *)

Pending == [status |-> "PENDING", task |-> None]

\* From the write that wins the claim until its end a request works under it.
Claiming(r) == step[r] \in {"budget", "call", "answer", "record", "fail"}

\* A request that may call, or has called, the judge of its session.
Holder(r) == Claiming(r) \/ r \in posted

SessionInv ==
    \A s \in Sessions :
        /\ visit[s] # None => status[s] = "ABSENT"
        /\ \A k \in Keys : claims[s][k] # NoClaim => status[s] \in {"CONSUMED", "REVOKED"}

HolderInv ==
    /\ \A r \in Requests :
          /\ step[r] # "idle" => status[session[r]] # "ABSENT"
          /\ r \in posted => step[r] # "idle"
          /\ step[r] \in {"answer", "record"} => r \in posted
          /\ Holder(r) => status[session[r]] \in {"CONSUMED", "REVOKED"}
          /\ Claiming(r) => Claim(r) = Pending
    /\ \A p, q \in Requests :
          (Holder(p) /\ Holder(q) /\ session[p] = session[q]) => p = q

TaskInv ==
    /\ \A s \in Sessions, k \in Keys :
          claims[s][k].task # None =>
              claims[s][k].task \in posted /\ session[claims[s][k].task] = s
    /\ \A r \in Requests :
          /\ step[r] = "idle" => told[r] = None
          /\ told[r] \in Requests => told[r] \in posted /\ session[told[r]] = session[r]

ClaimInv == TypeInv /\ SessionInv /\ HolderInv /\ TaskInv

\* No session, no claim, no call.
LEMMA ClaimInit == CallInit => ClaimInv
<1> SUFFICES ASSUME CallInit PROVE ClaimInv
  OBVIOUS
<1>1. TypeInv
  BY TypeInit
<1>2. QED
  BY <1>1, CallAssumption
  DEF CallInit, ClaimInv, SessionInv, HolderInv, TaskInv, Holder, Claiming, NoClaim

\* A session is claimed only by leaving ACTIVE, and it is created only once.
LEMMA SessionStep == ClaimInv /\ [CallNext]_callVars => SessionInv'
<1> SUFFICES ASSUME ClaimInv, [CallNext]_callVars PROVE SessionInv'
  OBVIOUS
<1> USE CallAssumption
    DEF ClaimInv, TypeInv, CallTypeOK, ArgumentsOK, SessionInv, item, request, environment,
        Goto, Return
<1>1. ASSUME NEW s \in Sessions, Authorize(s) \/ Revoke(s) PROVE SessionInv'
  <2>1. CASE Admit(s)
    BY <2>1 DEF Admit
  <2>2. CASE Denied(s)
    BY <2>2 DEF Denied
  <2>3. CASE Create(s)
    BY <2>3 DEF Create
  <2>4. CASE Revoke(s)
    BY <2>4 DEF Revoke
  <2>5. QED
    BY <1>1, <2>1, <2>2, <2>3, <2>4 DEF Authorize
<1>2. ASSUME NEW r \in Requests, NEW s \in Sessions, NEW k \in Keys, Start(r, s, k)
      PROVE SessionInv'
  BY <1>2 DEF Start
<1>3. ASSUME NEW r \in Requests, Proceed(r) PROVE SessionInv'
  <2>1. CASE ClaimInvalid(r)
    BY <2>1 DEF ClaimInvalid
  <2>2. CASE ClaimDuplicate(r)
    BY <2>2 DEF ClaimDuplicate
  <2>3. CASE ClaimConsumed(r)
    BY <2>3 DEF ClaimConsumed
  <2>4. CASE ClaimFree(r)
    BY <2>4 DEF ClaimFree
  <2>5. CASE ClaimWins(r)
    BY <2>5 DEF ClaimWins, ClaimCondition
  <2>6. CASE ClaimLoses(r)
    BY <2>6 DEF ClaimLoses
  <2>7. CASE BudgetPaid(r)
    BY <2>7 DEF BudgetPaid
  <2>8. CASE BudgetExhausted(r)
    BY <2>8 DEF BudgetExhausted
  <2>9. CASE Post(r)
    BY <2>9 DEF Post
  <2>10. CASE Answered(r)
    BY <2>10 DEF Answered
  <2>11. CASE CallThrows(r)
    BY <2>11 DEF CallThrows
  <2>12. CASE RecordTask(r)
    BY <2>12 DEF RecordTask, HolderInv, Claiming, Holder, Claim, Pending, NoClaim, CompleteClaim
  <2>13. CASE RecordFailure(r)
    BY <2>13 DEF RecordFailure, HolderInv, Claiming, Holder, Claim, Pending, NoClaim, CompleteClaim
  <2>14. QED
    BY <1>3, <2>1, <2>2, <2>3, <2>4, <2>5, <2>6, <2>7, <2>8, <2>9, <2>10, <2>11, <2>12, <2>13 DEF Proceed
<1>4. ASSUME NEW r \in Requests, Crash(r) PROVE SessionInv'
  BY <1>4 DEF Crash, InFlight
<1>5. CASE Tick
  BY <1>5 DEF Tick
<1>6. CASE FlipSwitch
  BY <1>6 DEF FlipSwitch
<1>7. CASE UNCHANGED callVars
  BY <1>7 DEF callVars
<1>8. QED
  BY <1>1, <1>2, <1>3, <1>4, <1>5, <1>6, <1>7 DEF CallNext

\* The claim is won by one request, which leaves no ACTIVE session behind for
\* another one.
LEMMA HolderStep == ClaimInv /\ [CallNext]_callVars => HolderInv'
<1> SUFFICES ASSUME ClaimInv, [CallNext]_callVars PROVE HolderInv'
  OBVIOUS
<1> USE CallAssumption
    DEF ClaimInv, TypeInv, CallTypeOK, ArgumentsOK, HolderInv, Holder, Claiming, Claim, item, request, environment,
        Goto, Return
<1>1. ASSUME NEW s \in Sessions, Authorize(s) \/ Revoke(s) PROVE HolderInv'
  <2>1. CASE Admit(s)
    BY <2>1 DEF Admit
  <2>2. CASE Denied(s)
    BY <2>2 DEF Denied
  <2>3. CASE Create(s)
    BY <2>3 DEF Create, SessionInv
  <2>4. CASE Revoke(s)
    BY <2>4 DEF Revoke
  <2>5. QED
    BY <1>1, <2>1, <2>2, <2>3, <2>4 DEF Authorize
<1>2. ASSUME NEW r \in Requests, NEW s \in Sessions, NEW k \in Keys, Start(r, s, k)
      PROVE HolderInv'
  BY <1>2 DEF Start
<1>3. ASSUME NEW r \in Requests, Proceed(r) PROVE HolderInv'
  <2>1. CASE ClaimInvalid(r)
    BY <2>1 DEF ClaimInvalid
  <2>2. CASE ClaimDuplicate(r)
    BY <2>2 DEF ClaimDuplicate
  <2>3. CASE ClaimConsumed(r)
    BY <2>3 DEF ClaimConsumed
  <2>4. CASE ClaimFree(r)
    BY <2>4 DEF ClaimFree
  <2>5. CASE ClaimWins(r)
    <3>1. /\ status[session[r]] = "ACTIVE" /\ session[r] \in Sessions /\ key[r] \in Keys
          /\ session' = session /\ key' = key /\ posted' = posted
      BY <2>5 DEF ClaimWins, ClaimCondition
    <3>2. \A p \in Requests : Holder(p) => session[p] # session[r]
      BY <3>1
    <3>3. \A p \in Requests : Holder(p)' => (p = r \/ Holder(p))
      BY <2>5 DEF ClaimWins
    <3>4. \A p \in Requests : p # r => step'[p] = step[p]
      BY <2>5 DEF ClaimWins
    <3>5. Claim(r)' = Pending
      BY <2>5, <3>1 DEF ClaimWins, Pending
    <3>6. \A p \in Requests : (p # r /\ Claiming(p)) => claims'[session[p]] = claims[session[p]]
      BY <2>5, <3>1, <3>2 DEF ClaimWins
    <3>7. \A t \in Sessions : status'[t] = IF t = session[r] THEN "CONSUMED" ELSE status[t]
      BY <2>5, <3>1 DEF ClaimWins
    <3>8. step'[r] = "budget" /\ r \notin posted
      BY <2>5, <3>1 DEF ClaimWins
    <3>9. \A p, q \in Requests :
             (Holder(p)' /\ Holder(q)' /\ session'[p] = session'[q]) => p = q
      BY <3>1, <3>2, <3>3
    <3>10. \A p \in Requests : Claiming(p)' => Claim(p)' = Pending
      <4>1. ASSUME NEW p \in Requests, p # r, Claiming(p)' PROVE Claim(p)' = Pending
        <5>1. Claiming(p) /\ session'[p] = session[p] /\ key'[p] = key[p]
          BY <3>1, <3>4, <4>1
        <5>2. claims'[session[p]] = claims[session[p]] /\ Claim(p) = Pending
          BY <3>6, <4>1, <5>1
        <5>3. QED
          BY <5>1, <5>2
      <4>2. QED
        BY <3>5, <4>1
    <3>11. ASSUME NEW p \in Requests
           PROVE  /\ step'[p] # "idle" => status'[session'[p]] # "ABSENT"
                  /\ p \in posted' => step'[p] # "idle"
                  /\ step'[p] \in {"answer", "record"} => p \in posted'
                  /\ Holder(p)' => status'[session'[p]] \in {"CONSUMED", "REVOKED"}
      <4>1. CASE p = r
        BY <3>1, <3>7, <3>8, <4>1
      <4>2. CASE p # r
        <5>1. step'[p] = step[p] /\ session'[p] = session[p] /\ posted' = posted
          BY <3>1, <3>4, <4>2
        <5>2. step[p] # "idle" => session[p] \in Sessions /\ status'[session[p]] \in {status[session[p]], "CONSUMED"}
          BY <3>7
        <5>3. QED
          BY <5>1, <5>2
      <4>3. QED
        BY <4>1, <4>2
    <3>12. QED
      BY <3>9, <3>10, <3>11
  <2>6. CASE ClaimLoses(r)
    <3>1. /\ step[r] = "write" /\ step' = [step EXCEPT ![r] = "again"]
          /\ UNCHANGED <<status, claims, session, key, posted>>
      BY <2>6 DEF ClaimLoses
    <3>2. \A p \in Requests :
             /\ step'[p] = step[p] \/ (step[p] = "write" /\ step'[p] = "again")
             /\ Holder(p)' = Holder(p) /\ Claiming(p)' = Claiming(p) /\ Claim(p)' = Claim(p)
      BY <3>1
    <3>3. QED
      BY <3>1, <3>2
  <2>7. CASE BudgetPaid(r)
    BY <2>7 DEF BudgetPaid
  <2>8. CASE BudgetExhausted(r)
    BY <2>8 DEF BudgetExhausted
  <2>9. CASE Post(r)
    BY <2>9 DEF Post
  <2>10. CASE Answered(r)
    BY <2>10 DEF Answered
  <2>11. CASE CallThrows(r)
    BY <2>11 DEF CallThrows
  <2>12. CASE RecordTask(r)
    BY <2>12 DEF RecordTask, CompleteClaim
  <2>13. CASE RecordFailure(r)
    BY <2>13 DEF RecordFailure, CompleteClaim
  <2>14. QED
    BY <1>3, <2>1, <2>2, <2>3, <2>4, <2>5, <2>6, <2>7, <2>8, <2>9, <2>10, <2>11, <2>12, <2>13 DEF Proceed
<1>4. ASSUME NEW r \in Requests, Crash(r) PROVE HolderInv'
  BY <1>4 DEF Crash, InFlight
<1>5. CASE Tick
  BY <1>5 DEF Tick
<1>6. CASE FlipSwitch
  BY <1>6 DEF FlipSwitch
<1>7. CASE UNCHANGED callVars
  BY <1>7 DEF callVars
<1>8. QED
  BY <1>1, <1>2, <1>3, <1>4, <1>5, <1>6, <1>7 DEF CallNext

\* A claim is given only the task of the request that placed the call.
LEMMA TaskStep == ClaimInv /\ [CallNext]_callVars => TaskInv'
<1> SUFFICES ASSUME ClaimInv, [CallNext]_callVars PROVE TaskInv'
  OBVIOUS
<1> USE CallAssumption
    DEF ClaimInv, TypeInv, CallTypeOK, ArgumentsOK, TaskInv, item, request, environment,
        Goto, Return
<1>1. ASSUME NEW s \in Sessions, Authorize(s) \/ Revoke(s) PROVE TaskInv'
  <2>1. CASE Admit(s)
    BY <2>1 DEF Admit
  <2>2. CASE Denied(s)
    BY <2>2 DEF Denied
  <2>3. CASE Create(s)
    BY <2>3 DEF Create
  <2>4. CASE Revoke(s)
    BY <2>4 DEF Revoke
  <2>5. QED
    BY <1>1, <2>1, <2>2, <2>3, <2>4 DEF Authorize
<1>2. ASSUME NEW r \in Requests, NEW s \in Sessions, NEW k \in Keys, Start(r, s, k)
      PROVE TaskInv'
  BY <1>2 DEF Start, HolderInv
<1>3. ASSUME NEW r \in Requests, Proceed(r) PROVE TaskInv'
  <2>1. CASE ClaimInvalid(r)
    BY <2>1 DEF ClaimInvalid, Errors
  <2>2. CASE ClaimDuplicate(r)
    BY <2>2 DEF ClaimDuplicate, Claim
  <2>3. CASE ClaimConsumed(r)
    BY <2>3 DEF ClaimConsumed, Errors
  <2>4. CASE ClaimFree(r)
    BY <2>4 DEF ClaimFree
  <2>5. CASE ClaimWins(r)
    BY <2>5 DEF ClaimWins
  <2>6. CASE ClaimLoses(r)
    BY <2>6 DEF ClaimLoses
  <2>7. CASE BudgetPaid(r)
    BY <2>7 DEF BudgetPaid
  <2>8. CASE BudgetExhausted(r)
    BY <2>8 DEF BudgetExhausted, Errors
  <2>9. CASE Post(r)
    BY <2>9 DEF Post
  <2>10. CASE Answered(r)
    BY <2>10 DEF Answered
  <2>11. CASE CallThrows(r)
    BY <2>11 DEF CallThrows, Errors
  <2>12. CASE RecordTask(r)
    BY <2>12 DEF RecordTask, HolderInv, CompleteClaim
  <2>13. CASE RecordFailure(r)
    BY <2>13 DEF RecordFailure, CompleteClaim
  <2>14. QED
    BY <1>3, <2>1, <2>2, <2>3, <2>4, <2>5, <2>6, <2>7, <2>8, <2>9, <2>10, <2>11, <2>12, <2>13 DEF Proceed
<1>4. ASSUME NEW r \in Requests, Crash(r) PROVE TaskInv'
  BY <1>4 DEF Crash, InFlight
<1>5. CASE Tick
  BY <1>5 DEF Tick
<1>6. CASE FlipSwitch
  BY <1>6 DEF FlipSwitch
<1>7. CASE UNCHANGED callVars
  BY <1>7 DEF callVars
<1>8. QED
  BY <1>1, <1>2, <1>3, <1>4, <1>5, <1>6, <1>7 DEF CallNext

\* The claim's inductive invariant.
LEMMA ClaimStep == ClaimInv /\ [CallNext]_callVars => ClaimInv'
<1>1. ClaimInv => TypeInv
  BY DEF ClaimInv
<1>2. QED
  BY <1>1, TypeStep, SessionStep, HolderStep, TaskStep DEF ClaimInv

LEMMA ClaimInvariant == CallSpec => []ClaimInv
<1>1. QED
  BY ClaimStep, ClaimInit, PTL DEF CallSpec

\* One judge session places at most one telephone call, however many requests
\* race for it, fail or die (startManagerCall).
THEOREM OneCall == CallSpec => []OneCallPerSession
<1>1. ClaimInv => OneCallPerSession
  BY DEF ClaimInv, TypeInv, CallTypeOK, HolderInv, Holder, OneCallPerSession
<1>2. QED
  BY <1>1, ClaimInvariant, PTL

\* Whoever is told of a call is told of the one call of their session
\* (responseFromClaim).
THEOREM DuplicatesTold == CallSpec => []DuplicatesAgree
<1>1. ClaimInv => DuplicatesAgree
  BY DEF ClaimInv, TypeInv, CallTypeOK, HolderInv, Holder, TaskInv, DuplicatesAgree
<1>2. QED
  BY <1>1, ClaimInvariant, PTL
-----------------------------------------------------------------------------
(* Claims are final *)

FinalStep ==
    \A s \in Sessions :
        /\ status[s] \in {"CONSUMED", "REVOKED"} => status'[s] \in {"CONSUMED", "REVOKED"}
        /\ \A k \in Keys :
              /\ claims[s][k] # NoClaim => claims'[s][k] # NoClaim
              /\ claims[s][k].status \notin {"NONE", "PENDING"} => claims'[s][k] = claims[s][k]

\* A request writes only to the claim it holds, and that one is pending.
LEMMA FinalAction == ClaimInv /\ [CallNext]_callVars => FinalStep
<1> SUFFICES ASSUME ClaimInv, [CallNext]_callVars PROVE FinalStep
  OBVIOUS
<1> USE CallAssumption
    DEF ClaimInv, TypeInv, CallTypeOK, ArgumentsOK, FinalStep, item, request, environment,
        Goto, Return
<1>1. ASSUME NEW s \in Sessions, Authorize(s) \/ Revoke(s) PROVE FinalStep
  <2>1. CASE Admit(s)
    BY <2>1 DEF Admit
  <2>2. CASE Denied(s)
    BY <2>2 DEF Denied
  <2>3. CASE Create(s)
    BY <2>3 DEF Create, SessionInv
  <2>4. CASE Revoke(s)
    BY <2>4 DEF Revoke
  <2>5. QED
    BY <1>1, <2>1, <2>2, <2>3, <2>4 DEF Authorize
<1>2. ASSUME NEW r \in Requests, NEW s \in Sessions, NEW k \in Keys, Start(r, s, k)
      PROVE FinalStep
  BY <1>2 DEF Start
<1>3. ASSUME NEW r \in Requests, Proceed(r) PROVE FinalStep
  <2>1. CASE ClaimInvalid(r)
    BY <2>1 DEF ClaimInvalid
  <2>2. CASE ClaimDuplicate(r)
    BY <2>2 DEF ClaimDuplicate
  <2>3. CASE ClaimConsumed(r)
    BY <2>3 DEF ClaimConsumed
  <2>4. CASE ClaimFree(r)
    BY <2>4 DEF ClaimFree
  <2>5. CASE ClaimWins(r)
    BY <2>5 DEF ClaimWins, ClaimCondition, Claimed, Claim, NoClaim
  <2>6. CASE ClaimLoses(r)
    BY <2>6 DEF ClaimLoses
  <2>7. CASE BudgetPaid(r)
    BY <2>7 DEF BudgetPaid
  <2>8. CASE BudgetExhausted(r)
    BY <2>8 DEF BudgetExhausted
  <2>9. CASE Post(r)
    BY <2>9 DEF Post
  <2>10. CASE Answered(r)
    BY <2>10 DEF Answered
  <2>11. CASE CallThrows(r)
    BY <2>11 DEF CallThrows
  <2>12. CASE RecordTask(r)
    BY <2>12 DEF RecordTask, HolderInv, Claiming, Claim, Pending, NoClaim, CompleteClaim
  <2>13. CASE RecordFailure(r)
    BY <2>13 DEF RecordFailure, HolderInv, Claiming, Claim, Pending, NoClaim, CompleteClaim
  <2>14. QED
    BY <1>3, <2>1, <2>2, <2>3, <2>4, <2>5, <2>6, <2>7, <2>8, <2>9, <2>10, <2>11, <2>12, <2>13 DEF Proceed
<1>4. ASSUME NEW r \in Requests, Crash(r) PROVE FinalStep
  BY <1>4 DEF Crash, InFlight
<1>5. CASE Tick
  BY <1>5 DEF Tick
<1>6. CASE FlipSwitch
  BY <1>6 DEF FlipSwitch
<1>7. CASE UNCHANGED callVars
  BY <1>7 DEF callVars
<1>8. QED
  BY <1>1, <1>2, <1>3, <1>4, <1>5, <1>6, <1>7 DEF CallNext

\* A consumed session stays consumed and a decided claim stays decided
\* (claimCall, completeClaim).
THEOREM ClaimsFinal == CallSpec => ClaimsAreFinal
<1>1. ClaimInv /\ [CallNext]_callVars => [FinalStep]_callVars
  BY FinalAction
<1>2. QED
  BY <1>1, ClaimInvariant, PTL DEF CallSpec, ClaimsAreFinal, FinalStep
-----------------------------------------------------------------------------
(* Who is told that the call was consumed *)

Taken(s) == \E k \in Keys : claims[s][k] # NoClaim

\* The write refuses r's claim for its expiry, whole seconds of it.
Expiring(r) == until[session[r]] \div Second <= readAt[r] \div Second

\* Who lost the write and reads again finds a claim, a revoked session or one
\* in its last second; who was told is done.
Warranted(r) ==
    /\ step[r] = "again" =>
          status[session[r]] = "REVOKED" \/ Taken(session[r]) \/ Expiring(r)
    /\ told[r] = "CONSUMED" => step[r] = "ended" /\ (Taken(session[r]) \/ Expiring(r))

\* A session is consumed by a claim.
WarrantInv ==
    /\ \A s \in Sessions : status[s] = "CONSUMED" => Taken(s)
    /\ \A r \in Requests : Warranted(r)

\* The clock in seconds is a natural number.
LEMMA Seconds == ASSUME NEW t \in Nat PROVE t \div Second \in Nat
<1>1. Second \in Nat \ {0}
  BY CallAssumption
<1>2. QED
  BY <1>1

\* What a step leaves to every session that exists: its expiry, a claim once
\* there is one, and its revocation.
SessionKept(s) ==
    status[s] # "ABSENT" =>
        /\ until'[s] = until[s]
        /\ Taken(s) => Taken(s)'
        /\ status[s] = "REVOKED" => status'[s] = "REVOKED"

LEMMA SessionsKept == ClaimInv /\ [CallNext]_callVars => \A s \in Sessions : SessionKept(s)
<1> SUFFICES ASSUME ClaimInv, [CallNext]_callVars, NEW s \in Sessions, status[s] # "ABSENT"
             PROVE  /\ until'[s] = until[s]
                    /\ Taken(s) => Taken(s)'
                    /\ status[s] = "REVOKED" => status'[s] = "REVOKED"
  BY DEF SessionKept
<1>1. Taken(s) => Taken(s)'
  BY FinalAction DEF FinalStep, Taken
<1>2. until'[s] = until[s] /\ (status[s] = "REVOKED" => status'[s] = "REVOKED")
  <2> USE CallAssumption
      DEF ClaimInv, TypeInv, CallTypeOK, SessionInv, item, request, environment, Goto, Return
  <2>1. ASSUME NEW t \in Sessions, Authorize(t) \/ Revoke(t) PROVE <1>2!1 /\ <1>2!2
    BY <2>1 DEF Authorize, Admit, Denied, Create, Revoke
  <2>2. ASSUME NEW r \in Requests, NEW t \in Sessions, NEW k \in Keys, Start(r, t, k)
        PROVE <1>2!1 /\ <1>2!2
    BY <2>2 DEF Start
  <2>3. ASSUME NEW r \in Requests, Proceed(r) \/ Crash(r) PROVE <1>2!1 /\ <1>2!2
    <3>1. CASE ClaimWins(r)
      BY <3>1 DEF ClaimWins, ClaimCondition
    <3>2. CASE ~ ClaimWins(r)
      BY <2>3, <3>2
      DEF Proceed, ClaimInvalid, ClaimDuplicate, ClaimConsumed, ClaimFree, ClaimLoses,
          BudgetPaid, BudgetExhausted, Post, Answered, CallThrows, RecordTask,
          RecordFailure, Crash
    <3>3. QED
      BY <3>1, <3>2
  <2>4. CASE Tick \/ FlipSwitch \/ UNCHANGED callVars
    BY <2>4 DEF Tick, FlipSwitch, callVars
  <2>5. QED
    BY <2>1, <2>2, <2>3, <2>4 DEF CallNext
<1>3. QED
  BY <1>1, <1>2

\* Consumed is only who has a claim.
LEMMA ConsumedStep ==
    ASSUME ClaimInv, WarrantInv, [CallNext]_callVars, NEW s \in Sessions, status'[s] = "CONSUMED"
    PROVE  Taken(s)'
<1> USE DEF ClaimInv, TypeInv, CallTypeOK, ArgumentsOK, item, request, environment, Goto, Return
<1>1. CASE status[s] = "CONSUMED"
  BY <1>1, SessionsKept DEF SessionKept, WarrantInv
<1>2. CASE status[s] # "CONSUMED"
  <2>1. \E r \in Requests : ClaimWins(r) /\ session[r] = s
    <3>1. ASSUME NEW t \in Sessions, Authorize(t) \/ Revoke(t) PROVE FALSE
      BY <1>2, <3>1 DEF Authorize, Admit, Denied, Create, Revoke
    <3>2. ASSUME NEW r \in Requests, NEW t \in Sessions, NEW k \in Keys, Start(r, t, k) PROVE FALSE
      BY <1>2, <3>2 DEF Start
    <3>3. ASSUME NEW r \in Requests, Proceed(r) \/ Crash(r), ~ ClaimWins(r) PROVE FALSE
      BY <1>2, <3>3
      DEF Proceed, ClaimInvalid, ClaimDuplicate, ClaimConsumed, ClaimFree, ClaimLoses,
          BudgetPaid, BudgetExhausted, Post, Answered, CallThrows, RecordTask,
          RecordFailure, Crash
    <3>4. CASE Tick \/ FlipSwitch \/ UNCHANGED callVars
      BY <1>2, <3>4 DEF Tick, FlipSwitch, callVars
    <3>5. ASSUME NEW r \in Requests, ClaimWins(r) PROVE session[r] = s
      BY <1>2, <3>5 DEF ClaimWins
    <3>6. QED
      BY <3>1, <3>2, <3>3, <3>4, <3>5 DEF CallNext
  <2>2. QED
    BY <2>1 DEF ClaimWins, Taken, NoClaim
<1>3. QED
  BY <1>1, <1>2

\* What warrants an answer outlives every step of the others.
LEMMA WarrantKept ==
    ASSUME ClaimInv, [CallNext]_callVars, NEW r \in Requests, Warranted(r),
           session'[r] = session[r], readAt'[r] = readAt[r],
           step'[r] = "again" => step[r] = "again",
           told'[r] = "CONSUMED" => told[r] = "CONSUMED" /\ step'[r] = step[r]
    PROVE  Warranted(r)'
<1>1. CASE step[r] = "idle"
  BY <1>1 DEF Warranted, ClaimInv, TaskInv
<1>2. CASE step[r] # "idle"
  <2>1. session[r] \in Sessions /\ status[session[r]] # "ABSENT"
    BY <1>2 DEF ClaimInv, TypeInv, ArgumentsOK, HolderInv
  <2>2. SessionKept(session[r])
    BY <2>1, SessionsKept
  <2>3. Taken(session[r])' <=> \E k \in Keys : claims'[session[r]][k] # NoClaim
    BY DEF Taken
  <2>4. Expiring(r) => Expiring(r)'
    BY <2>1, <2>2 DEF SessionKept, Expiring
  <2>5. Taken(session[r]) => \E k \in Keys : claims'[session[r]][k] # NoClaim
    BY <2>1, FinalAction DEF FinalStep, Taken
  <2>6. QED
    BY <2>1, <2>2, <2>4, <2>5 DEF Warranted, SessionKept, Taken
<1>3. QED
  BY <1>1, <1>2

\* The write lost for the claim, the status or the expiry it found.
LEMMA LosesWarranted ==
    ASSUME ClaimInv, WarrantInv, NEW r \in Requests, ClaimLoses(r)
    PROVE  Warranted(r)'
<1> USE DEF ClaimInv, TypeInv, CallTypeOK, ArgumentsOK, item, request, environment, Goto
<1>1. session[r] \in Sessions /\ key[r] \in Keys /\ status[session[r]] # "ABSENT"
  BY DEF ClaimLoses, HolderInv
<1>2. until[session[r]] \div Second \in Nat /\ readAt[r] \div Second \in Nat
  BY <1>1, Seconds
<1>3. status[session[r]] = "REVOKED" \/ Taken(session[r]) \/ Expiring(r)
  BY <1>1, <1>2
  DEF ClaimLoses, ClaimCondition, Claimed, Claim, Expiring, WarrantInv, Taken
<1>4. step'[r] = "again" /\ told'[r] # "CONSUMED"
  BY DEF ClaimLoses, WarrantInv, Warranted
<1>5. QED
  BY <1>3, <1>4 DEF ClaimLoses, Warranted, Taken, Expiring

\* It is told that the call is consumed only where it is honoured.
LEMMA ConsumedWarranted ==
    ASSUME ClaimInv, WarrantInv, NEW r \in Requests, ClaimConsumed(r)
    PROVE  Warranted(r)'
<1> USE DEF ClaimInv, TypeInv, CallTypeOK, ArgumentsOK, item, request, environment, Goto, Return
<1>1. session[r] \in Sessions /\ status[session[r]] # "REVOKED"
  BY DEF ClaimConsumed, Honoured
<1>2. Taken(session[r]) \/ Expiring(r)
  BY <1>1 DEF ClaimConsumed, WarrantInv, Warranted
<1>3. step'[r] = "ended"
  BY DEF ClaimConsumed
<1>4. QED
  BY <1>2, <1>3 DEF ClaimConsumed, Warranted, Taken, Expiring

LEMMA WarrantStep == ClaimInv /\ WarrantInv /\ [CallNext]_callVars => WarrantInv'
<1> SUFFICES ASSUME ClaimInv, WarrantInv, [CallNext]_callVars PROVE WarrantInv'
  OBVIOUS
<1>1. ASSUME NEW s \in Sessions, status'[s] = "CONSUMED" PROVE Taken(s)'
  BY <1>1, ConsumedStep
<1>2. ASSUME NEW p \in Requests PROVE Warranted(p)'
  <2> USE CallAssumption
      DEF ClaimInv, TypeInv, CallTypeOK, ArgumentsOK, item, request, environment, Goto, Return
  <2> DEFINE Kept == /\ session'[p] = session[p] /\ readAt'[p] = readAt[p]
                     /\ step'[p] = "again" => step[p] = "again"
                     /\ told'[p] = "CONSUMED" => told[p] = "CONSUMED" /\ step'[p] = step[p]
  <2>1. Warranted(p)
    BY DEF WarrantInv
  <2>2. told[p] = "CONSUMED" => step[p] = "ended"
    BY <2>1 DEF Warranted
  <2>3. Kept => Warranted(p)'
    BY <2>1, WarrantKept
  <2>4. ASSUME NEW t \in Sessions, Authorize(t) \/ Revoke(t) PROVE Kept
    BY <2>4 DEF Authorize, Admit, Denied, Create, Revoke
  <2>5. ASSUME NEW r \in Requests, NEW t \in Sessions, NEW k \in Keys, Start(r, t, k)
        PROVE Warranted(p)'
    <3>1. CASE r = p
      BY <2>2, <2>5, <3>1 DEF Start, Warranted
    <3>2. CASE r # p
      BY <2>3, <2>5, <3>2 DEF Start
    <3>3. QED
      BY <3>1, <3>2
  <2>6. ASSUME NEW r \in Requests, r # p, Proceed(r) \/ Crash(r) PROVE Kept
    BY <2>6
    DEF Proceed, ClaimInvalid, ClaimDuplicate, ClaimConsumed, ClaimFree, ClaimWins, ClaimLoses,
        BudgetPaid, BudgetExhausted, Post, Answered, CallThrows, RecordTask, RecordFailure, Crash
  <2>7. ASSUME Proceed(p) PROVE Warranted(p)'
    <3>1. CASE ClaimInvalid(p)
      BY <2>2, <2>3, <3>1 DEF ClaimInvalid
    <3>2. CASE ClaimDuplicate(p)
      <4>1. told'[p] # "CONSUMED"
        BY <3>2 DEF ClaimDuplicate, Claim, Errors
      <4>2. QED
        BY <2>2, <2>3, <3>2, <4>1 DEF ClaimDuplicate
    <3>3. CASE ClaimConsumed(p)
      BY <3>3, ConsumedWarranted
    <3>4. CASE ClaimFree(p)
      BY <2>2, <3>4 DEF ClaimFree, Warranted
    <3>5. CASE ClaimLoses(p)
      BY <3>5, LosesWarranted
    <3>6. CASE ClaimWins(p) \/ BudgetPaid(p) \/ Post(p) \/ Answered(p)
      BY <2>2, <2>3, <3>6 DEF ClaimWins, BudgetPaid, Post, Answered
    <3>7. CASE BudgetExhausted(p) \/ CallThrows(p) \/ RecordFailure(p)
      BY <2>2, <2>3, <3>7 DEF BudgetExhausted, CallThrows, RecordFailure
    <3>8. CASE RecordTask(p)
      BY <2>2, <2>3, <3>8 DEF RecordTask, Errors
    <3>9. QED
      BY <2>7, <3>1, <3>2, <3>3, <3>4, <3>5, <3>6, <3>7, <3>8 DEF Proceed
  <2>8. CASE Crash(p)
    BY <2>2, <2>3, <2>8 DEF Crash, InFlight
  <2>9. CASE Tick \/ FlipSwitch \/ UNCHANGED callVars
    BY <2>3, <2>9 DEF Tick, FlipSwitch, callVars
  <2>10. QED
    BY <2>3, <2>4, <2>5, <2>6, <2>7, <2>8, <2>9 DEF CallNext
<1>3. QED
  BY <1>1, <1>2 DEF WarrantInv

\* Who is told that the call was consumed has a session whose call was claimed,
\* or one in its last second (classifySession, claimCall).
THEOREM ConsumedTold == CallSpec => []ConsumedIsWarranted
<1>1. CallInit => WarrantInv
  BY CallAssumption DEF CallInit, WarrantInv, Warranted, Errors
<1>2. ClaimInv /\ WarrantInv => ConsumedIsWarranted
  BY DEF WarrantInv, Warranted, Taken, Expiring, ConsumedIsWarranted
<1>3. QED
  BY <1>1, <1>2, WarrantStep, ClaimInvariant, PTL DEF CallSpec
-----------------------------------------------------------------------------
(* The budget *)

\* The requests a unit of the budget was spent on and that may still call, or
\* have called.
Paid == posted \cup {r \in Requests : step[r] = "call"}

BudgetInv == IsFiniteSet(Paid) /\ Cardinality(Paid) <= budgetUsed

\* A unit is spent for one request; nobody else comes to call, and no unit is
\* ever given back.
PaidStep ==
    \/ Paid' \subseteq Paid /\ budgetUsed' = budgetUsed
    \/ \E r \in Requests : Paid' \subseteq Paid \cup {r} /\ budgetUsed' = budgetUsed + 1

LEMMA PaidAction == TypeInv /\ [CallNext]_callVars => PaidStep
<1> SUFFICES ASSUME TypeInv, [CallNext]_callVars PROVE PaidStep
  OBVIOUS
<1> USE DEF TypeInv, CallTypeOK, Paid, PaidStep, item, request, environment, Goto, Return
<1>1. ASSUME NEW s \in Sessions, Authorize(s) \/ Revoke(s) PROVE PaidStep
  BY <1>1 DEF Authorize, Admit, Denied, Create, Revoke
<1>2. ASSUME NEW r \in Requests, NEW s \in Sessions, NEW k \in Keys, Start(r, s, k)
      PROVE PaidStep
  BY <1>2 DEF Start
<1>3. ASSUME NEW r \in Requests, Proceed(r) PROVE PaidStep
  <2>1. CASE BudgetPaid(r)
    BY <2>1 DEF BudgetPaid
  <2>2. CASE Post(r)
    BY <2>2 DEF Post
  <2>3. CASE ClaimInvalid(r) \/ ClaimDuplicate(r) \/ ClaimConsumed(r) \/ ClaimFree(r)
    BY <2>3 DEF ClaimInvalid, ClaimDuplicate, ClaimConsumed, ClaimFree
  <2>4. CASE ClaimWins(r) \/ ClaimLoses(r) \/ BudgetExhausted(r)
    BY <2>4 DEF ClaimWins, ClaimLoses, BudgetExhausted
  <2>5. CASE Answered(r) \/ CallThrows(r) \/ RecordTask(r) \/ RecordFailure(r)
    BY <2>5 DEF Answered, CallThrows, RecordTask, RecordFailure
  <2>6. QED
    BY <1>3, <2>1, <2>2, <2>3, <2>4, <2>5 DEF Proceed
<1>4. ASSUME NEW r \in Requests, Crash(r) PROVE PaidStep
  BY <1>4 DEF Crash
<1>5. CASE Tick \/ FlipSwitch \/ UNCHANGED callVars
  BY <1>5 DEF Tick, FlipSwitch, callVars
<1>6. QED
  BY <1>1, <1>2, <1>3, <1>4, <1>5 DEF CallNext

\* A set that grows by at most one element counts at most one more.
LEMMA GrowsByOne ==
    ASSUME NEW S, IsFiniteSet(S), NEW e, NEW T, T \subseteq S \cup {e}
    PROVE  IsFiniteSet(T) /\ Cardinality(T) <= Cardinality(S) + 1
<1>1. IsFiniteSet(S \cup {e}) /\ Cardinality(S \cup {e}) <= Cardinality(S) + 1
  <2>1. CASE e \in S
    <3>1. S \cup {e} = S /\ Cardinality(S) \in Nat
      BY <2>1, FS_CardinalityType
    <3>2. QED
      BY <3>1
  <2>2. CASE e \notin S
    <3>1. /\ IsFiniteSet(S \cup {e}) /\ Cardinality(S \cup {e}) = Cardinality(S) + 1
          /\ Cardinality(S) \in Nat
      BY <2>2, FS_AddElement, FS_CardinalityType
    <3>2. QED
      BY <3>1
  <2>3. QED
    BY <2>1, <2>2
<1>2. IsFiniteSet(T) /\ Cardinality(T) <= Cardinality(S \cup {e})
  BY <1>1, FS_Subset
<1>3. Cardinality(S) \in Nat /\ Cardinality(T) \in Nat /\ Cardinality(S \cup {e}) \in Nat
  BY <1>1, <1>2, FS_CardinalityType
<1>4. QED
  BY <1>1, <1>2, <1>3

\* What the types say of the budget.
LEMMA BudgetBound == CallTypeOK =>
    budgetUsed \in Nat /\ MaximumCalls \in Nat /\ budgetUsed <= MaximumCalls
<1>1. CallTypeOK => budgetUsed \in 0 .. MaximumCalls
  BY DEF CallTypeOK
<1>2. MaximumCalls \in Nat
  BY CallAssumption
<1>3. QED
  BY <1>1, <1>2

\* Every call placed was paid for and the payments of all sessions together
\* stay within the budget, whatever fails or dies afterwards
\* (GlobalCallBudget.claim).
THEOREM BudgetKept == CallSpec => []CallsWithinBudget
<1>1. CallInit => BudgetInv
  <2>1. CallInit => Paid = {} /\ budgetUsed \in Nat
    <3>1. CallInit => Paid = {} /\ budgetUsed \in 0 .. MaximumCalls
      BY DEF CallInit, Paid
    <3>2. MaximumCalls \in Nat
      BY CallAssumption
    <3>3. QED
      BY <3>1, <3>2
  <2>2. QED
    BY <2>1, FS_EmptySet DEF BudgetInv
<1>2. TypeInv /\ BudgetInv /\ [CallNext]_callVars => BudgetInv'
  <2> SUFFICES ASSUME TypeInv, BudgetInv, [CallNext]_callVars PROVE BudgetInv'
    OBVIOUS
  <2>1. budgetUsed \in Nat
    BY BudgetBound DEF TypeInv
  <2>2. CASE Paid' \subseteq Paid /\ budgetUsed' = budgetUsed
    <3>1. IsFiniteSet(Paid') /\ Cardinality(Paid') <= Cardinality(Paid)
      BY <2>2, FS_Subset DEF BudgetInv
    <3>2. Cardinality(Paid) \in Nat /\ Cardinality(Paid') \in Nat
      BY <3>1, FS_CardinalityType DEF BudgetInv
    <3>3. QED
      BY <2>1, <2>2, <3>1, <3>2 DEF BudgetInv
  <2>3. ASSUME NEW r \in Requests, Paid' \subseteq Paid \cup {r}, budgetUsed' = budgetUsed + 1
        PROVE BudgetInv'
    <3>1. IsFiniteSet(Paid') /\ Cardinality(Paid') <= Cardinality(Paid) + 1
      BY <2>3, GrowsByOne DEF BudgetInv
    <3>2. Cardinality(Paid) \in Nat /\ Cardinality(Paid') \in Nat
      BY <3>1, FS_CardinalityType DEF BudgetInv
    <3>3. QED
      BY <2>1, <2>3, <3>1, <3>2 DEF BudgetInv
  <2>4. QED
    BY <2>2, <2>3, PaidAction DEF PaidStep
<1>3. TypeInv /\ BudgetInv => CallsWithinBudget
  <2> SUFFICES ASSUME TypeInv, BudgetInv PROVE CallsWithinBudget
    OBVIOUS
  <2>1. Cardinality(posted) <= Cardinality(Paid) /\ IsFiniteSet(posted)
    BY FS_Subset DEF BudgetInv, Paid
  <2>2. Cardinality(posted) \in Nat /\ Cardinality(Paid) \in Nat
    BY <2>1, FS_CardinalityType DEF BudgetInv
  <2>3. budgetUsed <= MaximumCalls /\ budgetUsed \in Nat /\ MaximumCalls \in Nat
    BY BudgetBound DEF TypeInv
  <2>4. QED
    BY <2>1, <2>2, <2>3 DEF BudgetInv, CallsWithinBudget
<1>4. QED
  BY <1>1, <1>2, <1>3, TypeInvariant, PTL DEF CallSpec
=============================================================================
