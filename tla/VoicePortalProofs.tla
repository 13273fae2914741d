-------------------------- MODULE VoicePortalProofs --------------------------
(***************************************************************************)
(* Proofs about VoicePortal, for any number of sign-ins and requests in    *)
(* flight: its types, that a contact goes back to a sign-in of its judge,  *)
(* and that the contacts of a judge stay within the ceiling of a window.   *)
(***************************************************************************)
EXTENDS VoicePortal, FiniteSetTheorems, TLAPS

LoginRecord == [step : LoginSteps, source : Sources \cup {None}, code : Secrets \cup {None},
                at : Instants, since : Nat, judge : Secrets \cup {None}, told : LoginReplies]
StartRecord == [step : StartSteps, token : Logins \cup {None}, admitted : Instants,
                judge : Secrets \cup {None}, until : Nat, at : Instants, told : StartReplies]

\* What a sign-in with local variables x and stored session s stands for while
\* secret number n is in force.
LoginOK(x, s, n) ==
    /\ x.step \in {"count", "verify", "identify", "store"} =>
          x.source \in Sources /\ x.code \in Secrets /\ x.since <= n
    /\ x.step = "identify" => x.since <= x.code
    /\ x.step = "store" => x.judge \in Secrets /\ x.since <= x.code /\ x.code <= x.judge
    /\ x.step = "identify" => x.code <= n
    /\ s # None => x.step \in {"store", "ended"} /\ x.since <= x.code /\ x.code <= s.judge

\* A judge admitted by session s.
Admitted(x, s) ==
    /\ x.token \in Logins /\ s # None
    /\ x.admitted < s.until /\ x.judge = s.judge /\ x.judge \in Secrets

\* What a request v with local variables x, contact b and grant g stands for,
\* s being the session of its token.
StartOK(x, b, g, s) ==
    /\ x.step = "authorize" => x.token \in Logins
    /\ x.step \in {"create", "check", "count", "contact", "claim"} \/ b => Admitted(x, s)
    /\ b => x.step \in {"claim", "ended"}
    /\ x.step = "claim" => b
    /\ g # None => b /\ x.step \in {"claim", "ended"} /\ g.judge = x.judge
    /\ x.told = "STARTED" => b /\ g # None

LoginsOK == \A l \in Logins : LoginOK(login[l], sessions[l], secret)
StartsOK == \A v \in Starts : StartOK(start[v], v \in contacts, grants[v], sessions[start[v].token])
PortalInv == PortalTypeOK /\ LoginsOK /\ StartsOK

\* The window of an instant.
LEMMA WindowInstant ==
    ASSUME NEW n \in Instants, NEW d \in Nat \ {0}
    PROVE  n \div d \in Instants
BY PortalAssumption DEF Instants

LEMMA EmptyRecords == NoLogin \in LoginRecord /\ NoStart \in StartRecord
BY PortalAssumption
   DEF NoLogin, NoStart, LoginRecord, StartRecord, LoginSteps, StartSteps, LoginReplies,
       StartReplies, Instants

\* What a sign-in that stored nothing leaves behind.
LEMMA RefusedRecord ==
    ASSUME NEW what \in LoginReplies
    PROVE  [NoLogin EXCEPT !.step = "ended", !.told = what] \in LoginRecord
BY EmptyRecords DEF LoginRecord, LoginSteps

LEMMA PortalInitInv == PortalInit => PortalInv
<1> SUFFICES ASSUME PortalInit PROVE PortalInv
  OBVIOUS
<1> USE PortalAssumption DEF PortalInit
<1>2. PortalTypeOK
  BY EmptyRecords DEF PortalTypeOK, LoginRecord, StartRecord, Instants, Secrets
<1>3. LoginsOK
  BY DEF LoginsOK, LoginOK, NoLogin
<1>4. StartsOK
  BY DEF StartsOK, StartOK, NoStart
<1> QED BY <1>2, <1>3, <1>4 DEF PortalInv
-----------------------------------------------------------------------------
\* Sessions only ever appear, or are revoked.
SessionsGrow == \A l \in Logins : sessions[l] # None =>
    sessions'[l] # None /\ sessions'[l].judge = sessions[l].judge
    /\ sessions'[l].until = sessions[l].until

\* A step of the sign-ins leaves the requests in order.
LEMMA StartsUntouched ==
    ASSUME PortalInv, SessionsGrow, UNCHANGED <<start, contacts, grants>>
    PROVE  StartsOK'
<1> SUFFICES ASSUME NEW v \in Starts
             PROVE  StartOK(start[v], v \in contacts, grants[v], sessions'[start[v].token])
  BY DEF StartsOK
<1>1. StartOK(start[v], v \in contacts, grants[v], sessions[start[v].token])
  BY DEF PortalInv, StartsOK
<1> QED BY <1>1 DEF StartOK, Admitted, SessionsGrow

\* What a step of sign-in l does to its local variables and its session.
LEMMA LoginStep ==
    ASSUME PortalInv, NEW l \in Logins, Login(l)
    PROVE  \E x \in LoginRecord :
              /\ login' = [login EXCEPT ![l] = x]
              /\ \/ sessions' = sessions /\ LoginOK(x, sessions[l], secret)
                 \/ \E s \in Session : /\ sessions[l] = None /\ LoginOK(x, s, secret)
                                       /\ sessions' = [sessions EXCEPT ![l] = s]
<1> USE PortalAssumption DEF LoginAt, LoginGoes, LoginTold, LoginRefused
<1>1. /\ login[l] \in LoginRecord /\ login \in [Logins -> LoginRecord]
      /\ LoginOK(login[l], sessions[l], secret) /\ secret \in Secrets /\ Secrets \subseteq Nat
  BY DEF PortalInv, PortalTypeOK, LoginsOK, LoginRecord, Secrets
<1>2. CASE LoginThrottled(l) \/ CodeRejected(l)
  <2>1. PICK what \in {"RATE_LIMITED", "INVALID_ACCESS_CODE"} :
           login' = [login EXCEPT ![l] = [NoLogin EXCEPT !.step = "ended", !.told = what]]
    BY <1>2 DEF LoginThrottled, CodeRejected
  <2> DEFINE x == [NoLogin EXCEPT !.step = "ended", !.told = what]
  <2>2. x \in LoginRecord /\ sessions' = sessions /\ sessions[l] = None
    BY <1>1, <1>2, RefusedRecord DEF LoginReplies, LoginThrottled, CodeRejected, LoginOK
  <2>3. LoginOK(x, sessions[l], secret)
    BY <2>2 DEF LoginOK, NoLogin
  <2> QED BY <2>1, <2>2, <2>3
<1>3. CASE LoginCounted(l) \/ CodeAccepted(l)
  <2> DEFINE x == [login[l] EXCEPT !.step = IF LoginCounted(l) THEN "verify" ELSE "identify"]
  <2>1. login' = [login EXCEPT ![l] = x] /\ sessions' = sessions
    BY <1>1, <1>3 DEF LoginCounted, CountAttempt, CodeAccepted
  <2>2. x \in LoginRecord
    BY <1>1 DEF LoginRecord, LoginSteps
  <2>3. LoginOK(x, sessions[l], secret)
    BY <1>1, <1>3 DEF LoginCounted, CountAttempt, CodeAccepted, LoginOK, LoginRecord, LoginReplies
  <2> QED BY <2>1, <2>2, <2>3
<1>4. CASE Identified(l)
  <2> DEFINE x == [login[l] EXCEPT !.step = "store", !.judge = secret]
  <2>1. login' = [login EXCEPT ![l] = x] /\ sessions' = sessions
    BY <1>1, <1>4 DEF Identified
  <2>2. x \in LoginRecord
    BY <1>1 DEF LoginRecord, LoginSteps
  <2>3. LoginOK(x, sessions[l], secret)
    BY <1>1, <1>4 DEF Identified, LoginOK, LoginRecord
  <2> QED BY <2>1, <2>2, <2>3
<1>5. CASE StoreSession(l)
  <2> DEFINE s == [judge |-> login[l].judge, until |-> login[l].at + TokenTTL,
                   status |-> "ACTIVE"]
             x == IF login' = login THEN login[l]
                  ELSE [login[l] EXCEPT !.step = "ended", !.told = "AUTHENTICATED"]
  <2>1. sessions' = [sessions EXCEPT ![l] = s] /\ sessions[l] = None
    BY <1>5 DEF StoreSession
  <2>0. s \in Session
    BY <1>1, <1>5 DEF StoreSession, LoginOK, LoginRecord, Session, Instants
  <2>2. s \in Session /\ sessions' # sessions
    BY <1>1, <1>5, <2>0, <2>1, NothingIsStored DEF PortalInv, PortalTypeOK
  <2>3. login' = [login EXCEPT ![l] = x]
    <3>1. login' = login \/ login' = [login EXCEPT ![l].step = "ended", ![l].told = "AUTHENTICATED"]
      BY <1>5, <2>2 DEF StoreSession, Login, LoginThrottled, LoginCounted, CodeRejected, CodeAccepted,
         Identified, LoginStored, LoginDuplicate, LoginFails, LoginRetried
    <3> QED BY <1>1, <3>1
  <2>4. x \in LoginRecord
    BY <1>1 DEF LoginRecord, LoginSteps, LoginReplies
  <2>5. LoginOK(x, s, secret)
    <3>1. /\ x.step \in {"store", "ended"} /\ x.since = login[l].since
          /\ x.code = login[l].code /\ x.source = login[l].source /\ x.judge = login[l].judge
      BY <1>1, <1>5 DEF StoreSession, LoginRecord
    <3> HIDE DEF x
    <3> QED BY <1>1, <1>5, <3>1 DEF StoreSession, LoginOK
  <2> QED BY <2>1, <2>2, <2>3, <2>4, <2>5
<1>6. CASE LoginDuplicate(l) \/ LoginFails(l)
  <2>1. CASE login[l].step = "store"
    <3> DEFINE x == [login[l] EXCEPT !.step = "ended", !.told = "UNAVAILABLE"]
    <3>1. login' = [login EXCEPT ![l] = x] /\ sessions' = sessions
      BY <1>1, <1>6, <2>1 DEF LoginDuplicate, LoginFails
    <3>2. x \in LoginRecord
      BY <1>1 DEF LoginRecord, LoginSteps, LoginReplies
    <3>3. LoginOK(x, sessions[l], secret)
      BY <1>1, <2>1 DEF LoginOK, LoginRecord
    <3> QED BY <3>1, <3>2, <3>3
  <2>2. CASE login[l].step # "store"
    <3> DEFINE x == [NoLogin EXCEPT !.step = "ended", !.told = "UNAVAILABLE"]
    <3>1. login' = [login EXCEPT ![l] = x] /\ sessions' = sessions /\ sessions[l] = None
      BY <1>1, <1>6, <2>2 DEF LoginDuplicate, LoginFails, LoginOK
    <3>2. x \in LoginRecord
      BY RefusedRecord DEF LoginReplies
    <3>3. LoginOK(x, sessions[l], secret)
      BY <3>1 DEF LoginOK, NoLogin
    <3> QED BY <3>1, <3>2, <3>3
  <2> QED BY <2>1, <2>2
<1>7. CASE LoginRetried(l) /\ ~ StoreSession(l)
  <2>1. login' = [login EXCEPT ![l] = login[l]] /\ sessions' = sessions
    BY <1>1, <1>7 DEF LoginRetried
  <2> QED BY <1>1, <2>1
<1> QED BY <1>2, <1>3, <1>4, <1>5, <1>6, <1>7 DEF Login, LoginStored

\* A step that gives sign-in l new local variables, and a session if it has none.
LEMMA LoginsKept ==
    ASSUME PortalInv, NEW l \in Logins, NEW x \in LoginRecord,
           login' = [login EXCEPT ![l] = x], secret' = secret,
           \/ sessions' = sessions /\ LoginOK(x, sessions[l], secret)
           \/ \E s \in Session : /\ sessions[l] = None /\ LoginOK(x, s, secret)
                                 /\ sessions' = [sessions EXCEPT ![l] = s]
    PROVE  /\ LoginsOK' /\ SessionsGrow
           /\ login' \in [Logins -> LoginRecord] /\ sessions' \in [Logins -> Session \cup {None}]
<1>1. login \in [Logins -> LoginRecord] /\ sessions \in [Logins -> Session \cup {None}]
  BY DEF PortalInv, PortalTypeOK, LoginRecord
<1>2. \A k \in Logins : LoginOK(login[k], sessions[k], secret)
  BY DEF PortalInv, LoginsOK
<1> HIDE DEF LoginOK
<1>3. CASE sessions' = sessions /\ LoginOK(x, sessions[l], secret)
  BY <1>1, <1>2, <1>3 DEF LoginsOK, SessionsGrow
<1>4. ASSUME NEW s \in Session, sessions[l] = None, LoginOK(x, s, secret),
             sessions' = [sessions EXCEPT ![l] = s]
      PROVE  /\ LoginsOK' /\ SessionsGrow
             /\ login' \in [Logins -> LoginRecord] /\ sessions' \in [Logins -> Session \cup {None}]
  BY <1>1, <1>2, <1>4 DEF LoginsOK, SessionsGrow
<1> QED BY <1>3, <1>4

LEMMA LoginKeeps ==
    ASSUME PortalInv, NEW l \in Logins, Login(l)
    PROVE  PortalInv'
<1>1. LoginsOK' /\ SessionsGrow /\ login' \in [Logins -> LoginRecord]
      /\ sessions' \in [Logins -> Session \cup {None}]
  <2>1. secret' = secret
    BY DEF Login, LoginThrottled, LoginCounted, CodeRejected, CodeAccepted, Identified,
           LoginStored, LoginDuplicate, LoginFails, LoginRetried
  <2> QED BY <2>1, LoginStep, LoginsKept
<1>2. UNCHANGED <<now, secret, voiceVars>> /\ lost' \in 0 .. MaxLost
  BY PortalAssumption DEF PortalInv, PortalTypeOK, Login, LoginThrottled, LoginCounted,
     CodeRejected, CodeAccepted, Identified, LoginStored, LoginDuplicate, LoginFails, LoginRetried
<1>3. attempts' \in [Sources -> [Instants -> 0 .. MaximumLogins]]
  <2>1. attempts \in [Sources -> [Instants -> 0 .. MaximumLogins]]
    BY DEF PortalInv, PortalTypeOK
  <2>2. CASE attempts' = attempts
    BY <2>1, <2>2
  <2>3. CASE CountAttempt(l)
    <3> DEFINE s == login[l].source
               w == login[l].at \div LoginWindow
    <3>1. s \in Sources /\ login[l].at \in Instants
      BY <2>3 DEF CountAttempt, LoginAt, PortalInv, PortalTypeOK, LoginsOK, LoginOK
    <3>2. w \in Instants
      BY <3>1, WindowInstant, PortalAssumption
    <3>3. attempts' = [attempts EXCEPT ![s][w] = @ + 1] /\ attempts[s][w] < MaximumLogins
      BY <2>3 DEF CountAttempt, Attempts
    <3> HIDE DEF s, w
    <3>4. attempts[s][w] + 1 \in 0 .. MaximumLogins
      BY <2>1, <3>1, <3>2, <3>3, PortalAssumption
    <3> QED BY <2>1, <3>1, <3>2, <3>3, <3>4
  <2> QED BY <2>2, <2>3 DEF Login, LoginThrottled, LoginCounted, CodeRejected, CodeAccepted,
     Identified, LoginStored, LoginDuplicate, LoginFails, LoginRetried
<1>4. StartsOK'
  BY <1>1, <1>2, StartsUntouched DEF voiceVars
<1>5. PortalTypeOK'
  BY <1>1, <1>2, <1>3 DEF PortalInv, PortalTypeOK, voiceVars, LoginRecord
<1> QED BY <1>1, <1>4, <1>5 DEF PortalInv
-----------------------------------------------------------------------------
\* A step that gives request v new local variables x and whose contact and
\* grant become b and g.
LEMMA StartsKept ==
    ASSUME PortalInv, NEW v \in Starts, NEW x \in StartRecord,
           start' = [start EXCEPT ![v] = x], sessions' = sessions,
           contacts' \in {contacts, contacts \cup {v}},
           grants' \in [Starts -> Grant \cup {None}],
           \A k \in Starts \ {v} : grants'[k] = grants[k],
           StartOK(x, v \in contacts', grants'[v], sessions[x.token])
    PROVE  StartsOK' /\ start' \in [Starts -> StartRecord] /\ contacts' \subseteq Starts
<1>1. start \in [Starts -> StartRecord] /\ contacts \subseteq Starts
  BY DEF PortalInv, PortalTypeOK, StartRecord
<1>2. ASSUME NEW k \in Starts
      PROVE  StartOK(start'[k], k \in contacts', grants'[k], sessions[start'[k].token])
  <2>1. StartOK(start[k], k \in contacts, grants[k], sessions[start[k].token])
    BY DEF PortalInv, StartsOK
  <2>2. CASE k = v
    BY <1>1, <2>2
  <2>3. CASE k # v
    <3>1. start'[k] = start[k] /\ grants'[k] = grants[k] /\ (k \in contacts' <=> k \in contacts)
      BY <1>1, <2>3
    <3> QED BY <2>1, <3>1 DEF StartOK
  <2> QED BY <2>2, <2>3
<1> HIDE DEF StartOK
<1>3. StartsOK'
  BY <1>2 DEF StartsOK
<1> QED BY <1>1, <1>3

\* What a step of request v does to its local variables.
StartStep(v) == \E x \in StartRecord :
    /\ start' = [start EXCEPT ![v] = x]
    /\ StartOK(x, v \in contacts', grants'[v], sessions[x.token])

\* What the facts about request v are, in the form the steps need them.
LEMMA StartFacts ==
    ASSUME PortalInv, NEW v \in Starts
    PROVE  /\ start[v] \in StartRecord /\ start \in [Starts -> StartRecord]
           /\ StartOK(start[v], v \in contacts, grants[v], sessions[start[v].token])
           /\ grants \in [Starts -> Grant \cup {None}]
           /\ now \in Instants /\ Instants \subseteq Nat /\ RunTTL \in Nat
           /\ GrantLifetime \in Nat
<1>1. start \in [Starts -> StartRecord]
  BY DEF PortalInv, PortalTypeOK, StartRecord
<1>2. /\ StartOK(start[v], v \in contacts, grants[v], sessions[start[v].token])
      /\ grants \in [Starts -> Grant \cup {None}] /\ now \in Instants
  BY DEF PortalInv, PortalTypeOK, StartsOK
<1>3. Instants \subseteq Nat /\ RunTTL \in Nat /\ GrantLifetime \in Nat
  BY PortalAssumption DEF Instants
<1> QED BY <1>1, <1>2, <1>3

\* A request that is refused before a contact was asked for.
LEMMA RefusedStep ==
    ASSUME PortalInv, NEW v \in Starts, NEW what \in StartReplies \ {"STARTED"},
           StartRefused(v, what), UNCHANGED <<contacts, grants>>,
           start[v].step \in {"authorize", "create", "check", "count", "contact"}
    PROVE  StartStep(v)
<1> DEFINE x == [NoStart EXCEPT !.step = "ended", !.told = what]
<1>1. x \in StartRecord
  BY EmptyRecords DEF StartRecord, StartSteps
<1>2. v \notin contacts /\ grants[v] = None
  BY StartFacts DEF StartOK
<1>3. StartOK(x, v \in contacts', grants'[v], sessions[x.token])
  BY <1>2 DEF StartOK, NoStart
<1> QED BY <1>1, <1>3 DEF StartStep, StartRefused

\* The requests admitted go on, up to the contact.
LEMMA AdmittedStep ==
    ASSUME PortalInv, NEW v \in Starts, UNCHANGED <<contacts, grants, sessions>>,
           NEW x \in StartRecord, start' = [start EXCEPT ![v] = x], x.told = start[v].told,
           start[v].step \in {"idle", "authorize", "create", "check", "count"},
           x.step = "authorize" => x.token \in Logins,
           x.step \in {"authorize", "create", "check", "count", "contact"},
           x.step # "authorize" => Admitted(x, sessions[x.token])
    PROVE  StartStep(v)
<1>1. v \notin contacts /\ grants[v] = None /\ start[v].told # "STARTED"
  BY StartFacts DEF StartOK
<1>2. StartOK(x, v \in contacts', grants'[v], sessions[x.token])
  BY <1>1 DEF StartOK
<1> QED BY <1>2 DEF StartStep

LEMMA EarlySteps ==
    ASSUME PortalInv, NEW v \in Starts,
           \/ \E l \in Logins : VoiceAsked(v, l)
           \/ Authorized(v) \/ SessionCreated(v) \/ SessionAlive(v) \/ VoiceCounted(v)
    PROVE  StartStep(v)
<1> USE DEF StartAt, StartGoes
<1>1. ASSUME NEW l \in Logins, VoiceAsked(v, l) PROVE StartStep(v)
  <2> DEFINE x == [NoStart EXCEPT !.step = "authorize", !.token = l]
  <2>1. x \in StartRecord /\ x.told = "none" /\ x.step = "authorize" /\ x.token = l
    BY EmptyRecords DEF StartRecord, StartSteps, NoStart
  <2>2. start' = [start EXCEPT ![v] = x] /\ UNCHANGED <<contacts, grants, sessions>>
        /\ start[v].step = "idle"
    BY <1>1 DEF VoiceAsked, loginVars
  <2>3. v \notin contacts /\ grants[v] = None
    BY StartFacts, <2>2 DEF StartOK
  <2> HIDE DEF x
  <2>4. StartOK(x, v \in contacts', grants'[v], sessions[x.token])
    BY <2>1, <2>2, <2>3 DEF StartOK
  <2> QED BY <2>1, <2>2, <2>4 DEF StartStep
<1>2. CASE Authorized(v)
  <2> DEFINE l == start[v].token
             x == [start[v] EXCEPT !.step = "create", !.admitted = now,
                                   !.judge = sessions[l].judge]
  <2>1. l \in Logins /\ sessions[l] # None /\ now < sessions[l].until
        /\ sessions[l] \in Session
    <3>1. l \in Logins /\ sessions[l] # None /\ sessions[l].until > now
      BY <1>2, StartFacts DEF Authorized, StartOK, Honoured
    <3>2. sessions[l] \in Session
      BY <3>1 DEF PortalInv, PortalTypeOK
    <3> QED BY <3>1, <3>2, StartFacts DEF Session
  <2>2. x \in StartRecord /\ Admitted(x, sessions[l]) /\ x.token = l /\ x.step = "create"
        /\ x.told = start[v].told
    BY <2>1, StartFacts DEF StartRecord, StartSteps, Admitted, Session
  <2>3. start' = [start EXCEPT ![v] = x] /\ UNCHANGED <<contacts, grants, sessions>>
        /\ start[v].step = "authorize"
    BY <1>2, StartFacts DEF Authorized, loginVars
  <2> HIDE DEF x, l
  <2> QED BY <2>2, <2>3, AdmittedStep
<1>3. CASE SessionCreated(v) \/ SessionAlive(v) \/ VoiceCounted(v)
  <2> DEFINE x == IF SessionCreated(v) THEN [start[v] EXCEPT !.step = "check", !.until = now + RunTTL]
                  ELSE IF SessionAlive(v) THEN [start[v] EXCEPT !.step = "count", !.at = now]
                  ELSE [start[v] EXCEPT !.step = "contact"]
  <2>1. x \in StartRecord /\ x.step \in {"check", "count", "contact"}
        /\ x.token = start[v].token /\ x.judge = start[v].judge
        /\ x.admitted = start[v].admitted /\ x.told = start[v].told
    <3>1. now \in Instants /\ now + RunTTL \in Nat
      BY StartFacts
    <3>2. CASE SessionCreated(v)
      BY <3>1, <3>2, StartFacts DEF StartRecord, StartSteps
    <3>3. CASE ~ SessionCreated(v) /\ SessionAlive(v)
      BY <3>1, <3>3, StartFacts DEF StartRecord, StartSteps
    <3>4. CASE ~ SessionCreated(v) /\ ~ SessionAlive(v)
      BY <3>4, StartFacts DEF StartRecord, StartSteps
    <3> QED BY <3>2, <3>3, <3>4
  <2>2. start' = [start EXCEPT ![v] = x] /\ UNCHANGED <<contacts, grants, sessions>>
        /\ start[v].step \in {"create", "check", "count"}
    BY <1>3, StartFacts DEF SessionCreated, SessionAlive, VoiceCounted, CountSession, loginVars
  <2>3. Admitted(start[v], sessions[start[v].token])
    BY <2>2, StartFacts DEF StartOK
  <2> HIDE DEF x
  <2>4. Admitted(x, sessions[x.token])
    BY <2>1, <2>3 DEF Admitted
  <2> QED BY <2>1, <2>2, <2>4, AdmittedStep
<1> QED BY <1>1, <1>2, <1>3

LEMMA LateSteps ==
    ASSUME PortalInv, NEW v \in Starts,
           \/ ContactStarted(v) \/ ContactFails(v) \/ GrantIssued(v) \/ GrantTaken(v)
           \/ StartRetried(v) \/ (StartAt(v, "claim") /\ StartFails(v))
    PROVE  StartStep(v) /\ grants' \in [Starts -> Grant \cup {None}]
           /\ (\A k \in Starts \ {v} : grants'[k] = grants[k])
<1> USE DEF StartAt, StartGoes, StartTold
<1>1. CASE ContactStarted(v) \/ ContactFails(v)
  <2> DEFINE x == IF ContactStarted(v) THEN [start[v] EXCEPT !.step = "claim"]
                  ELSE [start[v] EXCEPT !.step = "ended", !.told = "UPSTREAM"]
  <2>1. /\ x \in StartRecord /\ x.token = start[v].token /\ x.judge = start[v].judge
        /\ x.admitted = start[v].admitted /\ x.step \in {"claim", "ended"}
        /\ x.step = "claim" => ContactStarted(v)
        /\ x.told = "STARTED" => start[v].told = "STARTED"
    BY StartFacts DEF StartRecord, StartSteps, StartReplies
  <2>2. start' = [start EXCEPT ![v] = x] /\ UNCHANGED <<grants, sessions>>
        /\ start[v].step = "contact"
    BY <1>1, StartFacts DEF ContactStarted, ContactFails, loginVars
  <2>3. /\ Admitted(start[v], sessions[start[v].token])
        /\ grants[v] = None /\ start[v].told # "STARTED"
    BY <2>2, StartFacts DEF StartOK
  <2>4. ContactStarted(v) => v \in contacts'
    BY DEF ContactStarted
  <2> HIDE DEF x
  <2>5. StartOK(x, v \in contacts', grants'[v], sessions[x.token])
    BY <2>1, <2>2, <2>3, <2>4 DEF StartOK, Admitted
  <2> QED BY <2>1, <2>2, <2>5, StartFacts DEF StartStep
<1>2. CASE ClaimGrant(v) /\ (GrantIssued(v) \/ StartRetried(v))
  <2> DEFINE g == [judge |-> start[v].judge, until |-> start[v].at + GrantLifetime,
                   consumed |-> FALSE]
             x == IF GrantIssued(v) THEN [start[v] EXCEPT !.step = "ended", !.told = "STARTED"]
                  ELSE start[v]
  <2>1. v \in contacts /\ Admitted(start[v], sessions[start[v].token]) /\ start[v].step = "claim"
    BY <1>2, StartFacts DEF ClaimGrant, StartOK
  <2>2. g \in Grant /\ g # None /\ g.judge = start[v].judge
    <3>1. start[v].judge \in Secrets
      BY <2>1 DEF Admitted
    <3>2. start[v].at + GrantLifetime \in Nat
      BY StartFacts DEF StartRecord
    <3>3. g \in Grant /\ g.judge = start[v].judge
      BY <3>1, <3>2 DEF Grant
    <3> QED BY <3>3, NothingIsStored
  <2>3. grants' = [grants EXCEPT ![v] = g] /\ UNCHANGED <<contacts, sessions>>
    BY <1>2 DEF ClaimGrant, GrantIssued, StartRetried, loginVars
  <2>4. x \in StartRecord /\ x.token = start[v].token /\ x.judge = start[v].judge
        /\ x.admitted = start[v].admitted /\ x.step \in {"claim", "ended"}
    BY <2>1, StartFacts DEF StartRecord, StartSteps, StartReplies
  <2>5. start' = [start EXCEPT ![v] = x]
    BY <1>2, StartFacts DEF GrantIssued, StartRetried
  <2> HIDE DEF x, g
  <2>6. grants'[v] = g /\ grants' \in [Starts -> Grant \cup {None}]
        /\ (\A k \in Starts \ {v} : grants'[k] = grants[k])
    BY <2>2, <2>3, StartFacts
  <2>7. StartOK(x, v \in contacts', grants'[v], sessions[x.token])
    BY <2>1, <2>2, <2>3, <2>4, <2>6 DEF StartOK, Admitted
  <2> QED BY <2>4, <2>5, <2>6, <2>7 DEF StartStep
<1>3. CASE StartRetried(v) /\ ~ ClaimGrant(v)
  <2>1. start' = [start EXCEPT ![v] = start[v]] /\ UNCHANGED <<contacts, grants>>
    BY <1>3, StartFacts DEF StartRetried
  <2> QED BY <2>1, StartFacts DEF StartStep
<1>4. CASE GrantTaken(v) \/ (start[v].step = "claim" /\ StartFails(v))
  <2>1. PICK what \in {"GRANT_ALREADY_ISSUED", "UPSTREAM"} :
           /\ start' = [start EXCEPT ![v].step = "ended", ![v].told = what]
           /\ UNCHANGED <<contacts, grants>> /\ start[v].step = "claim"
    BY <1>4 DEF GrantTaken, StartFails
  <2> DEFINE x == [start[v] EXCEPT !.step = "ended", !.told = what]
  <2>2. /\ x \in StartRecord /\ start' = [start EXCEPT ![v] = x]
        /\ x.token = start[v].token /\ x.judge = start[v].judge
        /\ x.admitted = start[v].admitted /\ x.step = "ended" /\ x.told # "STARTED"
    BY <2>1, StartFacts DEF StartRecord, StartSteps, StartReplies
  <2> HIDE DEF x
  <2>3. StartOK(x, v \in contacts', grants'[v], sessions[x.token])
    BY <2>1, <2>2, StartFacts DEF StartOK, Admitted
  <2> QED BY <2>1, <2>2, <2>3, StartFacts DEF StartStep
<1> QED BY <1>1, <1>2, <1>3, <1>4 DEF GrantIssued
LEMMA StartKeeps ==
    ASSUME PortalInv, NEW v \in Starts, Start(v) \/ \E l \in Logins : VoiceAsked(v, l)
    PROVE  PortalInv'
<1>1. /\ UNCHANGED <<now, secret, loginVars>> /\ contacts' \in {contacts, contacts \cup {v}}
      /\ lost' \in 0 .. MaxLost
  <2>1. lost \in 0 .. MaxLost /\ MaxLost \in Nat
    BY PortalAssumption DEF PortalInv, PortalTypeOK
  <2>2. CASE StartRetried(v)
    BY <2>1, <2>2 DEF StartRetried
  <2>3. CASE ContactStarted(v) \/ ContactFails(v) \/ GrantIssued(v) \/ GrantTaken(v) \/ StartFails(v)
    BY <2>1, <2>3 DEF ContactStarted, ContactFails, GrantIssued, GrantTaken, StartFails
  <2>4. CASE \/ \E l \in Logins : VoiceAsked(v, l)
             \/ Authorized(v) \/ AuthorizationDenied(v) \/ SessionCreated(v)
             \/ SessionExpired(v) \/ SessionAlive(v) \/ VoiceThrottled(v) \/ VoiceCounted(v)
    BY <2>1, <2>4 DEF VoiceAsked, Authorized, AuthorizationDenied, SessionCreated,
       SessionExpired, SessionAlive, VoiceThrottled, VoiceCounted
  <2> QED BY <2>2, <2>3, <2>4 DEF Start
<1>2. StartStep(v) /\ grants' \in [Starts -> Grant \cup {None}]
      /\ (\A k \in Starts \ {v} : grants'[k] = grants[k])
  <2>1. CASE \/ \E l \in Logins : VoiceAsked(v, l)
             \/ Authorized(v) \/ SessionCreated(v) \/ SessionAlive(v) \/ VoiceCounted(v)
    <3>1. grants' = grants
      BY <2>1 DEF VoiceAsked, Authorized, SessionCreated, SessionAlive, VoiceCounted
    <3> QED BY <2>1, <3>1, EarlySteps, StartFacts
  <2>2. CASE \/ ContactStarted(v) \/ ContactFails(v) \/ GrantIssued(v) \/ GrantTaken(v)
             \/ StartRetried(v) \/ (StartAt(v, "claim") /\ StartFails(v))
    BY <2>2, LateSteps
  <2>3. CASE \/ AuthorizationDenied(v) \/ SessionExpired(v) \/ VoiceThrottled(v)
             \/ (~ StartAt(v, "claim") /\ StartFails(v))
    <3>1. PICK what \in StartReplies \ {"STARTED"} : StartRefused(v, what)
      BY <2>3 DEF AuthorizationDenied, SessionExpired, VoiceThrottled, StartFails, StartReplies
    <3>2. UNCHANGED <<contacts, grants>>
          /\ start[v].step \in {"authorize", "create", "check", "count", "contact"}
      BY <2>3 DEF AuthorizationDenied, SessionExpired, VoiceThrottled, StartFails, StartAt
    <3> QED BY <3>1, <3>2, RefusedStep, StartFacts
  <2> QED BY <1>1, <2>1, <2>2, <2>3 DEF Start
<1>3. StartsOK' /\ start' \in [Starts -> StartRecord] /\ contacts' \subseteq Starts
  BY <1>1, <1>2, StartsKept DEF StartStep, loginVars
<1>4. LoginsOK'
  BY <1>1 DEF PortalInv, LoginsOK, loginVars
<1>5. used' \in [Secrets -> [Instants -> 0 .. MaximumSessions]]
  <2>1. used \in [Secrets -> [Instants -> 0 .. MaximumSessions]]
    BY DEF PortalInv, PortalTypeOK
  <2>2. CASE used' = used
    BY <2>1, <2>2
  <2>3. CASE CountSession(v)
    <3> DEFINE j == start[v].judge
               w == start[v].at \div VoiceWindow
    <3>1. j \in Secrets /\ start[v].at \in Instants
      BY <2>3, StartFacts DEF CountSession, StartAt, StartOK, Admitted, StartRecord
    <3>2. w \in Instants
      BY <3>1, WindowInstant, PortalAssumption
    <3>3. used' = [used EXCEPT ![j][w] = @ + 1] /\ used[j][w] < MaximumSessions
      BY <2>3 DEF CountSession, Sessions
    <3> HIDE DEF j, w
    <3>4. used[j][w] + 1 \in 0 .. MaximumSessions
      BY <2>1, <3>1, <3>2, <3>3, PortalAssumption
    <3> QED BY <2>1, <3>1, <3>2, <3>3, <3>4
  <2> QED BY <2>2, <2>3 DEF Start, VoiceAsked, Authorized, AuthorizationDenied, SessionCreated,
     SessionExpired, SessionAlive, VoiceThrottled, VoiceCounted, ContactStarted, ContactFails,
     GrantIssued, GrantTaken, StartFails, StartRetried
<1>6. PortalTypeOK'
  BY <1>1, <1>2, <1>3, <1>5 DEF PortalInv, PortalTypeOK, loginVars, StartRecord
<1> QED BY <1>3, <1>4, <1>6 DEF PortalInv

\* Revocations, consumption of a grant, rotation of the secret and the clock.
LEMMA RevokeKeeps ==
    ASSUME PortalInv, NEW l \in Logins, Revoke(l)
    PROVE  PortalInv'
<1> DEFINE s == [sessions[l] EXCEPT !.status = "REVOKED"]
<1>1. sessions[l] \in Session /\ sessions \in [Logins -> Session \cup {None}]
  BY DEF Revoke, PortalInv, PortalTypeOK
<1>2. s \in Session /\ s.judge = sessions[l].judge /\ s.until = sessions[l].until
  BY <1>1 DEF Session
<1>3. sessions' = [sessions EXCEPT ![l] = s] /\ sessions[l] # None /\ s # None
      /\ UNCHANGED <<now, secret, login, attempts, voiceVars, lost>>
  BY <1>1, <1>2, NothingIsStored DEF Revoke
<1> HIDE DEF s
<1>4. SessionsGrow
  BY <1>1, <1>2, <1>3 DEF SessionsGrow
<1>5. LoginsOK'
  <2> SUFFICES ASSUME NEW k \in Logins PROVE LoginOK(login[k], sessions'[k], secret)
    BY <1>3 DEF LoginsOK
  <2>1. LoginOK(login[k], sessions[k], secret)
    BY DEF PortalInv, LoginsOK
  <2>2. sessions'[k] # None => sessions[k] # None /\ sessions'[k].judge = sessions[k].judge
    BY <1>1, <1>2, <1>3
  <2> QED BY <2>1, <2>2 DEF LoginOK
<1>6. StartsOK'
  BY <1>3, <1>4, StartsUntouched DEF voiceVars
<1>7. PortalTypeOK'
  BY <1>1, <1>2, <1>3 DEF PortalInv, PortalTypeOK, voiceVars
<1> QED BY <1>5, <1>6, <1>7 DEF PortalInv

LEMMA ConsumeKeeps ==
    ASSUME PortalInv, NEW v \in Starts, Consume(v)
    PROVE  PortalInv'
<1> DEFINE g == [grants[v] EXCEPT !.consumed = TRUE]
<1>1. grants[v] \in Grant /\ grants \in [Starts -> Grant \cup {None}]
  BY DEF Consume, PortalInv, PortalTypeOK
<1>2. g \in Grant /\ g.judge = grants[v].judge
  BY <1>1 DEF Grant
<1>3. grants' = [grants EXCEPT ![v] = g] /\ grants[v] # None /\ g # None
      /\ UNCHANGED <<now, secret, loginVars, start, used, contacts, lost>>
  BY <1>1, <1>2, NothingIsStored DEF Consume
<1> HIDE DEF g
<1>4. StartsOK'
  <2> SUFFICES ASSUME NEW k \in Starts
               PROVE  StartOK(start[k], k \in contacts, grants'[k], sessions[start[k].token])
    BY <1>3 DEF StartsOK, loginVars
  <2>1. StartOK(start[k], k \in contacts, grants[k], sessions[start[k].token])
    BY DEF PortalInv, StartsOK
  <2>2. /\ grants'[k] # None <=> grants[k] # None
        /\ grants[k] # None => grants'[k].judge = grants[k].judge
    BY <1>1, <1>2, <1>3
  <2> QED BY <2>1, <2>2 DEF StartOK
<1>5. PortalTypeOK' /\ LoginsOK'
  BY <1>1, <1>2, <1>3 DEF PortalInv, PortalTypeOK, LoginsOK, loginVars
<1> QED BY <1>4, <1>5 DEF PortalInv

LEMMA ClockKeeps ==
    ASSUME PortalInv, Rotate \/ Tick \/ UNCHANGED portalVars
    PROVE  PortalInv'
<1>1. /\ UNCHANGED <<loginVars, voiceVars, lost>>
      /\ secret' \in Secrets /\ now' \in Instants /\ secret' >= secret /\ secret \in Nat
      /\ secret' \in Nat
  <2>1. secret \in 1 .. LastSecret /\ now \in 0 .. MaxTime /\ LastSecret \in Nat /\ MaxTime \in Nat
    BY PortalAssumption DEF PortalInv, PortalTypeOK, Secrets, Instants
  <2>2. UNCHANGED <<loginVars, voiceVars, lost>>
    BY DEF Rotate, Tick, portalVars
  <2>3. /\ secret' = secret \/ (secret < LastSecret /\ secret' = secret + 1)
        /\ now' = now \/ (now < MaxTime /\ now' = now + 1)
    BY DEF Rotate, Tick, portalVars
  <2> QED BY <2>1, <2>2, <2>3 DEF Secrets, Instants
<1>2. PortalTypeOK' /\ StartsOK'
  BY <1>1 DEF PortalInv, PortalTypeOK, StartsOK, loginVars, voiceVars
<1>3. LoginsOK'
  <2> SUFFICES ASSUME NEW k \in Logins PROVE LoginOK(login[k], sessions[k], secret')
    BY <1>1 DEF LoginsOK, loginVars
  <2>1. LoginOK(login[k], sessions[k], secret) /\ login[k].since \in Nat
        /\ login[k].code \in Secrets \cup {None} /\ Secrets \subseteq Nat
    BY DEF PortalInv, LoginsOK, PortalTypeOK, Secrets
  <2>0. secret \in Nat /\ secret' \in Nat /\ secret <= secret'
    BY <1>1
  <2>2. login[k].since <= secret => login[k].since <= secret'
    <3>1. login[k].since \in Nat
      BY <2>1
    <3> QED BY <2>0, <3>1
  <2>3. login[k].code \in Secrets /\ login[k].code <= secret => login[k].code <= secret'
    <3> SUFFICES ASSUME login[k].code \in Secrets, login[k].code <= secret
                 PROVE  login[k].code <= secret'
      OBVIOUS
    <3>1. login[k].code \in Nat
      BY <2>1
    <3> QED BY <2>0, <3>1
  <2> QED BY <2>1, <2>2, <2>3 DEF LoginOK
<1> QED BY <1>2, <1>3 DEF PortalInv

LEMMA PortalStepInv == PortalInv /\ [PortalNext]_portalVars => PortalInv'
<1> SUFFICES ASSUME PortalInv, [PortalNext]_portalVars PROVE PortalInv'
  OBVIOUS
<1>1. ASSUME NEW l \in Logins, NEW s \in Sources, NEW c \in Secrets, LoginArrives(l, s, c)
      PROVE  PortalInv'
  <2> DEFINE x == [NoLogin EXCEPT !.step = "count", !.source = s, !.code = c, !.at = now,
                                  !.since = secret]
  <2>1. login' = [login EXCEPT ![l] = x] /\ UNCHANGED <<now, secret, sessions, attempts, voiceVars, lost>>
    BY <1>1 DEF LoginArrives
  <2>2. now \in Instants /\ secret \in Nat
    BY DEF PortalInv, PortalTypeOK, Secrets
  <2>3. x \in LoginRecord
    BY <2>2, EmptyRecords DEF LoginRecord, LoginSteps
  <2>4. sessions[l] = None
    BY <1>1 DEF LoginArrives, LoginAt, PortalInv, LoginsOK, LoginOK
  <2>5. LoginOK(x, sessions[l], secret)
    BY <2>2, <2>4 DEF LoginOK, NoLogin
  <2> HIDE DEF x
  <2>6. LoginsOK' /\ SessionsGrow /\ login' \in [Logins -> LoginRecord]
    BY <2>1, <2>3, <2>5, LoginsKept
  <2>7. StartsOK'
    BY <2>1, <2>6, StartsUntouched DEF voiceVars
  <2>8. PortalTypeOK'
    BY <2>1, <2>6 DEF PortalInv, PortalTypeOK, LoginRecord, voiceVars
  <2> QED BY <2>6, <2>7, <2>8 DEF PortalInv
<1>2. ASSUME NEW l \in Logins, Login(l) \/ Revoke(l) PROVE PortalInv'
  BY <1>2, LoginKeeps, RevokeKeeps
<1>3. ASSUME NEW v \in Starts, NEW l \in Logins, VoiceAsked(v, l) PROVE PortalInv'
  BY <1>3, StartKeeps
<1>4. ASSUME NEW v \in Starts, Start(v) \/ Consume(v) PROVE PortalInv'
  BY <1>4, StartKeeps, ConsumeKeeps
<1>5. CASE Rotate \/ Tick \/ UNCHANGED portalVars
  BY <1>5, ClockKeeps
<1> QED BY <1>1, <1>2, <1>3, <1>4, <1>5 DEF PortalNext

\* Sign-ins, sessions, counters, requests, contacts and grants stay of their
\* types, for any number of handlers in flight.
THEOREM PortalTypeCorrect == PortalSpec => []PortalTypeOK
<1>1. PortalInv => PortalTypeOK
  BY DEF PortalInv
<1> QED BY PortalInitInv, PortalStepInv, <1>1, PTL DEF PortalSpec

\* Every contact goes back to a session a sign-in of its judge has stored, for
\* a code that was in force, and a grant that was told is there
\* (JudgeAuthService, StableAccessCodeVerifier, VoiceSessionService).
THEOREM VoiceIsAlwaysEarned == PortalSpec => []VoiceIsEarned
<1>1. PortalInv => VoiceIsEarned
  <2> SUFFICES ASSUME PortalInv, NEW v \in Starts
               PROVE  /\ v \in contacts =>
                           LET l == start[v].token IN
                           /\ l \in Logins /\ sessions[l] # None
                           /\ start[v].admitted < sessions[l].until
                           /\ login[l].since <= login[l].code
                           /\ login[l].code <= sessions[l].judge
                           /\ start[v].judge = sessions[l].judge
                      /\ start[v].told = "STARTED" =>
                           /\ v \in contacts /\ grants[v] # None
                           /\ grants[v].judge = start[v].judge
    BY DEF VoiceIsEarned
  <2>1. StartOK(start[v], v \in contacts, grants[v], sessions[start[v].token])
    BY DEF PortalInv, StartsOK
  <2>2. \A l \in Logins : LoginOK(login[l], sessions[l], secret)
    BY DEF PortalInv, LoginsOK
  <2> QED BY <2>1, <2>2 DEF StartOK, Admitted, LoginOK
<1> QED BY PortalInitInv, PortalStepInv, <1>1, PTL DEF PortalSpec-----------------------------------------------------------------------------
\* The requests of a judge that were counted in a window.
Charged(j, w) == {v \in Starts :
    /\ start[v].judge = j /\ start[v].at \div VoiceWindow = w
    /\ start[v].step \in {"contact", "claim"} \/ v \in contacts}

ChargedKept == \A j \in Secrets, w \in Instants :
    IsFiniteSet(Charged(j, w)) /\ Cardinality(Charged(j, w)) <= used[j][w]

\* Request v is counted for judge i in window u.
OneCharged(v, i, u) ==
    /\ used' = [used EXCEPT ![i][u] = @ + 1]
    /\ \A j \in Secrets, w \in Instants :
          Charged(j, w)' \subseteq Charged(j, w) \cup (IF j = i /\ w = u THEN {v} ELSE {})

\* A step counts one request, or none.
ChargedStep ==
    \/ \A j \in Secrets, w \in Instants :
          Charged(j, w)' \subseteq Charged(j, w) /\ used'[j][w] >= used[j][w]
    \/ \E v \in Starts, i \in Secrets, u \in Instants : OneCharged(v, i, u)

\* A set that grows by at most one element counts at most one more.
LEMMA OneMore ==
    ASSUME NEW S, IsFiniteSet(S), NEW e, NEW T, T \subseteq S \cup {e}
    PROVE  IsFiniteSet(T) /\ Cardinality(T) <= Cardinality(S) + 1
<1>1. IsFiniteSet(S \cup {e}) /\ Cardinality(S \cup {e}) <= Cardinality(S) + 1
  <2>1. Cardinality(S) \in Nat
    BY FS_CardinalityType
  <2>2. CASE e \in S
    <3>1. S \cup {e} = S
      BY <2>2
    <3> QED BY <2>1, <3>1
  <2>3. CASE e \notin S
    <3>1. /\ IsFiniteSet(S \cup {e}) /\ Cardinality(S \cup {e}) = Cardinality(S) + 1
      BY <2>3, FS_AddElement
    <3> QED BY <2>1, <3>1
  <2> QED BY <2>2, <2>3
<1>2. IsFiniteSet(T) /\ Cardinality(T) <= Cardinality(S \cup {e})
  BY <1>1, FS_Subset
<1> QED BY <1>1, <1>2, FS_CardinalityType

LEMMA ChargedGrows == PortalInv /\ PortalInv' /\ ChargedKept /\ ChargedStep => ChargedKept'
<1> SUFFICES ASSUME PortalInv, PortalInv', ChargedKept, ChargedStep, NEW j \in Secrets, NEW w \in Instants
             PROVE  /\ IsFiniteSet(Charged(j, w)') /\ Cardinality(Charged(j, w)') <= used'[j][w]
  BY DEF ChargedKept
<1>0. used'[j][w] \in Nat
  BY PortalAssumption DEF PortalInv, PortalTypeOK
<1>1. /\ IsFiniteSet(Charged(j, w)) /\ Cardinality(Charged(j, w)) <= used[j][w]
      /\ used[j][w] \in Nat /\ used \in [Secrets -> [Instants -> Nat]]
  BY PortalAssumption DEF ChargedKept, PortalInv, PortalTypeOK
<1>2. Cardinality(Charged(j, w)) \in Nat
  BY <1>1, FS_CardinalityType
<1>3. CASE Charged(j, w)' \subseteq Charged(j, w) /\ used'[j][w] >= used[j][w]
           /\ used'[j][w] \in Nat
  <2>1. /\ IsFiniteSet(Charged(j, w)')
        /\ Cardinality(Charged(j, w)') <= Cardinality(Charged(j, w))
    BY <1>1, <1>3, FS_Subset
  <2>2. Cardinality(Charged(j, w)') \in Nat
    BY <2>1, FS_CardinalityType
  <2> QED BY <1>1, <1>2, <1>3, <2>1, <2>2
<1>4. ASSUME NEW v, Charged(j, w)' \subseteq Charged(j, w) \cup {v}, used'[j][w] = used[j][w] + 1
      PROVE  IsFiniteSet(Charged(j, w)') /\ Cardinality(Charged(j, w)') <= used'[j][w]
  <2>1. /\ IsFiniteSet(Charged(j, w)')
        /\ Cardinality(Charged(j, w)') <= Cardinality(Charged(j, w)) + 1
    BY <1>1, <1>4, OneMore
  <2>2. Cardinality(Charged(j, w)') \in Nat
    BY <2>1, FS_CardinalityType
  <2> QED BY <1>1, <1>2, <1>4, <2>1, <2>2
<1>5. ASSUME NEW v \in Starts, NEW i \in Secrets, NEW u \in Instants,
             used' = [used EXCEPT ![i][u] = @ + 1],
             Charged(j, w)' \subseteq Charged(j, w) \cup (IF j = i /\ w = u THEN {v} ELSE {})
      PROVE  IsFiniteSet(Charged(j, w)') /\ Cardinality(Charged(j, w)') <= used'[j][w]
  <2>1. CASE j = i /\ w = u
    <3>1. used'[j][w] = used[j][w] + 1
      BY <1>1, <1>5, <2>1
    <3>2. Charged(j, w)' \subseteq Charged(j, w) \cup {v}
      BY <1>5, <2>1
    <3> QED BY <1>4, <3>1, <3>2
  <2>2. CASE ~ (j = i /\ w = u)
    <3>1. used'[j][w] = used[j][w]
      BY <1>1, <1>5, <2>2
    <3>2. Charged(j, w)' \subseteq Charged(j, w)
      BY <1>5, <2>2
    <3> QED BY <1>0, <1>1, <1>3, <3>1, <3>2
  <2> QED BY <2>1, <2>2
<1>6. CASE \A i \in Secrets, u \in Instants :
              Charged(i, u)' \subseteq Charged(i, u) /\ used'[i][u] >= used[i][u]
  BY <1>0, <1>3, <1>6
<1> QED BY <1>5, <1>6 DEF ChargedStep, OneCharged
\* What a step does to the requests that were counted.
LEMMA EveryChargedStep == PortalInv /\ [PortalNext]_portalVars => ChargedStep
<1> SUFFICES ASSUME PortalInv, [PortalNext]_portalVars PROVE ChargedStep
  OBVIOUS
<1>0. /\ used \in [Secrets -> [Instants -> 0 .. MaximumSessions]] /\ MaximumSessions \in Nat
      /\ start \in [Starts -> StartRecord]
  BY PortalAssumption DEF PortalInv, PortalTypeOK, StartRecord
<1>1. ASSUME UNCHANGED <<start, used, contacts>> PROVE ChargedStep
  <2>1. \A j \in Secrets, w \in Instants : Charged(j, w)' = Charged(j, w)
    BY <1>1 DEF Charged
  <2>2. \A j \in Secrets, w \in Instants : used'[j][w] >= used[j][w]
    BY <1>0, <1>1
  <2> QED BY <2>1, <2>2 DEF ChargedStep
\* The local variables of v change, but it is counted only if it was.
<1>2. ASSUME NEW v \in Starts, NEW x, start' = [start EXCEPT ![v] = x],
             contacts' \in {contacts, contacts \cup {v}}, used' = used,
             \/ x.step \notin {"contact", "claim"} /\ v \notin contacts'
             \/ /\ start[v].step \in {"contact", "claim"} \/ v \in contacts
                /\ x.judge = start[v].judge /\ x.at = start[v].at
      PROVE  ChargedStep
  <2>1. ASSUME NEW j \in Secrets, NEW w \in Instants, NEW k \in Charged(j, w)'
        PROVE  k \in Charged(j, w)
    <3>1. /\ k \in Starts /\ start'[k].judge = j /\ start'[k].at \div VoiceWindow = w
          /\ start'[k].step \in {"contact", "claim"} \/ k \in contacts'
      BY DEF Charged
    <3>2. CASE k = v
      <4>1. start'[k] = x
        BY <1>0, <1>2, <3>2
      <4> QED BY <1>2, <3>1, <3>2, <4>1 DEF Charged
    <3>3. CASE k # v
      <4>1. start'[k] = start[k] /\ (k \in contacts' <=> k \in contacts)
        BY <1>0, <1>2, <3>1, <3>3
      <4> QED BY <3>1, <4>1 DEF Charged
    <3> QED BY <3>2, <3>3
  <2>2. \A j \in Secrets, w \in Instants : used'[j][w] >= used[j][w]
    BY <1>0, <1>2
  <2> QED BY <2>1, <2>2 DEF ChargedStep
\* Request v is counted.
<1>3. ASSUME NEW v \in Starts, CountSession(v), contacts' = contacts,
             \/ start' = start
             \/ start' = [start EXCEPT ![v].step = "contact"]
      PROVE  ChargedStep
  <2> DEFINE i == start[v].judge
             u == start[v].at \div VoiceWindow
  <2>1. i \in Secrets /\ start[v].at \in Instants
    BY <1>3, StartFacts DEF CountSession, StartAt, StartOK, Admitted, StartRecord
  <2>2. u \in Instants
    BY <2>1, WindowInstant, PortalAssumption
  <2>3. used' = [used EXCEPT ![i][u] = @ + 1]
    BY <1>3 DEF CountSession
  <2>4. ASSUME NEW j \in Secrets, NEW w \in Instants, NEW k \in Charged(j, w)'
        PROVE  k \in Charged(j, w) \cup (IF j = i /\ w = u THEN {v} ELSE {})
    <3>1. /\ k \in Starts /\ start'[k].judge = j /\ start'[k].at \div VoiceWindow = w
          /\ start'[k].step \in {"contact", "claim"} \/ k \in contacts
      BY <1>3 DEF Charged
    <3>2. /\ start'[k].judge = start[k].judge /\ start'[k].at = start[k].at
          /\ k # v => start'[k].step = start[k].step
      BY <1>0, <1>3, <3>1 DEF StartRecord
    <3>3. CASE k = v
      BY <3>1, <3>2, <3>3
    <3>4. CASE k # v
      <4>1. k \in Charged(j, w)
        BY <3>1, <3>2, <3>4 DEF Charged
      <4> QED BY <4>1
    <3> QED BY <3>3, <3>4
  <2> HIDE DEF i, u
  <2>5. \A j \in Secrets, w \in Instants :
           Charged(j, w)' \subseteq Charged(j, w) \cup (IF j = i /\ w = u THEN {v} ELSE {})
    BY <2>4
  <2>6. OneCharged(v, i, u)
    BY <2>3, <2>5 DEF OneCharged
  <2> QED BY <2>1, <2>2, <2>6 DEF ChargedStep
<1>4. ASSUME NEW v \in Starts, Start(v) \/ \E l \in Logins : VoiceAsked(v, l)
      PROVE  ChargedStep
  <2> USE DEF StartAt, StartGoes, StartTold
  <2>0. v \in contacts => start[v].step \in {"claim", "ended"}
    BY StartFacts DEF StartOK
  <2>1. CASE VoiceCounted(v) \/ StartRetried(v)
    <3>1. CASE CountSession(v)
      BY <1>3, <2>1, <3>1 DEF VoiceCounted, StartRetried
    <3>2. CASE ~ CountSession(v)
      BY <1>1, <2>1, <3>2 DEF VoiceCounted, StartRetried
    <3> QED BY <3>1, <3>2
  <2>2. ASSUME NEW l \in Logins, VoiceAsked(v, l) PROVE ChargedStep
    <3> DEFINE x == [NoStart EXCEPT !.step = "authorize", !.token = l]
    <3>1. start' = [start EXCEPT ![v] = x] /\ UNCHANGED <<contacts, used>> /\ v \notin contacts
      BY <2>0, <2>2 DEF VoiceAsked
    <3>2. x.step \notin {"contact", "claim"}
      BY DEF NoStart
    <3> HIDE DEF x
    <3> QED BY <1>2, <3>1, <3>2
  <2>3. CASE Authorized(v) \/ SessionCreated(v) \/ SessionAlive(v)
    <3> DEFINE x == IF Authorized(v)
                    THEN [start[v] EXCEPT !.step = "create", !.admitted = now,
                                          !.judge = sessions[start[v].token].judge]
                    ELSE IF SessionCreated(v)
                    THEN [start[v] EXCEPT !.step = "check", !.until = now + RunTTL]
                    ELSE [start[v] EXCEPT !.step = "count", !.at = now]
    <3>1. start' = [start EXCEPT ![v] = x] /\ UNCHANGED <<contacts, used>> /\ v \notin contacts
      BY <1>0, <2>0, <2>3 DEF Authorized, SessionCreated, SessionAlive
    <3>2. x.step \notin {"contact", "claim"}
      BY <1>0 DEF StartRecord
    <3> HIDE DEF x
    <3> QED BY <1>2, <3>1, <3>2
  <2>4. CASE \/ AuthorizationDenied(v) \/ SessionExpired(v) \/ VoiceThrottled(v)
             \/ (start[v].step # "claim" /\ StartFails(v))
    <3>1. PICK what \in StartReplies : StartRefused(v, what)
      BY <2>4 DEF AuthorizationDenied, SessionExpired, VoiceThrottled, StartFails, StartReplies
    <3> DEFINE x == [NoStart EXCEPT !.step = "ended", !.told = what]
    <3>2. start' = [start EXCEPT ![v] = x] /\ UNCHANGED <<contacts, used>> /\ v \notin contacts
      BY <2>0, <2>4, <3>1 DEF AuthorizationDenied, SessionExpired, VoiceThrottled, StartFails,
         StartRefused
    <3>3. x.step \notin {"contact", "claim"}
      BY DEF NoStart
    <3> HIDE DEF x
    <3> QED BY <1>2, <3>2, <3>3
  <2>5. CASE \/ ContactStarted(v) \/ ContactFails(v) \/ GrantIssued(v) \/ GrantTaken(v)
             \/ (start[v].step = "claim" /\ StartFails(v))
    <3>1. PICK s \in {"claim", "ended"}, what \in StartReplies :
             start' = [start EXCEPT ![v] = [start[v] EXCEPT !.step = s, !.told = what]]
      <4>1. start[v].told \in StartReplies
        BY <1>0 DEF StartRecord
      <4>2. CASE ContactStarted(v)
        BY <1>0, <4>1, <4>2 DEF ContactStarted, StartRecord
      <4>3. CASE ~ ContactStarted(v)
        BY <1>0, <2>5, <4>3 DEF ContactFails, GrantIssued, GrantTaken, StartFails, StartReplies
      <4> QED BY <4>2, <4>3
    <3> DEFINE x == [start[v] EXCEPT !.step = s, !.told = what]
    <3>2. /\ start' = [start EXCEPT ![v] = x]
          /\ contacts' \in {contacts, contacts \cup {v}} /\ used' = used
          /\ start[v].step \in {"contact", "claim"}
      BY <2>5, <3>1 DEF ContactStarted, ContactFails, GrantIssued, GrantTaken, StartFails, ClaimGrant
    <3>3. x.judge = start[v].judge /\ x.at = start[v].at
      BY <1>0 DEF StartRecord
    <3> HIDE DEF x
    <3> QED BY <1>2, <3>2, <3>3
  <2> QED BY <1>4, <2>1, <2>2, <2>3, <2>4, <2>5 DEF Start
<1>5. ASSUME NEW l \in Logins, Login(l) \/ Revoke(l)
             \/ \E s \in Sources, c \in Secrets : LoginArrives(l, s, c)
      PROVE  ChargedStep
  BY <1>1, <1>5 DEF Login, LoginArrives, LoginThrottled, LoginCounted, CodeRejected, CodeAccepted,
     Identified, LoginStored, LoginDuplicate, LoginFails, LoginRetried, Revoke, voiceVars
<1>6. CASE (\E v \in Starts : Consume(v)) \/ Rotate \/ Tick \/ UNCHANGED portalVars
  BY <1>1, <1>6 DEF Consume, Rotate, Tick, portalVars, voiceVars
<1> QED BY <1>4, <1>5, <1>6 DEF PortalNext

\* The contacts of a judge in a window were all counted, and the count stays
\* within the ceiling, for any number of requests in flight (start of
\* VoiceSessionService, consume of the rate limiter).
THEOREM CeilingAlwaysHolds == PortalSpec => []CeilingHolds
<1>1. PortalInit => ChargedKept
  <2> SUFFICES ASSUME PortalInit, NEW j \in Secrets, NEW w \in Instants
               PROVE  IsFiniteSet(Charged(j, w)) /\ Cardinality(Charged(j, w)) <= used[j][w]
    BY DEF ChargedKept
  <2>1. Charged(j, w) = {} /\ used[j][w] = 0
    BY DEF PortalInit, NoStart, Charged
  <2> QED BY <2>1, FS_EmptySet
<1>2. PortalInv /\ PortalInv' /\ ChargedKept /\ [PortalNext]_portalVars => ChargedKept'
  BY EveryChargedStep, ChargedGrows
<1>3. PortalInv /\ ChargedKept => CeilingHolds
  <2> SUFFICES ASSUME PortalInv, ChargedKept, NEW j \in Secrets, NEW w \in Instants
               PROVE  /\ Cardinality({v \in contacts : start[v].judge = j
                                           /\ start[v].at \div VoiceWindow = w}) <= used[j][w]
                      /\ used[j][w] <= MaximumSessions
    BY DEF CeilingHolds
  <2> DEFINE C == {v \in contacts : start[v].judge = j /\ start[v].at \div VoiceWindow = w}
  <2>1. C \subseteq Charged(j, w)
    BY DEF Charged, PortalInv, PortalTypeOK
  <2>2. IsFiniteSet(Charged(j, w)) /\ Cardinality(Charged(j, w)) <= used[j][w]
    BY DEF ChargedKept
  <2>3. used[j][w] \in 0 .. MaximumSessions /\ MaximumSessions \in Nat
    BY PortalAssumption DEF PortalInv, PortalTypeOK
  <2> HIDE DEF C
  <2>4. IsFiniteSet(C) /\ Cardinality(C) <= Cardinality(Charged(j, w))
    BY <2>1, <2>2, FS_Subset
  <2>5. Cardinality(C) \in Nat /\ Cardinality(Charged(j, w)) \in Nat
    BY <2>2, <2>4, FS_CardinalityType
  <2>6. Cardinality(C) <= used[j][w] /\ used[j][w] <= MaximumSessions
    BY <2>2, <2>3, <2>4, <2>5
  <2> QED BY <2>6 DEF C
<1> QED BY PortalInitInv, PortalStepInv, <1>1, <1>2, <1>3, PTL DEF PortalSpec
=============================================================================
