----------------------------- MODULE VoicePortal -----------------------------
(***************************************************************************)
(* The protected backend of the judge portal: the sign-in                  *)
(* (judgeLoginHandler, JudgeAuthService), the authorizer of the gateway    *)
(* (judgeAuthorizerHandler) and the endpoint that starts a voice session   *)
(* (voiceSessionHandler, VoiceSessionService), over the table they share.  *)
(*                                                                         *)
(* A sign-in l and a request v for a voice session are handlers in flight, *)
(* split at their awaits.  What they mint is fresh and bears their name:   *)
(* the token of l, the procurement session and the contact of v.  An       *)
(* access code is the number of the secret it opens; the identity of a     *)
(* credential is the hash of the secret, so it is that number as well.     *)
(* An answer of the table that is lost makes the client library send the   *)
(* same write again.                                                       *)
(***************************************************************************)
EXTENDS Naturals, FiniteSets

CONSTANTS
    Logins,         \* invocations of judgeLoginHandler
    Starts,         \* invocations of voiceSessionHandler
    Sources,        \* source addresses the gateway sees
    None,           \* nothing stored, nobody named
    LastSecret,     \* bound on the secrets the operators put in force
    TokenTTL,       \* life of a judge's token (sessionTtlMs)
    RunTTL,         \* life of a procurement session
    GrantLifetime,  \* life of a grant, after the clamp (grantLifetimeSeconds)
    LoginWindow, MaximumLogins,    \* attempts per source and window
    VoiceWindow, MaximumSessions,  \* voice sessions per judge and window
    MaxTime,        \* bound on the clock
    MaxLost         \* bound on lost answers of the table

VARIABLES
    now,
    secret,    \* the secret in force
    login,     \* a sign-in: where it stands and what it has read
    sessions,  \* JUDGEAUTH#: the session stored under the token of a sign-in
    attempts,  \* RATE#judge-login#: attempts per source and window
    start,     \* a voice request: where it stands and what it has read
    used,      \* RATE#: voice sessions per judge and window
    contacts,  \* the requests for which Amazon Connect started a contact
    grants,    \* VOICEGRANT#: the grant of the session a request created
    lost       \* answers the table has lost

loginVars == <<login, sessions, attempts>>
voiceVars == <<start, used, contacts, grants>>
portalVars == <<now, secret, loginVars, voiceVars, lost>>

Secrets == 1 .. LastSecret
Instants == 0 .. MaxTime

ASSUME PortalAssumption ==
    /\ None \notin Logins \cup Starts \cup Nat
    /\ {LoginWindow, VoiceWindow, LastSecret} \subseteq Nat \ {0}
    /\ {TokenTTL, RunTTL, GrantLifetime, MaximumLogins, MaximumSessions,
        MaxTime, MaxLost} \subseteq Nat
    /\ 0 \notin {MaximumLogins, MaximumSessions}  \* the counter lets a first one through

LoginSteps == {"idle", "count", "verify", "identify", "store", "ended"}
StartSteps == {"idle", "authorize", "create", "check", "count", "contact", "claim", "ended"}
LoginReplies == {"none", "AUTHENTICATED", "INVALID_ACCESS_CODE", "RATE_LIMITED", "UNAVAILABLE"}
StartReplies == {"none", "STARTED", "DENIED", "SESSION_EXPIRED", "RATE_LIMITED",
                 "GRANT_ALREADY_ISSUED", "UPSTREAM"}
NoLogin == [step |-> "idle", source |-> None, code |-> None, at |-> 0, since |-> 0,
            judge |-> None, told |-> "none"]
NoStart == [step |-> "idle", token |-> None, admitted |-> 0, judge |-> None,
            until |-> 0, at |-> 0, told |-> "none"]
Session == [judge : Secrets, until : Nat, status : {"ACTIVE", "REVOKED"}]
Grant == [judge : Secrets, until : Nat, consumed : BOOLEAN]

ASSUME NothingIsStored == None \notin Session \cup Grant

PortalTypeOK ==
    /\ now \in Instants /\ secret \in Secrets /\ lost \in 0 .. MaxLost
    /\ login \in [Logins ->
          [step : LoginSteps, source : Sources \cup {None}, code : Secrets \cup {None},
           at : Instants, since : Nat, judge : Secrets \cup {None}, told : LoginReplies]]
    /\ sessions \in [Logins -> Session \cup {None}]
    /\ attempts \in [Sources -> [Instants -> 0 .. MaximumLogins]]
    /\ start \in [Starts ->
          [step : StartSteps, token : Logins \cup {None}, admitted : Instants,
           judge : Secrets \cup {None}, until : Nat, at : Instants, told : StartReplies]]
    /\ used \in [Secrets -> [Instants -> 0 .. MaximumSessions]]
    /\ contacts \subseteq Starts
    /\ grants \in [Starts -> Grant \cup {None}]

PortalInit ==
    /\ now = 0 /\ secret = 1 /\ lost = 0
    /\ login = [l \in Logins |-> NoLogin] /\ sessions = [l \in Logins |-> None]
    /\ attempts = [s \in Sources |-> [w \in Instants |-> 0]]
    /\ start = [v \in Starts |-> NoStart]
    /\ used = [j \in Secrets |-> [w \in Instants |-> 0]]
    /\ contacts = {} /\ grants = [v \in Starts |-> None]
-----------------------------------------------------------------------------
(* login: a sign-in *)

LoginAt(l, step) == login[l].step = step
LoginGoes(l, step) == login' = [login EXCEPT ![l].step = step]
LoginTold(l, what) == login' = [login EXCEPT ![l].step = "ended", ![l].told = what]
\* ... or ends with nothing stored, and its local variables are gone.
LoginRefused(l, what) == login' = [login EXCEPT ![l] = [NoLogin EXCEPT !.step = "ended", !.told = what]]
Attempts(l) == attempts[login[l].source][login[l].at \div LoginWindow]

\* A well-formed request; any other is answered without a trace.  The secret in
\* force when it arrives is remembered for the properties only.
LoginArrives(l, s, c) ==
    /\ LoginAt(l, "idle")
    /\ login' = [login EXCEPT ![l] = [NoLogin EXCEPT !.step = "count", !.source = s,
                                         !.code = c, !.at = now, !.since = secret]]
    /\ UNCHANGED <<now, secret, sessions, attempts, voiceVars, lost>>

LoginThrottled(l) ==
    /\ LoginAt(l, "count") /\ Attempts(l) >= MaximumLogins
    /\ LoginRefused(l, "RATE_LIMITED")
    /\ UNCHANGED <<now, secret, sessions, attempts, voiceVars, lost>>

\* What if the condition of the counter were off by one?
CountOneMore(l) ==
    /\ LoginAt(l, "count") /\ Attempts(l) <= MaximumLogins
    /\ attempts' = [attempts EXCEPT ![login[l].source][login[l].at \div LoginWindow] = @ + 1]

CountAttempt(l) ==
    /\ LoginAt(l, "count") /\ Attempts(l) < MaximumLogins
    /\ attempts' = [attempts EXCEPT ![login[l].source][login[l].at \div LoginWindow] = @ + 1]

LoginCounted(l) ==
    /\ CountAttempt(l) /\ LoginGoes(l, "verify")
    /\ UNCHANGED <<now, secret, sessions, voiceVars, lost>>

CodeRejected(l) ==
    /\ LoginAt(l, "verify") /\ login[l].code # secret
    /\ LoginRefused(l, "INVALID_ACCESS_CODE")
    /\ UNCHANGED <<now, secret, sessions, attempts, voiceVars, lost>>

CodeAccepted(l) ==
    /\ LoginAt(l, "verify") /\ login[l].code = secret
    /\ LoginGoes(l, "identify")
    /\ UNCHANGED <<now, secret, sessions, attempts, voiceVars, lost>>

\* The secret is read a second time.
Identified(l) ==
    /\ LoginAt(l, "identify")
    /\ login' = [login EXCEPT ![l].step = "store", ![l].judge = secret]
    /\ UNCHANGED <<now, secret, sessions, attempts, voiceVars, lost>>

\* The put of the session, conditional on its absence.
StoreSession(l) ==
    /\ LoginAt(l, "store") /\ sessions[l] = None
    /\ sessions' = [sessions EXCEPT ![l] =
          [judge |-> login[l].judge, until |-> login[l].at + TokenTTL, status |-> "ACTIVE"]]

LoginStored(l) ==
    /\ StoreSession(l) /\ LoginTold(l, "AUTHENTICATED")
    /\ UNCHANGED <<now, secret, attempts, voiceVars, lost>>

\* The token is fresh, so only the handler's own put can have stored it.
LoginDuplicate(l) ==
    /\ LoginAt(l, "store") /\ sessions[l] # None
    /\ LoginTold(l, "UNAVAILABLE")
    /\ UNCHANGED <<now, secret, sessions, attempts, voiceVars, lost>>

\* The secret cannot be read, the table throws, or the instance dies.
LoginFails(l) ==
    /\ \/ LoginAt(l, "store") /\ LoginTold(l, "UNAVAILABLE")
       \/ login[l].step \in {"count", "verify", "identify"} /\ LoginRefused(l, "UNAVAILABLE")
    /\ UNCHANGED <<now, secret, sessions, attempts, voiceVars, lost>>

\* The write is made, its answer is lost, and the write is sent again.
LoginRetried(l) ==
    /\ lost < MaxLost /\ lost' = lost + 1
    /\ \/ CountAttempt(l) /\ UNCHANGED sessions
       \/ StoreSession(l) /\ UNCHANGED attempts
    /\ UNCHANGED <<now, secret, login, voiceVars>>

\* A revoked session stays stored.
Revoke(l) ==
    /\ sessions[l] # None
    /\ sessions' = [sessions EXCEPT ![l].status = "REVOKED"]
    /\ UNCHANGED <<now, secret, login, attempts, voiceVars, lost>>
-----------------------------------------------------------------------------
(* a request for a voice session *)

StartAt(v, step) == start[v].step = step
StartGoes(v, step) == start' = [start EXCEPT ![v].step = step]
StartTold(v, what) == start' = [start EXCEPT ![v].step = "ended", ![v].told = what]
\* ... or ends before a contact was asked for, and its local variables are gone.
StartRefused(v, what) == start' = [start EXCEPT ![v] = [NoStart EXCEPT !.step = "ended", !.told = what]]
Sessions(v) == used[start[v].judge][start[v].at \div VoiceWindow]

\* The browser sends the token sign-in l was answered with; what is no token
\* of a sign-in is refused by bearerToken or not found.
VoiceAsked(v, l) ==
    /\ StartAt(v, "idle") /\ login[l].told = "AUTHENTICATED"
    /\ start' = [start EXCEPT ![v] = [NoStart EXCEPT !.step = "authorize", !.token = l]]
    /\ UNCHANGED <<now, secret, loginVars, used, contacts, grants, lost>>

\* What if a token were honoured in the instant it expires?
HonouredTooLong(l) == sessions[l] # None /\ sessions[l].status = "ACTIVE" /\ sessions[l].until >= now

Honoured(l) == sessions[l] # None /\ sessions[l].status = "ACTIVE" /\ sessions[l].until > now

Authorized(v) ==
    /\ StartAt(v, "authorize") /\ Honoured(start[v].token)
    /\ start' = [start EXCEPT ![v].step = "create", ![v].admitted = now,
                              ![v].judge = sessions[start[v].token].judge]
    /\ UNCHANGED <<now, secret, loginVars, used, contacts, grants, lost>>

AuthorizationDenied(v) ==
    /\ StartAt(v, "authorize") /\ ~ Honoured(start[v].token)
    /\ StartRefused(v, "DENIED")
    /\ UNCHANGED <<now, secret, loginVars, used, contacts, grants, lost>>

\* A known mission: the procurement session is created for this request alone.
SessionCreated(v) ==
    /\ StartAt(v, "create")
    /\ start' = [start EXCEPT ![v].step = "check", ![v].until = now + RunTTL]
    /\ UNCHANGED <<now, secret, loginVars, used, contacts, grants, lost>>

SessionExpired(v) ==
    /\ StartAt(v, "check") /\ start[v].until <= now
    /\ StartRefused(v, "SESSION_EXPIRED")
    /\ UNCHANGED <<now, secret, loginVars, used, contacts, grants, lost>>

\* The clock is read once, for the window and for the expiry of the grant.
SessionAlive(v) ==
    /\ StartAt(v, "check") /\ start[v].until > now
    /\ start' = [start EXCEPT ![v].step = "count", ![v].at = now]
    /\ UNCHANGED <<now, secret, loginVars, used, contacts, grants, lost>>

VoiceThrottled(v) ==
    /\ StartAt(v, "count") /\ Sessions(v) >= MaximumSessions
    /\ StartRefused(v, "RATE_LIMITED")
    /\ UNCHANGED <<now, secret, loginVars, used, contacts, grants, lost>>

\* What if the counter took the window from a clock of its own?
CountLater(v) ==
    /\ StartAt(v, "count") /\ used[start[v].judge][now \div VoiceWindow] < MaximumSessions
    /\ used' = [used EXCEPT ![start[v].judge][now \div VoiceWindow] = @ + 1]

CountSession(v) ==
    /\ StartAt(v, "count") /\ Sessions(v) < MaximumSessions
    /\ used' = [used EXCEPT ![start[v].judge][start[v].at \div VoiceWindow] = @ + 1]

VoiceCounted(v) ==
    /\ CountSession(v) /\ StartGoes(v, "contact")
    /\ UNCHANGED <<now, secret, loginVars, contacts, grants, lost>>

\* The request reaches Amazon Connect, which starts one contact per session
\* however often the client token of the session is sent.
ContactStarted(v) ==
    /\ StartAt(v, "contact")
    /\ contacts' = contacts \cup {v}
    /\ StartGoes(v, "claim")
    /\ UNCHANGED <<now, secret, loginVars, used, grants, lost>>

\* No answer, or one that is no contact; there may be a contact all the same.
ContactFails(v) ==
    /\ StartAt(v, "contact")
    /\ contacts' \in {contacts, contacts \cup {v}}
    /\ StartTold(v, "UPSTREAM")
    /\ UNCHANGED <<now, secret, loginVars, used, grants, lost>>

\* The put of the grant, conditional on its absence.
ClaimGrant(v) ==
    /\ StartAt(v, "claim") /\ grants[v] = None
    /\ grants' = [grants EXCEPT ![v] = [judge |-> start[v].judge,
                       until |-> start[v].at + GrantLifetime, consumed |-> FALSE]]

GrantIssued(v) ==
    /\ ClaimGrant(v) /\ StartTold(v, "STARTED")
    /\ UNCHANGED <<now, secret, loginVars, used, contacts, lost>>

GrantTaken(v) ==
    /\ StartAt(v, "claim") /\ grants[v] # None
    /\ StartTold(v, "GRANT_ALREADY_ISSUED")
    /\ UNCHANGED <<now, secret, loginVars, used, contacts, grants, lost>>

\* A table or the authorizer throws, or the instance dies.
StartFails(v) ==
    /\ \/ StartAt(v, "authorize") /\ StartRefused(v, "DENIED")
       \/ start[v].step \in {"create", "check", "count", "contact"} /\ StartRefused(v, "UPSTREAM")
       \/ StartAt(v, "claim") /\ StartTold(v, "UPSTREAM")
    /\ UNCHANGED <<now, secret, loginVars, used, contacts, grants, lost>>

StartRetried(v) ==
    /\ lost < MaxLost /\ lost' = lost + 1
    /\ \/ CountSession(v) /\ UNCHANGED grants
       \/ ClaimGrant(v) /\ UNCHANGED used
    /\ UNCHANGED <<now, secret, loginVars, start, contacts>>

\* The first to mark a grant used wins; when is left out.
Consume(v) ==
    /\ grants[v] # None /\ ~ grants[v].consumed
    /\ grants' = [grants EXCEPT ![v].consumed = TRUE]
    /\ UNCHANGED <<now, secret, loginVars, start, used, contacts, lost>>
-----------------------------------------------------------------------------
\* The operators put a new secret in force.
Rotate ==
    /\ secret < LastSecret
    /\ secret' = secret + 1
    /\ UNCHANGED <<now, loginVars, voiceVars, lost>>

Tick ==
    /\ now < MaxTime
    /\ now' = now + 1
    /\ UNCHANGED <<secret, loginVars, voiceVars, lost>>

Login(l) ==
    \/ LoginThrottled(l) \/ LoginCounted(l) \/ CodeRejected(l) \/ CodeAccepted(l)
    \/ Identified(l) \/ LoginStored(l) \/ LoginDuplicate(l) \/ LoginFails(l) \/ LoginRetried(l)

Start(v) ==
    \/ Authorized(v) \/ AuthorizationDenied(v) \/ SessionCreated(v)
    \/ SessionExpired(v) \/ SessionAlive(v) \/ VoiceThrottled(v) \/ VoiceCounted(v)
    \/ ContactStarted(v) \/ ContactFails(v) \/ GrantIssued(v) \/ GrantTaken(v)
    \/ StartFails(v) \/ StartRetried(v)

PortalNext ==
    \/ \E l \in Logins, s \in Sources, c \in Secrets : LoginArrives(l, s, c)
    \/ \E l \in Logins : Login(l) \/ Revoke(l)
    \/ \E v \in Starts, l \in Logins : VoiceAsked(v, l)
    \/ \E v \in Starts : Start(v) \/ Consume(v)
    \/ Rotate \/ Tick

PortalSpec == PortalInit /\ [][PortalNext]_portalVars
-----------------------------------------------------------------------------
(* What the code promises *)

\* Of one judge and one window no more contacts are started than the ceiling
\* allows, though requests race on several instances, contacts are abandoned,
\* writes are repeated, and the judge signs in again (the counter precedes the
\* contact and belongs to the credential).
CeilingHolds ==
    \A j \in Secrets, w \in Instants :
        /\ Cardinality({v \in contacts : start[v].judge = j /\ start[v].at \div VoiceWindow = w})
              <= used[j][w]
        /\ used[j][w] <= MaximumSessions

\* A contact goes back to a sign-in: to a session that was stored under its
\* token and alive when the gateway looked, minted for a code that was in force
\* after the sign-in arrived, and charged to an identity no older than the code
\* (a rotated secret takes effect at once).  A grant is told for a contact that
\* was started, and stands as it was told.
VoiceIsEarned ==
    \A v \in Starts :
        /\ v \in contacts =>
              LET l == start[v].token IN
              /\ l \in Logins /\ sessions[l] # None
              /\ start[v].admitted < sessions[l].until
              /\ login[l].since <= login[l].code /\ login[l].code <= sessions[l].judge
              /\ start[v].judge = sessions[l].judge
        /\ start[v].told = "STARTED" =>
              /\ v \in contacts /\ grants[v] # None
              /\ grants[v].judge = start[v].judge
=============================================================================
