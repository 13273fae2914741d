--------------------------- MODULE PurchaseLedger ---------------------------
(***************************************************************************)
(* What the procurement core promises of its two guarded facts, with no    *)
(* calls, no clock and no crashes: a token buys once and every later       *)
(* submission is told the original purchase; a run is closed once, and as  *)
(* accepted only after a purchase (the two guarantees listed at the head   *)
(* of src/server/procurement/sessionStore.ts).                             *)
(***************************************************************************)
CONSTANTS
    Tokens,    \* confirmation tokens
    Callers,   \* whoever submits them
    Requests,  \* purchase requests
    Outcomes,  \* ways a run can end
    Accepted,  \* the one that counts as a purchase
    Open,      \* the run has not ended
    NoRequest

VARIABLES
    ledger,   \* the purchase each token bought, or NoRequest
    answer,   \* the purchase each caller was told of, or NoRequest
    ending    \* Open, or how the run ended

ledgerVars == <<ledger, answer, ending>>

LedgerInit ==
    /\ ledger = [t \in Tokens |-> NoRequest]
    /\ answer = [c \in Callers |-> NoRequest]
    /\ ending = Open

Answer(c, request) ==
    /\ answer[c] = NoRequest
    /\ answer' = [answer EXCEPT ![c] = request]

Buy(c, t, request) ==
    /\ ledger[t] = NoRequest
    /\ ledger' = [ledger EXCEPT ![t] = request]
    /\ Answer(c, request)
    /\ UNCHANGED ending

Remind(c, t) ==
    /\ ledger[t] # NoRequest
    /\ Answer(c, ledger[t])
    /\ UNCHANGED <<ledger, ending>>

Close(o) ==
    /\ ending = Open
    /\ o = Accepted => \E t \in Tokens : ledger[t] # NoRequest
    /\ ending' = o
    /\ UNCHANGED <<ledger, answer>>

LedgerNext ==
    \/ \E c \in Callers, t \in Tokens :
          Remind(c, t) \/ \E request \in Requests : Buy(c, t, request)
    \/ \E o \in Outcomes : Close(o)

LedgerSpec == LedgerInit /\ [][LedgerNext]_ledgerVars
=============================================================================
