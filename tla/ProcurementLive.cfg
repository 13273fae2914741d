SPECIFICATION FairSpec
CONSTANTS
    Calls = {c1, c2, c3}
    Nobody = Nobody
    NoRequest = NoRequest
    SessionTTL = 1
    QuoteTTL = 1
    MaxTime = 1
    MaxCrashes = 0
\* The callers may stop asking at any time.
CHECK_DEADLOCK FALSE
PROPERTIES
    EveryCallEnds
    PurchaseCompletesRun
