SPECIFICATION FairBackendSpec
CONSTANTS
    Sessions = {s1}
    Runs = {s1}
    Requests = {r1, r2}
    Keys = {k1, k2}
    TaskStatus = {"CALLING"}
    None = None
    NoReport = NoReport
    SessionTTL = 1
    Second = 1
    Window = 1
    MaximumAttempts = 1
    MaximumCalls = 1
    MaxTime = 1
    MaxCrashes = 0
    EventIds = {e1}
    Deliveries = {d1}
    MaxEmitted = 1
    MaxLost = 0
CHECK_DEADLOCK FALSE
PROPERTIES
    ClaimsAreDecided
    AcceptedIsRecorded
