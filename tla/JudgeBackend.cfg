SPECIFICATION BackendSpec
CONSTANTS
    Sessions = {s1}
    Runs = {s1}
    Requests = {r1}
    Keys = {k1}
    TaskStatus = {"CALLING", "FAILED"}
    None = None
    NoReport = NoReport
    SessionTTL = 1
    Second = 1
    Window = 1
    MaximumAttempts = 1
    MaximumCalls = 1
    MaxTime = 1
    MaxCrashes = 1
    EventIds = {e1, e2}
    Deliveries = {d1, d2}
    MaxEmitted = 2
    MaxLost = 1
SYMMETRY MCSymmetry
CHECK_DEADLOCK FALSE
INVARIANTS
    EventRecordedOnce
    ResultStands
    DecisionIsEvidenced
PROPERTIES
    FailureIsFinal
