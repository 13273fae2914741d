SPECIFICATION CallSpec
CONSTANTS
    Sessions = {s1}
    Requests = {r1, r2, r3}
    Keys = {k1, k2}
    TaskStatus = {"CALLING", "FAILED"}
    None = None
    SessionTTL = 2
    Second = 2
    Window = 2
    MaximumAttempts = 2
    MaximumCalls = 2
    MaxTime = 2
    MaxCrashes = 1
SYMMETRY MCSymmetry
CHECK_DEADLOCK FALSE
INVARIANTS
    CallTypeOK
    OneCallPerSession
    DuplicatesAgree
    ConsumedIsWarranted
    CallsWithinBudget
PROPERTIES
    ClaimsAreFinal
