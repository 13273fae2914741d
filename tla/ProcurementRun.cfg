SPECIFICATION Spec
CONSTANTS
    Calls = {c1, c2, c3}
    Nobody = Nobody
    NoRequest = NoRequest
    SessionTTL = 2
    QuoteTTL = 1
    MaxTime = 2
    MaxCrashes = 1
SYMMETRY MCSymmetry
\* The callers may stop asking at any time.
CHECK_DEADLOCK FALSE
INVARIANTS
    SingleUse
    PurchaseIsApproved
    RunCountedOnce
    OutcomeIsEarned
    ApprovalNeverOrders
    AuditBeforeAnswer
PROPERTIES
    RecordsAreFinal
    ActsAsLedger
