SPECIFICATION PortalSpec
CONSTANTS
    Logins = {l1, l2}
    Starts = {v1, v2}
    Sources = {a}
    None = None
    LastSecret = 2
    TokenTTL = 1
    RunTTL = 1
    GrantLifetime = 1
    LoginWindow = 2
    MaximumLogins = 2
    VoiceWindow = 2
    MaximumSessions = 1
    MaxTime = 2
    MaxLost = 1
SYMMETRY MCSymmetry
CHECK_DEADLOCK FALSE
INVARIANTS
    PortalTypeOK
    CeilingHolds
    VoiceIsEarned
