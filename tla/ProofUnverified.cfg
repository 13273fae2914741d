SPECIFICATION WalkthroughSpec
CONSTANTS
    Nothing = Nothing
    Answers = {"ATTEMPT_POLICY_OVERRIDE", "DECLINE_ESCALATION"}
    Flights = {f1, f2}
SYMMETRY MCSymmetry
CHECK_DEADLOCK FALSE
INVARIANT ProofVerifiedIsVerified
