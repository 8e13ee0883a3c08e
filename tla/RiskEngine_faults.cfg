CONSTANTS
    Events = {e1, e2}
    e1 = e1
    e2 = e2
    e3 = e3
    e4 = e4
    Emails = {"a@x"}
    Values = {"home", "road"}
    Logins <- MCHome
    RISK_THRESHOLD = 50
    MaxRunning = 3
    MaxFaults = 2
    None = None
SPECIFICATION Spec
SYMMETRY EventSymmetry
CHECK_DEADLOCK FALSE
INVARIANT PredictComesFirst
INVARIANT LowScoreIsVouched
INVARIANT UnverifiedWasChallenged
