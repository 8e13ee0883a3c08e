CONSTANTS
    c1 = c1  c2 = c2  v1 = v1  v2 = v2  u1 = u1  u2 = u2  e1 = e1
    d1 = d1  d2 = d2  o1 = o1  o2 = o2
    CheckReq = {c1, c2}
    VerifyReq = {v1}
    Users = {u1, u2}
    Emails = {e1}
    EmailOf <- TwoAccounts
    Devices = {d1}
    Otps = {o1}
    Scores = {49, 50}
    RISK_THRESHOLD = 50
    OTP_EXPIRE = 2
    TRUST_EXPIRE = 3
    Second = 2
    MaxTime = 3
    None = None
SYMMETRY Symmetry
SPECIFICATION Spec
\* the requests are finite in number, so the model stops when all are served
CHECK_DEADLOCK FALSE
INVARIANTS SkipOnlyWhileTrusted TrustFollowsCompletion TrustInv
PROPERTY RecacheWithinRow
