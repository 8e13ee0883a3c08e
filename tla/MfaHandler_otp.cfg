CONSTANTS
    c1 = c1  c2 = c2  v1 = v1  v2 = v2  u1 = u1  u2 = u2  e1 = e1
    d1 = d1  d2 = d2  o1 = o1  o2 = o2
    CheckReq = {c1, c2}
    VerifyReq = {v1, v2}
    Users = {u1}
    Emails = {e1}
    EmailOf <- OneAccount
    Devices = {d1}
    Otps = {o1, o2}
    Scores = {50}
    RISK_THRESHOLD = 50
    OTP_EXPIRE = 1
    TRUST_EXPIRE = 2
    Second = 1
    MaxTime = 1
    None = None
SYMMETRY Symmetry
SPECIFICATION Spec
\* the requests are finite in number, so the model stops when all are served
CHECK_DEADLOCK FALSE
INVARIANTS TypeOK OtpInv AcceptedCodeWasIssued
PROPERTY SpentCodeStaysSpent
