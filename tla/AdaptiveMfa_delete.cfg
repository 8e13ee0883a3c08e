CONSTANTS
    c1 = c1  c2 = c2  v1 = v1  v2 = v2  u1 = u1  u2 = u2  u3 = u3  e1 = e1  e2 = e2
    d1 = d1  d2 = d2  o1 = o1  o2 = o2  p1 = p1  p2 = p2  x1 = x1 x2 = x2 h1 = h1
    CheckReq = {c1}
    VerifyReq = {v1}
    ChangeReq = {h1}
    DeleteReq = {x1, x2}
    Users = {u1, u2, u3}
    Registered = {u1, u3}
    Emails = {e1, e2}
    EmailOf <- TwoAccounts
    Passwords = {p1}
    Devices = {d1}
    Otps = {o1}
    Scores = {50}
    RISK_THRESHOLD = 50
    OTP_EXPIRE = 2
    EVENT_EXPIRE = 2
    TRUST_EXPIRE = 2
    Second = 1
    MaxTime = 0
    None = None
SPECIFICATION FairSpec
CHECK_DEADLOCK FALSE
CONSTRAINT SecondDeletion
INVARIANTS SysTypeOK DeletedDevicesGone
PROPERTIES EveryRequestEnds
