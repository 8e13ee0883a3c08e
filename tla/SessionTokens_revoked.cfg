CONSTANTS
    r1 = r1  r2 = r2  s1 = s1  s2 = s2  l1 = l1  l2 = l2  q1 = q1  q2 = q2  d1 = d1  a = a  b = b
    RegisterReq = {r1, r2}
    SignInReq = {s1, s2}
    LogoutReq = {l1, l2}
    CurrentReq = {q1}
    DeleteReq = {d1}
    Emails = {a}
    Second = 2
    Life = 6
    MaxTime = 8
    None = None
SYMMETRY Symmetry
SPECIFICATION Spec
\* the requests are finite in number, so the model stops when all are served
CHECK_DEADLOCK FALSE
INVARIANTS TypeOK TokenInv RevokedUntilLastSecond
