SPECIFICATION Spec
CONSTANTS
    u1 = u1
    u2 = u2
    e1 = e1
    e2 = e2
    p1 = p1
    p2 = p2
    t1 = t1
    t2 = t2
    s1 = s1
    s2 = s2
    k1 = k1
    k2 = k2
    r1 = r1
    r2 = r2
    Users = {u1, u2}
    Emails = {e1, e2}
    Passwords = {p1, p2}
    Tokens = {t1, t2}
    Sessions = {s1, s2}
    Codes = {k1, k2}
    Requests = {r1, r2}
    Admin = u1
    MaxAttempts = 2
    MaxRestarts = 1
    NoUser = NoUser
    NoEmail = NoEmail
    NoPassword = NoPassword
    NoToken = NoToken
    NoCode = NoCode
SYMMETRY Symmetric
CONSTRAINT OneTopic
INVARIANTS
    TypeOK
    UsedUp
    ActsOnWhatItRead
CHECK_DEADLOCK FALSE
