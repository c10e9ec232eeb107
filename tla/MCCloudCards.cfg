SPECIFICATION Spec
CONSTANTS
    t1 = t1
    t2 = t2
    u1 = u1
    u2 = u2
    c1 = c1
    c2 = c2
    k1 = k1
    k2 = k2
    x1 = x1
    x2 = x2
    Threads = {t1, t2}
    Users = {u1}
    Cards = {c1, c2}
    Certs = {x1}
    Tokens = {k1}
    Retries = 2
    MaxEpoch = 1
    NoCard = NoCard
    NoUser = NoUser
    NoToken = NoToken
    NoCert = NoCert
SYMMETRY Symmetric
CONSTRAINT SecondCardIsPlain
INVARIANTS
    OldSessionsExplained
PROPERTIES
    LockIsRight
    KeyUseEarned
CHECK_DEADLOCK FALSE
