SPECIFICATION MCSpec
CONSTANTS
    alice = alice
    bob = bob
    t3 = t3
    c1 = c1
    c2 = c2
    u1 = u1
    u2 = u2
    x1 = x1
    x2 = x2
    s1 = s1
    s2 = s2
    r1 = r1
    r2 = r2
    y1 = y1
    a1 = a1
    k1 = k1
    k2 = k2
    i1 = i1
    i2 = i2
    Cards = {c1}
    Users = {u1}
    Certs = {x1, x2}
    Secrets = {s1, s2}
    Requests = {r1, r2}
    Forms <- SmallForms
    MaxAttempts = 2
    ForeignKeys = FALSE
    NoSecret = NoSecret
    NoCard = NoCard
    NoUser = NoUser
    NoCert = NoCert
    Zero = Zero
    Csrs = {y1}
    CAs = {a1}
    Ids = {i1, i2}
    Keys = {k1, k2}
    MaxIssued = 2
    NoKey = NoKey
    NoCsr = NoCsr
    NoCA = NoCA
    NoId = NoId
    Accounts = {alice, bob}
    Owner = alice
    Tokens = {i1, i2, t3}
    RemoteCerts = {x1, x2}
    Callers = {r1, r2}
    MaxRefreshes = 1
    NoAccount = NoAccount
    NoToken = NoToken
    NoRemote = NoRemote
SYMMETRY Symmetric
CONSTRAINT Bounds
INVARIANTS
    StoreTypeOK
    CloudTypeOK
    KeysFit
    SignsWithWhatItFound
    WorksForItsUser
PROPERTIES
    SecretsKept
CHECK_DEADLOCK FALSE
