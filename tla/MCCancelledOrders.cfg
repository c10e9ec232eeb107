SPECIFICATION MCSpec
CONSTANTS
    q1 = q1
    q2 = q2
    u1 = u1
    u2 = u2
    a1 = a1
    a2 = a2
    v1 = v1
    v2 = v2
    i1 = i1
    i2 = i2
    i3 = i3
    z1 = z1
    m1 = m1
    o3 = o3
    c1 = c1
    Requests = {q1, q2}
    Orders = {u1, u2, o3}
    Apps = {a1, a2}
    Cards = {c1}
    None = None
    Amount <- MCAmount
    Deposit = 3
    Claimants = {u1, u2}
    Admins = {a1, a2}
    Values = {v1, v2}
    Infos = {i1, i2, i3}
    Subjects = {z1}
    Templates = {m1}
    Checks = {q1, q2}
    Limit <- LimitOne
    ExpiresDays <- Thirty
    Controls <- Holders
    Nobody = Nobody
    NoTemplate = NoTemplate
    NoInfo = NoInfo
    NoClaim = NoClaim
SYMMETRY Symmetric
CONSTRAINT Bounds
INVARIANT
    CancelledIsUnfrozen
CHECK_DEADLOCK FALSE
