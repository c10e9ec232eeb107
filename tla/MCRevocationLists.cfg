SPECIFICATION FairSpec
CONSTANTS
    c1 = c1
    x1 = x1
    r1 = r1
    p1 = p1
    CAs = {c1}
    Serials = {x1}
    Requests = {r1}
    Configs = {p1}
    Intervals = {1, 2}
    DefaultInterval = 2
    MaxSchedulers = 2
    MaxRestarts = 1
    NoCA = NoCA
CONSTRAINT OneIdleConfig
INVARIANTS
    NothingLeftOver
PROPERTIES
    LostByOverlapOnly
    RevokedIsServed
    SchedulersFollow
