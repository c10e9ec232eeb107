SPECIFICATION Spec
CONSTANTS
    c1 = c1
    c2 = c2
    x1 = x1
    x2 = x2
    k1 = k1
    k2 = k2
    t1 = t1
    r1 = r1
    r2 = r2
    CAs = {c1, c2}
    Certs = {x1, x2}
    Chains = {k1, k2}
    Templates = {t1}
    Requests = {r1, r2}
    NoCA = NoCA
    NoCert = NoCert
    NoTemplate = NoTemplate
    NoChain = NoChain
SYMMETRY Symmetric
CONSTRAINT OneTopic
INVARIANTS
    CountCoversIssued
    DoesAsTold
PROPERTIES
    DeletedUnissued
    StaleWrites
CHECK_DEADLOCK FALSE
