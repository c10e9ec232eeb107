SPECIFICATION MCSpec
CONSTANTS
    Threads = {t1, t2}
    Slots = {s1}
    Sessions = {s1}
    MaxHandle = 4
    NoThread = NoThread
    NoSlot = NoSlot
    Kinds = {"sign", "encrypt"}
    Certs = {c1, c2}
    ObjectHandles = {1, 2}
    Workers = {t1, t2}
    MaxInits = 2
    MaxLogins = 2
    NoCert = NoCert
SYMMETRY Symmetric
CONSTRAINT OneKindTwice
INVARIANTS
    PagesStayInside
PROPERTIES
    LoginIsShared
    ImplementsSharedLogin
    OperatesAsTold
    KeyNeedsItsLogin
