SPECIFICATION FairSpec
CONSTANTS
    Threads = {t1, t2}
    Slots = {s1}
    MaxHandle = 3
    NoThread = NoThread
    NoSlot = NoSlot
INVARIANTS
    ModeMatchesFlags
PROPERTIES
    ClosedStaysClosed
    EveryRequestAnswered
