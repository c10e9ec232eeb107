SPECIFICATION IpcSpec
CONSTANTS
    Callers = {t1}
    Conns = {c1}
    NoConn = NoConn
    MaxCalls = 2
    MaxEvents = 1
INVARIANTS
    EventsAreNotAnswers
CHECK_DEADLOCK FALSE
