SPECIFICATION IpcFairSpec
CONSTANTS
    Callers = {t1, t2}
    Conns = {c1, c2}
    NoConn = NoConn
    MaxCalls = 3
    MaxEvents = 1
INVARIANTS
    AnswersExplained
    DrainedIsQuiet
PROPERTIES
    CallsReturn
CHECK_DEADLOCK FALSE
