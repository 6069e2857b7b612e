CONSTANTS
    c1 = c1
    c2 = c2
    Conns = {c1, c2}
    MaxCommits = 2
    MaxSessions = 2
    MaxQueue = 1
SPECIFICATION Spec
INVARIANTS InOrder Drained
PROPERTIES ImplementsPubSub CommitsHandled StopReturns
CHECK_DEADLOCK FALSE
