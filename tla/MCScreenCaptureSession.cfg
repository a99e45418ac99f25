SPECIFICATION Spec
CONSTANTS
    s1 = s1
    s2 = s2
    t1 = t1
    t2 = t2
    NoSession = NoSession
    Sessions <- TwoSessions
    Threads <- TwoThreads
    ThreadOf <- RoundRobin
    MaxStarts = 2
INVARIANTS
    StreamingTellsTruth
    CallbackSafe
PROPERTIES
    CallsReturn
    StreamTakenOver
CHECK_DEADLOCK FALSE
