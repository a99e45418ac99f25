SPECIFICATION Spec
CONSTANT
    MaxSessions = 2
INVARIANT
    NoUseAfterFree
CHECK_DEADLOCK FALSE
