SPECIFICATION Spec
CONSTANT
    MaxSessions = 2
PROPERTY
    SendErrorShown
CHECK_DEADLOCK FALSE
