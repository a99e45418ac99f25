\* Does the start message start the stream?
SPECIFICATION Spec
CONSTANTS
    HeaderSize = 9
    MaxSegment = 20
    Capacity = 36
    MaxMessages = 2
    Message <- Messages
INVARIANTS
    StartStartsStream
\* The client may stop writing, or the connection may be gone.
CHECK_DEADLOCK FALSE
