\* A server session under every segmentation of up to four messages.
SPECIFICATION FairSpec
CONSTANTS
    HeaderSize = 9
    MaxSegment = 20
    Capacity = 36
    MaxMessages = 4
    Message <- Messages
INVARIANTS
    TypeOK
    FrameAligned
    NothingStranded
    NoOverflow
    RepliesInOrder
    InputsAppliedOnce
PROPERTIES
    ImplementsProtocol
    EveryMessageJudged
\* The client may stop writing, or the connection may be gone.
CHECK_DEADLOCK FALSE
