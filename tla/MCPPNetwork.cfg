SPECIFICATION Spec
CONSTANTS
    HeaderSize = 2
    RecvSize = 4
    FrameSizes <- SomeFrameSizes
    Answers <- AnyAnswer
    MaxFrames = 2
    MaxKeys = 2
INVARIANTS
    TmpNeverOverwritten
    BytesInOrder
    RequestNotShrunk
    FramesWhole
PROPERTIES
    FrameShown
CHECK_DEADLOCK FALSE
