SPECIFICATION Spec
CONSTANTS
    Capacity = 8
    ReadSize = 3
    PacketSizes <- Packets
    MaxSamples = 20
INVARIANTS
    TypeOK
    NoUnderflow
    FramesInOrder
PROPERTIES
    Drained
CHECK_DEADLOCK FALSE
