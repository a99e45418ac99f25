\* Does the handshake with a server that accepts every client complete?
SPECIFICATION FairSpec
CONSTANTS
    HeaderSize = 9
    HubSize = 12
    BufferSize = 21
    PoolSize = 32
    AuthAnswers <- OurAnswer
PROPERTIES
    HandshakeCompletes
\* A connection that fails leaves both threads with nothing to do.
CHECK_DEADLOCK FALSE
