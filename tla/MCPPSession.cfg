\* A client pairs with a server that accepts or refuses it.
SPECIFICATION FairSpec
CONSTANTS
    HeaderSize = 9
    HubSize = 12
    BufferSize = 5
    PoolSize = 16
    AuthAnswers <- AnyAnswer
INVARIANTS
    TypeOK
    BufferContiguous
    PoolBound
    AuthenticationNotDropped
    PairedWithItems
PROPERTIES
    ImplementsPairing
    AuthenticationAnswered
    HubRequestAnswered
\* A connection that fails leaves both threads with nothing to do.
CHECK_DEADLOCK FALSE
