SPECIFICATION AppSpec
CONSTANTS
    MaxSessions = 2
    MaxServers = 2
    Profiles = {p1}
    p1 = p1
INVARIANTS
    TypeOK
    ProfilesKept
    FreedOnlyAfterJoin
    OneWriter
    NotConnectedWithoutSession
    SocketClosed
PROPERTIES
    DisconnectReturns
    TestConcludes
CHECK_DEADLOCK FALSE
