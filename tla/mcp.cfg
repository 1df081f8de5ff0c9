SPECIFICATION FairSpec
CONSTANTS
    Sessions = {s1}
    Conns = {c1, c2}
    Ids = {i1}
    NoSession = NoSession
    Nothing = Nothing
    MaxSessions = 1
    MaxPerSession = 1
    MaxConns = 2
    MaxCalls = 1
    MaxOpens = 2
    MaxMessages = 2
INVARIANTS
    OneLateCall
    QuitWaits
PROPERTIES
    ConnectionsEnd
CHECK_DEADLOCK FALSE
