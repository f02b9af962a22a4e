SPECIFICATION FairSpec
CONSTANTS
    Clients = {c1, c2, c3}
    Sessions = {s1, s2}
    Ids = {A, B}
    NoSession = NoSession
    NoId = NoId
CHECK_DEADLOCK FALSE
INVARIANTS
    AtMostOneJoinable
    RegistryExact
    NoOrphan
    FullWhenPlaying
    ExchangesAreOwn
PROPERTIES
    MatchedSpec
    DepartureEndsGame
    SilentPlayerEndsGame
    StartedLoopStops
