SPECIFICATION FairSpec
CONSTANTS
    Clients = {c1, c2}
    Sessions = {s1, s2}
    Ids = {A, B}
    NoSession = NoSession
    NoId = NoId
CHECK_DEADLOCK FALSE
PROPERTIES
    EndedLoopStops
