SPECIFICATION FairSpec
CONSTANTS
    Networks = {n1}
    NoNetwork = NoNetwork
    manager = manager
    user = user
    Callers = {manager, user}
    Nobody = Nobody
    MaxAttempts = 2
    MaxEvents = 2
    Saved = {n1}
    HistorySize = 1
    MaxCommands = 1
PROPERTIES
    CallReturns
    NotForgotten
CHECK_DEADLOCK FALSE
