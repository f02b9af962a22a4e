SPECIFICATION Spec
CONSTANTS
    Networks = {n1, n2}
    NoNetwork = NoNetwork
    manager = manager
    user = user
    Callers = {manager, user}
    Nobody = Nobody
    MaxAttempts = 2
    MaxEvents = 3
    Saved = {n1}
    HistorySize = 1
    MaxCommands = 2
INVARIANTS
    BlocksCleared
CHECK_DEADLOCK FALSE
