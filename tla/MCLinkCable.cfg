SPECIFICATION LinkSpec
CONSTANTS
    MaxCalls = 4
    MaxGreetings = 2
CHECK_DEADLOCK FALSE
INVARIANTS
    Paired
    OneByteUnderWay
    CleanedUp
PROPERTIES
    CallSettles
    CableSpec
