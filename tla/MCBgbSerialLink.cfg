SPECIFICATION FairSpec
CONSTANTS
    Bits = 2
    Values = {0, 1}
    MaxResets = 1
    ClockSize = 6
    FirstTimes = {1, 4}
    MaxPackets = 3
CHECK_DEADLOCK FALSE
INVARIANTS
    CableKept
    InSync
PROPERTIES
    ServerEnds
    TransferEnds
