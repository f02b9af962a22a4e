SPECIFICATION FairSpec
CONSTANTS
    PortMax = 3
    LongMax = 7
    DefaultPort = 1
    Texts <- MCTexts
    NoText = NoText
    MaxAddresses = 2
    MaxEvents = 2
    MaxBytes = 3
    MaxTyped = 2
INVARIANTS
    TypeOK
    NoLeak
    RelayBlocks
    NoLostWakeUp
    OneFutileAttempt
    RelayExact
PROPERTIES
    ClosedIsGivenUp
