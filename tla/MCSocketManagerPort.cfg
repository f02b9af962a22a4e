SPECIFICATION Spec
CONSTANTS
    PortMax = 3
    LongMax = 7
    DefaultPort = 1
    Texts <- MCTexts
    NoText = NoText
    MaxAddresses = 2
    MaxEvents = 2
    MaxBytes = 1
    MaxTyped = 1
PROPERTIES
    ConfiguredPortUsed
