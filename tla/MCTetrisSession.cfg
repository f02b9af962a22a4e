SPECIFICATION Spec
CONSTANTS
    WinsNeeded = 4
INVARIANTS
    TypeOK
    ScoresAgree
    InStep
    SameRoundData
    GameEnds
