SPECIFICATION Spec
CONSTANTS
    a = a
    b = b
    c = c
    Chars = {a, b, c}
    Names <- MCNames
    Indexes <- MCIndexes
    MaxSsid = 2
    Passwords = {p1, p2}
    NoPassword = NoPassword
    MaxSaved = 3
    Keys = {k}
    Values = {v}
    NoValue = NoValue
    NoJob = NoJob
    NoLine = NoLine
INVARIANTS
    TypeOK
    Packed
    ListedIndexHolds
PROPERTIES
    StoreSpec
