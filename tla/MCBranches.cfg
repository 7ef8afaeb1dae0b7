SPECIFICATION MCSpec
CONSTANTS
    Keys = {1, 2}
    Values = {a, b}
    Nil = Nil
    Blank = Blank
    Domains <- BoundedDomains
    Threshold = 2
    MaxWrites = 3
    Modules = {m1, m2}
    Names = {1, 2}
    Addresses = {a1, a2, a3}
    NoAddress = NoAddress
    MaxIndex = 3
    MaxCrashes = 1
CONSTRAINT Whole
SYMMETRY Symmetry
INVARIANTS
    NeverMissing
    OwnerAuthenticates
    RestartInvisible
PROPERTIES
    Branch
    IteratorExact
