SPECIFICATION Spec
CONSTANTS
    Null = Null
    Processes = {p1, p2}
    Keys = {k1, k2}
    Default = Default
    Saved = Saved
    Blank = Blank
    Secrets = {x1, x2, x3}
    NumTables = 3
    Together = {TRUE, FALSE}
INVARIANTS
    TypeOK
    ServesComplete
    SecretIsStored
PROPERTIES
    SavedIsKept
    VersionNeverBack
SYMMETRY Symmetry
