SPECIFICATION Spec
CONSTANTS
    Null = Null
    ann = ann
    ANN = ANN
    bob = bob
    Subs = {s1, s2}
    Targets = {t1, t2}
    Groups = {g1, g2}
    Emails <- Addresses
    Key <- LowerCase
INVARIANTS
    TypeOK
    EachAddressOnce
    NoDanglingScope
PROPERTY
    DeleteWidensNothing
SYMMETRY Symmetry
CHECK_DEADLOCK FALSE
