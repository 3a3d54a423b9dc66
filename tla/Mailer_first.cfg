SPECIFICATION Spec
CONSTANTS
    Null = Null
    relay = relay
    provider = provider
    ann = ann
    secret = secret
    Senders = {s1, s2}
    Testers = {q1}
    Savers = {o1}
    Forms <- AllForms
    MaxSaves = 1
    CanCrash = TRUE
INVARIANTS
    TypeOK
    AlertsUseTheForm
    LastErrorExact
SYMMETRY Symmetry
