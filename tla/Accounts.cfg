CONSTANTS
    ann = ann
    bob = bob
    eve = eve
    t1 = t1
    t2 = t2
    None = None
    Users = {ann, bob, eve}
    Admins = {ann, bob}
    Threads = {t1, t2}
    AddressLimit = 2
    AccountLimit = 1
    Window = 2
    Patience = 1
    Life = 2
    MaxTime = 3
    MaxSecrets = 3
    MaxRequests = 4
SPECIFICATION Spec
INVARIANTS WithdrawnStays AttemptsBounded AdminRemains
SYMMETRY Symmetry
CHECK_DEADLOCK FALSE
