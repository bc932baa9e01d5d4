\* Two requests, the native connector; the process dies, the worker fails,
\* files get 24 hours old.  The limits satisfy RoomForAcks with equality.
CONSTANTS
    c1 = c1
    c2 = c2
    native = native
    None = None
    Commands = {c1, c2}
    Malformed = {}
    Links = {native}
    InProcess = {native}
    MaxIncoming = 1
    MaxOutgoing = 3
    ScanLimit = 1
    AcksPerRequest = 1
    Events = {"worker", "process", "age"}
SPECIFICATION Spec
SYMMETRY MCSymmetry
INVARIANTS TypeOK AtMostOnce ReceiptTruth NoAckDropped GracefulStop
PROPERTIES ReceiptImmutable OutcomeSpec
