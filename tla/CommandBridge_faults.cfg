\* A request and one that does not parse, delivered by an agent; the
\* machine dies as well, and the status document may fail to be built.
CONSTANTS
    c1 = c1
    bad = bad
    agent = agent
    None = None
    Commands = {c1, bad}
    Malformed = {bad}
    Links = {agent}
    InProcess = {}
    MaxIncoming = 1
    MaxOutgoing = 2
    ScanLimit = 1
    AcksPerRequest = 2
    Events = {"worker", "process", "machine"}
SPECIFICATION FairSpec
INVARIANTS AtMostOnce
PROPERTIES NoExecutionAfterReceipt ClaimIsAnswered StopEnds
