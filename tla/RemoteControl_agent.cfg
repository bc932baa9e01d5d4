CONSTANTS
    c1 = c1
    u1 = u1
    link1 = link1
    None = None
    Commands = {c1}
    Users = {u1}
    MaxPending = 1
    Batch = 1
    Outcomes = {"applied", "rejected", "error", "expired", "indeterminate"}
    MaxCalls = 1
    MaxIncoming = 1
    MaxOutgoing = 2
    ScanLimit = 1
    AcksPerRequest = 1
    Events = {"process"}
    Link = link1
    Native = FALSE
    MaxRuns = 2
SPECIFICATION Spec
INVARIANTS DashboardTruth SentIsSettled
PROPERTIES RightRun
