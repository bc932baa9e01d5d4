CONSTANTS
    c1 = c1
    c2 = c2
    u1 = u1
    u2 = u2
    None = None
    Commands = {c1, c2}
    Users = {u1, u2}
    Runs = {1}
    MaxPending = 1
    Batch = 1
    Outcomes = {"applied"}
    MaxCalls = 1
SPECIFICATION FairSpec
INVARIANTS PendingBound
PROPERTIES OneWay Settles
