CONSTANTS
    c1 = c1
    u1 = u1
    None = None
    Commands = {c1}
    Users = {u1}
    Runs = {1}
    MaxPending = 1
    Batch = 1
    Outcomes = {"applied"}
    MaxCalls = 1
SPECIFICATION FairSpec
PROPERTIES SettledStays
