CONSTANTS
    s1 = s1
    s2 = s2
    s3 = s3
    s4 = s4
    small = small
    large = large
    o1 = o1
    None = None
    Missing = Missing
    Servers = {s1, s2, s3, s4}
    Uploaders = {s1, s2, s4}
    Native = {s3}
    Contents = {small, large}
    Size <- MCSize
    Payload <- MCPayload
    Order <- MCOrder
    Early <- MCEarly
    ReportLimit = 1
    LocalLimit <- MCLocalLimit
    Quota = 2
    Batch = 2
    Together = {{s1, s2}, {s3}, {s4}}
    Orphans = {o1}
    MaxFaults = 1
SPECIFICATION Spec
INVARIANTS TypeOK KeepsNewest QuotaKept ProfileAvailable
PROPERTIES EventuallyTaken
