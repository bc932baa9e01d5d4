CONSTANTS
    MaxReports = 3
    MaxDocuments = 2
    MaxQueue = 2
    Retained = 1
    Events = {"write", "process"}
SPECIFICATION FairSpec
INVARIANTS TypeOK Drained
PROPERTIES LogSpec EventuallyOnDisk StopEnds
