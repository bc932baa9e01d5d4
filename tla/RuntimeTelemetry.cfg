CONSTANTS
    exporter = exporter
    scheduler = scheduler
    other = other
    script = script
    c1 = c1
    None = None
    Empty = Empty
    Torn = Torn
    Sources = {1, 2, 3}
    Calls = {c1}
    SourceOf <- MCSourceOf
    Flushers = {exporter, scheduler, other, script}
    FlusherOf <- MCFlusherOf
    Publishers = {script}
    MaxSources = 2
    Plans <- MCPlans
    MaxFaults = 1
SPECIFICATION Spec
INVARIANTS CountedOnce
PROPERTIES EventuallyShown EndsTogether
CHECK_DEADLOCK FALSE
