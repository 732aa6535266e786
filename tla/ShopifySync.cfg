\* Two deliveries at a time, a publisher, two intents, one change of the credential, two failures.
SPECIFICATION FairSpec
CONSTANTS
    Dispatchers = {d}
    Workers = {p, q}
    None = None
    MaxIntents = 2
    MaxGeneration = 1
    MaxCopies = 1
    MaxFaults = 2
INVARIANTS
    OneCyclePerIntent
PROPERTIES
    SupersededIsSilent
    CyclesReport
    IntentsStart
CHECK_DEADLOCK FALSE
