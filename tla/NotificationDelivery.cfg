SPECIFICATION FairSpec
CONSTANTS
    None = None
    Push = {a}
    Email = {}
    Processes = {p, q}
    Lease = 4
    Timeout = 2
    Safety = 1
    MinBudget = 1
    MaxAttempts = 2
    MaxDelays = 4
    MaxFaults = 2
    MaxQuiet = 1
    MaxVersions = 2
INVARIANTS
    ExclusiveCalls
    AttemptsAreCalls
    OutcomeIsTrue
PROPERTIES
    ImplementsContract
    RenewalSurvives
    DeliveriesSettle
CHECK_DEADLOCK FALSE
