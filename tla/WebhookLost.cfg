\* A provider stops waiting and sends the event again: the duplicate is answered
\* while the owner is at work, and then the owner fails.
SPECIFICATION FairSpec
CONSTANTS
    None = None
    Plain = {e}
    Recoverable = {}
    Uninstalls = {}
    Unsupported = {}
    Requests = {p, q}
    MaxRefusals = 1
    MaxTimeouts = 1
    MaxCrashes = 0
INVARIANTS
    NoSilentLoss
CHECK_DEADLOCK FALSE
