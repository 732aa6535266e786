SPECIFICATION FairSpec
CONSTANTS
    None = None
    Plain = {}
    Recoverable = {e}
    Uninstalls = {u}
    Unsupported = {x}
    Requests = {p, q}
    MaxRefusals = 1
    MaxTimeouts = 1
    MaxCrashes = 1
INVARIANTS
    EffectOnce
    LedgerIsTrue
    OneOwnerPerWave
    AckIsKept
PROPERTIES
    EventsLand
CHECK_DEADLOCK FALSE
