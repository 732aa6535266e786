\* The manual path in two processes with one error: the failure mark of one
\* consumer comes after the success of the other.
CONSTANTS
    Manual = {d1}
    Automated = {}
    Retired = {}
    Requests = {r1, r2}
    Processes = {p1, p2}
    Messages = {}
    Together = {{d1}}
    None = None
    MaxTries = 1
    MaxErrors = 1
    MaxCrashes = 0
SPECIFICATION Spec
PROPERTY SuccessIsFinal
