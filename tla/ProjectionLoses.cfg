\* An in-flight pair of ids is bridged.
CONSTANTS
    Shops = {s1, s2}
    Kinds = {"good"}
    Workers = {w1}
    NoWorker = NoWorker
    MaxGapRetries = 50
    MaxDrafts = 2
    MaxId = 4
    MaxFailing = 0
    MaxFaults = 0
SPECIFICATION Spec
INVARIANT NoEventLost
