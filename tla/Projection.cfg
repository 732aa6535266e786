\* Two overlapping workers, two open producer transactions whose commits
\* overtake each other, and one crash or database error.
CONSTANTS
    Shops = {s1}
    Kinds = {"good", "contract", "fault"}
    Workers = {w1, w2}
    NoWorker = NoWorker
    MaxGapRetries = 2
    MaxDrafts = 2
    MaxId = 4
    MaxFailing = 1
    MaxFaults = 1
SPECIFICATION FairSpec
INVARIANTS ProjectedInOrder EveryIdAccountedFor LostOnlyInFlight
PROPERTIES ImplementsFeed CatchesUpOnceSeeded
