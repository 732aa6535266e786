SPECIFICATION FairSpec
CONSTANTS
    None = None
    MaxSlots = 2
    Quantities = {0, 1}
    Openings <- Empty
    Requests = {p, q}
    MaxGenerations = 2
    MaxTroubles = 2
PROPERTIES
    NeverResent
    EndIsTrue
    CutoverEnds
CHECK_DEADLOCK FALSE
