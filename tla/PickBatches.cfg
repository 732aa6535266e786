CONSTANTS
    o1 = o1
    o2 = o2
    Orders = {o1, o2}
    Qty <- MCQty
    Batches = {b1}
    Operators = {u1, u2}
    Releases = {r1, r2}
    MaxLines = 2
    Stock = 2
    MaxReceived = 1
    NoBatch = NoBatch
    NoOne = NoOne
SPECIFICATION Spec
SYMMETRY MCSymmetry
INVARIANTS ReservedIsOwned OnHandIsAccounted PoolHoldsNothing CancelledHoldsNothing CancelIsNeverRefused CompleteIsAccounted
ACTION_CONSTRAINTS MCStart MCAsk
PROPERTY ImplementsAccount
CHECK_DEADLOCK FALSE
