\* A cancellation of an order that was never ingested, and another order behind it.
CONSTANTS
    Orders = {o1, o2}
    Kinds = {"create", "cancelled"}
    Blocks = {Sourcing}
    Proceed = Proceed
    None = None
    MaxDefers = 3
    MaxVersion = 1
    MaxFeed = 2
    MaxFaults = 0
SPECIFICATION FairSpec
PROPERTY FeedMoves
