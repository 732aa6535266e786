\* One order: payments, refunds and cancellations, corrections and stock while the worker sweeps.
CONSTANTS
    Orders = {o1}
    Kinds = {"create", "paid", "refund", "cancelled"}
    Blocks = {Sourcing}
    Proceed = Proceed
    None = None
    MaxDefers = 3
    MaxVersion = 2
    MaxFeed = 2
    MaxFaults = 1
SPECIFICATION FairSpec
INVARIANTS CheckpointIsBacked
PROPERTIES NoIntentDropped IntentsDrain PaymentsLand
