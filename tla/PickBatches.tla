---------------------------- MODULE PickBatches ----------------------------
(***************************************************************************)
(* The outbound side of the warehouse: orders are released from the pool   *)
(* into a pick batch that reserves their stock, an operator claims the     *)
(* batch and picks it, and at any moment Shopify may report an order       *)
(* cancelled or fulfilled, or an owner may cancel the batch.               *)
(*                                                                         *)
(* One variant at one pickable location, and orders of one line each: what *)
(* competes is the stock of that location and the rows of an order.        *)
(* Every transaction that touches an order first locks its row in          *)
(* "orders", so such a transaction is one step, except where it reads      *)
(* before it locks: the release, the cancellation of a batch, the claim    *)
(* and the completion of a pick take several.                              *)
(***************************************************************************)
EXTENDS Integers, FiniteSets, FiniteSetsExt, Functions

CONSTANTS
    Orders,       \* orders of the shop
    Qty,          \* Qty[o]: units on the line of order o
    Batches,      \* identifiers of pick batches
    Operators,    \* users who pick
    Releases,     \* releases in flight: the worker's and the owner's
    MaxLines,     \* shop_wms_settings.max_batch_line_items
    Stock,        \* units at the location at first
    MaxReceived,  \* bound: units stowed later
    NoBatch, NoOne

ASSUME PickAssumption ==
    /\ IsFiniteSet(Orders) /\ Qty \in [Orders -> Nat \ {0}]
    /\ MaxLines \in Nat \ {0} /\ Stock \in Nat /\ MaxReceived \in Nat
    /\ NoBatch \notin Batches
    /\ NoOne \notin Operators

VARIABLES
    truth,      \* inventory_truth: on hand, reserved, available
    ledger,     \* on hand as inventory_movements add up to it
    levels,     \* the lowest and the highest value the ledger has had
    received,   \* units stowed so far
    status,     \* order_fulfillment_status
    blocked,    \* orders with an active inventory constraint
    member,     \* pick_batch_orders
    line,       \* order_line_item_warehouse_status
    alloc,      \* pick_reservation_allocations: the batch that owns the units
    scan,       \* pick_scan_log: the confirmed scan of the line
    exception,  \* pick_exceptions: the batch in which one was reported
    excused,    \* ... and the units of the allocation it says are missing
    removed,    \* fulfillment_removal movements of the line, in units
    problem,    \* open order_cancelled task of the Problem Center, in units
    credited,   \* units put into the problem bin for the order
    batch,      \* pick_batches.status
    owner,      \* pick_batches.picked_by
    released,   \* orders the batch was released with (reservation_hold)
    release,    \* the release transactions
    seen,       \* what an operator's open transaction has read
    asked       \* what a cancellation of the batch has read

stockVars == <<truth, ledger, levels, received>>
orderVars == <<status, blocked>>
workVars == <<member, line, alloc>>
pickVars == <<scan, exception, excused, removed, problem, credited>>
batchVars == <<batch, owner, released>>
openVars == <<release, seen, asked>>
vars == <<stockVars, orderVars, workVars, pickVars, batchVars, openVars>>

Statuses == {"open", "fulfilled", "cancelled"}
LineStatuses == {"none", "awaiting_pick", "picking", "picked", "shipped", "cancelled"}
TerminalLines == {"shipped", "cancelled"}
BatchStatuses == {"none", "pending", "picking", "pick_complete", "cancelled"}

NoScan == [batch |-> NoBatch, units |-> 0]
NoRelease == [step |-> "idle", chosen |-> {}, winners |-> {}, losers |-> {}]
NothingSeen == [act |-> "none", batch |-> NoBatch]
NotAsked == [batch |-> NoBatch, members |-> {}]

Init ==
    /\ truth = [onHand |-> Stock, reserved |-> 0, available |-> Stock]
    /\ ledger = Stock /\ levels = [low |-> Stock, high |-> Stock]
    /\ received = 0
    /\ status = [o \in Orders |-> "open"]
    /\ blocked = {o \in Orders : Stock < Qty[o]}
    /\ member = [o \in Orders |-> NoBatch]
    /\ line = [o \in Orders |-> "none"]
    /\ alloc = [o \in Orders |-> NoBatch]
    /\ scan = [o \in Orders |-> NoScan]
    /\ exception = [o \in Orders |-> NoBatch]
    /\ excused = [o \in Orders |-> 0]
    /\ removed = [o \in Orders |-> 0]
    /\ problem = [o \in Orders |-> 0]
    /\ credited = [o \in Orders |-> 0]
    /\ batch = [b \in Batches |-> "none"]
    /\ owner = [b \in Batches |-> NoOne]
    /\ released = [b \in Batches |-> {}]
    /\ release = [r \in Releases |-> NoRelease]
    /\ seen = [u \in Operators |-> NothingSeen]
    /\ asked = NotAsked

-----------------------------------------------------------------------------
(* Stock and ownership.                                                    *)

Units(S) == SumFunctionOnSet(Qty, S)
Members(b) == {o \in Orders : member[o] = b}
Owned(b) == {o \in Orders : alloc[o] = b}
Scanned(o) == scan[o].units > 0

\* What a step adds to the three numbers of inventory_truth.
Move(onHand, reserved, available) ==
    truth' = [onHand |-> truth.onHand + onHand,
              reserved |-> truth.reserved + reserved,
              available |-> truth.available + available]

\* A physical movement in the ledger.
Book(units) ==
    /\ ledger' = ledger + units
    /\ levels' = [low |-> Min({levels.low, ledger + units}),
                  high |-> Max({levels.high, ledger + units})]

KeepLedger == UNCHANGED <<ledger, levels, received>>

\* A row refers to the allocation of o: a scan, or a pick exception.  Both
\* foreign keys are ON DELETE RESTRICT.
Referenced(o) == alloc[o] # NoBatch /\ (Scanned(o) \/ exception[o] = alloc[o])

\* A release that has anchored its orders holds their rows until it ends.
Unlocked(o) ==
    \A r \in Releases : release[r].step = "anchored" => o \notin release[r].chosen

\* Stock is put away at the location.
Stow ==
    /\ received < MaxReceived
    /\ received' = received + 1
    /\ Move(1, 0, 1) /\ Book(1)
    /\ UNCHANGED <<orderVars, workVars, pickVars, batchVars, openVars>>

\* The inventory constraint of an order is evaluated again.
Reevaluate(o) ==
    /\ Unlocked(o)
    /\ status[o] = "open"
    /\ blocked' = IF truth.available < Qty[o] THEN blocked \cup {o} ELSE blocked \ {o}
    /\ blocked' # blocked
    /\ UNCHANGED <<stockVars, status, workVars, pickVars, batchVars, openVars>>

-----------------------------------------------------------------------------
(* Releasing a batch.                                                      *)

Eligible(o) == status[o] = "open" /\ o \notin blocked /\ member[o] = NoBatch

\* Mutant: the pool is not read again.
StillChosen(r) == release[r].chosen

StillEligible(r) == {o \in release[r].chosen : Eligible(o)}

\* What a greedy fill in some order can leave of S: it fits, and nothing that
\* was left out would still fit.
GreedyFits(S, capacity) ==
    {W \in SUBSET S : /\ Units(W) <= capacity
                      /\ \A o \in S \ W : Units(W) + Qty[o] > capacity}

\* The pool is read without a lock and orders are chosen up to the cap.
Choose(r) ==
    /\ release[r].step = "idle"
    /\ \E chosen \in SUBSET {o \in Orders : Eligible(o)} :
          /\ chosen # {} /\ Cardinality(chosen) <= MaxLines
          /\ release' = [release EXCEPT ![r] =
                [NoRelease EXCEPT !.step = "chosen", !.chosen = chosen]]
    /\ UNCHANGED <<stockVars, orderVars, workVars, pickVars, batchVars, seen, asked>>

\* The rows of the chosen orders are locked, their eligibility is read again,
\* and the available stock, not locked, decides which of them can be served.
Anchor(r) ==
    /\ release[r].step = "chosen"
    /\ \A o \in release[r].chosen : Unlocked(o)
    /\ LET kept == StillEligible(r)
       IN IF kept = {}
          THEN release' = [release EXCEPT ![r] = NoRelease]
          ELSE \E winners \in GreedyFits(kept, truth.available) :
                  release' = [release EXCEPT ![r].step = "anchored",
                                             ![r].winners = winners,
                                             ![r].losers = kept \ winners]
    /\ UNCHANGED <<stockVars, orderVars, workVars, pickVars, batchVars, seen, asked>>

\* The losers are evaluated against the stock the winners have left.
BlockLosers(r, available) ==
    blocked' = (blocked \ release[r].losers)
                  \cup {o \in release[r].losers : available < Qty[o]}

\* Nothing can be served: no batch, and the losers leave the pool.
ReleaseNothing(r) ==
    /\ release[r].step = "anchored" /\ release[r].winners = {}
    /\ BlockLosers(r, truth.available)
    /\ release' = [release EXCEPT ![r] = NoRelease]
    /\ UNCHANGED <<stockVars, status, workVars, pickVars, batchVars, seen, asked>>

\* The stock is locked, still suffices, and the release commits.
Reserve(r) ==
    LET winners == release[r].winners
        units == Units(winners)
    IN /\ release[r].step = "anchored" /\ winners # {}
       /\ truth.available >= units
       /\ \E b \in Batches :
             /\ batch[b] = "none"
             /\ batch' = [batch EXCEPT ![b] = "pending"]
             /\ released' = [released EXCEPT ![b] = winners]
             /\ member' = [o \in Orders |-> IF o \in winners THEN b ELSE member[o]]
             /\ alloc' = [o \in Orders |-> IF o \in winners THEN b ELSE alloc[o]]
       /\ line' = [o \in Orders |-> IF o \in winners THEN "awaiting_pick" ELSE line[o]]
       /\ Move(0, units, -units)
       /\ BlockLosers(r, truth.available - units)
       /\ release' = [release EXCEPT ![r] = NoRelease]
       /\ KeepLedger
       /\ UNCHANGED <<status, pickVars, owner, seen, asked>>

\* Another release was faster: everything is rolled back.
ReserveConflict(r) ==
    /\ release[r].step = "anchored"
    /\ truth.available < Units(release[r].winners)
    /\ release' = [release EXCEPT ![r] = NoRelease]
    /\ UNCHANGED <<stockVars, orderVars, workVars, pickVars, batchVars, seen, asked>>

-----------------------------------------------------------------------------
(* Cancelling a batch nobody has claimed.                                  *)

\* The members are read before anything is locked.
AskCancel(b) ==
    /\ batch[b] # "none" /\ asked = NotAsked
    /\ asked' = [batch |-> b, members |-> Members(b) \cup Owned(b)]
    /\ UNCHANGED <<stockVars, orderVars, workVars, pickVars, batchVars, release, seen>>

\* Every check that the batch owns exactly what it is about to give back.
OwnershipProven(b) ==
    LET scope == asked.members
    IN /\ Members(b) \subseteq scope /\ Owned(b) \subseteq scope
       /\ \A o \in scope \ Members(b) : line[o] \in TerminalLines
       /\ \A o \in Owned(b) : ~Scanned(o)
       /\ Units(Owned(b)) <= Units(released[b])
       /\ \A o \in Members(b) :
             /\ line[o] # "none"
             /\ (alloc[o] = b) <=> line[o] \notin TerminalLines
       /\ Units(Owned(b)) <= truth.reserved

\* Mutant: a claimed batch can be cancelled too.
CancellableClaimed(b) == batch[b] \in {"pending", "picking"} /\ OwnershipProven(b)

Cancellable(b) == batch[b] = "pending" /\ OwnershipProven(b)

CancelBatch(b) ==
    /\ asked.batch = b /\ \A o \in asked.members : Unlocked(o)
    /\ Cancellable(b)
    /\ Move(0, -Units(Owned(b)), Units(Owned(b)))
    /\ alloc' = [o \in Orders |-> IF alloc[o] = b THEN NoBatch ELSE alloc[o]]
    /\ line' = [o \in Orders |-> IF member[o] = b THEN "none" ELSE line[o]]
    /\ member' = [o \in Orders |-> IF member[o] = b THEN NoBatch ELSE member[o]]
    /\ batch' = [batch EXCEPT ![b] = "cancelled"]
    /\ asked' = NotAsked
    /\ KeepLedger
    /\ UNCHANGED <<orderVars, pickVars, owner, released, release, seen>>

\* A batch that is not pending, or whose ownership is in doubt, is left alone.
RefuseCancel(b) ==
    /\ asked.batch = b /\ \A o \in asked.members : Unlocked(o)
    /\ ~Cancellable(b)
    /\ asked' = NotAsked
    /\ UNCHANGED <<stockVars, orderVars, workVars, pickVars, batchVars, release, seen>>

-----------------------------------------------------------------------------
(* Picking.                                                                *)

\* Claim and completion read the batch without a lock ...
ReadForClaim(u, b) ==
    /\ seen[u] = NothingSeen
    /\ batch[b] = "pending" /\ owner[b] = NoOne
    /\ seen' = [seen EXCEPT ![u] = [act |-> "claim", batch |-> b]]
    /\ UNCHANGED <<stockVars, orderVars, workVars, pickVars, batchVars, release, asked>>

\* ... and write it without a condition.
Claim(u) ==
    LET b == seen[u].batch
    IN /\ seen[u].act = "claim"
       /\ batch' = [batch EXCEPT ![b] = "picking"]
       /\ owner' = [owner EXCEPT ![b] = u]
       /\ line' = [o \in Orders |-> IF member[o] = b THEN "picking" ELSE line[o]]
       /\ seen' = [seen EXCEPT ![u] = NothingSeen]
       /\ UNCHANGED <<stockVars, orderVars, member, alloc, pickVars, released, release, asked>>

\* The rule for a batch without an allocation.  (Also the mutant of PickAccounted:
\* lines are counted whatever became of their allocations.)
LinesCounted(b) ==
    Cardinality({o \in Orders : scan[o].batch = b})
        + Cardinality({o \in Orders : exception[o] = b}) >= Cardinality(released[b])

\* Of every allocation of the batch, what was confirmed and what was reported
\* missing add up to its units; a batch without one counts its lines instead.
PickAccounted(b) ==
    IF Owned(b) = {} THEN LinesCounted(b)
    ELSE \A o \in Owned(b) : scan[o].units + excused[o] = Qty[o]

ReadForComplete(u, b) ==
    /\ seen[u] = NothingSeen
    /\ batch[b] = "picking" /\ owner[b] = u
    /\ PickAccounted(b)
    /\ seen' = [seen EXCEPT ![u] = [act |-> "complete", batch |-> b]]
    /\ UNCHANGED <<stockVars, orderVars, workVars, pickVars, batchVars, release, asked>>

CompletePick(u) ==
    /\ seen[u].act = "complete"
    /\ batch' = [batch EXCEPT ![seen[u].batch] = "pick_complete"]
    /\ seen' = [seen EXCEPT ![u] = NothingSeen]
    /\ UNCHANGED <<stockVars, orderVars, workVars, pickVars, owner, released, release, asked>>

\* The operator who owns the batch may scan the line of o.
MayScan(u, o) ==
    /\ Unlocked(o)
    /\ member[o] # NoBatch
    /\ batch[member[o]] = "picking" /\ owner[member[o]] = u
    /\ line[o] # "shipped"

RecordScan(o, units) ==
    scan' = [scan EXCEPT ![o] = [batch |-> member[o], units |-> units]]

\* The allocation of the line is picked in full.
ScanAllocation(u, o) ==
    /\ MayScan(u, o)
    /\ alloc[o] = member[o]
    /\ truth.onHand >= Qty[o] /\ truth.reserved >= Qty[o]
    /\ exception[o] # member[o] /\ ~Scanned(o)
    /\ Move(-Qty[o], -Qty[o], 0) /\ Book(-Qty[o])
    /\ RecordScan(o, Qty[o])
    /\ line' = [line EXCEPT ![o] = "picked"]
    /\ UNCHANGED <<received, orderVars, member, alloc, exception, excused, removed, problem,
                   credited, batchVars, openVars>>

\* A line of the batch that has no allocation is picked the old way: the
\* movement is booked and inventory_truth is left alone.
ScanLine(u, o) ==
    /\ MayScan(u, o)
    /\ alloc[o] # member[o]
    /\ scan[o].batch # member[o]
    /\ Book(-Qty[o])
    /\ RecordScan(o, Qty[o])
    /\ line' = [line EXCEPT ![o] = "picked"]
    /\ UNCHANGED <<truth, received, orderVars, member, alloc, exception, excused, removed,
                   problem, credited, batchVars, openVars>>

\* An exception at the pick stage.  "pick_complete" stands for a batch that is
\* being packed as well.
MayReport(o) ==
    /\ Unlocked(o)
    /\ member[o] # NoBatch
    /\ batch[member[o]] \in {"picking", "pick_complete"}
    /\ exception[o] # member[o]

\* A short pick: the units found are a pick of the allocation.
ReportShort(o, found) ==
    /\ MayReport(o)
    /\ alloc[o] = member[o] /\ ~Scanned(o)
    /\ found > 0 /\ truth.onHand >= found /\ truth.reserved >= found
    /\ exception' = [exception EXCEPT ![o] = member[o]]
    /\ excused' = [excused EXCEPT ![o] = Qty[o] - found]
    /\ Move(-found, -found, 0) /\ Book(-found)
    /\ RecordScan(o, found)
    /\ UNCHANGED <<received, orderVars, workVars, removed, problem, credited, batchVars,
                   openVars>>

\* A missing item or a defect: nothing physical is recorded, also of units that
\* are said to be found.
ReportMissing(o, found) ==
    /\ MayReport(o)
    /\ alloc[o] = member[o] => ~Scanned(o)
    /\ exception' = [exception EXCEPT ![o] = member[o]]
    /\ excused' = IF alloc[o] = member[o] THEN [excused EXCEPT ![o] = Qty[o] - found]
                  ELSE excused
    /\ UNCHANGED <<stockVars, orderVars, workVars, scan, removed, problem, credited,
                   batchVars, openVars>>

-----------------------------------------------------------------------------
(* What Shopify reports.                                                   *)

\* The allocation of o goes back to the available stock.
Returnable(o) == alloc[o] # NoBatch /\ ~Scanned(o)

\* Mutant: the status row of the line is deleted.
LineForgotten(o) == "none"

LineUnwound(o) == IF line[o] \in TerminalLines \cup {"none"} THEN line[o] ELSE "cancelled"

\* orders/cancelled: what was not scanned goes back, what was scanned becomes
\* a task of the Problem Center, and the order leaves its batch.
OrderCancelled(o) ==
    LET b == member[o]
        live == line[o] \notin TerminalLines
        releases == live /\ Returnable(o)
        retains == live /\ alloc[o] # NoBatch /\ ~releases
    IN /\ Unlocked(o)
       /\ releases => ~Referenced(o)
       /\ status' = [status EXCEPT ![o] = "cancelled"]
       /\ IF releases THEN Move(0, -Qty[o], Qty[o]) ELSE UNCHANGED truth
       /\ alloc' = IF releases THEN [alloc EXCEPT ![o] = NoBatch] ELSE alloc
       /\ problem' = IF retains THEN [problem EXCEPT ![o] = Qty[o]] ELSE problem
       /\ line' = [line EXCEPT ![o] = LineUnwound(o)]
       /\ member' = [member EXCEPT ![o] = NoBatch]
       /\ batch' = IF b # NoBatch /\ Members(b) = {o}
                   THEN [batch EXCEPT ![b] = "cancelled"] ELSE batch
       /\ KeepLedger
       /\ UNCHANGED <<blocked, scan, exception, excused, removed, credited, owner, released,
                      openVars>>

\* A fulfilment is recorded; cancellation is the stronger status.
MarkFulfilled(o) ==
    status' = [status EXCEPT ![o] = IF @ = "cancelled" THEN @ ELSE "fulfilled"]

\* Mutant: what was picked is not subtracted.
OutstandingUnpicked(o) == Qty[o] - removed[o]

\* Units of the line that have not left the location yet.
Outstanding(o) == Qty[o] - scan[o].units - removed[o]

\* Mutants: the reservation is kept; the available stock is reduced as well.
TakeFromShelf(o) == [truth EXCEPT !.onHand = @ - Qty[o]]
TakeAvailable(o) ==
    [onHand |-> truth.onHand - Qty[o], reserved |-> Max({0, truth.reserved - Qty[o]}),
     available |-> Max({0, truth.available - Qty[o]})]

\* Reserved units leave the location.
TakeReserved(o) ==
    [truth EXCEPT !.onHand = @ - Qty[o], !.reserved = Max({0, @ - Qty[o]})]

\* orders/fulfilled, and the units still at the location are the allocation's.
FulfilledFromAllocation(o) ==
    /\ Unlocked(o)
    /\ line[o] # "shipped" /\ Outstanding(o) > 0
    /\ alloc[o] # NoBatch /\ ~Scanned(o)
    /\ Outstanding(o) >= Qty[o] /\ ~Referenced(o)
    /\ MarkFulfilled(o)
    /\ truth' = TakeReserved(o)
    /\ Book(-Qty[o])
    /\ removed' = [removed EXCEPT ![o] = @ + Qty[o]]
    /\ alloc' = [alloc EXCEPT ![o] = NoBatch]
    /\ line' = [line EXCEPT ![o] = "shipped"]
    /\ UNCHANGED <<received, blocked, member, scan, exception, excused, problem, credited,
                   batchVars, openVars>>

\* orders/fulfilled for units nothing is reserved for: they are taken from the
\* location if the ledger had them when the fulfilment happened, which may be
\* some time ago; otherwise a conflict is recorded for a person.
FulfilledFromStock(o) ==
    /\ Unlocked(o)
    /\ line[o] # "shipped" /\ Outstanding(o) > 0
    /\ alloc[o] = NoBatch \/ Scanned(o)
    /\ MarkFulfilled(o)
    /\ \/ /\ levels.high >= Outstanding(o)
          /\ truth' = [truth EXCEPT !.onHand = @ - Outstanding(o),
                                      !.available = Max({0, @ - Outstanding(o)})]
          /\ Book(-Outstanding(o))
          /\ removed' = [removed EXCEPT ![o] = @ + Outstanding(o)]
          /\ line' = [line EXCEPT ![o] = "shipped"]
       \/ /\ levels.low < Outstanding(o)
          /\ UNCHANGED <<truth, ledger, levels, removed, line>>
    /\ UNCHANGED <<received, blocked, member, alloc, scan, exception, excused, problem,
                   credited, batchVars, openVars>>

\* orders/fulfilled for units that have all left the location already.
FulfilledAlready(o) ==
    /\ Unlocked(o)
    /\ line[o] = "shipped" \/ Outstanding(o) <= 0
    /\ MarkFulfilled(o)
    /\ line' = [line EXCEPT ![o] = "shipped"]
    /\ UNCHANGED <<stockVars, blocked, member, alloc, pickVars, batchVars, openVars>>

\* orders/fulfilled for a fulfilment older than the opening balance of the
\* variant, which has counted it: the line is shipped whatever its state, and
\* neither its stock nor its allocation is looked at.
FulfilledBeforeOpening(o) ==
    /\ Unlocked(o)
    /\ MarkFulfilled(o)
    /\ line' = [line EXCEPT ![o] = "shipped"]
    /\ UNCHANGED <<stockVars, blocked, member, alloc, pickVars, batchVars, openVars>>

\* The Problem Center puts the units of a cancelled order into its own bin.
Quarantine(o) ==
    /\ problem[o] > 0
    /\ credited' = [credited EXCEPT ![o] = @ + problem[o]]
    /\ problem' = [problem EXCEPT ![o] = 0]
    /\ UNCHANGED <<stockVars, orderVars, workVars, scan, exception, excused, removed,
                   batchVars, openVars>>

-----------------------------------------------------------------------------

Next ==
    \/ Stow
    \/ \E r \in Releases :
          Choose(r) \/ Anchor(r) \/ ReleaseNothing(r) \/ Reserve(r) \/ ReserveConflict(r)
    \/ \E b \in Batches : AskCancel(b) \/ CancelBatch(b) \/ RefuseCancel(b)
    \/ \E u \in Operators :
          \/ \E b \in Batches : ReadForClaim(u, b) \/ ReadForComplete(u, b)
          \/ Claim(u) \/ CompletePick(u)
          \/ \E o \in Orders : ScanAllocation(u, o) \/ ScanLine(u, o)
    \/ \E o \in Orders :
          \/ \E found \in 0..Qty[o] : ReportShort(o, found) \/ ReportMissing(o, found)
          \/ Reevaluate(o) \/ OrderCancelled(o) \/ Quarantine(o)
          \/ FulfilledFromAllocation(o) \/ FulfilledAlready(o)
          \/ FulfilledFromStock(o) \/ FulfilledBeforeOpening(o)

Spec == Init /\ [][Next]_vars

-----------------------------------------------------------------------------
(* Properties.                                                             *)

\* Types: the three numbers of inventory_truth and the ledger ...
Numbers ==
    /\ truth \in [onHand : Int, reserved : Int, available : Int]
    /\ ledger \in Int /\ levels \in [low : Int, high : Int]

\* ... and the rows; a fulfilment never removes more than was ordered.
Rows ==
    /\ received \in 0 .. MaxReceived
    /\ status \in [Orders -> Statuses] /\ blocked \subseteq Orders
    /\ member \in [Orders -> Batches \cup {NoBatch}]
    /\ line \in [Orders -> LineStatuses]
    /\ alloc \in [Orders -> Batches \cup {NoBatch}]
    /\ scan \in [Orders -> [batch : Batches \cup {NoBatch}, units : Nat]]
    /\ exception \in [Orders -> Batches \cup {NoBatch}]
    /\ excused \in [Orders -> Nat]
    /\ removed \in [Orders -> Nat] /\ \A o \in Orders : removed[o] <= Qty[o]
    /\ problem \in [Orders -> Nat] /\ credited \in [Orders -> Nat]
    /\ batch \in [Batches -> BatchStatuses]
    /\ owner \in [Batches -> Operators \cup {NoOne}]
    /\ released \in [Batches -> SUBSET Orders]
    /\ release \in [Releases -> [step : {"idle", "chosen", "anchored"},
                                 chosen : SUBSET Orders, winners : SUBSET Orders,
                                 losers : SUBSET Orders]]
    /\ seen \in [Operators -> [act : {"none", "claim", "complete"},
                               batch : Batches \cup {NoBatch}]]
    /\ asked \in [batch : Batches \cup {NoBatch}, members : SUBSET Orders]

\* Types of all variables.
TypeOK == Numbers /\ Rows

\* Orders whose units are allocated, and what is still to be picked for an order.
Allocated == {o \in Orders : alloc[o] # NoBatch}
Remaining == [o \in Orders |-> Qty[o] - scan[o].units]

\* What inventory_truth has as reserved is what the open allocations still have
\* to pick: releases, picks, short picks, fulfilments, cancellations of orders
\* and of batches all write the two separately.
ReservedIsOwned == truth.reserved = SumFunctionOnSet(Remaining, Allocated)

\* Units of o that left inventory_truth: scans of an allocation, and removals.
LeftTruth(o) == (IF alloc[o] = NoBatch THEN 0 ELSE scan[o].units) + removed[o]

\* Units of o that only the ledger has let go: scans without an allocation.
LeftLedgerOnly(o) == IF alloc[o] = NoBatch THEN scan[o].units ELSE 0

Left == [o \in Orders |-> LeftTruth(o)]
LedgerOnly == [o \in Orders |-> LeftLedgerOnly(o)]

\* In inventory_truth every unit is on hand or left once, for an order that had
\* asked for it: picks of allocations and the fulfilments Shopify reports share
\* the quantity of a line, in whatever order they come.  The ledger differs by
\* exactly what was scanned without an allocation; after a fulfilment that took
\* the allocation away such a scan books a line a second time (LeavesLedgerOnce
\* does not hold: README, section 7).
OnHandIsAccounted ==
    /\ truth.onHand = Stock + received - SumFunction(Left)
    /\ \A o \in Orders : LeftTruth(o) <= Qty[o]
    /\ ledger = truth.onHand - SumFunction(LedgerOnly)

\* An open order outside every batch has nothing left of an earlier one: the next
\* release takes it from the beginning, after any number of cancelled batches and
\* of claims that came too late.
PoolHoldsNothing ==
    \A o \in Orders : status[o] = "open" /\ member[o] = NoBatch =>
        alloc[o] = NoBatch /\ ~Scanned(o) /\ exception[o] = NoBatch /\ line[o] = "none"

\* A cancelled order is in no batch and reserves nothing that still stands at its
\* location, also when it was cancelled while a release had chosen it.  Excepted:
\* a line shipped by a fulfilment from before the opening balance, which leaves
\* its allocation behind and which the cancellation skips (README, section 7).
CancelledHoldsNothing ==
    \A o \in Orders : status[o] = "cancelled" =>
        member[o] = NoBatch /\ (alloc[o] # NoBatch => Scanned(o) \/ line[o] = "shipped")

\* Members of b that a fulfilment from before the opening balance has shipped
\* without returning their allocation.
ShippedUnreturned(b) == {o \in Members(b) : line[o] = "shipped" /\ alloc[o] = b}

\* The proof of ownership that a cancelled batch has to pass never fails for a
\* pending batch: neither fulfilments nor cancellations of its orders, between
\* the reading of its members and the locks, leave one that cannot be cancelled.
\* Excepted: a batch with a member shipped by a fulfilment from before the opening
\* balance, which expects no allocation and finds one (README, section 7).
CancelIsNeverRefused ==
    \A b \in Batches :
        asked.batch = b /\ batch[b] = "pending" /\ ShippedUnreturned(b) = {} =>
            OwnershipProven(b)

\* What a picked batch still owns is confirmed or reported missing to the last
\* unit, although completion reads scans and exceptions without a lock.
CompleteIsAccounted ==
    \A b \in Batches : batch[b] = "pick_complete" =>
        \A o \in Owned(b) : scan[o].units + excused[o] = Qty[o]

\* Units of o that are allocated and still to be picked.
Held == [o \in Orders |-> IF alloc[o] = NoBatch THEN 0 ELSE Remaining[o]]

\* Under the batches, the locks and the reports of Shopify the numbers and the
\* orders move together: a release holds all or nothing, a cancellation gives
\* back only what was never touched, a pick, a short pick and a fulfilment take
\* what is held, and only a fulfilment for which nothing was reserved makes
\* available and reserved disagree with what is on hand.
Account == INSTANCE StockAccount WITH
    onHand <- truth.onHand, reserved <- truth.reserved, available <- truth.available,
    held <- Held, gone <- Left
ImplementsAccount == Account!Spec

-----------------------------------------------------------------------------
(* What the code says of itself and does not keep (README, section 7).      *)

\* "Start Picking -> claim exactly once": a batch that is claimed stays with its
\* operator ("Batch already claimed by another operator").
ClaimIsExclusive ==
    [][\A b \in Batches : owner[b] # NoOne => owner'[b] = owner[b]]_vars

\* "available_quantity is clamped at 0 to match rebuildInventoryProjection's
\* Math.max(0, onHand - reserved)": a rebuild would find the same number.
NoPhantomStock == truth.available = Max({0, truth.onHand - truth.reserved})

\* "picking -> unscanned allocations released": nothing stands in the way of the
\* deletion of an allocation that was not scanned.
UnscannedCanGoBack ==
    \A o \in Orders : alloc[o] # NoBatch /\ ~Scanned(o) => ~Referenced(o)

\* "Shopify fulfillment for quantity that was not physically picked is represented
\* separately by fulfillment_removal": no unit of a line is booked as both.
LeavesLedgerOnce == \A o \in Orders : scan[o].units + removed[o] <= Qty[o]

\* "a cancelled pick already left truth at Pick": what is put into the problem bin
\* for a cancelled order is what its picks took out of inventory_truth.
CreditLeftTruth == \A o \in Orders : credited[o] <= LeftTruth(o)

=============================================================================
