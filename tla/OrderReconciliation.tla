------------------------- MODULE OrderReconciliation -------------------------
(***************************************************************************)
(* From an order's events to its decisions.                                *)
(*                                                                         *)
(* The projection worker takes one event of the feed per cycle: the event  *)
(* moves the order's version and leaves a risk snapshot at that version,   *)
(* and some events leave a reconciliation intent.  The same cycle then     *)
(* sweeps all intents: one that matches its order's version is reconciled  *)
(* and deleted in separate transactions.  Reconciliation either reuses     *)
(* decisions, and moves the checkpoint, or sends a command from which the  *)
(* commands consumer generates them.  HTTP handlers move versions and      *)
(* leave intents on their own, at any time.                                *)
(*                                                                         *)
(* How an event becomes the head of the feed is ProjectionWorker's; how a  *)
(* decision is executed is DecisionExecution's.  One worker sweeps.        *)
(***************************************************************************)
EXTENDS Naturals, FiniteSets, Sequences

CONSTANTS
    Orders,
    Kinds,          \* the kinds of webhook event that come in, among AllKinds
    Blocks,         \* constraint types that can be active on an order
    Proceed,        \* the action of a decision for an order without constraints
    None,           \* no order, no snapshot
    MaxDefers,      \* MAX_DEFERS
    MaxVersion,     \* bound: versions of an order
    MaxFeed,        \* bound: events waiting in the feed
    MaxFaults       \* bound: crashes and database errors

AllKinds == {"create", "paid", "fulfilled", "refund", "cancelled"}

ASSUME ConstantsAssumption ==
    /\ Kinds \subseteq AllKinds
    /\ Proceed \notin Blocks
    /\ None \notin Orders /\ \A b \in SUBSET Blocks : b # None
    /\ MaxDefers \in Nat /\ MaxVersion \in Nat \ {0} /\ MaxFeed \in Nat /\ MaxFaults \in Nat

VARIABLES
    feed,       \* committed events that are not projected yet, in id order
    version,    \* aggregate_version, 0 while the order is unknown
    paid,       \* orders whose payment event took effect
    snapshot,   \* the constraints order_risk_snapshot holds for a version
    checkpoint, \* last_projected_version
    intents,    \* order_reconciliation_intents
    command,    \* the RECONCILIATION_RUN command of an order and a version
    decisions,  \* the decisions that exist
    resolved,   \* those that are no longer pending
    queued,     \* those with a row in decision_execution_queue
    worker,     \* the projection worker in its cycle
    faults      \* crashes and database errors so far

vars == <<feed, version, paid, snapshot, checkpoint, intents, command,
          decisions, resolved, queued, worker, faults>>
order == <<version, paid, snapshot>>
outcome == <<decisions, resolved, queued>>

Versions == 1 .. MaxVersion
Intents == [order : Orders, version : Versions]
Decision == [order : Orders, version : Versions, type : Blocks \cup {Proceed}]

NoCommand == [status |-> "none", blocks |-> {}]

Init ==
    /\ feed = <<>>
    /\ version = [o \in Orders |-> 0]
    /\ paid = {}
    /\ snapshot = [o \in Orders |-> [v \in Versions |-> None]]
    /\ checkpoint = [o \in Orders |-> 0]
    /\ intents = {}
    /\ command = [o \in Orders |-> [v \in Versions |-> NoCommand]]
    /\ decisions = {}
    /\ resolved = {}
    /\ queued = {}
    /\ worker = [at |-> "project", job |-> None, todo |-> {}, buffer |-> {}]
    /\ faults = 0

Known(o) == version[o] > 0
IntentNow(o, v) == [order |-> o, version |-> v]

\* A crash or a database error.
Fault == faults < MaxFaults /\ faults' = faults + 1

-----------------------------------------------------------------------------
(* What other processes do: webhooks, HTTP handlers, the executor.         *)

Event(o, k) == [order |-> o, kind |-> k, defers |-> 0]

\* The kinds whose handler adds one to the version.
Bumping == {"paid", "fulfilled", "refund"}

\* The bounds: room in the feed, and for the versions its events will add.
Coming(o) == {i \in DOMAIN feed : feed[i].order = o /\ feed[i].kind \in Bumping}
Latest(o) == (IF Known(o) THEN version[o] ELSE 1) + Cardinality(Coming(o))

HasRoom(o, k) ==
    /\ Len(feed) < MaxFeed
    /\ k \in Bumping \cup {"address"} => Latest(o) < MaxVersion

Waiting(o, k) == {i \in DOMAIN feed : feed[i].order = o /\ feed[i].kind = k}

\* A webhook handler inserts its event; whether the order exists is not asked.
\* An order is paid once.
Webhook(o, k) ==
    /\ k \in Kinds
    /\ HasRoom(o, k)
    /\ k = "paid" => /\ o \notin paid
                     /\ Waiting(o, k) = {}
    /\ feed' = Append(feed, Event(o, k))
    /\ UNCHANGED <<order, checkpoint, intents, command, outcome, worker, faults>>

\* PATCH shipping-address: version, intent and event in one transaction.
CorrectAddress(o) ==
    /\ Known(o)
    /\ HasRoom(o, "address")
    /\ version' = [version EXCEPT ![o] = @ + 1]
    /\ intents' = intents \cup {IntentNow(o, version[o] + 1)}
    /\ feed' = Append(feed, Event(o, "address"))
    /\ UNCHANGED <<paid, snapshot, checkpoint, command, outcome, worker, faults>>

\* Stock arrives: an intent at the version the order happens to have.  The code
\* does it for orders with an active inventory constraint; here any order may be.
Stow(o) ==
    /\ Known(o)
    /\ intents' = intents \cup {IntentNow(o, version[o])}
    /\ UNCHANGED <<feed, order, checkpoint, command, outcome, worker, faults>>

\* See DecisionExecution.
Resolve(d) ==
    /\ resolved' = resolved \cup {d}
    /\ UNCHANGED <<feed, order, checkpoint, intents, command, decisions, queued,
                   worker, faults>>

-----------------------------------------------------------------------------
(* The projection of the head event.                                       *)

Head1 == Head(feed)
At(l) == worker.at = l
Goto(l) == worker' = [worker EXCEPT !.at = l]

\* The events that throw when the order is unknown.  A refund is no
\* order-entity event, a creation makes the order known.
NeedsOrder == {"fulfilled", "cancelled", "address"}

Stalled == feed # <<>> /\ Head1.kind \in NeedsOrder /\ ~Known(Head1.order)

TakeHead == At("project") /\ feed # <<>>

\* The engine's orchestration: constraints evaluated and a risk snapshot, at
\* the version the order has by now.
Snapshot(o, v) == \E b \in SUBSET Blocks : snapshot' = [snapshot EXCEPT ![o][v] = b]

\* orders/create and orders/sync: a new order, or an intent for the old one.
ProjectCreate(o) ==
    /\ TakeHead /\ Head1.order = o /\ Head1.kind = "create"
    /\ LET v == IF Known(o) THEN version[o] ELSE 1
       IN  /\ version' = [version EXCEPT ![o] = v]
           /\ intents' = intents \cup {IntentNow(o, v)}
           /\ Snapshot(o, v)
    /\ feed' = Tail(feed)
    /\ Goto("list")
    /\ UNCHANGED <<paid, checkpoint, command, outcome, faults>>

\* A creation whose payload breaks the canonical contract: the projection is
\* rolled back, the event is recorded as a failure and the feed moves on.
QuarantineCreate ==
    /\ TakeHead /\ Head1.kind = "create"
    /\ feed' = Tail(feed)
    /\ Goto("list")
    /\ UNCHANGED <<order, checkpoint, intents, command, outcome, faults>>

\* No intent, no matter which version they leave.
ProjectChange(o) ==
    /\ TakeHead /\ Head1.order = o /\ Known(o)
    /\ Head1.kind \in {"paid", "fulfilled", "cancelled", "address"}
    /\ LET v == IF Head1.kind \in Bumping THEN version[o] + 1 ELSE version[o]
       IN  /\ version' = [version EXCEPT ![o] = v]
           /\ Snapshot(o, v)
    /\ paid' = IF Head1.kind = "paid" THEN paid \cup {o} ELSE paid
    /\ feed' = Tail(feed)
    /\ Goto("list")
    /\ UNCHANGED <<checkpoint, intents, command, outcome, faults>>

\* The version moves and nothing takes a snapshot of it.
ProjectRefund(o) ==
    /\ TakeHead /\ Head1.order = o /\ Head1.kind = "refund"
    /\ version' = IF Known(o) THEN [version EXCEPT ![o] = @ + 1] ELSE version
    /\ feed' = Tail(feed)
    /\ Goto("list")
    /\ UNCHANGED <<paid, snapshot, checkpoint, intents, command, outcome, faults>>

\* Mutant: the deferred event goes back in front.
RequeueInFront == <<[Head1 EXCEPT !.defers = @ + 1]>> \o Tail(feed)

\* The deferred event is inserted again, behind everything in the feed.
Requeue == Append(Tail(feed), [Head1 EXCEPT !.defers = @ + 1])

MayDefer == Head1.defers < MaxDefers

\* A payment of an unknown order waits, and in the end is given up.
DeferPaid ==
    /\ TakeHead /\ Head1.kind = "paid" /\ ~Known(Head1.order)
    /\ feed' = IF MayDefer THEN Requeue ELSE Tail(feed)
    /\ Goto("list")
    /\ UNCHANGED <<order, checkpoint, intents, command, outcome, faults>>

\* Any other event of an unknown order throws: rolled back, the worker is
\* restarted, and the event is still the head.
RejectUnknown ==
    /\ At("project") /\ Stalled
    /\ UNCHANGED vars

ProjectIdle ==
    /\ At("project") /\ feed = <<>>
    /\ Goto("list")
    /\ UNCHANGED <<feed, order, checkpoint, intents, command, outcome, faults>>

-----------------------------------------------------------------------------
(* The sweep.                                                              *)

ListIntents ==
    /\ At("list")
    /\ worker' = [worker EXCEPT !.at = "next", !.todo = intents]
    /\ UNCHANGED <<feed, order, checkpoint, intents, command, outcome, faults>>

\* Mutant: an intent of the current version counts as stale.
NotNewer(i) == i.version <= version[i.order]

IsStale(i) == i.version < version[i.order]

\* The version is read on its own, before anything is locked.
ReadVersion(i) ==
    /\ At("next") /\ i \in worker.todo
    /\ worker' = [worker EXCEPT
                    !.at = IF IsStale(i) THEN "delete"
                           ELSE IF i.version = version[i.order] THEN "reconcile" ELSE "next",
                    !.job = i, !.todo = @ \ {i}]
    /\ UNCHANGED <<feed, order, checkpoint, intents, command, outcome, faults>>

\* Mutant: an intent that was left alone, not deleted.
KeepIntent(i) == intents' = intents

RemoveIntent(i) == intents' = intents \ {i}

DeleteIntent ==
    /\ At("delete")
    /\ RemoveIntent(worker.job)
    /\ Goto("next")
    /\ UNCHANGED <<feed, order, checkpoint, command, outcome, faults>>

\* Intents that came meanwhile make the cycle throw: the worker is restarted
\* and begins again just as it would have done.
EndSweep ==
    /\ At("next") /\ worker.todo = {}
    /\ Goto("project")
    /\ UNCHANGED <<feed, order, checkpoint, intents, command, outcome, faults>>

-----------------------------------------------------------------------------
(* reconcileOrderFulfillment, under the row lock of the order.             *)

Job == worker.job
Pending(o) == {d \in decisions \ resolved : d.order = o}
Types(D) == {d.type : d \in D}

Ready == snapshot[Job.order][Job.version] # None

\* Decisions to reuse: the pending ones if they are what the active constraints
\* call for, else whatever exists for this version.
Reused(active) ==
    IF active # {} /\ active = Types(Pending(Job.order))
    THEN Pending(Job.order)
    ELSE {d \in decisions : d.order = Job.order /\ d.version = Job.version}

Done == checkpoint[Job.order] >= Job.version

\* "blocked", or the projection is not there: nothing is written.
SkipReconcile ==
    /\ At("reconcile")
    /\ Done \/ ~Ready
    /\ Goto("delete")
    /\ UNCHANGED <<feed, order, checkpoint, intents, command, outcome, faults>>

\* Mutant: the checkpoint moves to the order's version of the moment.
CheckpointNow(i) == checkpoint' = [checkpoint EXCEPT ![i.order] = version[i.order]]

WriteCheckpoint(i) == checkpoint' = [checkpoint EXCEPT ![i.order] = i.version]

Reuse ==
    /\ At("reconcile") /\ ~Done /\ Ready
    /\ \E active \in SUBSET Blocks :
          /\ Reused(active) # {}
          /\ worker' = [worker EXCEPT !.at = "enqueue", !.buffer = Reused(active)]
    /\ WriteCheckpoint(Job)
    /\ UNCHANGED <<feed, order, intents, command, outcome, faults>>

\* dispatchCommand, once for each key.
SendCommand(i) ==
    command' = [command EXCEPT ![i.order][i.version] =
                  IF @.status = "none"
                  THEN [status |-> "pending", blocks |-> snapshot[i.order][i.version]]
                  ELSE @]

CanDispatch == \E active \in SUBSET Blocks : Reused(active) = {}

Dispatch ==
    /\ At("reconcile") /\ ~Done /\ Ready /\ CanDispatch
    /\ SendCommand(Job)
    /\ Goto("delete")
    /\ UNCHANGED <<feed, order, checkpoint, intents, outcome, faults>>

\* Execution rows, one transaction each.
Enqueue(d) ==
    /\ At("enqueue") /\ d \in worker.buffer
    /\ queued' = queued \cup {d}
    /\ worker' = [worker EXCEPT !.buffer = @ \ {d},
                                !.at = IF worker.buffer = {d} THEN "delete" ELSE "enqueue"]
    /\ UNCHANGED <<feed, order, checkpoint, intents, command, decisions, resolved, faults>>

-----------------------------------------------------------------------------

Restarted == [at |-> "project", job |-> None, todo |-> {}, buffer |-> {}]

\* A crash or an error anywhere in the cycle; the supervisor starts it again.
WorkerFails ==
    /\ Fault
    /\ worker' = Restarted
    /\ UNCHANGED <<feed, order, checkpoint, intents, command, outcome>>

\* The command is committed on its own: it stays when the transaction is
\* rolled back around it.
DispatchFails ==
    /\ At("reconcile") /\ ~Done /\ Ready /\ CanDispatch
    /\ Fault
    /\ SendCommand(Job)
    /\ worker' = Restarted
    /\ UNCHANGED <<feed, order, checkpoint, intents, outcome>>

\* generateDecisions: one decision for each constraint of the snapshot; without
\* any, at most the one to proceed, depending on the order's health.
Generated(o, v, blocks, healthy) ==
    {[order |-> o, version |-> v, type |-> t] :
        t \in IF blocks = {} /\ healthy THEN {Proceed} ELSE blocks}

\* The decisions and the command's status in one transaction.
ConsumeCommand(o, v) ==
    /\ command[o][v].status = "pending"
    /\ \E healthy \in BOOLEAN :
          decisions' = decisions \cup Generated(o, v, command[o][v].blocks, healthy)
    /\ command' = [command EXCEPT ![o][v].status = "processed"]
    /\ UNCHANGED <<feed, order, checkpoint, intents, resolved, queued, worker, faults>>

\* generateDecisions throws: the command is closed without decisions.
FailCommand(o, v) ==
    /\ command[o][v].status = "pending"
    /\ Fault
    /\ command' = [command EXCEPT ![o][v].status = "error"]
    /\ UNCHANGED <<feed, order, checkpoint, intents, outcome, worker>>

Outside ==
    \/ \E o \in Orders, k \in Kinds : Webhook(o, k)
    \/ \E o \in Orders : CorrectAddress(o) \/ Stow(o)
    \/ \E d \in decisions \ resolved : Resolve(d)

Project ==
    \/ \E o \in Orders : ProjectCreate(o) \/ ProjectChange(o) \/ ProjectRefund(o)
    \/ QuarantineCreate
    \/ DeferPaid
    \/ RejectUnknown
    \/ ProjectIdle

Sweep ==
    \/ ListIntents
    \/ \E i \in worker.todo : ReadVersion(i)
    \/ SkipReconcile
    \/ Reuse
    \/ Dispatch
    \/ \E d \in worker.buffer : Enqueue(d)
    \/ DeleteIntent
    \/ EndSweep

Cycle == Project \/ Sweep

Consume == \E o \in Orders, v \in Versions : ConsumeCommand(o, v)

Next ==
    \/ Outside
    \/ Cycle
    \/ WorkerFails
    \/ DispatchFails
    \/ Consume
    \/ \E o \in Orders, v \in Versions : FailCommand(o, v)

Spec == Init /\ [][Next]_vars

\* The worker and the consumer poll for ever; nothing else is promised.
Fairness == WF_vars(Cycle) /\ WF_vars(Consume)

FairSpec == Spec /\ Fairness

-----------------------------------------------------------------------------
(* Properties.                                                             *)

TypeOK ==
    /\ feed \in Seq([order : Orders, kind : AllKinds \cup {"address"}, defers : 0 .. MaxDefers])
    /\ version \in [Orders -> 0 .. MaxVersion]
    /\ paid \subseteq Orders
    /\ snapshot \in [Orders -> [Versions -> (SUBSET Blocks) \cup {None}]]
    /\ checkpoint \in [Orders -> 0 .. MaxVersion]
    /\ intents \subseteq Intents
    /\ command \in [Orders -> [Versions ->
          [status : {"none", "pending", "processed", "error"}, blocks : SUBSET Blocks]]]
    /\ decisions \subseteq Decision
    /\ resolved \subseteq decisions
    /\ queued \subseteq decisions
    /\ worker \in [at : {"project", "list", "next", "reconcile", "enqueue", "delete"},
                   job : Intents \cup {None},
                   todo : SUBSET Intents,
                   buffer : SUBSET decisions]
    /\ faults \in 0 .. MaxFaults

\* The checkpoint stands for a reconciliation that was complete: its version
\* has a risk snapshot and the order has a decision no newer than it, also when
\* the version moved while the intent was being worked on ("prevents false
\* processed states").
CheckpointIsBacked ==
    \A o \in Orders : checkpoint[o] > 0 =>
        /\ checkpoint[o] <= version[o]
        /\ snapshot[o][checkpoint[o]] # None
        /\ \E d \in decisions : d.order = o /\ d.version <= checkpoint[o]

\* Reconciled, or overtaken by a newer version.
Handled(i) ==
    \/ i.version < version[i.order]
    \/ i.version <= checkpoint[i.order]
    \/ command[i.order][i.version].status # "none"

\* An intent whose projection exists goes only when it was reconciled, or when
\* the order has moved on, whatever crashes between the two transactions.  (One
\* that is swept before its projection exists does go unhandled.)
NoIntentDropped ==
    [][\A i \in intents \ intents' :
          Handled(i) \/ snapshot[i.order][i.version] = None]_vars

\* Intents do not pile up: each is deleted in the end, by the version it has or
\* by the one that overtakes it, unless the feed itself is stalled.
IntentsDrain ==
    \A i \in Intents : (i \in intents) ~> (i \notin intents \/ Stalled)

\* No creation can make the order known any more.
NeverCreated(o) == ~Known(o) /\ Waiting(o, "create") = {}

\* A payment that comes before its order is not lost while the order's creation
\* is in the feed: the defers are enough to let it overtake.  It is lost only
\* with the creation itself, when that is quarantined.
PaymentsLand ==
    \A o \in Orders :
        (/\ \E i \in Waiting(o, "paid") : feed[i].defers < MaxDefers
         /\ ~NeverCreated(o))
        ~> (o \in paid \/ NeverCreated(o) \/ Stalled)

\* The feed always moves on: an event of an order nobody knows is "inert, not
\* fatal".
FeedMoves == Stalled ~> ~Stalled
=============================================================================
