--------------------------- MODULE ProjectionWorker ---------------------------
(***************************************************************************)
(* The database-driven projection worker: how committed domain events are  *)
(* found, ordered and taken, one per cycle, under one global cursor.       *)
(*                                                                         *)
(* Producers insert events inside transactions of their own.  An id is     *)
(* drawn from a sequence when the row is inserted and becomes visible when *)
(* the transaction commits, so ids become visible out of order, and an id  *)
(* whose insert is rolled back is burned.  The worker reads the cursor,    *)
(* lists the next visible event and only then locks the cursor row; a gap  *)
(* below the listed event is waited for, bridged, or fatal.                *)
(*                                                                         *)
(* Several workers may run at once (a deployment overlaps the old process  *)
(* with the new one).  What the projection of an event writes is left to   *)
(* OrderReconciliation; here an event projects, breaks its payload         *)
(* contract, or fails.                                                     *)
(***************************************************************************)
EXTENDS Integers, Sequences, FiniteSets

CONSTANTS
    Shops,          \* tenants; row-level security shows a transaction one of them
    Kinds,          \* outcomes of projecting an event, a subset of AllKinds
    Workers,        \* projection worker processes
    NoWorker,       \* the cursor row is not locked
    MaxGapRetries,  \* MAX_TRANSIENT_GAP_RETRIES
    MaxDrafts,      \* bound: producer transactions that hold events at once
    MaxId,          \* bound: ids the sequence hands out
    MaxFailing,     \* bound: visible events that do not project
    MaxFaults       \* bound: crashes and database errors

\* "good" projects, "contract" throws CanonicalContractError, "fault" throws
\* any other error every time it is projected.
AllKinds == {"good", "contract", "fault"}

ASSUME ConstantsAssumption ==
    /\ Kinds \subseteq AllKinds
    /\ NoWorker \notin Workers
    /\ MaxGapRetries \in Nat \ {0}
    /\ MaxDrafts \in Nat
    /\ MaxId \in Nat
    /\ MaxFailing \in Nat
    /\ MaxFaults \in Nat

VARIABLES
    tenant,     \* the shop every id drawn so far belongs to
    draft,      \* the open producer transactions, each the set of ids it inserted
    committed,  \* ids visible in domain_events
    kind,       \* what projecting each visible event does
    overtaken,  \* history: ids in flight when a later id became visible
    cursor,     \* last_processed_event_id of the cursor row, 0 before there is one
    lock,       \* the worker that holds the row FOR UPDATE
    failures,   \* ids in domain_event_projection_failures
    projected,  \* history: ids whose projection committed, in that order
    bridged,    \* history: ids the cursor was moved past as a gap
    pc,         \* where each worker is in its cycle
    seen,       \* the cursor each worker read without a lock
    pick,       \* the event each worker listed as next
    current,    \* the cursor each worker read under the lock
    retries,    \* transientGapRetries of each worker process
    faults      \* crashes and database errors so far

log == <<tenant, draft, committed, kind, overtaken>>
store == <<cursor, failures, projected, bridged>>
local == <<seen, pick, current>>
vars == <<tenant, draft, committed, kind, overtaken, cursor, lock, failures,
          projected, bridged, pc, seen, pick, current, retries, faults>>

Ids == 1 .. MaxId

\* No migration seeds projection_cursors; the first event taken inserts its row.
HasRow == cursor > 0

Labels == {"down", "poll", "fetch", "begin", "body", "recover", "quarantine", "sweep"}

Init ==
    /\ tenant = <<>>
    /\ draft = {}
    /\ committed = {}
    /\ kind = [i \in {} |-> "good"]
    /\ overtaken = {}
    /\ cursor = 0
    /\ lock = NoWorker
    /\ failures = {}
    /\ projected = <<>>
    /\ bridged = {}
    /\ pc = [w \in Workers |-> "poll"]
    /\ seen = [w \in Workers |-> 0]
    /\ pick = [w \in Workers |-> 0]
    /\ current = [w \in Workers |-> 0]
    /\ retries = [w \in Workers |-> 0]
    /\ faults = 0

-----------------------------------------------------------------------------
(* Producers.  One transaction belongs to one shop; a webhook for a paid   *)
(* order inserts two events in it.                                         *)

NextId == Len(tenant) + 1

DrawId(s) ==
    /\ NextId <= MaxId
    /\ tenant' = Append(tenant, s)

InsertEvent(s) ==
    /\ DrawId(s)
    /\ \E d \in draft \cup {{}} :
          /\ \A i \in d : tenant[i] = s
          /\ draft' = (draft \ {d}) \cup {d \cup {NextId}}
    /\ Cardinality(draft') <= MaxDrafts
    /\ UNCHANGED <<committed, kind, overtaken, store, lock, pc, local, retries,
                   faults>>

\* The unique index rejects the row (23505) and the savepoint is rolled back:
\* the id is gone, the transaction goes on.
InsertDuplicate(s) ==
    /\ DrawId(s)
    /\ UNCHANGED <<draft, committed, kind, overtaken, store, lock, pc, local,
                   retries, faults>>

\* Ids still in flight below one that transaction d makes visible.
OvertakenBy(d) == {i \in UNION (draft \ {d}) : \E j \in d : i < j}

\* Nobody reads an event before it is visible: what projecting it will do is
\* settled here.
CommitEvents(d) ==
    /\ committed' = committed \cup d
    /\ \E k \in [d -> Kinds] :
          kind' = [i \in committed' |-> IF i \in d THEN k[i] ELSE kind[i]]
    /\ Cardinality({i \in committed' : kind'[i] # "good"}) <= MaxFailing
    /\ overtaken' = overtaken \cup OvertakenBy(d)
    /\ draft' = draft \ {d}
    /\ UNCHANGED <<tenant, store, lock, pc, local, retries, faults>>

RollBackEvents(d) ==
    /\ draft' = draft \ {d}
    /\ UNCHANGED <<tenant, committed, kind, overtaken, store, lock, pc, local,
                   retries, faults>>

-----------------------------------------------------------------------------
(* One cycle of a worker: poll, fetch, begin, body, sweep.                 *)

Goto(w, l) == pc' = [pc EXCEPT ![w] = l]

Unlock(w) == lock' = IF lock = w THEN NoWorker ELSE lock

\* The cycle is over: its transaction ended, what it had read is forgotten.
EndCycle(w, l) ==
    /\ Goto(w, l)
    /\ Unlock(w)
    /\ seen' = [seen EXCEPT ![w] = 0]
    /\ pick' = [pick EXCEPT ![w] = 0]
    /\ current' = [current EXCEPT ![w] = 0]

Sweep(w) == EndCycle(w, "sweep")

\* The supervised worker run ends with the error; its process lives on.
Die(w) == EndCycle(w, "down")

SetRetries(w, n) == retries' = [retries EXCEPT ![w] = n]

\* get_projection_worker_state: the cursor against MAX(domain_events.id).
CursorCorrupt == HasRow /\ \A i \in committed : i < cursor

PollCursor(w) ==
    /\ pc[w] = "poll"
    /\ IF CursorCorrupt
       THEN Die(w)
       ELSE /\ Goto(w, "fetch")
            /\ seen' = [seen EXCEPT ![w] = cursor]
            /\ UNCHANGED <<lock, pick, current>>
    /\ UNCHANGED <<log, store, retries, faults>>

\* list_projection_event_tenants: visible events of every tenant.
Ahead(w) == {i \in committed : i > seen[w]}

FetchNext(w) ==
    /\ pc[w] = "fetch"
    /\ \E e \in Ahead(w) :
          /\ \A i \in Ahead(w) : e <= i
          /\ pick' = [pick EXCEPT ![w] = e]
    /\ seen' = [seen EXCEPT ![w] = 0]
    /\ Goto(w, "begin")
    /\ UNCHANGED <<log, store, lock, current, retries, faults>>

FetchIdle(w) ==
    /\ pc[w] = "fetch"
    /\ Ahead(w) = {}
    /\ Sweep(w)
    /\ UNCHANGED <<log, store, retries, faults>>

\* SELECT ... FOR UPDATE on the cursor row.  With no row there is nothing to
\* lock, and two workers may be in the transaction body at once.
LockCursor(w) ==
    /\ lock = NoWorker
    /\ lock' = IF HasRow THEN w ELSE NoWorker
    /\ current' = [current EXCEPT ![w] = cursor]

BeginProjection(w) ==
    /\ pc[w] = "begin"
    /\ LockCursor(w)
    /\ Goto(w, "body")
    /\ UNCHANGED <<log, store, seen, pick, retries, faults>>

Expected(w) == current[w] + 1
Gap(w) == pick[w] - Expected(w)
Stale(w) == pick[w] <= current[w]
AtHead(w) == ~Stale(w) /\ Gap(w) = 0

\* Mutant: a database without the trigger.
NoTrigger(n) == FALSE

\* The trigger on projection_cursors refuses an update that does not advance.
TriggerRejects(n) == HasRow /\ n <= cursor

\* A write to the cursor row waits for whoever holds it.
RowFree(w) == lock \in {NoWorker, w}

\* advanceCursorTo: insert the row or update it.
AdvanceCursorTo(w, n) ==
    /\ RowFree(w)
    /\ ~TriggerRejects(n)
    /\ cursor' = n

\* The plain update of the two gap rules: it changes no row when there is none.
BridgeTo(w, n) ==
    /\ RowFree(w)
    /\ ~TriggerRejects(n)
    /\ cursor' = IF HasRow THEN n ELSE cursor
    /\ bridged' = IF HasRow THEN bridged \cup (cursor + 1 .. n) ELSE bridged
    /\ UNCHANGED <<failures, projected>>

SkipStale(w) ==
    /\ pc[w] = "body"
    /\ Stale(w)
    /\ Sweep(w)
    /\ UNCHANGED <<log, store, retries, faults>>

ProjectHead(w) ==
    /\ pc[w] = "body"
    /\ AtHead(w)
    /\ kind[pick[w]] = "good"
    /\ AdvanceCursorTo(w, pick[w])
    /\ projected' = Append(projected, pick[w])
    /\ SetRetries(w, 0)
    /\ Sweep(w)
    /\ UNCHANGED <<log, failures, bridged, faults>>

\* The handler throws: the transaction is gone, the counter was already reset.
FailHead(w) ==
    /\ pc[w] = "body"
    /\ AtHead(w)
    /\ kind[pick[w]] # "good"
    /\ IF kind[pick[w]] = "contract"
       THEN Goto(w, "recover") /\ Unlock(w) /\ UNCHANGED local
       ELSE Die(w)
    /\ SetRetries(w, 0)
    /\ UNCHANGED <<log, store, faults>>

\* Mutant: the counter starts again on every poll.
FirstAttempt(w) == 1

\* transientGapRetries after this poll, and whether that was the last one.
Attempt(w) == retries[w] + 1
Exhausts(w) == Attempt(w) >= MaxGapRetries

\* One id is missing: it may be in flight, so leave it to a later poll.
WaitForGap(w) ==
    /\ pc[w] = "body"
    /\ ~Stale(w) /\ Gap(w) = 1
    /\ ~Exhausts(w)
    /\ SetRetries(w, Attempt(w))
    /\ Sweep(w)
    /\ UNCHANGED <<log, store, faults>>

\* Mutant: the cursor goes onto the event behind the missing id.
SkipOntoNext(w) ==
    /\ pc[w] = "body"
    /\ ~Stale(w) /\ Gap(w) = 1
    /\ Exhausts(w)
    /\ BridgeTo(w, pick[w])
    /\ SetRetries(w, 0)
    /\ Sweep(w)
    /\ UNCHANGED <<log, faults>>

\* It has been missing for MaxGapRetries polls: it is taken to be burned.
SkipMissingId(w) ==
    /\ pc[w] = "body"
    /\ ~Stale(w) /\ Gap(w) = 1
    /\ Exhausts(w)
    /\ BridgeTo(w, Expected(w))
    /\ SetRetries(w, 0)
    /\ Sweep(w)
    /\ UNCHANGED <<log, faults>>

\* The count over domain_events runs as the tenant of the listed event.
PresentMissing(w) ==
    {i \in committed : /\ Expected(w) <= i /\ i < pick[w]
                       /\ tenant[i] = tenant[pick[w]]}

\* Mutant: the gap is bridged onto the next event instead of below it.
PhantomOnto(w) == pick[w]

PhantomTarget(w) == pick[w] - 1

BridgePhantomGap(w) ==
    /\ pc[w] = "body"
    /\ ~Stale(w) /\ Gap(w) > 1
    /\ PresentMissing(w) = {}
    /\ BridgeTo(w, PhantomTarget(w))
    /\ SetRetries(w, 0)
    /\ Sweep(w)
    /\ UNCHANGED <<log, faults>>

HaltOnGap(w) ==
    /\ pc[w] = "body"
    /\ ~Stale(w) /\ Gap(w) > 1
    /\ PresentMissing(w) # {}
    /\ Die(w)
    /\ UNCHANGED <<log, store, retries, faults>>

\* Where the transaction body would leave the cursor.
Target(w) ==
    CASE Gap(w) = 0 -> pick[w]
      [] Gap(w) = 1 -> Expected(w)
      [] OTHER      -> PhantomTarget(w)

\* The counter when the last statement of the body fails: it is memory, so
\* what the body did to it before stays.
CounterInBody(w) ==
    IF pc[w] # "body" \/ Stale(w) \/ Gap(w) > 1 THEN retries[w]
    ELSE IF Gap(w) = 1 THEN Attempt(w) ELSE 0

\* The trigger raises inside the body: everything it wrote is rolled back.
BodyRejected(w) ==
    /\ pc[w] = "body"
    /\ ~Stale(w)
    /\ RowFree(w) /\ TriggerRejects(Target(w))
    /\ AtHead(w) => kind[pick[w]] = "good"
    /\ Gap(w) = 1 => Exhausts(w)
    /\ Gap(w) > 1 => PresentMissing(w) = {}
    /\ SetRetries(w, CounterInBody(w))
    /\ Die(w)
    /\ UNCHANGED <<log, store, faults>>

-----------------------------------------------------------------------------
(* The recovery transaction of a contract failure.                         *)

BeginRecovery(w) ==
    /\ pc[w] = "recover"
    /\ LockCursor(w)
    /\ Goto(w, "quarantine")
    /\ UNCHANGED <<log, store, seen, pick, retries, faults>>

RecoverStale(w) ==
    /\ pc[w] = "quarantine"
    /\ Stale(w)
    /\ Sweep(w)
    /\ UNCHANGED <<log, store, retries, faults>>

\* Mutant: the failure is only logged.
LogFailure(i) == failures' = failures

RecordFailure(i) == failures' = failures \cup {i}

\* The failure row and the cursor move together, and only at the head.
Quarantine(w) ==
    /\ pc[w] = "quarantine"
    /\ AtHead(w)
    /\ AdvanceCursorTo(w, pick[w])
    /\ RecordFailure(pick[w])
    /\ Sweep(w)
    /\ UNCHANGED <<log, projected, bridged, retries, faults>>

RecoveryRejected(w) ==
    /\ pc[w] = "quarantine"
    /\ ~Stale(w)
    /\ Gap(w) # 0 \/ (RowFree(w) /\ TriggerRejects(pick[w]))
    /\ Die(w)
    /\ UNCHANGED <<log, store, retries, faults>>

-----------------------------------------------------------------------------
(* The sweep over reconciliation intents ends the cycle.  It either finds  *)
(* nothing left or throws (RECONCILIATION_BACKLOG_VIOLATION); what it does *)
(* is OrderReconciliation's.                                               *)

EndSweep(w) ==
    /\ pc[w] = "sweep"
    /\ Goto(w, "poll")
    /\ UNCHANGED <<log, store, lock, local, retries, faults>>

\* The supervisor starts the worker again; the module's counter is still there.
Restart(w) ==
    /\ pc[w] = "down"
    /\ Goto(w, "poll")
    /\ UNCHANGED <<log, store, lock, local, retries, faults>>

\* A database error, or a sweep that leaves intents behind: rolled back, thrown.
Fault(w) ==
    /\ pc[w] # "down"
    /\ faults < MaxFaults
    /\ faults' = faults + 1
    /\ \E n \in {retries[w], CounterInBody(w)} : SetRetries(w, n)
    /\ Die(w)
    /\ UNCHANGED <<log, store>>

\* The process dies: the database rolls back, the counter is lost.
Crash(w) ==
    /\ faults < MaxFaults
    /\ faults' = faults + 1
    /\ SetRetries(w, 0)
    /\ Die(w)
    /\ UNCHANGED <<log, store>>

-----------------------------------------------------------------------------

Produce ==
    \/ \E s \in Shops : InsertEvent(s) \/ InsertDuplicate(s)
    \/ \E d \in draft : CommitEvents(d) \/ RollBackEvents(d)

Body(w) ==
    \/ SkipStale(w)
    \/ ProjectHead(w)
    \/ FailHead(w)
    \/ WaitForGap(w)
    \/ SkipMissingId(w)
    \/ BridgePhantomGap(w)
    \/ HaltOnGap(w)
    \/ BodyRejected(w)

Recovery(w) ==
    \/ BeginRecovery(w)
    \/ RecoverStale(w)
    \/ Quarantine(w)
    \/ RecoveryRejected(w)

Cycle(w) ==
    \/ PollCursor(w)
    \/ FetchNext(w)
    \/ FetchIdle(w)
    \/ BeginProjection(w)
    \/ Body(w)
    \/ Recovery(w)
    \/ EndSweep(w)
    \/ Restart(w)

Next ==
    \/ Produce
    \/ \E w \in Workers : Cycle(w) \/ Fault(w) \/ Crash(w)

Spec == Init /\ [][Next]_vars

\* The loop polls forever and the supervisor restarts it after every failure;
\* nothing is assumed of the producers.
Fairness == \A w \in Workers : WF_vars(Cycle(w))

FairSpec == Spec /\ Fairness

-----------------------------------------------------------------------------
(* Properties.                                                             *)

TypeOK ==
    /\ tenant \in Seq(Shops)
    /\ Len(tenant) <= MaxId
    /\ draft \subseteq SUBSET (1 .. Len(tenant))
    /\ committed \subseteq 1 .. Len(tenant)
    /\ kind \in [committed -> Kinds]
    /\ overtaken \subseteq 1 .. Len(tenant)
    /\ cursor \in Nat
    /\ lock \in Workers \cup {NoWorker}
    /\ failures \subseteq committed
    /\ projected \in Seq(committed)
    /\ bridged \subseteq Ids
    /\ pc \in [Workers -> Labels]
    /\ seen \in [Workers -> Nat]
    /\ pick \in [Workers -> Nat]
    /\ current \in [Workers -> Nat]
    /\ retries \in [Workers -> Nat]
    /\ faults \in 0 .. MaxFaults

\* An event's projection takes effect at most once and in id order, whichever
\* workers overlap, crash or hold a stale pick, and also before the cursor row
\* exists, when FOR UPDATE locks nothing ("strict ordering via domain_events.id").
ProjectedInOrder ==
    \A i, j \in DOMAIN projected : i < j => projected[i] < projected[j]

\* Nothing is passed without a trace: every id below the cursor was projected,
\* is recorded as a failure, or was moved past by one of the two gap rules,
\* and never two of these.
EveryIdAccountedFor ==
    LET done == {projected[i] : i \in DOMAIN projected}
    IN  /\ 1 .. cursor = done \cup failures \cup bridged
        /\ done \cap failures = {}
        /\ (done \cup failures) \cap bridged = {}

\* No committed event is ever left behind the cursor unprojected and unrecorded
\* ("no gaps").  The code does not keep this: see LostOnlyInFlight.
NoEventLost == bridged \cap committed = {}

\* The only events that end behind the cursor unprojected and unrecorded are
\* those that were still in flight when a later id became visible: an event
\* committed in id order is never lost, whatever gaps, rollbacks, stale
\* listings and crashes surround it, and although the count over a gap sees one
\* tenant alone.
LostOnlyInFlight == bridged \cap committed \subseteq overtaken

\* The worker implements the feed: gaps end below a committed event, and the
\* event directly ahead is projected or recorded, never passed over.
Feed == INSTANCE EventFeed WITH log <- committed, position <- cursor,
                                projected <- projected, setAside <- failures
ImplementsFeed == Feed!Spec

\* The pipeline does not stall: once there is a cursor row, every committed
\* event is eventually behind it, whatever gaps, contract failures and restarts
\* come first, unless an event at or below it fails on every attempt: nothing
\* sets such an event aside, and the whole pipeline waits behind it.
CatchesUpOnceSeeded ==
    \A i \in Ids :
        (HasRow /\ i \in committed) ~>
            \/ cursor >= i
            \/ \E j \in committed : j <= i /\ kind[j] = "fault"

=============================================================================
