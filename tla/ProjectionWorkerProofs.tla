------------------------ MODULE ProjectionWorkerProofs ------------------------
(***************************************************************************)
(* Proofs about ProjectionWorker for every number of shops, producers,     *)
(* workers, ids, retries and faults.                                       *)
(***************************************************************************)
EXTENDS ProjectionWorker, SequenceTheorems, TLAPS

USE ConstantsAssumption DEF ConstantsAssumption

\* A worker between its listing and the end of its transaction has picked a
\* committed event.
PickListed ==
    \A w \in Workers :
        pc[w] \in {"begin", "body", "recover", "quarantine"} => pick[w] \in committed

\* What reading the cursor FOR UPDATE is worth: a worker that holds the row
\* read the cursor as it still is; one that found no row read 0.
LockedReads ==
    /\ \A w \in Workers : lock = w => pc[w] \in {"body", "quarantine"} /\ HasRow
    /\ \A w \in Workers : pc[w] \in {"body", "quarantine"} =>
          current[w] = IF lock = w THEN cursor ELSE 0

\* The control part of the invariant.
Control == TypeOK /\ PickListed /\ LockedReads

LEMMA InitControl == Init => Control
<1> SUFFICES ASSUME Init PROVE Control
    OBVIOUS
<1>1. Len(tenant) = 0 /\ tenant \in Seq(Shops)
    BY DEF Init
<1>2. projected \in Seq(committed)
    BY DEF Init
<1>3. draft \subseteq SUBSET (1 .. Len(tenant))
    BY <1>1 DEF Init
<1>4. TypeOK
    BY <1>1, <1>2, <1>3 DEF Init, TypeOK, Labels, Ids
<1>5. PickListed /\ LockedReads
    BY DEF Init, PickListed, LockedReads
<1> QED
    BY <1>4, <1>5 DEF Control

\* A producer only adds to the log.
LEMMA ProduceControl == Control /\ Produce => Control'
<1> SUFFICES ASSUME Control, Produce PROVE Control'
    OBVIOUS
<1> USE DEF Control
<1>1. ASSUME NEW s \in Shops, DrawId(s)
      PROVE  /\ tenant' \in Seq(Shops)
             /\ Len(tenant') = Len(tenant) + 1
             /\ Len(tenant') <= MaxId
    BY <1>1 DEF DrawId, NextId, TypeOK
<1>2. ASSUME NEW s \in Shops, InsertEvent(s)
      PROVE  TypeOK'
  <2>1. /\ tenant' \in Seq(Shops)
        /\ Len(tenant') = Len(tenant) + 1
        /\ Len(tenant') <= MaxId
      BY <1>1, <1>2 DEF InsertEvent
  <2>2. draft' \subseteq SUBSET (1 .. Len(tenant'))
    <3>1. PICK d \in draft \cup {{}} : draft' = (draft \ {d}) \cup {d \cup {Len(tenant) + 1}}
        BY <1>2 DEF InsertEvent, NextId
    <3>2. draft \subseteq SUBSET (1 .. Len(tenant)) /\ Len(tenant) \in Nat
        BY DEF TypeOK
    <3>3. 1 .. Len(tenant') = (1 .. Len(tenant)) \cup {Len(tenant) + 1}
        BY <2>1, <3>2
    <3> QED
        BY <3>1, <3>2, <3>3
  <2>3. 1 .. Len(tenant) \subseteq 1 .. Len(tenant')
      BY <2>1 DEF TypeOK
  <2> QED
      BY <1>2, <2>1, <2>2, <2>3 DEF InsertEvent, TypeOK, store, local
<1>3. ASSUME NEW s \in Shops, InsertDuplicate(s)
      PROVE  TypeOK'
  <2>1. /\ tenant' \in Seq(Shops)
        /\ Len(tenant') = Len(tenant) + 1
        /\ Len(tenant') <= MaxId
      BY <1>1, <1>3 DEF InsertDuplicate
  <2>2. 1 .. Len(tenant) \subseteq 1 .. Len(tenant')
      BY <2>1 DEF TypeOK
  <2> QED
      BY <1>3, <2>1, <2>2 DEF InsertDuplicate, TypeOK, store, local
<1>4. ASSUME NEW d \in draft, CommitEvents(d)
      PROVE  TypeOK'
  <2>1. projected' \in Seq(committed')
      BY <1>4, SeqMonotonic DEF CommitEvents, TypeOK, store
  <2>2. overtaken' \subseteq 1 .. Len(tenant)
      BY <1>4 DEF CommitEvents, OvertakenBy, TypeOK
  <2>3. kind' \in [committed' -> Kinds]
    <3>1. PICK k \in [d -> Kinds] :
              kind' = [i \in committed' |-> IF i \in d THEN k[i] ELSE kind[i]]
        BY <1>4 DEF CommitEvents
    <3> QED
        BY <1>4, <3>1 DEF CommitEvents, TypeOK
  <2> QED
      BY <1>4, <2>1, <2>2, <2>3 DEF CommitEvents, TypeOK, store, local
<1>5. ASSUME NEW d \in draft, RollBackEvents(d)
      PROVE  TypeOK'
    BY <1>5 DEF RollBackEvents, TypeOK, store, local
<1>6. committed \subseteq committed' /\ UNCHANGED <<store, lock, pc, local>>
    BY DEF Produce, InsertEvent, InsertDuplicate, CommitEvents, RollBackEvents
<1>7. (PickListed /\ LockedReads)'
    BY <1>6 DEF PickListed, LockedReads, store, local, HasRow
<1> QED
    BY <1>2, <1>3, <1>4, <1>5, <1>7 DEF Produce

LEMMA WorkerControl ==
  ASSUME Control, NEW w \in Workers, Cycle(w) \/ Fault(w) \/ Crash(w)
  PROVE  Control'
<1> USE DEF Control, Goto, Die, Sweep, EndCycle, Unlock, SetRetries, log, store, local
<1>1. CASE PollCursor(w)
  <2>1. CASE CursorCorrupt
    <3>1. /\ pc[w] = "poll"
          /\ Die(w)
          /\ UNCHANGED <<log, store, retries, faults>>
        BY <1>1, <2>1 DEF PollCursor
    <3>2. TypeOK'
        BY <3>1 DEF TypeOK, Labels
    <3>3. PickListed'
        BY <3>1 DEF TypeOK, PickListed
    <3>4. LockedReads'
        BY <3>1 DEF TypeOK, LockedReads, HasRow
    <3> QED
        BY <3>2, <3>3, <3>4
  <2>2. CASE ~CursorCorrupt
    <3>1. /\ pc[w] = "poll"
          /\ pc' = [pc EXCEPT ![w] = "fetch"]
          /\ seen' = [seen EXCEPT ![w] = cursor]
          /\ UNCHANGED <<log, store, lock, pick, current, retries, faults>>
        BY <1>1, <2>2 DEF PollCursor
    <3>2. TypeOK'
        BY <3>1 DEF TypeOK, Labels
    <3>3. PickListed'
        BY <3>1 DEF TypeOK, PickListed
    <3>4. LockedReads'
        BY <3>1 DEF TypeOK, LockedReads, HasRow
    <3> QED
        BY <3>2, <3>3, <3>4
  <2> QED
      BY <2>1, <2>2
<1>2. CASE FetchNext(w)
  <2>4. PICK e \in Ahead(w) : pick' = [pick EXCEPT ![w] = e]
      BY <1>2 DEF FetchNext
  <2>5. e \in Nat
      BY <2>4 DEF Ahead, TypeOK
  <2>1. TypeOK'
      BY <1>2, <2>4, <2>5 DEF FetchNext, TypeOK, Labels
  <2>2. PickListed'
      BY <1>2 DEF FetchNext, TypeOK, PickListed, Ahead
  <2>3. LockedReads'
      BY <1>2 DEF FetchNext, TypeOK, LockedReads, HasRow, Ahead
  <2> QED
      BY <2>1, <2>2, <2>3
<1>3. CASE FetchIdle(w)
  <2>1. TypeOK'
      BY <1>3 DEF FetchIdle, TypeOK, Labels, Ahead
  <2>2. PickListed'
      BY <1>3 DEF FetchIdle, TypeOK, PickListed, Ahead
  <2>3. LockedReads'
      BY <1>3 DEF FetchIdle, TypeOK, LockedReads, HasRow, Ahead
  <2> QED
      BY <2>1, <2>2, <2>3
<1>4. CASE BeginProjection(w)
  <2>1. TypeOK'
      BY <1>4 DEF BeginProjection, TypeOK, Labels, LockCursor
  <2>2. PickListed'
      BY <1>4 DEF BeginProjection, TypeOK, PickListed, LockCursor
  <2>3. LockedReads'
      BY <1>4 DEF BeginProjection, TypeOK, LockedReads, HasRow, LockCursor
  <2> QED
      BY <2>1, <2>2, <2>3
<1>5. CASE SkipStale(w)
  <2>1. TypeOK'
      BY <1>5 DEF SkipStale, TypeOK, Labels, Stale
  <2>2. PickListed'
      BY <1>5 DEF SkipStale, TypeOK, PickListed, Stale
  <2>3. LockedReads'
      BY <1>5 DEF SkipStale, TypeOK, LockedReads, HasRow, Stale
  <2> QED
      BY <2>1, <2>2, <2>3
<1>6. CASE ProjectHead(w)
  <2>0. pick[w] \in committed /\ pick[w] \in Nat
      BY <1>6 DEF ProjectHead, PickListed, TypeOK
  <2>4. projected' \in Seq(committed)
      BY <1>6, <2>0 DEF ProjectHead, TypeOK
  <2>1. TypeOK'
      BY <1>6, <2>0, <2>4 DEF ProjectHead, TypeOK, Labels, AdvanceCursorTo, RowFree,
           TriggerRejects, AtHead, Gap, Expected, Stale
  <2>2. PickListed'
      BY <1>6 DEF ProjectHead, TypeOK, PickListed, AdvanceCursorTo, RowFree, TriggerRejects,
           AtHead, Gap, Expected, Stale
  <2>3. LockedReads'
      BY <1>6 DEF ProjectHead, TypeOK, LockedReads, HasRow, AdvanceCursorTo, RowFree,
           TriggerRejects, AtHead, Gap, Expected, Stale
  <2> QED
      BY <2>1, <2>2, <2>3
<1>7. CASE FailHead(w)
  <2>0. CASE kind[pick[w]] = "contract"
    <3>1. TypeOK'
        BY <1>7, <2>0 DEF FailHead, TypeOK, Labels
    <3>2. PickListed'
        BY <1>7, <2>0 DEF FailHead, TypeOK, PickListed
    <3>3. LockedReads'
        BY <1>7, <2>0 DEF FailHead, TypeOK, LockedReads, HasRow
    <3> QED
        BY <3>1, <3>2, <3>3
  <2>1. CASE kind[pick[w]] # "contract"
    <3>0. /\ Die(w)
          /\ retries' = [retries EXCEPT ![w] = 0]
          /\ UNCHANGED <<log, store, faults>>
        BY <1>7, <2>1 DEF FailHead
    <3>1. TypeOK'
        BY <3>0 DEF TypeOK, Labels
    <3>2. PickListed'
        BY <3>0 DEF TypeOK, PickListed
    <3>3. LockedReads'
        BY <3>0 DEF TypeOK, LockedReads, HasRow
    <3> QED
        BY <3>1, <3>2, <3>3
  <2> QED
      BY <2>0, <2>1
<1>8. CASE WaitForGap(w)
  <2>4. Attempt(w) \in Nat
      BY DEF Attempt, TypeOK
  <2>1. TypeOK'
      BY <1>8, <2>4 DEF WaitForGap, TypeOK, Labels
  <2>2. PickListed'
      BY <1>8 DEF WaitForGap, TypeOK, PickListed, Attempt
  <2>3. LockedReads'
      BY <1>8 DEF WaitForGap, TypeOK, LockedReads, HasRow, Attempt
  <2> QED
      BY <2>1, <2>2, <2>3
<1>9. CASE SkipMissingId(w)
  <2>0. pick[w] \in 1 .. MaxId /\ current[w] \in Nat
      BY <1>9 DEF SkipMissingId, PickListed, TypeOK
  <2>4. bridged' \subseteq Ids /\ cursor' \in Nat
    <3>1. Expected(w) \in 1 .. MaxId
        BY <1>9, <2>0 DEF SkipMissingId, Expected, Gap, Stale, PhantomTarget
    <3>2. cursor + 1 .. Expected(w) \subseteq Ids
        BY <3>1 DEF TypeOK, Ids
    <3> QED
        BY <1>9, <3>1, <3>2 DEF SkipMissingId, BridgeTo, TypeOK
  <2>1. TypeOK'
      BY <1>9, <2>4 DEF SkipMissingId, TypeOK, Labels, BridgeTo, RowFree, TriggerRejects,
           Expected, Gap, Stale, Ids
  <2>2. PickListed'
      BY <1>9 DEF SkipMissingId, TypeOK, PickListed, BridgeTo, RowFree, TriggerRejects,
           Expected, Gap, Stale, Ids
  <2>3. LockedReads'
      BY <1>9 DEF SkipMissingId, TypeOK, LockedReads, HasRow, BridgeTo, RowFree,
           TriggerRejects, Expected, Gap, Stale, Ids
  <2> QED
      BY <2>1, <2>2, <2>3
<1>10. CASE BridgePhantomGap(w)
  <2>0. pick[w] \in 1 .. MaxId /\ current[w] \in Nat
      BY <1>10 DEF BridgePhantomGap, PickListed, TypeOK
  <2>4. bridged' \subseteq Ids /\ cursor' \in Nat
    <3>1. PhantomTarget(w) \in 1 .. MaxId
        BY <1>10, <2>0 DEF BridgePhantomGap, Expected, Gap, Stale, PhantomTarget
    <3>2. cursor + 1 .. PhantomTarget(w) \subseteq Ids
        BY <3>1 DEF TypeOK, Ids
    <3> QED
        BY <1>10, <3>1, <3>2 DEF BridgePhantomGap, BridgeTo, TypeOK
  <2>1. TypeOK'
      BY <1>10, <2>4 DEF BridgePhantomGap, TypeOK, Labels, BridgeTo, RowFree, TriggerRejects,
           Expected, Gap, Stale, PhantomTarget, Ids
  <2>2. PickListed'
      BY <1>10 DEF BridgePhantomGap, TypeOK, PickListed, BridgeTo, RowFree, TriggerRejects,
           Expected, Gap, Stale, PhantomTarget, Ids
  <2>3. LockedReads'
      BY <1>10 DEF BridgePhantomGap, TypeOK, LockedReads, HasRow, BridgeTo, RowFree,
           TriggerRejects, Expected, Gap, Stale, PhantomTarget, Ids
  <2> QED
      BY <2>1, <2>2, <2>3
<1>11. CASE HaltOnGap(w)
  <2>1. TypeOK'
      BY <1>11 DEF HaltOnGap, TypeOK, Labels
  <2>2. PickListed'
      BY <1>11 DEF HaltOnGap, TypeOK, PickListed
  <2>3. LockedReads'
      BY <1>11 DEF HaltOnGap, TypeOK, LockedReads, HasRow
  <2> QED
      BY <2>1, <2>2, <2>3
<1>12. CASE BodyRejected(w)
  <2>0. CounterInBody(w) \in Nat
      BY DEF CounterInBody, Attempt, TypeOK
  <2>4. /\ retries' = [retries EXCEPT ![w] = CounterInBody(w)]
        /\ Die(w)
        /\ UNCHANGED <<log, store, faults>>
      BY <1>12 DEF BodyRejected
  <2>1. TypeOK'
      BY <2>0, <2>4 DEF TypeOK, Labels
  <2>2. PickListed'
      BY <1>12 DEF BodyRejected, TypeOK, PickListed, CounterInBody, Attempt
  <2>3. LockedReads'
      BY <1>12 DEF BodyRejected, TypeOK, LockedReads, HasRow, CounterInBody, Attempt
  <2> QED
      BY <2>1, <2>2, <2>3
<1>13. CASE BeginRecovery(w)
  <2>1. TypeOK'
      BY <1>13 DEF BeginRecovery, TypeOK, Labels, LockCursor
  <2>2. PickListed'
      BY <1>13 DEF BeginRecovery, TypeOK, PickListed, LockCursor
  <2>3. LockedReads'
      BY <1>13 DEF BeginRecovery, TypeOK, LockedReads, HasRow, LockCursor
  <2> QED
      BY <2>1, <2>2, <2>3
<1>14. CASE RecoverStale(w)
  <2>1. TypeOK'
      BY <1>14 DEF RecoverStale, TypeOK, Labels
  <2>2. PickListed'
      BY <1>14 DEF RecoverStale, TypeOK, PickListed
  <2>3. LockedReads'
      BY <1>14 DEF RecoverStale, TypeOK, LockedReads, HasRow
  <2> QED
      BY <2>1, <2>2, <2>3
<1>15. CASE Quarantine(w)
  <2>0. pick[w] \in committed /\ pick[w] \in Nat
      BY <1>15 DEF Quarantine, PickListed, TypeOK
  <2>1. TypeOK'
      BY <1>15, <2>0 DEF Quarantine, TypeOK, Labels, AdvanceCursorTo, RowFree, TriggerRejects,
           RecordFailure, AtHead, Gap, Expected, Stale
  <2>2. PickListed'
      BY <1>15 DEF Quarantine, TypeOK, PickListed, AdvanceCursorTo, RowFree, TriggerRejects,
           RecordFailure, AtHead, Gap, Expected, Stale
  <2>3. LockedReads'
      BY <1>15 DEF Quarantine, TypeOK, LockedReads, HasRow, AdvanceCursorTo, RowFree,
           TriggerRejects, RecordFailure, AtHead, Gap, Expected, Stale
  <2> QED
      BY <2>1, <2>2, <2>3
<1>16. CASE RecoveryRejected(w)
  <2>1. TypeOK'
      BY <1>16 DEF RecoveryRejected, TypeOK, Labels
  <2>2. PickListed'
      BY <1>16 DEF RecoveryRejected, TypeOK, PickListed
  <2>3. LockedReads'
      BY <1>16 DEF RecoveryRejected, TypeOK, LockedReads, HasRow
  <2> QED
      BY <2>1, <2>2, <2>3
<1>17. CASE EndSweep(w)
  <2>1. TypeOK'
      BY <1>17 DEF EndSweep, TypeOK, Labels
  <2>2. PickListed'
      BY <1>17 DEF EndSweep, TypeOK, PickListed
  <2>3. LockedReads'
      BY <1>17 DEF EndSweep, TypeOK, LockedReads, HasRow
  <2> QED
      BY <2>1, <2>2, <2>3
<1>18. CASE Restart(w)
  <2>1. TypeOK'
      BY <1>18 DEF Restart, TypeOK, Labels
  <2>2. PickListed'
      BY <1>18 DEF Restart, TypeOK, PickListed
  <2>3. LockedReads'
      BY <1>18 DEF Restart, TypeOK, LockedReads, HasRow
  <2> QED
      BY <2>1, <2>2, <2>3
<1>19. CASE Fault(w)
  <2>0. CounterInBody(w) \in Nat /\ retries[w] \in Nat
      BY DEF CounterInBody, Attempt, TypeOK
  <2>4. PICK n \in {retries[w], CounterInBody(w)} :
            /\ retries' = [retries EXCEPT ![w] = n]
            /\ Die(w)
            /\ UNCHANGED <<log, store>>
      BY <1>19 DEF Fault
  <2>5. n \in Nat
      BY <2>0, <2>4
  <2>6. faults' \in 0 .. MaxFaults
      BY <1>19, ConstantsAssumption DEF Fault, TypeOK
  <2>1. TypeOK'
      BY <2>4, <2>5, <2>6 DEF TypeOK, Labels
  <2>2. PickListed'
      BY <1>19 DEF Fault, TypeOK, PickListed, CounterInBody, Attempt
  <2>3. LockedReads'
      BY <1>19 DEF Fault, TypeOK, LockedReads, HasRow, CounterInBody, Attempt
  <2> QED
      BY <2>1, <2>2, <2>3
<1>20. CASE Crash(w)
  <2>1. TypeOK'
      BY <1>20 DEF Crash, TypeOK, Labels
  <2>2. PickListed'
      BY <1>20 DEF Crash, TypeOK, PickListed
  <2>3. LockedReads'
      BY <1>20 DEF Crash, TypeOK, LockedReads, HasRow
  <2> QED
      BY <2>1, <2>2, <2>3
<1> QED
    BY <1>1, <1>2, <1>3, <1>4, <1>5, <1>6, <1>7, <1>8, <1>9, <1>10,
       <1>11, <1>12, <1>13, <1>14, <1>15, <1>16, <1>17, <1>18, <1>19, <1>20 DEF Cycle, Body,
            Recovery

LEMMA StutterControl == Control /\ UNCHANGED vars => Control'
BY DEF Control, TypeOK, PickListed, LockedReads, HasRow, vars

LEMMA NextControl == Control /\ [Next]_vars => Control'
BY ProduceControl, WorkerControl, StutterControl DEF Next

\* Reads under the lock are current and picks are committed events, in every
\* reachable state.
THEOREM ControlHolds == Spec => []Control
<1> QED
    BY InitControl, NextControl, PTL DEF Spec

\* Every variable keeps its type: ids and the cursor stay inside the ids drawn,
\* failures and projections name committed events.
THEOREM TypeCorrect == Spec => []TypeOK
<1>1. Control => TypeOK
    BY DEF Control
<1> QED
    BY <1>1, ControlHolds, PTL

-----------------------------------------------------------------------------
(* What one step does to the store.  The event a worker acts on was listed *)
(* without a lock; the lock, or the trigger while there is no row to lock, *)
(* makes it the one directly ahead of the cursor.                          *)

Takes ==
    /\ cursor + 1 \in committed
    /\ cursor' = cursor + 1
    /\ projected' = Append(projected, cursor + 1)
    /\ UNCHANGED <<failures, bridged, committed>>

Records ==
    /\ cursor + 1 \in committed
    /\ cursor' = cursor + 1
    /\ failures' = failures \cup {cursor + 1}
    /\ UNCHANGED <<projected, bridged, committed>>

Bridges ==
    /\ \E w \in Workers : pc[w] = "body" /\ cursor' \in cursor + 1 .. pick[w] - 1
    /\ bridged' = bridged \cup (cursor + 1 .. cursor')
    /\ UNCHANGED <<projected, failures, committed>>

Commits ==
    /\ committed \subseteq committed'
    /\ UNCHANGED store

\* A worker at the head acts on the event directly ahead of the cursor.
LEMMA HeadIsNext ==
  ASSUME Control, NEW w \in Workers, pc[w] \in {"body", "quarantine"},
         AtHead(w), RowFree(w), ~TriggerRejects(pick[w])
  PROVE  pick[w] = cursor + 1 /\ pick[w] \in committed
<1>1. /\ pick[w] \in committed
      /\ pick[w] \in Nat /\ current[w] \in Nat /\ cursor \in Nat
      /\ current[w] = IF lock = w THEN cursor ELSE 0
    BY DEF Control, TypeOK, PickListed, LockedReads
<1>2. pick[w] = current[w] + 1
    BY <1>1 DEF AtHead, Gap, Expected, Stale
<1> QED
    BY <1>1, <1>2 DEF TriggerRejects, HasRow

\* A gap rule that finds the row moves the cursor below the listed event.
LEMMA BridgeIsBelow ==
  ASSUME Control, NEW w \in Workers, pc[w] = "body", ~Stale(w), Gap(w) > 0,
         NEW n \in Int, n < pick[w], BridgeTo(w, n), UNCHANGED committed
  PROVE  Bridges \/ UNCHANGED <<store, committed>>
<1>1. pick[w] \in committed /\ pick[w] \in Nat /\ cursor \in Nat
    BY DEF Control, TypeOK, PickListed
<1>2. CASE HasRow
  <2>1. cursor < n /\ cursor' = n /\ bridged' = bridged \cup (cursor + 1 .. cursor')
      BY <1>1, <1>2 DEF BridgeTo, TriggerRejects
  <2>2. cursor' \in cursor + 1 .. pick[w] - 1
      BY <1>1, <2>1
  <2> QED
      BY <1>1, <2>1, <2>2 DEF BridgeTo, Bridges
<1>3. CASE ~HasRow
    BY <1>3 DEF BridgeTo, store
<1> QED
    BY <1>2, <1>3

LEMMA StoreStep ==
  ASSUME Control, [Next]_vars
  PROVE  Takes \/ Records \/ Bridges \/ Commits
<1>1. ASSUME NEW w \in Workers, ProjectHead(w)
      PROVE  Takes
  <2>1. pick[w] = cursor + 1 /\ pick[w] \in committed
      BY <1>1, HeadIsNext DEF ProjectHead, AdvanceCursorTo
  <2> QED
      BY <1>1, <2>1 DEF ProjectHead, AdvanceCursorTo, Takes, log
<1>2. ASSUME NEW w \in Workers, Quarantine(w)
      PROVE  Records
  <2>1. pick[w] = cursor + 1 /\ pick[w] \in committed
      BY <1>2, HeadIsNext DEF Quarantine, AdvanceCursorTo
  <2> QED
      BY <1>2, <2>1 DEF Quarantine, AdvanceCursorTo, RecordFailure, Records, log
<1>3. ASSUME NEW w \in Workers, SkipMissingId(w)
      PROVE  Bridges \/ Commits
  <2>1. pick[w] \in Nat /\ current[w] \in Nat
      BY DEF Control, TypeOK
  <2>2. Expected(w) \in Int /\ Expected(w) < pick[w] /\ Gap(w) > 0
      BY <1>3, <2>1 DEF SkipMissingId, Expected, Gap
  <2>3. Bridges \/ UNCHANGED <<store, committed>>
      BY <1>3, <2>2, BridgeIsBelow DEF SkipMissingId, log
  <2> QED
      BY <2>3 DEF Commits
<1>4. ASSUME NEW w \in Workers, BridgePhantomGap(w)
      PROVE  Bridges \/ Commits
  <2>1. pick[w] \in Nat /\ current[w] \in Nat
      BY DEF Control, TypeOK
  <2>2. PhantomTarget(w) \in Int /\ PhantomTarget(w) < pick[w] /\ Gap(w) > 0
      BY <1>4, <2>1 DEF BridgePhantomGap, PhantomTarget, Expected, Gap
  <2>3. Bridges \/ UNCHANGED <<store, committed>>
      BY <1>4, <2>2, BridgeIsBelow DEF BridgePhantomGap, log
  <2> QED
      BY <2>3 DEF Commits
<1>5. ASSUME NEW w \in Workers,
             \/ PollCursor(w) \/ FetchNext(w) \/ FetchIdle(w) \/ BeginProjection(w)
             \/ SkipStale(w) \/ FailHead(w) \/ WaitForGap(w) \/ HaltOnGap(w)
             \/ BodyRejected(w) \/ BeginRecovery(w) \/ RecoverStale(w)
             \/ RecoveryRejected(w) \/ EndSweep(w) \/ Restart(w)
             \/ Fault(w) \/ Crash(w)
      PROVE  Commits
    BY <1>5 DEF PollCursor, FetchNext, FetchIdle, BeginProjection, SkipStale,
        FailHead, WaitForGap, HaltOnGap, BodyRejected, BeginRecovery,
        RecoverStale, RecoveryRejected, EndSweep, Restart, Fault, Crash,
        Commits, log, store
<1>6. CASE Produce
    BY <1>6 DEF Produce, InsertEvent, InsertDuplicate, CommitEvents,
        RollBackEvents, Commits
<1>7. CASE UNCHANGED vars
    BY <1>7 DEF vars, Commits, store
<1> QED
    BY <1>1, <1>2, <1>3, <1>4, <1>5, <1>6, <1>7 DEF Next, Cycle, Body, Recovery

-----------------------------------------------------------------------------
(* Order and accounting.                                                   *)

Done == {projected[i] : i \in DOMAIN projected}

\* The history of projections is increasing and ends at or below the cursor,
\* and what is below the cursor is projected, recorded or bridged.
Passed ==
    /\ Control
    /\ ProjectedInOrder
    /\ EveryIdAccountedFor

LEMMA AppendFacts ==
  ASSUME NEW S, NEW s \in Seq(S), NEW x, NEW t, t = Append(s, x)
  PROVE  /\ DOMAIN t = DOMAIN s \cup {Len(s) + 1}
         /\ Len(s) \in Nat /\ DOMAIN s = 1 .. Len(s)
         /\ t[Len(s) + 1] = x
         /\ \A i \in DOMAIN s : t[i] = s[i]
OBVIOUS

LEMMA InitPassed == Init => Passed
<1> SUFFICES ASSUME Init PROVE Passed
    OBVIOUS
<1>1. DOMAIN projected = {} /\ cursor = 0 /\ failures = {} /\ bridged = {}
    BY DEF Init
<1>2. ProjectedInOrder /\ EveryIdAccountedFor
    BY <1>1 DEF ProjectedInOrder, EveryIdAccountedFor
<1> QED
    BY <1>2, InitControl DEF Passed

LEMMA NextPassed == Passed /\ [Next]_vars => Passed'
<1> SUFFICES ASSUME Passed, [Next]_vars PROVE Passed'
    OBVIOUS
<1>0. Control /\ Control'
    BY NextControl DEF Passed
<1>1. /\ cursor \in Nat
      /\ 1 .. cursor = Done \cup failures \cup bridged
      /\ Done \cap failures = {}
      /\ (Done \cup failures) \cap bridged = {}
      /\ projected \in Seq(committed)
    BY <1>0 DEF Passed, EveryIdAccountedFor, Done, Control, TypeOK
<1>2. Takes \/ Records \/ Bridges \/ Commits
    BY <1>0, StoreStep
<1>3. CASE Takes
  <2>1. /\ DOMAIN projected' = DOMAIN projected \cup {Len(projected) + 1}
        /\ Len(projected) \in Nat /\ DOMAIN projected = 1 .. Len(projected)
        /\ projected'[Len(projected) + 1] = cursor + 1
        /\ \A i \in DOMAIN projected : projected'[i] = projected[i]
      BY <1>1, <1>3, AppendFacts DEF Takes
  <2>2. Done' = Done \cup {cursor + 1}
      BY <2>1 DEF Done
  <2>3. 1 .. cursor' = (1 .. cursor) \cup {cursor + 1}
      BY <1>1, <1>3 DEF Takes
  <2>4. EveryIdAccountedFor'
    <3>1. cursor + 1 \notin Done \cup failures \cup bridged
        BY <1>1
    <3>2. /\ 1 .. cursor' = Done' \cup failures' \cup bridged'
          /\ Done' \cap failures' = {}
          /\ (Done' \cup failures') \cap bridged' = {}
        BY <1>1, <1>3, <2>2, <2>3, <3>1 DEF Takes
    <3> QED
        BY <3>2 DEF EveryIdAccountedFor, Done
  <2>5. \A i \in DOMAIN projected : projected[i] \in 1 .. cursor
      BY <1>1 DEF Done
  <2>6. ProjectedInOrder'
    <3> SUFFICES ASSUME NEW i \in DOMAIN projected', NEW j \in DOMAIN projected', i < j
                 PROVE  projected'[i] < projected'[j]
        BY DEF ProjectedInOrder
    <3>1. CASE j = Len(projected) + 1
      <4>1. i \in DOMAIN projected
          BY <2>1, <3>1
      <4> QED
          BY <1>1, <2>1, <2>5, <3>1, <4>1
    <3>2. CASE j # Len(projected) + 1
      <4>1. i \in DOMAIN projected /\ j \in DOMAIN projected
          BY <2>1, <3>2
      <4> QED
          BY <2>1, <4>1 DEF Passed, ProjectedInOrder
    <3> QED
        BY <3>1, <3>2
  <2> QED
      BY <1>0, <2>4, <2>6 DEF Passed
<1>4. CASE Records
  <2>1. 1 .. cursor' = (1 .. cursor) \cup {cursor + 1}
      BY <1>1, <1>4 DEF Records
  <2>2. cursor + 1 \notin Done \cup failures \cup bridged
      BY <1>1
  <2>3. Done' = Done
      BY <1>4 DEF Done, Records
  <2>4. /\ 1 .. cursor' = Done' \cup failures' \cup bridged'
        /\ Done' \cap failures' = {}
        /\ (Done' \cup failures') \cap bridged' = {}
      BY <1>1, <1>4, <2>1, <2>2, <2>3 DEF Records
  <2> QED
      BY <1>0, <1>4, <2>4 DEF Passed, EveryIdAccountedFor, ProjectedInOrder, Done, Records
<1>5. CASE Bridges
  <2>1. cursor' \in Nat /\ cursor < cursor'
    <3>1. PICK w \in Workers : cursor' \in cursor + 1 .. pick[w] - 1
        BY <1>5 DEF Bridges
    <3> QED
        BY <1>0, <1>1, <3>1 DEF Control, TypeOK
  <2>2. /\ 1 .. cursor' = (1 .. cursor) \cup (cursor + 1 .. cursor')
        /\ (1 .. cursor) \cap (cursor + 1 .. cursor') = {}
      BY <1>1, <2>1
  <2>3. Done' = Done
      BY <1>5 DEF Done, Bridges
  <2>4. /\ 1 .. cursor' = Done' \cup failures' \cup bridged'
        /\ Done' \cap failures' = {}
        /\ (Done' \cup failures') \cap bridged' = {}
    <3> DEFINE New == cursor + 1 .. cursor'
    <3>1. /\ bridged' = bridged \cup New
          /\ failures' = failures
          /\ 1 .. cursor' = (1 .. cursor) \cup New
          /\ (1 .. cursor) \cap New = {}
        BY <1>5, <2>2 DEF Bridges
    <3> HIDE DEF New
    <3> QED
        BY <1>1, <2>3, <3>1
  <2> QED
      BY <1>0, <1>5, <2>4 DEF Passed, EveryIdAccountedFor, ProjectedInOrder, Done, Bridges
<1>6. CASE Commits
    BY <1>0, <1>6 DEF Passed, EveryIdAccountedFor, ProjectedInOrder, Commits, store
<1> QED
    BY <1>2, <1>3, <1>4, <1>5, <1>6

\* Whichever workers overlap, crash or hold a stale pick, events take effect at
\* most once and in id order.
THEOREM InOrder == Spec => []ProjectedInOrder
<1>1. Passed => ProjectedInOrder
    BY DEF Passed
<1> QED
    BY <1>1, InitPassed, NextPassed, PTL DEF Spec

\* Whatever the cursor has passed is projected, recorded as a failure or bridged
\* as a gap, and never two of these.
THEOREM Accounted == Spec => []EveryIdAccountedFor
<1>1. Passed => EveryIdAccountedFor
    BY DEF Passed
<1> QED
    BY <1>1, InitPassed, NextPassed, PTL DEF Spec

\* The worker, with its unlocked listing, its lock, its retries and its
\* recovery transaction, implements the abstract feed.
THEOREM Implements == Spec => ImplementsFeed
<1>1. Init => Feed!Init
    BY DEF Init, Feed!Init
<1>2. Control /\ Control' /\ [Next]_vars => [Feed!Next]_(Feed!vars)
  <2> SUFFICES ASSUME Control, Control', [Next]_vars
               PROVE  [Feed!Next]_(Feed!vars)
      OBVIOUS
  <2>1. CASE Takes
      BY <2>1 DEF Takes, Feed!Next, Feed!Project
  <2>2. CASE Records
      BY <2>2 DEF Records, Feed!Next, Feed!SetAside
  <2>3. CASE Bridges
    <3>1. PICK w \in Workers : pc[w] = "body" /\ cursor' \in cursor + 1 .. pick[w] - 1
        BY <2>3 DEF Bridges
    <3>2. pick[w] \in committed
        BY <3>1 DEF Control, PickListed
    <3> QED
        BY <2>3, <3>1, <3>2 DEF Bridges, Feed!Next, Feed!PassOver
  <2>4. CASE Commits
    <3>1. committed' \subseteq Nat \ {0}
        BY DEF Control, TypeOK
    <3> QED
        BY <2>4, <3>1 DEF Commits, store, Feed!Next, Feed!Publish
  <2> QED
      BY <2>1, <2>2, <2>3, <2>4, StoreStep
<1> QED
    BY <1>1, <1>2, ControlHolds, PTL DEF Spec, ImplementsFeed, Feed!Spec

-----------------------------------------------------------------------------
(* What is lost was overtaken while it was in flight.                      *)

InFlight == UNION draft

Acting == {"begin", "body", "recover", "quarantine"}

\* Every unlocked read of the cursor is at or behind it.
SeenBehind == \A v \in Workers : seen[v] <= cursor

\* Between the cursor and the event a worker listed, only overtaken ids are
\* visible.
PickIsNext ==
    \A v \in Workers : pc[v] \in Acting =>
        \A i \in committed : cursor < i /\ i < pick[v] => i \in overtaken

\* An id in flight below a visible one is overtaken.
OvertakenKnown ==
    \A i \in InFlight, j \in committed : i < j => i \in overtaken

\* Ids given up as a gap were drawn, and if still in flight they are overtaken.
BridgedAreGone ==
    /\ bridged \subseteq 1 .. Len(tenant)
    /\ bridged \cap InFlight \subseteq overtaken

InFlightLog ==
    /\ Control
    /\ OvertakenKnown
    /\ SeenBehind
    /\ PickIsNext
    /\ BridgedAreGone
    /\ LostOnlyInFlight

LEMMA InitInFlightLog == Init => InFlightLog
<1> SUFFICES ASSUME Init PROVE InFlightLog
    OBVIOUS
<1>1. OvertakenKnown /\ PickIsNext /\ LostOnlyInFlight /\ BridgedAreGone
    BY DEF Init, InFlight, OvertakenKnown, PickIsNext, LostOnlyInFlight, BridgedAreGone
<1>2. SeenBehind
    BY DEF Init, SeenBehind
<1> QED
    BY <1>1, <1>2, InitControl DEF InFlightLog

\* What one step does to a worker's unlocked reads.
LEMMA ReadStep ==
  ASSUME Control, [Next]_vars, NEW v \in Workers
  PROVE  /\ seen'[v] \in {seen[v], cursor, 0}
         /\ pc'[v] \in Acting =>
               \/ pc[v] \in Acting /\ pick'[v] = pick[v]
               \/ /\ \A i \in committed : seen[v] < i => pick'[v] <= i
                  /\ UNCHANGED <<cursor, committed>>
<1> USE DEF Control, Goto, Die, Sweep, EndCycle, Unlock, SetRetries, log, store,
        local, Acting
<1>1. CASE Produce \/ UNCHANGED vars
    BY <1>1 DEF Produce, InsertEvent, InsertDuplicate, CommitEvents,
        RollBackEvents, vars
<1>2. ASSUME NEW w \in Workers, PollCursor(w) \/ FetchNext(w)
      PROVE  /\ seen'[v] \in {seen[v], cursor, 0}
             /\ pc'[v] \in Acting =>
                   \/ pc[v] \in Acting /\ pick'[v] = pick[v]
                   \/ /\ \A i \in committed : seen[v] < i => pick'[v] <= i
                      /\ UNCHANGED <<cursor, committed>>
  <2>1. CASE PollCursor(w)
      BY <2>1 DEF PollCursor, TypeOK
  <2>2. CASE FetchNext(w)
    <3>1. CASE v = w
      <4>1. PICK e \in Ahead(w) : /\ \A i \in Ahead(w) : e <= i
                                  /\ pick' = [pick EXCEPT ![w] = e]
          BY <2>2 DEF FetchNext
      <4>2. pick'[v] = e
          BY <3>1, <4>1 DEF TypeOK
      <4> QED
          BY <2>2, <3>1, <4>1, <4>2 DEF FetchNext, Ahead
    <3>2. CASE v # w
        BY <2>2, <3>2 DEF FetchNext, TypeOK
    <3> QED
        BY <3>1, <3>2
  <2> QED
      BY <1>2, <2>1, <2>2
<1>3. ASSUME NEW w \in Workers,
             \/ FetchIdle(w) \/ BeginProjection(w) \/ Body(w) \/ Recovery(w)
             \/ EndSweep(w) \/ Restart(w) \/ Fault(w) \/ Crash(w)
      PROVE  /\ seen'[v] \in {seen[v], 0}
             /\ pc'[v] \in Acting =>
                   pc[v] \in Acting /\ pick'[v] = pick[v]
  <2>1. CASE FetchIdle(w) \/ BeginProjection(w) \/ EndSweep(w) \/ Restart(w)
      BY <2>1 DEF FetchIdle, BeginProjection, EndSweep, Restart, LockCursor, TypeOK
  <2>2. CASE Recovery(w)
      BY <2>2 DEF Recovery, BeginRecovery, RecoverStale, LockCursor,
          Quarantine, RecoveryRejected, TypeOK
  <2>3. CASE FailHead(w)
      BY <2>3 DEF FailHead, TypeOK
  <2>4. CASE Body(w) /\ ~FailHead(w)
      BY <2>4 DEF Body, SkipStale, ProjectHead, WaitForGap,
          SkipMissingId, BridgePhantomGap, HaltOnGap, BodyRejected, TypeOK
  <2>5. CASE Fault(w) \/ Crash(w)
      BY <2>5 DEF Fault, Crash, TypeOK
  <2> QED
      BY <1>3, <2>1, <2>2, <2>3, <2>4, <2>5
<1> QED
    BY <1>1, <1>2, <1>3 DEF Next, Cycle

\* What one step does to the log.
LEMMA LogStep ==
  ASSUME Control, OvertakenKnown, [Next]_vars
  PROVE  /\ Len(tenant) <= Len(tenant')
         /\ overtaken \subseteq overtaken'
         /\ committed' \subseteq committed \cup InFlight
         /\ InFlight' \subseteq InFlight \cup {Len(tenant) + 1}
         /\ OvertakenKnown'
<1>0. /\ tenant \in Seq(Shops) /\ Len(tenant) \in Nat
      /\ committed \subseteq 1 .. Len(tenant)
    BY DEF Control, TypeOK
<1>1. ASSUME NEW s \in Shops, InsertEvent(s) \/ InsertDuplicate(s)
      PROVE  /\ Len(tenant') = Len(tenant) + 1
             /\ InFlight' \subseteq InFlight \cup {Len(tenant) + 1}
             /\ UNCHANGED <<committed, overtaken>>
  <2>1. DrawId(s)
      BY <1>1 DEF InsertEvent, InsertDuplicate
  <2>2. Len(tenant') = Len(tenant) + 1
      BY <1>0, <2>1 DEF DrawId
  <2>3. CASE InsertEvent(s)
    <3>1. PICK d \in draft \cup {{}} : draft' = (draft \ {d}) \cup {d \cup {Len(tenant) + 1}}
        BY <2>3 DEF InsertEvent, NextId
    <3>2. d \subseteq InFlight
        BY DEF InFlight
    <3>3. InFlight' \subseteq InFlight \cup {Len(tenant) + 1}
      <4> SUFFICES ASSUME NEW e \in draft', NEW i \in e
                   PROVE  i \in InFlight \cup {Len(tenant) + 1}
          BY DEF InFlight
      <4>1. CASE e \in draft
          BY <4>1 DEF InFlight
      <4>2. CASE e = d \cup {Len(tenant) + 1}
          BY <3>2, <4>2
      <4> QED
          BY <3>1, <4>1, <4>2
    <3> QED
        BY <2>2, <2>3, <3>3 DEF InsertEvent
  <2>4. CASE InsertDuplicate(s)
      BY <2>2, <2>4 DEF InsertDuplicate, InFlight
  <2> QED
      BY <1>1, <2>3, <2>4
<1>2. ASSUME NEW d \in draft, CommitEvents(d) \/ RollBackEvents(d)
      PROVE  /\ tenant' = tenant
             /\ draft' = draft \ {d}
             /\ committed' \subseteq committed \cup d
             /\ overtaken \subseteq overtaken'
             /\ \/ committed' = committed
                \/ overtaken' = overtaken \cup OvertakenBy(d)
    BY <1>2 DEF CommitEvents, RollBackEvents
<1>3. CASE Produce
  <2>1. ASSUME NEW s \in Shops, InsertEvent(s) \/ InsertDuplicate(s)
        PROVE  /\ Len(tenant) <= Len(tenant')
               /\ overtaken \subseteq overtaken'
               /\ committed' \subseteq committed \cup InFlight
               /\ InFlight' \subseteq InFlight \cup {Len(tenant) + 1}
               /\ OvertakenKnown'
    <3>1. ASSUME NEW i \in InFlight', NEW j \in committed', i < j
          PROVE  i \in overtaken'
      <4>1. i \in InFlight \/ i = Len(tenant) + 1
          BY <1>1, <2>1
      <4>2. j \in committed /\ j \in 1 .. Len(tenant)
          BY <1>0, <1>1, <2>1
      <4>3. i \in InFlight
          BY <1>0, <3>1, <4>1, <4>2
      <4> QED
          BY <1>1, <2>1, <3>1, <4>2, <4>3 DEF OvertakenKnown
    <3> QED
        BY <1>0, <1>1, <2>1, <3>1 DEF OvertakenKnown
  <2>2. ASSUME NEW d \in draft, CommitEvents(d) \/ RollBackEvents(d)
        PROVE  /\ Len(tenant) <= Len(tenant')
               /\ overtaken \subseteq overtaken'
               /\ committed' \subseteq committed \cup InFlight
               /\ InFlight' \subseteq InFlight \cup {Len(tenant) + 1}
               /\ OvertakenKnown'
    <3>1. ASSUME NEW i \in InFlight', NEW j \in committed', i < j
          PROVE  i \in overtaken'
      <4>1. i \in InFlight /\ i \in UNION (draft \ {d})
          BY <1>2, <2>2, <3>1 DEF InFlight
      <4>2. CASE j \in committed
          BY <1>2, <2>2, <3>1, <4>1, <4>2 DEF OvertakenKnown
      <4>3. CASE j \notin committed
          BY <1>2, <2>2, <3>1, <4>1, <4>3 DEF OvertakenBy
      <4> QED
          BY <4>2, <4>3
    <3>2. Len(tenant') = Len(tenant) /\ d \subseteq InFlight
        BY <1>2, <2>2 DEF InFlight
    <3>3. InFlight' \subseteq InFlight
        BY <1>2, <2>2 DEF InFlight
    <3> QED
        BY <1>0, <1>2, <2>2, <3>1, <3>2, <3>3 DEF OvertakenKnown
  <2> QED
      BY <1>3, <2>1, <2>2 DEF Produce
<1>4. CASE ~Produce
  <2>1. UNCHANGED log
      BY <1>4 DEF Next, Cycle, Body, Recovery, PollCursor, FetchNext, FetchIdle,
          BeginProjection, SkipStale, ProjectHead, FailHead, WaitForGap,
          SkipMissingId, BridgePhantomGap, HaltOnGap, BodyRejected, BeginRecovery,
          RecoverStale, Quarantine, RecoveryRejected, EndSweep, Restart, Fault,
          Crash, vars, log
  <2> QED
      BY <1>0, <2>1 DEF OvertakenKnown, InFlight, log
<1> QED
    BY <1>3, <1>4

LEMMA NextInFlightLog == InFlightLog /\ [Next]_vars => InFlightLog'
<1> SUFFICES ASSUME InFlightLog, [Next]_vars PROVE InFlightLog'
    OBVIOUS
<1>0. Control /\ Control'
    BY NextControl DEF InFlightLog
<1>2. /\ Len(tenant) \in Nat /\ Len(tenant') \in Nat
      /\ cursor \in Nat /\ cursor' \in Nat
      /\ committed \subseteq 1 .. Len(tenant)
      /\ committed \subseteq Nat /\ committed' \subseteq Nat
  <2>1. TypeOK /\ TypeOK'
      BY <1>0 DEF Control
  <2>2. Len(tenant) \in Nat
      BY <2>1 DEF TypeOK
  <2>3. Len(tenant') \in Nat
      BY <2>1 DEF TypeOK
  <2>4. committed \subseteq 1 .. Len(tenant) /\ committed' \subseteq 1 .. Len(tenant')
      BY <2>1 DEF TypeOK
  <2>5. committed \subseteq Nat
      BY <2>2, <2>4
  <2>6. committed' \subseteq Nat
      BY <2>3, <2>4
  <2>7. cursor \in Nat /\ cursor' \in Nat
      BY <2>1 DEF TypeOK
  <2> QED
      BY <2>2, <2>3, <2>4, <2>5, <2>6, <2>7
<1>3. /\ Len(tenant) <= Len(tenant')
      /\ overtaken \subseteq overtaken'
      /\ committed' \subseteq committed \cup InFlight
      /\ InFlight' \subseteq InFlight \cup {Len(tenant) + 1}
      /\ OvertakenKnown'
    BY <1>0, LogStep DEF InFlightLog
<1>4. Takes \/ Records \/ Bridges \/ Commits
    BY <1>0, StoreStep
<1>5. cursor <= cursor'
  <2>1. CASE Bridges
    <3>1. PICK w \in Workers : cursor' \in cursor + 1 .. pick[w] - 1
        BY <2>1 DEF Bridges
    <3> QED
        BY <1>2, <3>1
  <2> QED
      BY <1>2, <1>4, <2>1 DEF Takes, Records, Commits, store
<1>6. SeenBehind'
  <2> SUFFICES ASSUME NEW v \in Workers PROVE seen'[v] <= cursor'
      BY DEF SeenBehind
  <2>1. seen'[v] \in {seen[v], cursor, 0}
      BY <1>0, ReadStep
  <2>2. seen[v] <= cursor /\ seen[v] \in Nat
      BY <1>0 DEF InFlightLog, SeenBehind, Control, TypeOK
  <2> QED
      BY <1>2, <1>5, <2>1, <2>2
<1>7. PickIsNext'
  <2> SUFFICES ASSUME NEW v \in Workers, pc'[v] \in Acting,
                      NEW i \in committed', cursor' < i, i < pick'[v]
               PROVE  i \in overtaken'
      BY DEF PickIsNext
  <2>0. i \in Nat /\ cursor < i
      BY <1>2, <1>5
  <2>1. CASE pc[v] \in Acting /\ pick'[v] = pick[v]
    <3>1. pick[v] \in committed
        BY <1>0, <2>1 DEF Control, PickListed, Acting
    <3>2. CASE i \in committed
        BY <1>3, <2>0, <2>1, <3>2 DEF InFlightLog, PickIsNext
    <3>3. CASE i \notin committed
        BY <1>3, <2>1, <3>1, <3>3 DEF InFlightLog, OvertakenKnown
    <3> QED
        BY <3>2, <3>3
  <2>2. CASE /\ \A j \in committed : seen[v] < j => pick'[v] <= j
             /\ UNCHANGED <<cursor, committed>>
    <3>0. seen[v] \in Nat /\ seen[v] <= cursor
        BY <1>0 DEF InFlightLog, SeenBehind, Control, TypeOK
    <3>1. pick'[v] <= i
        BY <1>2, <2>0, <2>2, <3>0
    <3>2. pick'[v] \in Nat /\ i \in Nat
        BY <1>0, <1>2 DEF Control, TypeOK
    <3> QED
        BY <3>1, <3>2
  <2> QED
      BY <1>0, <2>1, <2>2, ReadStep
<1>8. /\ bridged' \subseteq 1 .. Len(tenant)
      /\ bridged' \cap committed \subseteq overtaken
      /\ bridged' \cap InFlight \subseteq overtaken
  <2>1. CASE bridged' = bridged
      BY <2>1 DEF InFlightLog, BridgedAreGone, LostOnlyInFlight
  <2>2. CASE Bridges
    <3>1. PICK w \in Workers : pc[w] = "body" /\ cursor' \in cursor + 1 .. pick[w] - 1
        BY <2>2 DEF Bridges
    <3>2. pick[w] \in committed /\ pick[w] \in 1 .. Len(tenant)
        BY <1>0, <1>2, <3>1 DEF Control, PickListed
    <3>4. ASSUME NEW i \in cursor + 1 .. cursor'
          PROVE  /\ i \in 1 .. Len(tenant)
                 /\ i \in committed => i \in overtaken
                 /\ i \in InFlight => i \in overtaken
      <4>1. i \in 1 .. Len(tenant) /\ i < pick[w] /\ cursor < i
          BY <1>2, <3>1, <3>2
      <4>2. i \in committed => i \in overtaken
          BY <3>1, <4>1 DEF InFlightLog, PickIsNext, Acting
      <4>3. i \in InFlight => i \in overtaken
          BY <3>2, <4>1 DEF InFlightLog, OvertakenKnown
      <4> QED
          BY <4>1, <4>2, <4>3
    <3>5. \A i \in bridged' : i \in bridged \/ i \in cursor + 1 .. cursor'
        BY <2>2 DEF Bridges
    <3>6. ASSUME NEW i \in bridged'
          PROVE  /\ i \in 1 .. Len(tenant)
                 /\ i \in committed => i \in overtaken
                 /\ i \in InFlight => i \in overtaken
      <4>1. CASE i \in bridged
          BY <4>1 DEF InFlightLog, BridgedAreGone, LostOnlyInFlight
      <4> QED
          BY <3>4, <3>5, <4>1
    <3> QED
        BY <3>6
  <2> QED
      BY <1>4, <2>1, <2>2 DEF Takes, Records, Commits, store
<1>9. BridgedAreGone'
  <2>1. bridged' \subseteq 1 .. Len(tenant')
      BY <1>2, <1>3, <1>8
  <2>2. ASSUME NEW i \in bridged', i \in InFlight'
        PROVE  i \in overtaken'
    <3>1. i \in 1 .. Len(tenant)
        BY <1>8, <2>2
    <3>2. i # Len(tenant) + 1
        BY <1>2, <3>1
    <3>3. i \in InFlight
        BY <1>3, <2>2, <3>2
    <3> QED
        BY <1>3, <1>8, <2>2, <3>3
  <2> QED
      BY <2>1, <2>2 DEF BridgedAreGone
<1>10. LostOnlyInFlight'
  <2> SUFFICES ASSUME NEW i \in bridged', i \in committed' PROVE i \in overtaken'
      BY DEF LostOnlyInFlight
  <2> QED
      BY <1>3, <1>8
<1> QED
    BY <1>0, <1>3, <1>6, <1>7, <1>9, <1>10 DEF InFlightLog

\* A committed event the cursor has passed was projected or recorded, unless a
\* later id became visible while it was in flight: events that commit in id
\* order are never lost.
THEOREM OnlyInFlightIsLost == Spec => []LostOnlyInFlight
<1>1. InFlightLog => LostOnlyInFlight
    BY DEF InFlightLog
<1> QED
    BY <1>1, InitInFlightLog, NextInFlightLog, PTL DEF Spec

=============================================================================
