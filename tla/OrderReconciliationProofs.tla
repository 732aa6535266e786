---------------------- MODULE OrderReconciliationProofs ----------------------
(***************************************************************************)
(* Proofs about OrderReconciliation, for any number of orders, constraint  *)
(* types, versions, defers and faults: its types, that a checkpoint is     *)
(* backed, and that no intent is dropped.                                  *)
(*                                                                         *)
(* The inductive invariant ties the versions that lie about, in intents,   *)
(* in the sweep, in commands and in decisions, to the version the order    *)
(* has: nothing is ahead of it, and nothing that was decided is ahead of   *)
(* what the worker reconciles.                                             *)
(***************************************************************************)
EXTENDS OrderReconciliation, TLAPS, FiniteSetTheorems

Events == [order : Orders, kind : AllKinds \cup {"address"}, defers : 0 .. MaxDefers]

\* The events of a sequence that will add a version to an order: Coming is those
\* of the feed.
ComingIn(s, o) == {i \in DOMAIN s : s[i].order = o /\ s[i].kind \in Bumping}
Counts(e, o) == e.order = o /\ e.kind \in Bumping

\* There is room for the versions that the feed will add.
Room == \A o \in Orders :
    (IF version[o] > 0 THEN version[o] ELSE 1) + Cardinality(ComingIn(feed, o)) <= MaxVersion

Held == {"reconcile", "enqueue", "delete"}

\* No intent is ahead of its order, at rest or in the sweep.
NotAhead ==
    /\ \A i \in intents \cup worker.todo : i.version <= version[i.order]
    /\ worker.at \in Held =>
           worker.job \in Intents /\ worker.job.version <= version[worker.job.order]

\* What has a command is not ahead of its order, ...
Commanded == \A o \in Orders, v \in Versions :
    command[o][v].status # "none" => v <= version[o]

\* ... or of the intent that is being reconciled.
NothingNewer == worker.at = "reconcile" =>
    \A v \in Versions : command[worker.job.order][v].status # "none" =>
        v <= worker.job.version

\* Every decision has its command.
Decided == \A d \in decisions : command[d.order][d.version].status # "none"

\* Who is about to delete an intent has handled it, or found no projection.
Settled ==
    /\ worker.at = "enqueue" => Handled(worker.job)
    /\ worker.at = "delete" =>
           Handled(worker.job) \/ snapshot[worker.job.order][worker.job.version] = None

Versioned == NotAhead /\ Commanded /\ NothingNewer /\ Decided
Inv == TypeOK /\ Room /\ Versioned /\ CheckpointIsBacked /\ Settled

------------------------------------------------------------------------------
(* The feed.                                                               *)

\* There are finitely many of them.
LEMMA ComingFinite ==
    ASSUME NEW s \in Seq(Events), NEW o
    PROVE  IsFiniteSet(ComingIn(s, o)) /\ Cardinality(ComingIn(s, o)) \in Nat
<1>1. Len(s) \in Nat /\ DOMAIN s = 1 .. Len(s)
  OBVIOUS
<1>2. IsFiniteSet(1 .. Len(s))
  BY <1>1, FS_Interval
<1>3. ComingIn(s, o) \subseteq 1 .. Len(s)
  BY <1>1 DEF ComingIn
<1>4. IsFiniteSet(ComingIn(s, o))
  BY <1>2, <1>3, FS_Subset
<1> QED
  BY <1>4, FS_CardinalityType

\* An event more counts as one, or not at all.
LEMMA ComingAppend ==
    ASSUME NEW s \in Seq(Events), NEW e \in Events, NEW o
    PROVE  Cardinality(ComingIn(Append(s, e), o)) =
               Cardinality(ComingIn(s, o)) + (IF Counts(e, o) THEN 1 ELSE 0)
<1> DEFINE t == Append(s, e)
<1>1. /\ Len(s) \in Nat /\ Len(t) = Len(s) + 1 /\ DOMAIN s = 1 .. Len(s)
      /\ DOMAIN t = 1 .. Len(s) + 1 /\ t[Len(s) + 1] = e
      /\ \A i \in 1 .. Len(s) : t[i] = s[i]
  OBVIOUS
<1>2. IsFiniteSet(ComingIn(s, o)) /\ Cardinality(ComingIn(s, o)) \in Nat
  BY ComingFinite
<1>3. Len(s) + 1 \notin ComingIn(s, o)
  BY <1>1 DEF ComingIn
<1> HIDE DEF t
<1>4. CASE Counts(e, o)
  <2>1. ComingIn(t, o) = ComingIn(s, o) \cup {Len(s) + 1}
    BY <1>1, <1>4 DEF ComingIn, Counts
  <2>2. Cardinality(ComingIn(t, o)) = Cardinality(ComingIn(s, o)) + 1
    BY <1>2, <1>3, <2>1, FS_AddElement
  <2> QED
    BY <1>4, <2>2 DEF t
<1>5. CASE ~Counts(e, o)
  <2>1. ComingIn(t, o) = ComingIn(s, o)
    BY <1>1, <1>5 DEF ComingIn, Counts
  <2> QED
    BY <1>2, <1>5, <2>1 DEF t
<1> QED
  BY <1>4, <1>5

\* The head that goes counted as one, or not at all.
LEMMA ComingTail ==
    ASSUME NEW s \in Seq(Events), s # <<>>, NEW o
    PROVE  Cardinality(ComingIn(Tail(s), o)) =
               Cardinality(ComingIn(s, o)) - (IF Counts(Head(s), o) THEN 1 ELSE 0)
<1> DEFINE t == Tail(s)
           C == ComingIn(t, o)
           D == ComingIn(s, o) \ {1}
           f == [i \in C |-> i + 1]
<1>1. /\ Len(s) \in Nat /\ Len(s) > 0 /\ Len(t) = Len(s) - 1 /\ t \in Seq(Events)
      /\ DOMAIN s = 1 .. Len(s) /\ DOMAIN t = 1 .. Len(s) - 1 /\ Head(s) = s[1]
      /\ \A i \in 1 .. Len(s) - 1 : t[i] = s[i + 1]
  OBVIOUS
<1> HIDE DEF t
<1>2. C \subseteq 1 .. Len(s) - 1 /\ D \subseteq 2 .. Len(s)
  BY <1>1 DEF ComingIn
<1>3. \A i \in C : i + 1 \in D
  BY <1>1, <1>2 DEF ComingIn
<1>4. \A j \in D : j - 1 \in C /\ (j - 1) + 1 = j
  BY <1>1, <1>2 DEF ComingIn
<1>5. IsFiniteSet(C) /\ IsFiniteSet(ComingIn(s, o)) /\ Cardinality(ComingIn(s, o)) \in Nat
  BY <1>1, ComingFinite
<1> HIDE DEF C, D
<1>6. f \in Bijection(C, D)
  <2>1. f \in [C -> D]
    BY <1>3
  <2>2. \A i, j \in C : f[i] = f[j] => i = j
    BY <1>2
  <2>3. \A j \in D : \E i \in C : f[i] = j
    BY <1>4
  <2> QED
    BY <2>1, <2>2, <2>3 DEF Bijection, Injection, Surjection, IsInjective
<1>7. Cardinality(C) = Cardinality(D)
  BY <1>5, <1>6, FS_Bijection DEF ExistsBijection
<1>8. Cardinality(D) = IF 1 \in ComingIn(s, o) THEN Cardinality(ComingIn(s, o)) - 1
                      ELSE Cardinality(ComingIn(s, o))
  BY <1>5, FS_RemoveElement DEF D
<1>9. 1 \in ComingIn(s, o) <=> Counts(Head(s), o)
  BY <1>1 DEF ComingIn, Counts
<1> QED
  BY <1>5, <1>7, <1>8, <1>9 DEF C, t

------------------------------------------------------------------------------
(* Types and room.                                                         *)

Labels == {"project", "list", "next", "reconcile", "enqueue", "delete"}

\* The parts of the types: the feed, the orders, and what was made of them.
FeedType == feed \in Seq(Events)

OrderType ==
    /\ version \in [Orders -> 0 .. MaxVersion]
    /\ paid \subseteq Orders
    /\ snapshot \in [Orders -> [Versions -> (SUBSET Blocks) \cup {None}]]
    /\ checkpoint \in [Orders -> 0 .. MaxVersion]
    /\ intents \subseteq Intents

OutcomeType ==
    /\ command \in [Orders -> [Versions ->
          [status : {"none", "pending", "processed", "error"}, blocks : SUBSET Blocks]]]
    /\ decisions \subseteq Decision
    /\ resolved \subseteq decisions
    /\ queued \subseteq decisions

WorkerType ==
    worker \in [at : Labels, job : Intents \cup {None}, todo : SUBSET Intents,
                buffer : SUBSET decisions]

LEMMA TypeParts ==
    /\ TypeOK <=> /\ FeedType /\ OrderType /\ OutcomeType /\ WorkerType
                  /\ faults \in 0 .. MaxFaults
    /\ TypeOK' <=> /\ FeedType' /\ OrderType' /\ OutcomeType' /\ WorkerType'
                   /\ faults' \in 0 .. MaxFaults
  BY DEF TypeOK, FeedType, OrderType, OutcomeType, WorkerType, Events, Labels

\* The versions of an order, those to come included, as Latest has them.
LEMMA LatestIs ==
    ASSUME TypeOK, NEW o \in Orders
    PROVE  /\ Latest(o) = (IF version[o] > 0 THEN version[o] ELSE 1)
                            + Cardinality(ComingIn(feed, o))
           /\ Cardinality(ComingIn(feed, o)) \in Nat
           /\ version[o] \in 0 .. MaxVersion
<1>1. Cardinality(ComingIn(feed, o)) \in Nat
  BY ComingFinite, TypeParts DEF FeedType
<1>2. Latest(o) = (IF version[o] > 0 THEN version[o] ELSE 1) + Cardinality(ComingIn(feed, o))
  BY DEF Latest, Known, Coming, ComingIn
<1>3. version[o] \in 0 .. MaxVersion
  BY DEF TypeOK
<1> QED
  BY <1>1, <1>2, <1>3

\* A faulty step stays within its bound.
LEMMA FaultBound == ASSUME TypeOK, Fault PROVE faults' \in 0 .. MaxFaults
  BY ConstantsAssumption DEF TypeOK, Fault

\* The worker goes to another place of its cycle.
LEMMA GotoType ==
    ASSUME TypeOK, NEW l \in Labels, Goto(l), decisions' = decisions
    PROVE  /\ WorkerType' /\ worker'.at = l /\ worker'.job = worker.job
           /\ worker'.todo = worker.todo /\ worker'.buffer = worker.buffer
  BY TypeParts DEF Goto, WorkerType

LEMMA InitType == ASSUME Init PROVE TypeOK /\ Room
<1>1. TypeOK
  <2>1. FeedType /\ faults \in 0 .. MaxFaults
    BY ConstantsAssumption DEF Init, FeedType
  <2>2. OrderType
    BY ConstantsAssumption DEF Init, OrderType
  <2>3. OutcomeType
    BY DEF Init, OutcomeType, NoCommand
  <2>4. WorkerType
    BY DEF Init, WorkerType, Labels
  <2> QED
    BY <2>1, <2>2, <2>3, <2>4, TypeParts
<1>2. ASSUME NEW o \in Orders
      PROVE  (IF version[o] > 0 THEN version[o] ELSE 1) + Cardinality(ComingIn(feed, o))
                 <= MaxVersion
  <2>1. ComingIn(feed, o) = {} /\ version[o] = 0
    BY DEF Init, ComingIn
  <2> QED
    BY <2>1, FS_EmptySet, ConstantsAssumption
<1> QED
  BY <1>1, <1>2 DEF Room

\* An event that is appended, when there is room for it.
LEMMA AppendRoom ==
    ASSUME TypeOK, Room, NEW o \in Orders, NEW k \in AllKinds \cup {"address"}, HasRoom(o, k),
           feed' = Append(feed, Event(o, k)),
           \/ version' = version
           \/ k = "address" /\ Known(o) /\ version' = [version EXCEPT ![o] = version[o] + 1]
    PROVE  FeedType' /\ Room' /\ version' \in [Orders -> 0 .. MaxVersion]
<1>1. Event(o, k) \in Events /\ feed \in Seq(Events)
  BY TypeParts, ConstantsAssumption DEF Event, Events, FeedType
<1>2. FeedType'
  BY <1>1 DEF FeedType
<1>3. \A q \in Orders : Cardinality(ComingIn(feed', q)) = Cardinality(ComingIn(feed, q))
                               + (IF q = o /\ k \in Bumping THEN 1 ELSE 0)
  BY <1>1, ComingAppend DEF Counts, Event
<1>4. k = "address" => k \notin Bumping
  BY DEF Bumping
<1>5. k \in Bumping \cup {"address"} => Latest(o) < MaxVersion
  BY DEF HasRoom
<1>6. version' \in [Orders -> 0 .. MaxVersion]
  <2>1. k = "address" /\ Known(o) => version[o] + 1 \in 0 .. MaxVersion
    BY <1>5, LatestIs, ConstantsAssumption DEF Known
  <2> QED
    BY <2>1 DEF TypeOK
<1>7. ASSUME NEW q \in Orders
      PROVE  (IF version'[q] > 0 THEN version'[q] ELSE 1) + Cardinality(ComingIn(feed', q))
                 <= MaxVersion
  <2>1. (IF version[q] > 0 THEN version[q] ELSE 1) + Cardinality(ComingIn(feed, q))
            <= MaxVersion
    BY DEF Room
  <2>2. CASE q = o
    <3>1. version[o] + 1 \in Nat
      BY LatestIs, ConstantsAssumption
    <3>2. \/ version'[o] = version[o]
          \/ k = "address" /\ version[o] > 0 /\ version'[o] = version[o] + 1
      BY DEF TypeOK, Known
    <3> QED
      BY <1>3, <1>4, <1>5, <2>1, <2>2, <3>1, <3>2, LatestIs, ConstantsAssumption
  <2>3. CASE q # o
    <3>1. version'[q] = version[q]
      BY <2>3 DEF TypeOK
    <3> QED
      BY <1>3, <2>1, <2>3, <3>1, LatestIs, ConstantsAssumption
  <2> QED
    BY <2>2, <2>3
<1> QED
  BY <1>2, <1>6, <1>7 DEF Room

\* The head goes, and what it adds to its order is no more than what counted.
LEMMA TailRoom ==
    ASSUME TypeOK, Room, feed # <<>>, feed' = Tail(feed),
           version' \in [Orders -> 0 .. MaxVersion],
           \A q \in Orders : \/ version'[q] = version[q]
                             \/ version[q] = 0 /\ version'[q] = 1
                             \/ /\ version'[q] = version[q] + 1
                                /\ version[q] > 0 /\ Counts(Head(feed), q)
    PROVE  FeedType' /\ Room'
<1>1. feed \in Seq(Events)
  BY TypeParts DEF FeedType
<1>2. FeedType'
  BY <1>1 DEF FeedType
<1>3. ASSUME NEW q \in Orders
      PROVE  (IF version'[q] > 0 THEN version'[q] ELSE 1) + Cardinality(ComingIn(feed', q))
                 <= MaxVersion
  <2>1. (IF version[q] > 0 THEN version[q] ELSE 1) + Cardinality(ComingIn(feed, q))
            <= MaxVersion
    BY DEF Room
  <2>2. Cardinality(ComingIn(feed', q)) =
            Cardinality(ComingIn(feed, q)) - (IF Counts(Head(feed), q) THEN 1 ELSE 0)
    BY <1>1, ComingTail
  <2> QED
    BY <2>1, <2>2, LatestIs, ConstantsAssumption
<1> QED
  BY <1>2, <1>3 DEF Room

\* The head that adds one version leaves it within the bound.
LEMMA BumpBound ==
    ASSUME TypeOK, Room, feed # <<>>, NEW o \in Orders, Counts(Head(feed), o), version[o] > 0
    PROVE  version[o] + 1 \in 1 .. MaxVersion
<1>1. version[o] + Cardinality(ComingIn(feed, o)) <= MaxVersion
  BY DEF Room
<1>2. feed \in Seq(Events) /\ Tail(feed) \in Seq(Events)
  BY TypeParts DEF FeedType
<1>3. Cardinality(ComingIn(Tail(feed), o)) = Cardinality(ComingIn(feed, o)) - 1
  BY <1>2, ComingTail
<1>4. Cardinality(ComingIn(Tail(feed), o)) \in Nat
  BY <1>2, ComingFinite
<1> QED
  BY <1>1, <1>3, <1>4, LatestIs, ConstantsAssumption

\* What neither touches the feed nor a version leaves the room there is.
LEMMA SameRoom ==
    ASSUME Room, UNCHANGED <<feed, version>> PROVE Room'
  BY DEF Room

------------------------------------------------------------------------------
(* Types and room, one action after the other: the others first.           *)

LEMMA WebhookType ==
    ASSUME TypeOK, Room, NEW o \in Orders, NEW k \in AllKinds, Webhook(o, k)
    PROVE  TypeOK' /\ Room'
<1>1. /\ HasRoom(o, k) /\ feed' = Append(feed, Event(o, k))
      /\ UNCHANGED <<order, checkpoint, intents, command, outcome, worker, faults>>
  BY DEF Webhook
<1>2. version' = version
  BY <1>1 DEF order
<1>3. FeedType' /\ Room'
  BY <1>1, <1>2, AppendRoom
<1>4. OrderType' /\ OutcomeType' /\ WorkerType' /\ faults' \in 0 .. MaxFaults
  BY <1>1, TypeParts DEF order, outcome, OrderType, OutcomeType, WorkerType
<1> QED
  BY <1>3, <1>4, TypeParts

LEMMA CorrectAddressType ==
    ASSUME TypeOK, Room, NEW o \in Orders, CorrectAddress(o)
    PROVE  TypeOK' /\ Room'
<1>1. /\ Known(o) /\ HasRoom(o, "address") /\ feed' = Append(feed, Event(o, "address"))
      /\ version' = [version EXCEPT ![o] = version[o] + 1]
      /\ intents' = intents \cup {IntentNow(o, version[o] + 1)}
      /\ UNCHANGED <<paid, snapshot, checkpoint, command, outcome, worker, faults>>
  BY DEF CorrectAddress
<1>2. FeedType' /\ Room' /\ version' \in [Orders -> 0 .. MaxVersion]
  BY <1>1, AppendRoom
<1>3. version[o] + 1 \in Versions
  BY <1>1, <1>2, LatestIs, ConstantsAssumption DEF Versions
<1>4. OrderType'
  BY <1>1, <1>2, <1>3, TypeParts DEF OrderType, IntentNow, Intents
<1>5. OutcomeType' /\ WorkerType' /\ faults' \in 0 .. MaxFaults
  BY <1>1, TypeParts DEF outcome, OutcomeType, WorkerType
<1> QED
  BY <1>2, <1>4, <1>5, TypeParts

LEMMA StowType ==
    ASSUME TypeOK, Room, NEW o \in Orders, Stow(o)
    PROVE  TypeOK' /\ Room'
<1>1. /\ Known(o) /\ intents' = intents \cup {IntentNow(o, version[o])}
      /\ UNCHANGED <<feed, order, checkpoint, command, outcome, worker, faults>>
  BY DEF Stow
<1>2. IntentNow(o, version[o]) \in Intents
  BY <1>1, LatestIs, ConstantsAssumption DEF Known, IntentNow, Intents, Versions
<1>3. FeedType' /\ OrderType' /\ OutcomeType' /\ WorkerType' /\ faults' \in 0 .. MaxFaults
  BY <1>1, <1>2, TypeParts
     DEF order, outcome, FeedType, OrderType, OutcomeType, WorkerType
<1> QED
  BY <1>1, <1>3, TypeParts, SameRoom DEF order

LEMMA ResolveType ==
    ASSUME TypeOK, Room, NEW d \in decisions, Resolve(d)
    PROVE  TypeOK' /\ Room'
<1>1. /\ resolved' = resolved \cup {d}
      /\ UNCHANGED <<feed, order, checkpoint, intents, command, decisions, queued,
                     worker, faults>>
  BY DEF Resolve
<1>2. FeedType' /\ OrderType' /\ OutcomeType' /\ WorkerType' /\ faults' \in 0 .. MaxFaults
  BY <1>1, TypeParts DEF order, FeedType, OrderType, OutcomeType, WorkerType
<1> QED
  BY <1>1, <1>2, TypeParts, SameRoom DEF order

------------------------------------------------------------------------------
(* The projection.                                                         *)

\* A snapshot of a version leaves the others as they are, and is there.
LEMMA SnapshotIs ==
    ASSUME TypeOK, NEW o \in Orders, NEW v \in Versions, Snapshot(o, v)
    PROVE  /\ snapshot' \in [Orders -> [Versions -> (SUBSET Blocks) \cup {None}]]
           /\ \A q \in Orders, u \in Versions :
                 snapshot'[q][u] = None => snapshot[q][u] = None
           /\ \A q \in Orders, u \in Versions :
                 snapshot'[q][u] # snapshot[q][u] => q = o /\ u = v
<1>1. PICK b \in SUBSET Blocks : snapshot' = [snapshot EXCEPT ![o][v] = b]
  BY DEF Snapshot
<1>2. snapshot \in [Orders -> [Versions -> (SUBSET Blocks) \cup {None}]]
  BY DEF TypeOK
<1>3. b # None
  BY ConstantsAssumption
<1>4. snapshot' \in [Orders -> [Versions -> (SUBSET Blocks) \cup {None}]]
  BY <1>1, <1>2
<1>5. \A q \in Orders, u \in Versions :
         snapshot'[q][u] = IF q = o /\ u = v THEN b ELSE snapshot[q][u]
  BY <1>1, <1>2
<1> QED
  BY <1>3, <1>4, <1>5

\* The head of the feed is an event.
LEMMA HeadIs ==
    ASSUME TypeOK, TakeHead
    PROVE  Head1 \in Events /\ feed # <<>> /\ feed \in Seq(Events) /\ Tail(feed) \in Seq(Events)
  BY TypeParts DEF TakeHead, Head1, FeedType

LEMMA ProjectCreateType ==
    ASSUME TypeOK, Room, NEW o \in Orders, ProjectCreate(o)
    PROVE  TypeOK' /\ Room'
<1> DEFINE v == IF Known(o) THEN version[o] ELSE 1
<1>1. /\ TakeHead /\ version' = [version EXCEPT ![o] = v]
      /\ intents' = intents \cup {IntentNow(o, v)} /\ Snapshot(o, v)
      /\ feed' = Tail(feed) /\ Goto("list")
      /\ UNCHANGED <<paid, checkpoint, command, outcome, faults>>
  BY DEF ProjectCreate
<1>2. v \in Versions
  BY LatestIs, ConstantsAssumption DEF Known, Versions
<1>3. version' \in [Orders -> 0 .. MaxVersion]
  BY <1>1, <1>2 DEF TypeOK, Versions
<1>4. ASSUME NEW q \in Orders
      PROVE  \/ version'[q] = version[q]
             \/ version[q] = 0 /\ version'[q] = 1
  <2>1. version[q] \in 0 .. MaxVersion /\ version'[q] = IF q = o THEN v ELSE version[q]
    BY <1>1, LatestIs DEF TypeOK
  <2> QED
    BY <2>1, ConstantsAssumption DEF Known
<1>5. FeedType' /\ Room'
  BY <1>1, <1>3, <1>4, TailRoom, HeadIs
<1>6. OrderType'
  <2>1. snapshot' \in [Orders -> [Versions -> (SUBSET Blocks) \cup {None}]]
    BY <1>1, <1>2, SnapshotIs
  <2>2. IntentNow(o, v) \in Intents
    BY <1>2 DEF IntentNow, Intents
  <2> QED
    BY <1>1, <1>3, <2>1, <2>2, TypeParts DEF OrderType
<1>7. WorkerType'
  BY <1>1, GotoType DEF Labels, outcome
<1>8. OutcomeType' /\ faults' \in 0 .. MaxFaults
  BY <1>1, TypeParts DEF outcome, OutcomeType
<1> QED
  BY <1>5, <1>6, <1>7, <1>8, TypeParts

LEMMA ProjectChangeType ==
    ASSUME TypeOK, Room, NEW o \in Orders, ProjectChange(o)
    PROVE  TypeOK' /\ Room'
<1> DEFINE v == IF Head1.kind \in Bumping THEN version[o] + 1 ELSE version[o]
<1>1. /\ TakeHead /\ Head1.order = o /\ Known(o)
      /\ version' = [version EXCEPT ![o] = v] /\ Snapshot(o, v)
      /\ paid' = IF Head1.kind = "paid" THEN paid \cup {o} ELSE paid
      /\ feed' = Tail(feed) /\ Goto("list")
      /\ UNCHANGED <<checkpoint, intents, command, outcome, faults>>
  BY DEF ProjectChange
<1>2. Head1.kind \in Bumping => Counts(Head(feed), o)
  BY <1>1 DEF Counts, Head1
<1>3. v \in Versions
  BY <1>1, <1>2, BumpBound, HeadIs, LatestIs, ConstantsAssumption DEF Known, Versions
<1>4. version' \in [Orders -> 0 .. MaxVersion]
  BY <1>1, <1>3 DEF TypeOK, Versions
<1>5. \A q \in Orders : \/ version'[q] = version[q]
                        \/ /\ version'[q] = version[q] + 1
                           /\ version[q] > 0 /\ Counts(Head(feed), q)
  BY <1>1, <1>2 DEF Known, TypeOK
<1>6. FeedType' /\ Room'
  BY <1>1, <1>4, <1>5, TailRoom, HeadIs
<1>7. OrderType'
  <2>1. snapshot' \in [Orders -> [Versions -> (SUBSET Blocks) \cup {None}]]
    BY <1>1, <1>3, SnapshotIs
  <2> QED
    BY <1>1, <1>4, <2>1, TypeParts DEF OrderType
<1>8. WorkerType'
  BY <1>1, GotoType DEF Labels, outcome
<1>9. OutcomeType' /\ faults' \in 0 .. MaxFaults
  BY <1>1, TypeParts DEF outcome, OutcomeType
<1> QED
  BY <1>6, <1>7, <1>8, <1>9, TypeParts

LEMMA ProjectRefundType ==
    ASSUME TypeOK, Room, NEW o \in Orders, ProjectRefund(o)
    PROVE  TypeOK' /\ Room'
<1>1. /\ TakeHead /\ Head1.order = o /\ Head1.kind = "refund"
      /\ version' = IF Known(o) THEN [version EXCEPT ![o] = version[o] + 1] ELSE version
      /\ feed' = Tail(feed) /\ Goto("list")
      /\ UNCHANGED <<paid, snapshot, checkpoint, intents, command, outcome, faults>>
  BY DEF ProjectRefund
<1>2. Counts(Head(feed), o)
  BY <1>1 DEF Counts, Head1, Bumping
<1>3. Known(o) => version[o] + 1 \in 1 .. MaxVersion
  BY <1>1, <1>2, BumpBound, HeadIs DEF Known
<1>4. version' \in [Orders -> 0 .. MaxVersion]
  BY <1>1, <1>3 DEF TypeOK
<1>5. \A q \in Orders : \/ version'[q] = version[q]
                        \/ /\ version'[q] = version[q] + 1
                           /\ version[q] > 0 /\ Counts(Head(feed), q)
  BY <1>1, <1>2 DEF Known, TypeOK
<1>6. FeedType' /\ Room'
  BY <1>1, <1>4, <1>5, TailRoom, HeadIs
<1>7. WorkerType'
  BY <1>1, GotoType DEF Labels, outcome
<1>8. OrderType' /\ OutcomeType' /\ faults' \in 0 .. MaxFaults
  BY <1>1, <1>4, TypeParts DEF outcome, OrderType, OutcomeType
<1> QED
  BY <1>6, <1>7, <1>8, TypeParts

LEMMA QuarantineCreateType ==
    ASSUME TypeOK, Room, QuarantineCreate
    PROVE  TypeOK' /\ Room'
<1>1. /\ TakeHead /\ feed' = Tail(feed) /\ Goto("list")
      /\ UNCHANGED <<order, checkpoint, intents, command, outcome, faults>>
  BY DEF QuarantineCreate
<1>2. version' = version /\ version' \in [Orders -> 0 .. MaxVersion]
  BY <1>1 DEF order, TypeOK
<1>3. FeedType' /\ Room'
  BY <1>1, <1>2, TailRoom, HeadIs
<1>4. WorkerType'
  BY <1>1, GotoType DEF Labels, outcome
<1>5. OrderType' /\ OutcomeType' /\ faults' \in 0 .. MaxFaults
  BY <1>1, TypeParts DEF order, outcome, OrderType, OutcomeType
<1> QED
  BY <1>3, <1>4, <1>5, TypeParts

\* The deferred event counts where it comes as it counted where it went.
LEMMA DeferPaidType ==
    ASSUME TypeOK, Room, DeferPaid
    PROVE  TypeOK' /\ Room'
<1>1. /\ TakeHead /\ feed' = (IF MayDefer THEN Requeue ELSE Tail(feed)) /\ Goto("list")
      /\ UNCHANGED <<order, checkpoint, intents, command, outcome, faults>>
  BY DEF DeferPaid
<1>2. FeedType' /\ Room'
  <2>1. CASE MayDefer
    <3> DEFINE e == [Head1 EXCEPT !.defers = @ + 1]
    <3>1. e \in Events /\ e.order = Head1.order /\ e.kind = Head1.kind
      <4>1. Head1 \in Events
        BY <1>1, HeadIs
      <4>2. Head1.defers + 1 \in 0 .. MaxDefers
        BY <2>1, <4>1, ConstantsAssumption DEF MayDefer, Events
      <4>3. /\ e = [order |-> Head1.order, kind |-> Head1.kind, defers |-> Head1.defers + 1]
            /\ Head1.order \in Orders /\ Head1.kind \in AllKinds \cup {"address"}
        BY <4>1 DEF Events
      <4> HIDE DEF e
      <4> QED
        BY <4>2, <4>3 DEF Events
    <3>2. feed' = Append(Tail(feed), e)
      BY <1>1, <2>1 DEF Requeue
    <3> HIDE DEF e
    <3>3. ASSUME NEW q \in Orders
          PROVE  Cardinality(ComingIn(feed', q)) = Cardinality(ComingIn(feed, q))
      <4>1. Cardinality(ComingIn(feed', q)) =
                Cardinality(ComingIn(Tail(feed), q)) + (IF Counts(e, q) THEN 1 ELSE 0)
        BY <1>1, <3>1, <3>2, HeadIs, ComingAppend
      <4>2. Cardinality(ComingIn(Tail(feed), q)) =
                Cardinality(ComingIn(feed, q)) - (IF Counts(Head(feed), q) THEN 1 ELSE 0)
        BY <1>1, HeadIs, ComingTail
      <4>3. Counts(e, q) <=> Counts(Head(feed), q)
        BY <3>1 DEF Counts, Head1
      <4>4. Cardinality(ComingIn(feed, q)) \in Nat
        BY LatestIs
      <4> QED
        BY <4>1, <4>2, <4>3, <4>4
    <3>4. feed' \in Seq(Events)
      BY <1>1, <3>1, <3>2, HeadIs
    <3> QED
      BY <1>1, <3>3, <3>4 DEF FeedType, Room, order
  <2>2. CASE ~MayDefer
    <3>1. feed' = Tail(feed) /\ version' = version
      BY <1>1, <2>2 DEF order
    <3>2. version' \in [Orders -> 0 .. MaxVersion]
      BY <3>1 DEF TypeOK
    <3> QED
      BY <1>1, <3>1, <3>2, TailRoom, HeadIs
  <2> QED
    BY <2>1, <2>2
<1>3. WorkerType'
  BY <1>1, GotoType DEF Labels, outcome
<1>4. OrderType' /\ OutcomeType' /\ faults' \in 0 .. MaxFaults
  BY <1>1, TypeParts DEF order, outcome, OrderType, OutcomeType
<1> QED
  BY <1>2, <1>3, <1>4, TypeParts

------------------------------------------------------------------------------
(* The sweep.                                                              *)

\* Steps of the sweep that write nothing but the worker's place.
LEMMA PlaceType ==
    ASSUME TypeOK, Room, NEW l \in Labels, Goto(l),
           UNCHANGED <<feed, order, checkpoint, intents, command, outcome, faults>>
    PROVE  TypeOK' /\ Room'
<1>1. WorkerType'
  BY GotoType DEF outcome
<1>2. FeedType' /\ OrderType' /\ OutcomeType' /\ faults' \in 0 .. MaxFaults
  BY TypeParts DEF order, outcome, FeedType, OrderType, OutcomeType
<1> QED
  BY <1>1, <1>2, TypeParts, SameRoom DEF order

LEMMA ListIntentsType ==
    ASSUME TypeOK, Room, ListIntents
    PROVE  TypeOK' /\ Room'
<1>1. /\ worker' = [worker EXCEPT !.at = "next", !.todo = intents]
      /\ UNCHANGED <<feed, order, checkpoint, intents, command, outcome, faults>>
  BY DEF ListIntents
<1>2. WorkerType'
  BY <1>1, TypeParts DEF outcome, OrderType, WorkerType, Labels
<1>3. FeedType' /\ OrderType' /\ OutcomeType' /\ faults' \in 0 .. MaxFaults
  BY <1>1, TypeParts DEF order, outcome, FeedType, OrderType, OutcomeType
<1> QED
  BY <1>1, <1>2, <1>3, TypeParts, SameRoom DEF order

\* The places ReadVersion may go to.
LEMMA ReadVersionIs ==
    ASSUME TypeOK, NEW i \in worker.todo, ReadVersion(i)
    PROVE  /\ i \in Intents
           /\ WorkerType' /\ worker'.job = i /\ worker'.todo = worker.todo \ {i}
           /\ \/ worker'.at = "delete" /\ i.version < version[i.order]
              \/ worker'.at = "reconcile" /\ i.version = version[i.order]
              \/ worker'.at = "next"
           /\ UNCHANGED <<feed, order, checkpoint, intents, command, outcome, faults>>
<1> DEFINE l == IF IsStale(i) THEN "delete"
                ELSE IF i.version = version[i.order] THEN "reconcile" ELSE "next"
<1>1. /\ worker' = [worker EXCEPT !.at = l, !.job = i, !.todo = worker.todo \ {i}]
      /\ UNCHANGED <<feed, order, checkpoint, intents, command, outcome, faults>>
  BY DEF ReadVersion
<1>2. l \in Labels
  BY DEF Labels
<1>3. worker \in [at : Labels, job : Intents \cup {None}, todo : SUBSET Intents,
                  buffer : SUBSET decisions]
  BY TypeParts DEF WorkerType
<1>4. i \in Intents
  BY <1>3
<1> HIDE DEF l
<1>5. WorkerType' /\ worker'.at = l /\ worker'.job = i /\ worker'.todo = worker.todo \ {i}
  BY <1>1, <1>2, <1>3, <1>4 DEF WorkerType, outcome
<1> QED
  BY <1>1, <1>4, <1>5 DEF l, IsStale

LEMMA ReadVersionType ==
    ASSUME TypeOK, Room, NEW i \in worker.todo, ReadVersion(i)
    PROVE  TypeOK' /\ Room'
<1>1. WorkerType' /\ UNCHANGED <<feed, order, checkpoint, intents, command, outcome, faults>>
  BY ReadVersionIs
<1>2. FeedType' /\ OrderType' /\ OutcomeType' /\ faults' \in 0 .. MaxFaults
  BY <1>1, TypeParts DEF order, outcome, FeedType, OrderType, OutcomeType
<1> QED
  BY <1>1, <1>2, TypeParts, SameRoom DEF order

LEMMA DeleteIntentType ==
    ASSUME TypeOK, Room, DeleteIntent
    PROVE  TypeOK' /\ Room'
<1>1. /\ intents' = intents \ {worker.job} /\ Goto("next")
      /\ UNCHANGED <<feed, order, checkpoint, command, outcome, faults>>
  BY DEF DeleteIntent, RemoveIntent
<1>2. WorkerType'
  BY <1>1, GotoType DEF outcome, Labels
<1>3. FeedType' /\ OrderType' /\ OutcomeType' /\ faults' \in 0 .. MaxFaults
  BY <1>1, TypeParts DEF order, outcome, FeedType, OrderType, OutcomeType
<1> QED
  BY <1>1, <1>2, <1>3, TypeParts, SameRoom DEF order

\* What is being reconciled is an intent at a version of its order, and the
\* decisions to reuse are decisions.
LEMMA JobIs ==
    ASSUME TypeOK, NotAhead, worker.at \in Held
    PROVE  /\ Job \in Intents /\ Job.order \in Orders /\ Job.version \in Versions
           /\ Job.version \in 1 .. MaxVersion /\ Job.version <= version[Job.order]
  BY DEF NotAhead, Job, Intents, Versions

LEMMA ReuseIs ==
    ASSUME TypeOK, NotAhead, Reuse
    PROVE  /\ WorkerType' /\ worker'.at = "enqueue" /\ worker'.job = worker.job
           /\ worker'.todo = worker.todo
           /\ \E d \in decisions : /\ d.order = Job.order
                                   /\ d.version = Job.version \/ d \in decisions \ resolved
           /\ checkpoint' = [checkpoint EXCEPT ![Job.order] = Job.version]
           /\ UNCHANGED <<feed, order, intents, command, outcome, faults>>
<1>1. /\ WriteCheckpoint(Job)
      /\ UNCHANGED <<feed, order, intents, command, outcome, faults>>
  BY DEF Reuse
<1>2. PICK active \in SUBSET Blocks :
         /\ Reused(active) # {}
         /\ worker' = [worker EXCEPT !.at = "enqueue", !.buffer = Reused(active)]
  BY DEF Reuse
<1>3. \A d \in Reused(active) :
         /\ d \in decisions /\ d.order = Job.order
         /\ d.version = Job.version \/ d \in decisions \ resolved
  BY DEF Reused, Pending
<1>4. worker \in [at : Labels, job : Intents \cup {None}, todo : SUBSET Intents,
                  buffer : SUBSET decisions]
  BY TypeParts DEF WorkerType
<1>5. WorkerType' /\ worker'.at = "enqueue" /\ worker'.job = worker.job
      /\ worker'.todo = worker.todo
  BY <1>1, <1>2, <1>3, <1>4 DEF WorkerType, Labels, outcome
<1> QED
  BY <1>1, <1>2, <1>3, <1>5 DEF WriteCheckpoint

LEMMA ReuseType ==
    ASSUME TypeOK, Room, NotAhead, Reuse
    PROVE  TypeOK' /\ Room'
<1>1. /\ WorkerType'
      /\ checkpoint' = [checkpoint EXCEPT ![Job.order] = Job.version]
      /\ UNCHANGED <<feed, order, intents, command, outcome, faults>>
  BY ReuseIs
<1>2. worker.at \in Held
  BY DEF Reuse, At, Held
<1>3. checkpoint' \in [Orders -> 0 .. MaxVersion]
  BY <1>1, <1>2, JobIs, ConstantsAssumption DEF TypeOK
<1>4. FeedType' /\ OrderType' /\ OutcomeType' /\ faults' \in 0 .. MaxFaults
  BY <1>1, <1>3, TypeParts DEF order, outcome, FeedType, OrderType, OutcomeType
<1> QED
  BY <1>1, <1>4, TypeParts, SameRoom DEF order

\* A command is sent once: only one that is not there yet changes.
LEMMA SendCommandIs ==
    ASSUME TypeOK, NEW i \in Intents, SendCommand(i), snapshot[i.order][i.version] # None
    PROVE  /\ command' \in [Orders -> [Versions ->
                 [status : {"none", "pending", "processed", "error"}, blocks : SUBSET Blocks]]]
           /\ command'[i.order][i.version].status # "none"
           /\ \A o \in Orders, v \in Versions :
                 \/ command'[o][v] = command[o][v]
                 \/ o = i.order /\ v = i.version /\ command'[o][v].status = "pending"
<1> DEFINE S == [status : {"none", "pending", "processed", "error"}, blocks : SUBSET Blocks]
           c == IF command[i.order][i.version].status = "none"
                THEN [status |-> "pending", blocks |-> snapshot[i.order][i.version]]
                ELSE command[i.order][i.version]
<1>1. command' = [command EXCEPT ![i.order][i.version] = c]
  BY DEF SendCommand
<1>2. command \in [Orders -> [Versions -> S]] /\ i.order \in Orders /\ i.version \in Versions
  BY DEF TypeOK, Intents
<1>3. snapshot[i.order][i.version] \in SUBSET Blocks
  BY <1>2 DEF TypeOK
<1>4. c \in S /\ c.status # "none"
  <2>1. CASE command[i.order][i.version].status = "none"
    BY <1>3, <2>1
  <2>2. CASE command[i.order][i.version].status # "none"
    BY <1>2, <2>2
  <2> QED
    BY <2>1, <2>2
<1>5. c = command[i.order][i.version] \/ c.status = "pending"
  OBVIOUS
<1> HIDE DEF S, c
<1>6. command' \in [Orders -> [Versions -> S]]
  BY <1>1, <1>2, <1>4
<1>7. \A o \in Orders, v \in Versions :
         command'[o][v] = IF o = i.order /\ v = i.version THEN c ELSE command[o][v]
  BY <1>1, <1>2
<1> QED
  BY <1>2, <1>4, <1>5, <1>6, <1>7 DEF S

\* Sending the command, whatever becomes of the worker.
LEMMA SendType ==
    ASSUME TypeOK, Room, NotAhead, At("reconcile"), Ready, SendCommand(Job),
           WorkerType', faults' \in 0 .. MaxFaults,
           UNCHANGED <<feed, order, checkpoint, intents, outcome>>
    PROVE  TypeOK' /\ Room'
<1>1. Job \in Intents
  BY JobIs DEF At, Held
<1>2. OutcomeType'
  BY <1>1, SendCommandIs, TypeParts DEF Ready, outcome, OutcomeType
<1>3. FeedType' /\ OrderType'
  BY TypeParts DEF order, FeedType, OrderType
<1> QED
  BY <1>2, <1>3, TypeParts, SameRoom DEF order

LEMMA RestartedType ==
    ASSUME TypeOK, worker' = Restarted
    PROVE  WorkerType'
  BY TypeParts DEF WorkerType, Restarted, Labels

LEMMA DispatchType ==
    ASSUME TypeOK, Room, NotAhead, Dispatch \/ DispatchFails
    PROVE  TypeOK' /\ Room'
<1>1. CASE Dispatch
  <2>1. /\ At("reconcile") /\ Ready /\ SendCommand(Job) /\ Goto("delete")
        /\ UNCHANGED <<feed, order, checkpoint, intents, outcome, faults>>
    BY <1>1 DEF Dispatch
  <2>2. WorkerType'
    BY <2>1, GotoType DEF outcome, Labels
  <2>3. faults' \in 0 .. MaxFaults
    BY <2>1 DEF TypeOK
  <2> QED
    BY <2>1, <2>2, <2>3, SendType
<1>2. CASE DispatchFails
  <2>1. /\ At("reconcile") /\ Ready /\ SendCommand(Job) /\ worker' = Restarted /\ Fault
        /\ UNCHANGED <<feed, order, checkpoint, intents, outcome>>
    BY <1>2 DEF DispatchFails
  <2> QED
    BY <2>1, RestartedType, FaultBound, SendType
<1> QED
  BY <1>1, <1>2

LEMMA EnqueueIs ==
    ASSUME TypeOK, NEW d \in worker.buffer, Enqueue(d)
    PROVE  /\ WorkerType' /\ worker'.job = worker.job /\ worker'.todo = worker.todo
           /\ worker.at = "enqueue" /\ worker'.at \in {"enqueue", "delete"}
           /\ d \in decisions /\ queued' = queued \cup {d}
           /\ UNCHANGED <<feed, order, checkpoint, intents, command, decisions,
                          resolved, faults>>
<1> DEFINE l == IF worker.buffer = {d} THEN "delete" ELSE "enqueue"
<1>1. /\ worker.at = "enqueue" /\ queued' = queued \cup {d}
      /\ worker' = [worker EXCEPT !.buffer = worker.buffer \ {d}, !.at = l]
      /\ UNCHANGED <<feed, order, checkpoint, intents, command, decisions, resolved, faults>>
  BY DEF Enqueue, At
<1>2. l \in {"enqueue", "delete"}
  OBVIOUS
<1>3. worker \in [at : Labels, job : Intents \cup {None}, todo : SUBSET Intents,
                  buffer : SUBSET decisions]
  BY TypeParts DEF WorkerType
<1> HIDE DEF l
<1>4. WorkerType' /\ worker'.job = worker.job /\ worker'.todo = worker.todo /\ worker'.at = l
  BY <1>1, <1>2, <1>3 DEF WorkerType, Labels
<1> QED
  BY <1>1, <1>2, <1>3, <1>4

LEMMA EnqueueType ==
    ASSUME TypeOK, Room, NEW d \in worker.buffer, Enqueue(d)
    PROVE  TypeOK' /\ Room'
<1>1. /\ WorkerType' /\ d \in decisions /\ queued' = queued \cup {d}
      /\ UNCHANGED <<feed, order, checkpoint, intents, command, decisions, resolved, faults>>
  BY EnqueueIs
<1>2. FeedType' /\ OrderType' /\ OutcomeType' /\ faults' \in 0 .. MaxFaults
  BY <1>1, TypeParts DEF order, FeedType, OrderType, OutcomeType
<1> QED
  BY <1>1, <1>2, TypeParts, SameRoom DEF order

LEMMA WorkerFailsType ==
    ASSUME TypeOK, Room, WorkerFails
    PROVE  TypeOK' /\ Room'
<1>1. /\ Fault /\ worker' = Restarted
      /\ UNCHANGED <<feed, order, checkpoint, intents, command, outcome>>
  BY DEF WorkerFails
<1>2. FeedType' /\ OrderType' /\ OutcomeType' /\ WorkerType' /\ faults' \in 0 .. MaxFaults
  BY <1>1, TypeParts, FaultBound, RestartedType
     DEF order, outcome, FeedType, OrderType, OutcomeType
<1> QED
  BY <1>1, <1>2, TypeParts, SameRoom DEF order

------------------------------------------------------------------------------
(* The consumer of the commands.                                           *)

\* The command is closed one way or the other, and the decisions it makes are
\* its own.
LEMMA ConsumeIs ==
    ASSUME TypeOK, NEW o \in Orders, NEW v \in Versions,
           ConsumeCommand(o, v) \/ FailCommand(o, v)
    PROVE  /\ command' \in [Orders -> [Versions ->
                 [status : {"none", "pending", "processed", "error"}, blocks : SUBSET Blocks]]]
           /\ command[o][v].status # "none"
           /\ \A q \in Orders, u \in Versions :
                 command'[q][u].status = "none" <=> command[q][u].status = "none"
           /\ decisions' \subseteq Decision /\ decisions \subseteq decisions'
           /\ \A d \in decisions' \ decisions : d.order = o /\ d.version = v
           /\ UNCHANGED <<feed, order, checkpoint, intents, resolved, queued, worker>>
           /\ faults' \in 0 .. MaxFaults
<1> DEFINE S == [status : {"none", "pending", "processed", "error"}, blocks : SUBSET Blocks]
<1>1. command \in [Orders -> [Versions -> S]] /\ decisions \subseteq Decision
  BY DEF TypeOK
<1>2. ASSUME NEW s \in {"processed", "error"}, command' = [command EXCEPT ![o][v].status = s],
             command[o][v].status = "pending"
      PROVE  /\ command' \in [Orders -> [Versions -> S]]
             /\ \A q \in Orders, u \in Versions :
                   command'[q][u].status = "none" <=> command[q][u].status = "none"
  <2> DEFINE c == [command[o][v] EXCEPT !.status = s]
  <2>1. c \in S /\ c.status # "none"
    <3>1. command[o][v] \in S
      BY <1>1
    <3>2. /\ command[o][v].blocks \in SUBSET Blocks
          /\ c = [status |-> s, blocks |-> command[o][v].blocks]
      BY <3>1
    <3> HIDE DEF c
    <3>3. s \in {"none", "pending", "processed", "error"} /\ s # "none"
      OBVIOUS
    <3> QED
      BY <3>2, <3>3
  <2>2. command' = [command EXCEPT ![o][v] = c]
    BY <1>1, <1>2
  <2> HIDE DEF c, S
  <2>3. command' \in [Orders -> [Versions -> S]]
    BY <1>1, <2>1, <2>2
  <2>4. \A q \in Orders, u \in Versions :
           command'[q][u] = IF q = o /\ u = v THEN c ELSE command[q][u]
    BY <1>1, <2>2
  <2> QED
    BY <1>2, <2>1, <2>3, <2>4
<1>3. CASE ConsumeCommand(o, v)
  <2>1. /\ command[o][v].status = "pending"
        /\ command' = [command EXCEPT ![o][v].status = "processed"]
        /\ UNCHANGED <<feed, order, checkpoint, intents, resolved, queued, worker, faults>>
    BY <1>3 DEF ConsumeCommand
  <2>2. PICK healthy \in BOOLEAN :
           decisions' = decisions \cup Generated(o, v, command[o][v].blocks, healthy)
    BY <1>3 DEF ConsumeCommand
  <2>3. command[o][v].blocks \subseteq Blocks
    BY <1>1
  <2>4. \A d \in Generated(o, v, command[o][v].blocks, healthy) :
           d \in Decision /\ d.order = o /\ d.version = v
    BY <2>3 DEF Generated, Decision
  <2>5. decisions' \subseteq Decision /\ decisions \subseteq decisions'
        /\ \A d \in decisions' \ decisions : d.order = o /\ d.version = v
    BY <1>1, <2>2, <2>4
  <2>6. faults' \in 0 .. MaxFaults
    BY <2>1 DEF TypeOK
  <2> QED
    BY <1>2, <2>1, <2>5, <2>6
<1>4. CASE FailCommand(o, v)
  <2>1. /\ command[o][v].status = "pending" /\ Fault
        /\ command' = [command EXCEPT ![o][v].status = "error"]
        /\ UNCHANGED <<feed, order, checkpoint, intents, outcome, worker>>
    BY <1>4 DEF FailCommand
  <2> QED
    BY <1>1, <1>2, <2>1, FaultBound DEF outcome
<1> QED
  BY <1>3, <1>4

LEMMA ConsumeType ==
    ASSUME TypeOK, Room, NEW o \in Orders, NEW v \in Versions,
           ConsumeCommand(o, v) \/ FailCommand(o, v)
    PROVE  TypeOK' /\ Room'
<1>1. /\ UNCHANGED <<feed, order, checkpoint, intents, resolved, queued, worker>>
      /\ decisions' \subseteq Decision /\ decisions \subseteq decisions'
      /\ faults' \in 0 .. MaxFaults
  BY ConsumeIs
<1>2. OutcomeType'
  BY <1>1, ConsumeIs, TypeParts DEF OutcomeType
<1>3. FeedType' /\ OrderType'
  BY <1>1, TypeParts DEF order, FeedType, OrderType
<1>4. WorkerType'
  BY <1>1, TypeParts DEF WorkerType
<1> QED
  BY <1>1, <1>2, <1>3, <1>4, TypeParts, SameRoom DEF order

------------------------------------------------------------------------------
(* The versions, the checkpoints and the intents that are held.            *)

LEMMA InitInv == ASSUME Init PROVE Inv
<1>1. TypeOK /\ Room
  BY InitType
<1>2. NotAhead /\ NothingNewer /\ Settled
  BY DEF Init, NotAhead, NothingNewer, Settled, Held
<1>3. Commanded /\ Decided
  BY DEF Init, Commanded, Decided, NoCommand
<1>4. CheckpointIsBacked
  BY DEF Init, CheckpointIsBacked
<1> QED
  BY <1>1, <1>2, <1>3, <1>4 DEF Inv, Versioned

\* While versions and checkpoints only grow, snapshots and commands only come
\* and decisions stay, a checkpoint stays backed.
LEMMA StaysBacked ==
    ASSUME TypeOK, TypeOK', CheckpointIsBacked, checkpoint' = checkpoint,
           \A o \in Orders : version[o] <= version'[o],
           \A o \in Orders, v \in Versions : snapshot'[o][v] = None => snapshot[o][v] = None,
           decisions \subseteq decisions'
    PROVE  CheckpointIsBacked'
<1> SUFFICES ASSUME NEW o \in Orders, checkpoint'[o] > 0
             PROVE  /\ checkpoint'[o] <= version'[o]
                    /\ snapshot'[o][checkpoint'[o]] # None
                    /\ \E d \in decisions' : d.order = o /\ d.version <= checkpoint'[o]
  BY DEF CheckpointIsBacked
<1>1. /\ checkpoint[o] <= version[o] /\ snapshot[o][checkpoint[o]] # None
      /\ \E d \in decisions : d.order = o /\ d.version <= checkpoint[o]
  BY DEF CheckpointIsBacked
<1>2. /\ checkpoint[o] \in 0 .. MaxVersion /\ version[o] \in 0 .. MaxVersion
      /\ version'[o] \in 0 .. MaxVersion
  BY DEF TypeOK
<1>3. checkpoint[o] \in Versions
  BY <1>2, ConstantsAssumption DEF Versions
<1>4. checkpoint[o] <= version'[o]
  BY <1>1, <1>2, ConstantsAssumption
<1> QED
  BY <1>1, <1>3, <1>4

\* An intent that is handled stays handled.
LEMMA StaysHandled ==
    ASSUME TypeOK, TypeOK', NEW i \in Intents, Handled(i),
           \A o \in Orders : version[o] <= version'[o],
           \A o \in Orders : checkpoint[o] <= checkpoint'[o],
           \A o \in Orders, v \in Versions :
              command[o][v].status # "none" => command'[o][v].status # "none"
    PROVE  \/ i.version < version'[i.order]
           \/ i.version <= checkpoint'[i.order]
           \/ command'[i.order][i.version].status # "none"
<1>1. i.order \in Orders /\ i.version \in Versions /\ i.version \in 1 .. MaxVersion
  BY DEF Intents, Versions
<1>2. /\ version[i.order] \in 0 .. MaxVersion /\ version'[i.order] \in 0 .. MaxVersion
      /\ checkpoint[i.order] \in 0 .. MaxVersion /\ checkpoint'[i.order] \in 0 .. MaxVersion
  BY <1>1 DEF TypeOK
<1> QED
  BY <1>1, <1>2, ConstantsAssumption DEF Handled

\* What the others and the projection do: versions grow, intents come that are
\* not ahead, and a snapshot comes only while no intent is held.
LEMMA OrderStep ==
    ASSUME Inv, TypeOK', Room',
           \A o \in Orders : version[o] <= version'[o],
           \A i \in intents' \ intents : i.version <= version'[i.order],
           UNCHANGED <<checkpoint, command, decisions>>,
           \/ worker' = worker /\ snapshot' = snapshot
           \/ /\ worker'.at \in {"list", "project"} /\ worker'.todo = worker.todo
              /\ \A o \in Orders, v \in Versions :
                    snapshot'[o][v] = None => snapshot[o][v] = None
    PROVE  Inv'
<1> USE DEF Inv, Versioned
<1>1. worker'.todo = worker.todo /\ intents' \cup worker'.todo \subseteq Intents
  BY TypeParts DEF OrderType, WorkerType
<1>2. worker'.at \in Held => worker' = worker /\ snapshot' = snapshot
  BY DEF Held
<1>3. \A i \in Intents : /\ i.version \in Nat /\ i.order \in Orders
                         /\ version[i.order] \in Nat /\ version'[i.order] \in Nat
  BY ConstantsAssumption DEF TypeOK, Intents, Versions
<1>4. NotAhead'
  <2>1. ASSUME NEW i \in intents' \cup worker'.todo
        PROVE  i.version <= version'[i.order]
    <3>1. CASE i \in intents \cup worker.todo
      <4>1. i.version <= version[i.order] /\ version[i.order] <= version'[i.order]
        BY <1>1, <1>3, <3>1 DEF NotAhead
      <4> QED
        BY <1>1, <1>3, <4>1
    <3>2. CASE i \in intents' \ intents
      BY <3>2
    <3> QED
      BY <1>1, <2>1, <3>1, <3>2
  <2>2. ASSUME worker'.at \in Held
        PROVE  worker'.job \in Intents /\ worker'.job.version <= version'[worker'.job.order]
    <3>1. /\ worker'.job = worker.job /\ worker.job \in Intents
          /\ worker.job.version <= version[worker.job.order]
          /\ version[worker.job.order] <= version'[worker.job.order]
      BY <1>2, <1>3, <2>2 DEF NotAhead
    <3> QED
      BY <1>3, <3>1
  <2> QED
    BY <2>1, <2>2 DEF NotAhead
<1>5. Commanded'
  <2> SUFFICES ASSUME NEW o \in Orders, NEW v \in Versions, command'[o][v].status # "none"
               PROVE  v <= version'[o]
    BY DEF Commanded
  <2>1. v <= version[o] /\ version[o] <= version'[o]
    BY DEF Commanded
  <2>2. version[o] \in Nat /\ version'[o] \in Nat /\ v \in Nat
    BY ConstantsAssumption DEF TypeOK, Versions
  <2> QED
    BY <2>1, <2>2
<1>6. NothingNewer'
  BY <1>2 DEF NothingNewer, Held
<1>7. Decided'
  BY DEF Decided
<1>8. CheckpointIsBacked'
  BY StaysBacked
<1>9. Settled'
  <2> SUFFICES ASSUME worker'.at \in {"enqueue", "delete"}
               PROVE  Settled'
    BY DEF Settled
  <2>1. worker' = worker /\ snapshot' = snapshot /\ worker.job \in Intents
    BY <1>2 DEF Held, NotAhead
  <2>2. \A o \in Orders : checkpoint[o] <= checkpoint'[o]
    BY ConstantsAssumption DEF TypeOK
  <2>3. Handled(worker.job) =>
           \/ worker.job.version < version'[worker.job.order]
           \/ worker.job.version <= checkpoint'[worker.job.order]
           \/ command'[worker.job.order][worker.job.version].status # "none"
    BY <2>1, <2>2, StaysHandled
  <2> QED
    BY <2>1, <2>3 DEF Settled, Handled
<1> QED
  BY <1>4, <1>5, <1>6, <1>7, <1>8, <1>9

\* What the worker does to its own state, and intents that go.
LEMMA WorkerStep ==
    ASSUME Inv, TypeOK', Room',
           UNCHANGED <<version, snapshot, checkpoint, command, decisions>>,
           intents' \subseteq intents, worker'.todo \subseteq intents \cup worker.todo,
           worker'.at \in Held =>
               worker'.job \in Intents /\ worker'.job.version <= version[worker'.job.order],
           NothingNewer', Settled'
    PROVE  Inv'
<1> USE DEF Inv, Versioned
<1>1. NotAhead'
  BY DEF NotAhead
<1>2. Commanded' /\ Decided'
  BY DEF Commanded, Decided
<1>3. CheckpointIsBacked'
  BY DEF CheckpointIsBacked
<1> QED
  BY <1>1, <1>2, <1>3

\* The sweep begins again: nothing is held.
LEMMA Unheld ==
    ASSUME Inv, TypeOK', Room', worker'.at \notin Held,
           UNCHANGED <<version, snapshot, checkpoint, command, decisions>>,
           intents' \subseteq intents, worker'.todo \subseteq intents \cup worker.todo
    PROVE  Inv'
<1>1. NothingNewer' /\ Settled'
  BY DEF NothingNewer, Settled, Held
<1> QED
  BY <1>1, WorkerStep

------------------------------------------------------------------------------
(* Every step keeps the invariant.                                         *)

\* Versions and checkpoints are numbers.
LEMMA Numbers ==
    ASSUME TypeOK, NEW o \in Orders
    PROVE  version[o] \in Nat /\ checkpoint[o] \in Nat /\ version[o] <= version[o]
  BY ConstantsAssumption DEF TypeOK

LEMMA OutsideInv == ASSUME Inv, Outside PROVE Inv'
<1> USE DEF Inv
<1>1. CASE \E o \in Orders, k \in Kinds : Webhook(o, k)
  <2>1. PICK o \in Orders, k \in Kinds : Webhook(o, k)
    BY <1>1
  <2>2. TypeOK' /\ Room'
    BY <2>1, WebhookType, ConstantsAssumption
  <2>3. UNCHANGED <<version, snapshot, checkpoint, intents, command, decisions, worker>>
    BY <2>1 DEF Webhook, order, outcome
  <2> QED
    BY <2>2, <2>3, OrderStep, Numbers
<1>2. ASSUME NEW o \in Orders, CorrectAddress(o)
      PROVE  Inv'
  <2>1. TypeOK' /\ Room'
    BY <1>2, CorrectAddressType
  <2>2. /\ Known(o) /\ version' = [version EXCEPT ![o] = version[o] + 1]
        /\ intents' = intents \cup {IntentNow(o, version[o] + 1)}
        /\ UNCHANGED <<snapshot, checkpoint, command, decisions, worker>>
    BY <1>2 DEF CorrectAddress, outcome
  <2>3. \A q \in Orders : version'[q] = IF q = o THEN version[o] + 1 ELSE version[q]
    BY <2>2 DEF TypeOK
  <2>4. \A q \in Orders : version[q] <= version'[q]
    BY <2>3, Numbers
  <2>5. \A i \in intents' \ intents : i.version <= version'[i.order]
    BY <2>2, <2>3, Numbers DEF IntentNow
  <2> QED
    BY <2>1, <2>2, <2>4, <2>5, OrderStep
<1>3. ASSUME NEW o \in Orders, Stow(o)
      PROVE  Inv'
  <2>1. TypeOK' /\ Room'
    BY <1>3, StowType
  <2>2. /\ intents' = intents \cup {IntentNow(o, version[o])}
        /\ UNCHANGED <<version, snapshot, checkpoint, command, decisions, worker>>
    BY <1>3 DEF Stow, order, outcome
  <2>3. \A i \in intents' \ intents : i.version <= version'[i.order]
    BY <2>2, Numbers DEF IntentNow
  <2>4. \A q \in Orders : version[q] <= version'[q]
    BY <2>2, Numbers
  <2> QED
    BY <2>1, <2>2, <2>3, <2>4, OrderStep
<1>4. ASSUME NEW d \in decisions, Resolve(d)
      PROVE  Inv'
  <2>1. TypeOK' /\ Room'
    BY <1>4, ResolveType
  <2>2. UNCHANGED <<version, snapshot, checkpoint, intents, command, decisions, worker>>
    BY <1>4 DEF Resolve, order
  <2>3. \A q \in Orders : version[q] <= version'[q]
    BY <2>2, Numbers
  <2> QED
    BY <2>1, <2>2, <2>3, OrderStep
<1> QED
  BY <1>1, <1>2, <1>3, <1>4 DEF Outside

LEMMA ProjectInv == ASSUME Inv, Project PROVE Inv'
<1> USE DEF Inv
<1>1. ASSUME NEW o \in Orders, ProjectCreate(o)
      PROVE  Inv'
  <2> DEFINE v == IF Known(o) THEN version[o] ELSE 1
  <2>1. TypeOK' /\ Room'
    BY <1>1, ProjectCreateType
  <2>2. /\ version' = [version EXCEPT ![o] = v]
        /\ intents' = intents \cup {IntentNow(o, v)} /\ Snapshot(o, v) /\ Goto("list")
        /\ UNCHANGED <<checkpoint, command, decisions>>
    BY <1>1 DEF ProjectCreate, outcome
  <2>3. v \in Versions /\ version[o] <= v /\ v \in Nat
    BY LatestIs, ConstantsAssumption DEF Known, Versions
  <2> HIDE DEF v
  <2>4. \A q \in Orders : version'[q] = IF q = o THEN v ELSE version[q]
    BY <2>2 DEF TypeOK
  <2>5. \A q \in Orders : version[q] <= version'[q]
    BY <2>3, <2>4, Numbers
  <2>6. \A i \in intents' \ intents : i.version <= version'[i.order]
    BY <2>2, <2>3, <2>4 DEF IntentNow
  <2>7. worker'.at \in {"list", "project"} /\ worker'.todo = worker.todo
    BY <2>2, GotoType DEF Labels
  <2>8. \A q \in Orders, u \in Versions : snapshot'[q][u] = None => snapshot[q][u] = None
    BY <2>2, <2>3, SnapshotIs
  <2> QED
    BY <2>1, <2>2, <2>5, <2>6, <2>7, <2>8, OrderStep
<1>2. ASSUME NEW o \in Orders, ProjectChange(o)
      PROVE  Inv'
  <2> DEFINE v == IF Head1.kind \in Bumping THEN version[o] + 1 ELSE version[o]
  <2>1. TypeOK' /\ Room'
    BY <1>2, ProjectChangeType
  <2>2. /\ Known(o) /\ version' = [version EXCEPT ![o] = v] /\ Snapshot(o, v) /\ Goto("list")
        /\ UNCHANGED <<checkpoint, intents, command, decisions>>
    BY <1>2 DEF ProjectChange, outcome
  <2>3. version[o] <= v /\ v \in Nat /\ v > 0
    BY <2>2, Numbers DEF Known
  <2> HIDE DEF v
  <2>4. \A q \in Orders : version'[q] = IF q = o THEN v ELSE version[q]
    BY <2>2 DEF TypeOK
  <2>5. v \in Versions
    <3>1. version'[o] \in 0 .. MaxVersion
      BY <2>1 DEF TypeOK
    <3> QED
      BY <2>3, <2>4, <3>1, ConstantsAssumption DEF Versions
  <2>6. \A q \in Orders : version[q] <= version'[q]
    BY <2>3, <2>4, Numbers
  <2>7. worker'.at \in {"list", "project"} /\ worker'.todo = worker.todo
    BY <2>2, GotoType DEF Labels
  <2>8. \A q \in Orders, u \in Versions : snapshot'[q][u] = None => snapshot[q][u] = None
    BY <2>2, <2>5, SnapshotIs
  <2> QED
    BY <2>1, <2>2, <2>6, <2>7, <2>8, OrderStep
<1>3. ASSUME NEW o \in Orders, ProjectRefund(o)
      PROVE  Inv'
  <2>1. TypeOK' /\ Room'
    BY <1>3, ProjectRefundType
  <2>2. /\ version' = IF Known(o) THEN [version EXCEPT ![o] = version[o] + 1] ELSE version
        /\ Goto("list")
        /\ UNCHANGED <<snapshot, checkpoint, intents, command, decisions>>
    BY <1>3 DEF ProjectRefund, outcome
  <2>3. \A q \in Orders : version'[q] = version[q] \/ version'[q] = version[q] + 1
    BY <2>2 DEF TypeOK
  <2>4. \A q \in Orders : version[q] <= version'[q]
    BY <2>3, Numbers
  <2>5. worker'.at \in {"list", "project"} /\ worker'.todo = worker.todo
    BY <2>2, GotoType DEF Labels
  <2> QED
    BY <2>1, <2>2, <2>4, <2>5, OrderStep
<1>4. CASE QuarantineCreate \/ DeferPaid \/ ProjectIdle
  <2>1. TypeOK' /\ Room'
    <3>1. CASE DeferPaid
      BY <3>1, DeferPaidType
    <3>2. CASE ProjectIdle
      <4>1. /\ Goto("list")
            /\ UNCHANGED <<feed, order, checkpoint, intents, command, outcome, faults>>
        BY <3>2 DEF ProjectIdle
      <4> QED
        BY <4>1, PlaceType DEF Labels
    <3> QED
      BY <1>4, <3>1, <3>2, QuarantineCreateType
  <2>2. /\ Goto("list")
        /\ UNCHANGED <<version, snapshot, checkpoint, intents, command, decisions>>
    BY <1>4 DEF QuarantineCreate, DeferPaid, ProjectIdle, order, outcome
  <2>3. \A q \in Orders : version[q] <= version'[q]
    BY <2>2, Numbers
  <2>4. worker'.at \in {"list", "project"} /\ worker'.todo = worker.todo
    BY <2>2, GotoType DEF Labels
  <2> QED
    BY <2>1, <2>2, <2>3, <2>4, OrderStep
<1>5. CASE RejectUnknown
  <2>1. TypeOK' /\ Room'
    BY <1>5 DEF RejectUnknown, vars, TypeOK, Room, order, outcome
  <2>2. UNCHANGED <<version, snapshot, checkpoint, intents, command, decisions, worker>>
    BY <1>5 DEF RejectUnknown, vars
  <2>3. \A q \in Orders : version[q] <= version'[q]
    BY <2>2, Numbers
  <2> QED
    BY <2>1, <2>2, <2>3, OrderStep
<1> QED
  BY <1>1, <1>2, <1>3, <1>4, <1>5 DEF Project

\* A list of intents, an intent that goes, the end of the sweep, a crash.
LEMMA FreeInv ==
    ASSUME Inv, ListIntents \/ DeleteIntent \/ EndSweep \/ WorkerFails
    PROVE  Inv'
<1> USE DEF Inv
<1>1. CASE ListIntents
  <2>1. TypeOK' /\ Room'
    BY <1>1, ListIntentsType
  <2>2. /\ worker' = [worker EXCEPT !.at = "next", !.todo = intents]
        /\ UNCHANGED <<version, snapshot, checkpoint, intents, command, decisions>>
    BY <1>1 DEF ListIntents, order, outcome
  <2>3. worker'.at = "next" /\ worker'.todo = intents
    BY <2>2, TypeParts DEF WorkerType
  <2> QED
    BY <2>1, <2>2, <2>3, Unheld DEF Held
<1>2. CASE DeleteIntent
  <2>1. TypeOK' /\ Room'
    BY <1>2, DeleteIntentType
  <2>2. /\ Goto("next") /\ intents' \subseteq intents
        /\ UNCHANGED <<version, snapshot, checkpoint, command, decisions>>
    BY <1>2 DEF DeleteIntent, RemoveIntent, order, outcome
  <2>3. worker'.at = "next" /\ worker'.todo = worker.todo
    BY <2>2, GotoType DEF Labels
  <2> QED
    BY <2>1, <2>2, <2>3, Unheld DEF Held
<1>3. CASE EndSweep
  <2>1. /\ Goto("project")
        /\ UNCHANGED <<feed, order, checkpoint, intents, command, outcome, faults>>
    BY <1>3 DEF EndSweep
  <2>2. TypeOK' /\ Room'
    BY <2>1, PlaceType DEF Labels
  <2>3. worker'.at = "project" /\ worker'.todo = worker.todo
    BY <2>1, GotoType DEF Labels, outcome
  <2>4. UNCHANGED <<version, snapshot, checkpoint, intents, command, decisions>>
    BY <2>1 DEF order, outcome
  <2> QED
    BY <2>2, <2>3, <2>4, Unheld DEF Held
<1>4. CASE WorkerFails
  <2>1. TypeOK' /\ Room'
    BY <1>4, WorkerFailsType
  <2>2. /\ worker' = Restarted
        /\ UNCHANGED <<version, snapshot, checkpoint, intents, command, decisions>>
    BY <1>4 DEF WorkerFails, order, outcome
  <2>3. worker'.at = "project" /\ worker'.todo = {}
    BY <2>2 DEF Restarted
  <2> QED
    BY <2>1, <2>2, <2>3, Unheld DEF Held
<1> QED
  BY <1>1, <1>2, <1>3, <1>4

\* The version that is read is the order's, and nothing commanded is ahead of it.
LEMMA ReadVersionInv ==
    ASSUME Inv, NEW i \in worker.todo, ReadVersion(i)
    PROVE  Inv'
<1> USE DEF Inv, Versioned
<1>1. TypeOK' /\ Room'
  BY ReadVersionType
<1>2. /\ i \in Intents /\ worker'.job = i /\ worker'.todo = worker.todo \ {i}
      /\ \/ worker'.at = "delete" /\ i.version < version[i.order]
         \/ worker'.at = "reconcile" /\ i.version = version[i.order]
         \/ worker'.at = "next"
  BY ReadVersionIs
<1>3. UNCHANGED <<version, snapshot, checkpoint, intents, command, decisions>>
  BY ReadVersionIs DEF order, outcome
<1>4. i.version <= version[i.order] /\ i.order \in Orders
  BY <1>2 DEF NotAhead, Intents
<1>5. NothingNewer'
  BY <1>2, <1>3, <1>4 DEF NothingNewer, Commanded
<1>6. Settled'
  BY <1>2, <1>3 DEF Settled, Handled
<1> QED
  BY <1>1, <1>2, <1>3, <1>4, <1>5, <1>6, WorkerStep

LEMMA SkipInv == ASSUME Inv, SkipReconcile PROVE Inv'
<1> USE DEF Inv, Versioned
<1>1. /\ worker.at = "reconcile" /\ (Done \/ ~Ready)
      /\ Goto("delete")
      /\ UNCHANGED <<feed, order, checkpoint, intents, command, outcome, faults>>
  BY DEF SkipReconcile, At
<1>2. TypeOK' /\ Room'
  BY <1>1, PlaceType DEF Labels
<1>3. worker'.at = "delete" /\ worker'.todo = worker.todo /\ worker'.job = worker.job
  BY <1>1, GotoType DEF Labels, outcome
<1>4. UNCHANGED <<version, snapshot, checkpoint, intents, command, decisions>>
  BY <1>1 DEF order, outcome
<1>5. worker.job \in Intents /\ worker.job.version <= version[worker.job.order]
  BY <1>1 DEF NotAhead, Held
<1>6. NothingNewer'
  BY <1>3 DEF NothingNewer
<1>7. Settled'
  <2>1. \/ worker.job.version <= checkpoint[worker.job.order]
        \/ snapshot[worker.job.order][worker.job.version] = None
    <3>1. worker.job.version \in Nat /\ checkpoint[worker.job.order] \in Nat
      BY <1>5, Numbers, ConstantsAssumption DEF Intents, Versions
    <3> QED
      BY <1>1, <3>1 DEF SkipReconcile, Done, Ready, Job
  <2> QED
    BY <1>3, <1>4, <2>1 DEF Settled, Handled
<1> QED
  BY <1>2, <1>3, <1>4, <1>5, <1>6, <1>7, WorkerStep

\* The reused decisions are no newer than the intent: each has a command, and
\* no command of the order is ahead of the intent.
LEMMA ReuseInv == ASSUME Inv, Reuse PROVE Inv'
<1> USE DEF Inv, Versioned
<1>1. TypeOK' /\ Room'
  BY ReuseType
<1>2. /\ worker.at = "reconcile" /\ checkpoint[Job.order] < Job.version
      /\ snapshot[Job.order][Job.version] # None
  <2>1. worker.at = "reconcile" /\ ~Done /\ Ready
    BY DEF Reuse, At
  <2>2. Job.version \in Nat /\ checkpoint[Job.order] \in Nat
    BY <2>1, JobIs, Numbers, ConstantsAssumption DEF Held
  <2> QED
    BY <2>1, <2>2 DEF Done, Ready
<1>3. /\ worker'.at = "enqueue" /\ worker'.job = worker.job /\ worker'.todo = worker.todo
      /\ checkpoint' = [checkpoint EXCEPT ![Job.order] = Job.version]
  BY ReuseIs
<1>4. UNCHANGED <<version, snapshot, intents, command, decisions>>
  BY ReuseIs DEF order, outcome
<1>5. /\ Job \in Intents /\ Job.order \in Orders /\ Job.version \in Versions
      /\ Job.version \in Nat /\ Job.version <= version[Job.order]
  BY <1>2, JobIs, ConstantsAssumption DEF Held
<1>6. \A q \in Orders :
         checkpoint'[q] = IF q = Job.order THEN Job.version ELSE checkpoint[q]
  BY <1>3, <1>5 DEF TypeOK
<1>7. PICK d \in decisions : d.order = Job.order
  BY ReuseIs
<1>8. d.version <= Job.version
  <2>1. d.version \in Versions /\ command[Job.order][d.version].status # "none"
    BY <1>7 DEF Decided, TypeOK, Decision
  <2> QED
    BY <1>2, <2>1 DEF NothingNewer, Job
<1>9. NotAhead' /\ Commanded' /\ NothingNewer' /\ Decided'
  <2>1. NotAhead'
    BY <1>3, <1>4, <1>5 DEF NotAhead, Held, Job
  <2> QED
    BY <1>3, <1>4, <2>1 DEF Commanded, NothingNewer, Decided
<1>10. CheckpointIsBacked'
  <2> SUFFICES ASSUME NEW o \in Orders, checkpoint'[o] > 0
               PROVE  /\ checkpoint'[o] <= version'[o]
                      /\ snapshot'[o][checkpoint'[o]] # None
                      /\ \E e \in decisions' : e.order = o /\ e.version <= checkpoint'[o]
    BY DEF CheckpointIsBacked
  <2>1. CASE o = Job.order
    BY <1>2, <1>4, <1>5, <1>6, <1>7, <1>8, <2>1
  <2>2. CASE o # Job.order
    BY <1>4, <1>6, <2>2 DEF CheckpointIsBacked
  <2> QED
    BY <2>1, <2>2
<1>11. Settled'
  BY <1>3, <1>5, <1>6 DEF Settled, Handled, Job
<1> QED
  BY <1>1, <1>9, <1>10, <1>11

\* A command at the version of the intent, which is not ahead of the order.
LEMMA DispatchInv == ASSUME Inv, Dispatch \/ DispatchFails PROVE Inv'
<1> USE DEF Inv, Versioned
<1>1. TypeOK' /\ Room'
  BY DispatchType
<1>2. /\ worker.at = "reconcile" /\ Ready /\ SendCommand(Job)
      /\ UNCHANGED <<version, snapshot, checkpoint, intents, decisions>>
  BY DEF Dispatch, DispatchFails, At, order, outcome
<1>3. \/ worker'.at = "delete" /\ worker'.job = worker.job /\ worker'.todo = worker.todo
      \/ worker'.at = "project" /\ worker'.todo = {}
  <2>1. CASE Dispatch
    BY <2>1, GotoType DEF Dispatch, Labels, outcome
  <2>2. CASE DispatchFails
    BY <2>2 DEF DispatchFails, Restarted
  <2> QED
    BY <2>1, <2>2
<1>4. /\ Job \in Intents /\ Job.order \in Orders /\ Job.version \in Versions
      /\ Job.version <= version[Job.order]
  BY <1>2, JobIs DEF Held
<1>5. /\ command'[Job.order][Job.version].status # "none"
      /\ \A o \in Orders, v \in Versions :
            \/ command'[o][v] = command[o][v]
            \/ o = Job.order /\ v = Job.version /\ command'[o][v].status = "pending"
  BY <1>2, <1>4, SendCommandIs DEF Ready
<1>6. NotAhead'
  BY <1>2, <1>3, <1>4 DEF NotAhead, Held, Job
<1>7. Commanded'
  BY <1>2, <1>4, <1>5 DEF Commanded
<1>8. NothingNewer'
  BY <1>3 DEF NothingNewer
<1>9. Decided'
  <2> SUFFICES ASSUME NEW d \in decisions
               PROVE  command'[d.order][d.version].status # "none"
    BY <1>2 DEF Decided
  <2>1. /\ d.order \in Orders /\ d.version \in Versions
        /\ command[d.order][d.version].status # "none"
    BY DEF Decided, TypeOK, Decision
  <2> QED
    BY <1>5, <2>1
<1>10. CheckpointIsBacked'
  BY <1>2 DEF CheckpointIsBacked
<1>11. Settled'
  BY <1>3, <1>5 DEF Settled, Handled, Job
<1> QED
  BY <1>1, <1>6, <1>7, <1>8, <1>9, <1>10, <1>11

LEMMA EnqueueInv ==
    ASSUME Inv, NEW d \in worker.buffer, Enqueue(d)
    PROVE  Inv'
<1> USE DEF Inv, Versioned
<1>1. TypeOK' /\ Room'
  BY EnqueueType
<1>2. /\ worker.at = "enqueue" /\ worker'.at \in {"enqueue", "delete"}
      /\ worker'.job = worker.job /\ worker'.todo = worker.todo
      /\ UNCHANGED <<version, snapshot, checkpoint, intents, command, decisions>>
  BY EnqueueIs DEF order
<1>3. worker.job \in Intents /\ worker.job.version <= version[worker.job.order]
  BY <1>2 DEF NotAhead, Held
<1>4. NothingNewer'
  BY <1>2 DEF NothingNewer
<1>5. Settled'
  BY <1>2 DEF Settled, Handled
<1> QED
  BY <1>1, <1>2, <1>3, <1>4, <1>5, WorkerStep

\* The decisions that come have the command that made them.
LEMMA ConsumeInv ==
    ASSUME Inv, NEW o \in Orders, NEW v \in Versions,
           ConsumeCommand(o, v) \/ FailCommand(o, v)
    PROVE  Inv'
<1> USE DEF Inv, Versioned
<1>1. TypeOK' /\ Room'
  BY ConsumeType
<1>2. /\ command[o][v].status # "none"
      /\ \A q \in Orders, u \in Versions :
            command'[q][u].status = "none" <=> command[q][u].status = "none"
      /\ decisions \subseteq decisions'
      /\ \A d \in decisions' \ decisions : d.order = o /\ d.version = v
  BY ConsumeIs
<1>3. UNCHANGED <<version, snapshot, checkpoint, intents, worker>>
  BY ConsumeIs DEF order
<1>4. NotAhead'
  BY <1>3 DEF NotAhead
<1>5. Commanded'
  BY <1>2, <1>3 DEF Commanded
<1>6. NothingNewer'
  <2>1. worker.at = "reconcile" => worker.job.order \in Orders
    BY DEF NotAhead, Held, Intents
  <2> QED
    BY <1>2, <1>3, <2>1 DEF NothingNewer
<1>7. Decided'
  <2> SUFFICES ASSUME NEW d \in decisions'
               PROVE  command'[d.order][d.version].status # "none"
    BY DEF Decided
  <2>1. d.order \in Orders /\ d.version \in Versions
    BY <1>1 DEF TypeOK, Decision
  <2>2. command[d.order][d.version].status # "none"
    BY <1>2 DEF Decided
  <2> QED
    BY <1>2, <2>1, <2>2
<1>8. CheckpointIsBacked'
  <2>1. \A q \in Orders : version[q] <= version'[q]
    BY <1>3, Numbers
  <2> QED
    BY <1>1, <1>2, <1>3, <2>1, StaysBacked
<1>9. Settled'
  <2>1. worker.at \in {"enqueue", "delete"} =>
           worker.job.order \in Orders /\ worker.job.version \in Versions
    BY DEF NotAhead, Held, Intents
  <2> QED
    BY <1>2, <1>3, <2>1 DEF Settled, Handled
<1> QED
  BY <1>1, <1>4, <1>5, <1>6, <1>7, <1>8, <1>9

LEMMA NextInv == ASSUME Inv, [Next]_vars PROVE Inv'
<1>1. CASE Next
  <2>1. CASE Cycle
    <3>1. CASE Project
      BY <3>1, ProjectInv
    <3>2. CASE Sweep
      BY <3>2, FreeInv, ReadVersionInv, SkipInv, ReuseInv, DispatchInv, EnqueueInv DEF Sweep
    <3> QED
      BY <2>1, <3>1, <3>2 DEF Cycle
  <2> QED
    BY <1>1, <2>1, OutsideInv, FreeInv, DispatchInv, ConsumeInv DEF Next, Consume
<1>2. CASE UNCHANGED vars
  <2>1. TypeOK' /\ Room'
    BY <1>2 DEF vars, Inv, TypeOK, Room
  <2>2. Versioned' /\ CheckpointIsBacked' /\ Settled'
    BY <1>2 DEF vars, Inv, Versioned, NotAhead, Commanded, NothingNewer, Decided,
                CheckpointIsBacked, Settled, Handled
  <2> QED
    BY <2>1, <2>2 DEF Inv
<1> QED
  BY <1>1, <1>2

------------------------------------------------------------------------------
(* The theorems.                                                           *)

THEOREM AlwaysInv == Spec => []Inv
<1>1. Init => Inv
  BY InitInv
<1>2. Inv /\ [Next]_vars => Inv'
  BY NextInv
<1> QED
  BY <1>1, <1>2, PTL DEF Spec

\* Every variable has its type: versions stay within the bound that the feed
\* leaves them, and what is enqueued or resolved is a decision that exists.
THEOREM TypeCorrect == Spec => []TypeOK
<1>1. Inv => TypeOK
  BY DEF Inv
<1> QED
  BY <1>1, AlwaysInv, PTL

\* A checkpoint stands for a reconciliation that was complete, whatever moved
\* the version, or crashed, between the reads of the sweep.
THEOREM CheckpointsAreBacked == Spec => []CheckpointIsBacked
<1>1. Inv => CheckpointIsBacked
  BY DEF Inv
<1> QED
  BY <1>1, AlwaysInv, PTL

\* Only DeleteIntent removes an intent, and it holds one that is settled.
LEMMA OnlySettledGo ==
    ASSUME Inv, [Next]_vars, NEW i \in intents \ intents'
    PROVE  Handled(i) \/ snapshot[i.order][i.version] = None
<1>1. i \in intents /\ i \notin intents'
  OBVIOUS
<1>2. CASE DeleteIntent
  <2>1. worker.at = "delete" /\ i = worker.job
    BY <1>1, <1>2 DEF DeleteIntent, RemoveIntent, At
  <2> QED
    BY <2>1 DEF Inv, Settled
<1>3. CASE ~DeleteIntent
  <2>1. ~Outside
    BY <1>1 DEF Outside, Webhook, CorrectAddress, Stow, Resolve
  <2>2. ~Project
    BY <1>1 DEF Project, ProjectCreate, ProjectChange, ProjectRefund,
                QuarantineCreate, DeferPaid, RejectUnknown, ProjectIdle, vars
  <2>3. ~Sweep
    BY <1>1, <1>3 DEF Sweep, ListIntents, ReadVersion, SkipReconcile, Reuse, Dispatch,
                      Enqueue, EndSweep
  <2>4. ~WorkerFails /\ ~DispatchFails /\ ~UNCHANGED vars
    BY <1>1 DEF WorkerFails, DispatchFails, vars
  <2>5. \A o \in Orders, v \in Versions : ~ConsumeCommand(o, v) /\ ~FailCommand(o, v)
    BY <1>1 DEF ConsumeCommand, FailCommand
  <2> QED
    BY <2>1, <2>2, <2>3, <2>4, <2>5 DEF Next, Cycle, Consume
<1> QED
  BY <1>2, <1>3

\* An intent whose projection exists goes only when it was reconciled or the
\* order has moved on, whatever crashes between the sweep's transactions.
THEOREM IntentsAreHandled == Spec => NoIntentDropped
<1>1. Inv /\ [Next]_vars =>
         [\A i \in intents \ intents' :
             Handled(i) \/ snapshot[i.order][i.version] = None]_vars
  BY OnlySettledGo
<1> QED
  BY <1>1, AlwaysInv, PTL DEF Spec, NoIntentDropped

==============================================================================
