-------------------------- MODULE ShopifySyncProofs --------------------------
(***************************************************************************)
(* Proofs about ShopifySync, for any number of processes, intents,         *)
(* generations and failures.  The inductive invariant adds to the types    *)
(* that a cycle at work has its start recorded, that nobody at work holds  *)
(* the generation under which the store is being connected again, and that *)
(* who holds the present generation works on an intent that no             *)
(* reconnection has superseded.                                            *)
(***************************************************************************)
EXTENDS ShopifySync, TLAPS

\* A cycle at work has its start recorded.
Recorded == \A w \in Workers : wpc[w] \in Started => msg[w] \in started

\* The deliveries that have been given an authority.
Resolved == {"claim"} \cup Started

\* The fence of a reconnection has outdated everybody.
Fenced == reconnect # "none" =>
    \A w \in Workers : wpc[w] \in Resolved => auth[w] # generation

\* Who works under the present generation is not superseded.
Current ==
    \A w \in Workers : wpc[w] \in Started /\ auth[w] = generation =>
        \A i \in DOMAIN intents : intents[i] = "reconnect" => i <= msg[w]

Inv == TypeOK /\ Recorded /\ OneCyclePerIntent /\ Fenced /\ Current

------------------------------------------------------------------------------
(* Where things are.                                                       *)

\* None is no intent of the log.
LEMMA NoneIsNoIntent == ASSUME TypeOK PROVE None \notin 1 .. Latest
  BY SyncAssumption DEF TypeOK, Ids

\* An appended intent is the new latest one; the others keep their places.
LEMMA Appended ==
    ASSUME TypeOK, NEW source \in Sources, Record(source)
    PROVE  /\ intents' \in Seq(Sources) /\ Latest' = Latest + 1 /\ Latest' \in Ids
           /\ intents'[Latest'] = source
           /\ \A i \in 1 .. Latest : intents'[i] = intents[i]
  BY SyncAssumption DEF TypeOK, Record, Latest, Ids

\* A fault stays within its bound.
LEMMA FaultBound == ASSUME TypeOK, Fault PROVE faults' \in 0 .. MaxFaults
  BY SyncAssumption DEF TypeOK, Fault

------------------------------------------------------------------------------
(* Types.                                                                  *)

LEMMA InitType == Init => TypeOK
  BY SyncAssumption
  DEF Init, TypeOK, Status, Syncing, Latest, Ids, Sources, Labels, Started, Phases, Target

\* The number of copies of the message of one intent changes.
LEMMA QueueMoves ==
    ASSUME TypeOK, NEW i \in 1 .. Latest, NEW n \in Nat, queue' = [queue EXCEPT ![i] = n]
    PROVE  queue' \in [Ids -> Nat] /\ \A j \in Ids : queue'[j] > 0 => j <= Latest
<1>1. i \in Ids /\ i <= Latest
  BY SyncAssumption DEF TypeOK, Ids
<1>2. queue \in [Ids -> Nat] /\ \A j \in Ids : queue[j] > 0 => j <= Latest
  BY DEF TypeOK
<1> QED
  BY <1>1, <1>2

\* The dispatcher touches rows, messages and faults.
LEMMA DispatchType ==
    ASSUME TypeOK, NEW d \in Dispatchers, Dispatch(d) \/ Interrupt(d) PROVE TypeOK'
<1>1. None \notin 1 .. Latest
  BY NoneIsNoIntent
<1>2. CASE ClaimRow(d)
  <2>1. PICK i \in 1 .. Latest : /\ claimed' = claimed \cup {i}
                                 /\ row' = [row EXCEPT ![d] = i]
    <3>1. Latest \in 1 .. Latest
      BY SyncAssumption DEF TypeOK, Ids
    <3> QED
      BY <1>2, <3>1 DEF ClaimRow, Dispatchable
  <2>2. dpc' \in [Dispatchers -> {"idle", "publish", "mark", "refused"}]
    BY <1>2 DEF ClaimRow, TypeOK
  <2>3. row' \in [Dispatchers -> 1 .. Latest \cup {None}] /\ claimed' \subseteq 1 .. Latest
    BY <2>1 DEF TypeOK
  <2>4. \A e \in Dispatchers : dpc'[e] = "idle" <=> row'[e] = None
    BY <1>1, <1>2, <2>1 DEF ClaimRow, TypeOK
  <2> QED
    BY <1>2, <2>2, <2>3, <2>4 DEF ClaimRow, TypeOK, Latest, credential, work
<1>3. CASE Publish(d)
  <2>1. row[d] \in 1 .. Latest /\ row[d] \in Ids
    BY <1>1, <1>3, SyncAssumption DEF Publish, TypeOK, Latest, Ids
  <2>2. queue' \in [Ids -> Nat] /\ \A i \in Ids : queue'[i] > 0 => i <= Latest
    <3>1. queue[row[d]] + 1 \in Nat
      BY <2>1 DEF TypeOK
    <3>2. queue' = queue \/ queue' = [queue EXCEPT ![row[d]] = queue[row[d]] + 1]
      BY <1>3 DEF Publish
    <3>3. CASE queue' = queue
      BY <3>3 DEF TypeOK
    <3> QED
      BY <2>1, <3>1, <3>2, <3>3, QueueMoves
  <2>3. faults' \in 0 .. MaxFaults
    BY <1>3, FaultBound DEF Publish, NoFault, TypeOK
  <2> QED
    BY <1>1, <1>3, <2>1, <2>2, <2>3
    DEF Publish, TypeOK, Latest, outbox, credential, work
<1>4. CASE Settle(d)
  BY <1>1, <1>4 DEF Settle, TypeOK, Latest, credential, work
<1>5. CASE Interrupt(d)
  BY <1>1, <1>5, FaultBound DEF Interrupt, TypeOK, Latest, outbox, credential, work
<1> QED
  BY <1>2, <1>3, <1>4, <1>5 DEF Dispatch

\* A delivery that goes on keeps its intent.
LEMMA GoesOn ==
    ASSUME TypeOK, NEW w \in Workers, NEW label \in Labels \ {"idle"},
           wpc[w] # "idle", GoTo(w, label), msg' = msg, intents' = intents
    PROVE  /\ wpc' \in [Workers -> Labels]
           /\ msg' \in [Workers -> 1 .. Latest' \cup {None}]
           /\ \A v \in Workers : wpc'[v] = "idle" <=> msg'[v] = None
  BY DEF TypeOK, GoTo, Latest

\* A delivery that is gone has none.
LEMMA IsGone ==
    ASSUME TypeOK, NEW w \in Workers, Drop(w), intents' = intents
    PROVE  /\ wpc' \in [Workers -> Labels]
           /\ msg' \in [Workers -> 1 .. Latest' \cup {None}]
           /\ \A v \in Workers : wpc'[v] = "idle" <=> msg'[v] = None
           /\ auth' = auth
  BY DEF TypeOK, Drop, GoTo, Latest, Labels

\* Everybody who is not idle has an intent of the log.
LEMMA HasIntent ==
    ASSUME TypeOK, NEW w \in Workers, wpc[w] # "idle"
    PROVE  msg[w] \in 1 .. Latest /\ msg[w] \in Ids
  BY SyncAssumption DEF TypeOK, Latest, Ids

\* The rest of the state, when only the status, the starts, messages, faults
\* and the delivery change.
LEMMA WorkFrame ==
    ASSUME TypeOK, sync' \in Status, started' \subseteq 1 .. Latest, queue' \in [Ids -> Nat],
           \A i \in Ids : queue'[i] > 0 => i <= Latest,
           faults' \in 0 .. MaxFaults, wpc' \in [Workers -> Labels],
           msg' \in [Workers -> 1 .. Latest' \cup {None}],
           \A v \in Workers : wpc'[v] = "idle" <=> msg'[v] = None,
           auth' \in [Workers -> 0 .. generation],
           UNCHANGED <<intents, outbox, credential, dispatch>>
    PROVE  TypeOK'
  BY DEF TypeOK, Latest, outbox, credential, dispatch

\* FAILED is a status, and a fault stays within its bound.
LEMMA FailedWrite ==
    ASSUME TypeOK, WriteFailed PROVE sync' \in Status /\ faults' \in 0 .. MaxFaults
  BY FaultBound DEF TypeOK, WriteFailed, NoFault, Status

LEMMA WorkType ==
    ASSUME TypeOK, NEW w \in Workers, Work(w) \/ Crash(w) PROVE TypeOK'
<1> USE DEF NoFault
<1>0. /\ sync \in Status /\ started \subseteq 1 .. Latest /\ queue \in [Ids -> Nat]
      /\ \A i \in Ids : queue[i] > 0 => i <= Latest
      /\ faults \in 0 .. MaxFaults /\ auth \in [Workers -> 0 .. generation]
      /\ generation \in 0 .. MaxGeneration
  BY DEF TypeOK
<1>1. CASE Deliver(w)
  <2>1. PICK i \in Ids : /\ queue[i] > 0 /\ queue' = [queue EXCEPT ![i] = @ - 1]
                         /\ msg' = [msg EXCEPT ![w] = i]
    BY <1>1 DEF Deliver
  <2>2. i \in 1 .. Latest /\ queue[i] \in Nat
    BY <1>0, <2>1 DEF Ids, TypeOK, Latest
  <2>3. queue' \in [Ids -> Nat] /\ \A j \in Ids : queue'[j] > 0 => j <= Latest
    <3>1. queue' = [queue EXCEPT ![i] = queue[i] - 1] /\ queue[i] - 1 \in Nat
      BY <2>1, <2>2
    <3> QED
      BY <2>2, <3>1, QueueMoves
  <2>4. /\ wpc' \in [Workers -> Labels]
        /\ msg' \in [Workers -> 1 .. Latest' \cup {None}]
        /\ \A v \in Workers : wpc'[v] = "idle" <=> msg'[v] = None
    BY <1>1, <2>1, <2>2, NoneIsNoIntent DEF Deliver, GoTo, TypeOK, Latest, Labels
  <2> QED
    BY <1>0, <1>1, <2>3, <2>4, WorkFrame DEF Deliver
<1>2. CASE Resolve(w)
  <2>1. faults' \in 0 .. MaxFaults
    BY <1>0, <1>2, FaultBound DEF Resolve
  <2>2. CASE Drop(w)
    BY <1>0, <1>2, <2>1, <2>2, IsGone, WorkFrame DEF Resolve
  <2>3. CASE GoTo(w, "claim") /\ auth' = [auth EXCEPT ![w] = generation] /\ UNCHANGED msg
    <3>1. auth' \in [Workers -> 0 .. generation]
      BY <1>0, <2>3
    <3>2. "claim" \in Labels \ {"idle"} /\ wpc[w] # "idle" /\ intents' = intents
      BY <1>2 DEF Labels, Resolve
    <3>3. /\ wpc' \in [Workers -> Labels]
          /\ msg' \in [Workers -> 1 .. Latest' \cup {None}]
          /\ \A v \in Workers : wpc'[v] = "idle" <=> msg'[v] = None
      BY <2>3, <3>2, GoesOn
    <3> QED
      BY <1>0, <1>2, <2>1, <3>1, <3>3, WorkFrame DEF Resolve
  <2> QED
    BY <1>2, <2>2, <2>3 DEF Resolve
<1>3. CASE Claim(w)
  <2>0. wpc[w] # "idle" /\ intents' = intents
    BY <1>3 DEF Claim
  <2>1. faults' \in 0 .. MaxFaults /\ sync' \in Status /\ started' \subseteq 1 .. Latest
    <3>1. msg[w] \in 1 .. Latest
      BY <2>0, HasIntent
    <3>2. faults' \in 0 .. MaxFaults
      BY <1>0, <1>3, FaultBound DEF Claim
    <3> QED
      BY <1>0, <1>3, <3>1, <3>2 DEF Claim, Status, Syncing
  <2>2. CASE Drop(w)
    BY <1>0, <1>3, <2>0, <2>1, <2>2, IsGone, WorkFrame DEF Claim
  <2>3. CASE GoTo(w, "guard") /\ UNCHANGED <<msg, auth>>
    <3>1. "guard" \in Labels \ {"idle"}
      BY DEF Labels, Started
    <3>2. /\ wpc' \in [Workers -> Labels]
          /\ msg' \in [Workers -> 1 .. Latest' \cup {None}]
          /\ \A v \in Workers : wpc'[v] = "idle" <=> msg'[v] = None
      BY <2>0, <2>3, <3>1, GoesOn
    <3> QED
      BY <1>0, <1>3, <2>1, <2>3, <3>2, WorkFrame DEF Claim
  <2> QED
    BY <1>3, <2>2, <2>3 DEF Claim
<1>4. CASE Guard(w)
  <2>0. faults' \in 0 .. MaxFaults
    BY <1>0, <1>4, FaultBound DEF Guard
  <2>1. CASE Drop(w)
    BY <1>0, <1>4, <2>0, <2>1, IsGone, WorkFrame DEF Guard
  <2>2. ASSUME NEW label \in {"enter", "report"}, GoTo(w, label), UNCHANGED <<msg, auth>>
        PROVE  TypeOK'
    <3>1. label \in Labels \ {"idle"} /\ wpc[w] # "idle" /\ intents' = intents
      BY <1>4 DEF Labels, Started, Phases, Target, Guard
    <3>2. /\ wpc' \in [Workers -> Labels]
          /\ msg' \in [Workers -> 1 .. Latest' \cup {None}]
          /\ \A v \in Workers : wpc'[v] = "idle" <=> msg'[v] = None
      BY <2>2, <3>1, GoesOn
    <3> QED
      BY <1>0, <1>4, <2>0, <2>2, <3>2, WorkFrame DEF Guard
  <2> QED
    BY <1>4, <2>1, <2>2 DEF Guard
<1>5. CASE Progress(w)
  <2>1. wpc[w] \in {"enter", "catalog", "orders", "complete"} /\ intents' = intents
    BY <1>5 DEF Progress, Phases, Target
  <2>2. sync' \in Status
    BY <1>5, <2>1 DEF Progress, Target, Status, Syncing
  <2>3. CASE wpc[w] = "complete"
    <3>1. Drop(w)
      BY <1>5, <2>3 DEF Progress, Drop, GoTo, After
    <3> QED
      BY <1>0, <1>5, <2>1, <2>2, <3>1, IsGone, WorkFrame DEF Progress
  <2>4. CASE wpc[w] # "complete"
    <3>1. PICK label \in {"catalog", "orders", "complete"} : GoTo(w, label)
      BY <1>5, <2>1, <2>4 DEF Progress, After
    <3>2. label \in Labels \ {"idle"} /\ wpc[w] # "idle" /\ msg' = msg
      BY <1>5, <2>1, <2>4 DEF Labels, Started, Phases, Target, Progress
    <3>3. /\ wpc' \in [Workers -> Labels]
          /\ msg' \in [Workers -> 1 .. Latest' \cup {None}]
          /\ \A v \in Workers : wpc'[v] = "idle" <=> msg'[v] = None
      BY <2>1, <3>1, <3>2, GoesOn
    <3> QED
      BY <1>0, <1>5, <2>1, <2>2, <3>3, WorkFrame DEF Progress
  <2> QED
    BY <2>3, <2>4
<1>6. CASE Break(w)
  <2>1. "fail" \in Labels \ {"idle"} /\ wpc[w] # "idle" /\ intents' = intents
    BY <1>6 DEF Labels, Started, Phases, Target, Break
  <2>2. /\ wpc' \in [Workers -> Labels]
        /\ msg' \in [Workers -> 1 .. Latest' \cup {None}]
        /\ \A v \in Workers : wpc'[v] = "idle" <=> msg'[v] = None
    BY <1>6, <2>1, GoesOn DEF Break
  <2> QED
    BY <1>0, <1>6, <2>2, WorkFrame DEF Break
<1>7. CASE Fail(w)
  <2>1. "report" \in Labels \ {"idle"} /\ wpc[w] # "idle" /\ intents' = intents
    BY <1>7 DEF Labels, Started, Fail
  <2>2. /\ wpc' \in [Workers -> Labels]
        /\ msg' \in [Workers -> 1 .. Latest' \cup {None}]
        /\ \A v \in Workers : wpc'[v] = "idle" <=> msg'[v] = None
    BY <1>7, <2>1, GoesOn DEF Fail
  <2>3. sync' \in Status /\ faults' \in 0 .. MaxFaults
    BY <1>7, FailedWrite DEF Fail
  <2> QED
    BY <1>0, <1>7, <2>2, <2>3, WorkFrame DEF Fail
<1>8. CASE Report(w)
  <2>1. sync' \in Status /\ faults' \in 0 .. MaxFaults
    BY <1>8, FailedWrite DEF Report
  <2> QED
    BY <1>0, <1>8, <2>1, IsGone, WorkFrame DEF Report
<1>9. CASE Discard(w)
  BY <1>0, <1>9, IsGone, WorkFrame DEF Discard
<1>10. CASE Crash(w)
  <2>1. msg[w] \in 1 .. Latest /\ msg[w] \in Ids
    BY <1>10, HasIntent DEF Crash
  <2>2. queue' \in [Ids -> Nat] /\ \A j \in Ids : queue'[j] > 0 => j <= Latest
    <3>1. queue' = [queue EXCEPT ![msg[w]] = queue[msg[w]] + 1] /\ queue[msg[w]] + 1 \in Nat
      BY <1>0, <1>10, <2>1 DEF Crash
    <3> QED
      BY <2>1, <3>1, QueueMoves
  <2>3. faults' \in 0 .. MaxFaults
    BY <1>10, FaultBound DEF Crash
  <2> QED
    BY <1>0, <1>10, <2>2, <2>3, IsGone, WorkFrame DEF Crash
<1> QED
  BY <1>1, <1>2, <1>3, <1>4, <1>5, <1>6, <1>7, <1>8, <1>9, <1>10 DEF Work

\* The merchant and the credential append intents and advance the generation.
LEMMA OutsideType == ASSUME TypeOK, Outside PROVE TypeOK'
<1>1. CASE Request
  <2>1. "recovery" \in Sources /\ Record("recovery")
    BY <1>1 DEF Request, Sources
  <2>2. intents' \in Seq(Sources) /\ Latest' = Latest + 1 /\ Latest' \in Ids
    BY <2>1, Appended
  <2> QED
    BY <1>1, <2>2 DEF Request, TypeOK, Ids, Latest, outbox, credential, dispatch, work
<1>2. CASE Reconnect
  <2>1. "reconnect" \in Sources /\ Record("reconnect")
    BY <1>2 DEF Reconnect, Sources
  <2>2. intents' \in Seq(Sources) /\ Latest' = Latest + 1 /\ Latest' \in Ids
    BY <2>1, Appended
  <2> QED
    BY <1>2, <2>2 DEF Reconnect, TypeOK, Ids, Latest, outbox, dispatch, work, Status
<1>3. CASE Rotate
  BY <1>3, SyncAssumption DEF Rotate, Advance, TypeOK, Latest, outbox, dispatch, work
<1>4. CASE Revoke
  <2>1. active' = FALSE /\ reconnect' = "none"
    BY <1>4 DEF Revoke
  <2>2. generation' = generation + 1 /\ generation < MaxGeneration
    BY <1>4 DEF Revoke, Advance
  <2>3. generation' \in 0 .. MaxGeneration /\ auth \in [Workers -> 0 .. generation']
    BY <2>2, SyncAssumption DEF TypeOK
  <2> QED
    BY <1>4, <2>1, <2>3 DEF Revoke, TypeOK, Latest, outbox, dispatch, work
<1>5. CASE Fence
  <2>1. reconnect' \in {"none", "active", "reauth"}
    BY <1>5 DEF Fence
  <2>2. active' = FALSE /\ generation' = generation + 1 /\ generation < MaxGeneration
    BY <1>5 DEF Fence, Advance
  <2>3. generation' \in 0 .. MaxGeneration /\ auth \in [Workers -> 0 .. generation']
    BY <2>2, SyncAssumption DEF TypeOK
  <2>4. active' \in BOOLEAN /\ (reconnect' # "none" => ~active')
    BY <2>2
  <2> QED
    BY <1>5, <2>1, <2>3, <2>4 DEF Fence, TypeOK, Latest, outbox, dispatch, work
<1>6. CASE GiveUp
  BY <1>6 DEF GiveUp, TypeOK, Latest, outbox, dispatch, work
<1> QED
  BY <1>1, <1>2, <1>3, <1>4, <1>5, <1>6 DEF Outside

LEMMA StutterType == ASSUME TypeOK, UNCHANGED vars PROVE TypeOK'
  BY DEF TypeOK, vars, Latest, outbox, credential, dispatch, work

LEMMA TypeStep == ASSUME TypeOK, [Next]_vars PROVE TypeOK'
  BY DispatchType, WorkType, OutsideType, StutterType DEF Next

\* Types: rows, messages and deliveries name intents of the log, and nobody
\* holds the lease of a reconnection while the credential is in use.
THEOREM TypeCorrect == Spec => []TypeOK
<1>1. Init => TypeOK
  BY InitType
<1>2. TypeOK /\ [Next]_vars => TypeOK'
  BY TypeStep
<1> QED
  BY <1>1, <1>2, PTL DEF Spec

------------------------------------------------------------------------------
(* The rest of the invariant.                                              *)

\* Nobody is at work at first.
LEMMA InitInv == Init => Inv
<1> SUFFICES ASSUME Init PROVE Inv
  OBVIOUS
<1>1. TypeOK
  BY InitType
<1>2. \A w \in Workers : wpc[w] \notin Resolved /\ wpc[w] \notin Started
  BY DEF Init, Resolved, Started, Phases, Target
<1>3. reconnect = "none"
  BY DEF Init
<1> QED
  BY <1>1, <1>2, <1>3 DEF Inv, Recorded, OneCyclePerIntent, Fenced, Current

\* Steps that leave everybody's intent and authority, and the log, as they are.
LEMMA WorkUntouched ==
    ASSUME Inv, TypeOK', UNCHANGED <<intents, started, credential, work>>
    PROVE  Inv'
  BY DEF Inv, Recorded, OneCyclePerIntent, Fenced, Current, credential, work

\* The steps of one delivery that start no cycle: it goes nearer to its end,
\* with the intent and the authority it has, or takes an intent or an
\* authority before there is any cycle.
LEMMA WorkGoesOn ==
    ASSUME Inv, TypeOK', NEW w \in Workers, started' = started,
           UNCHANGED <<intents, credential>>,
           \A v \in Workers \ {w} : wpc'[v] = wpc[v] /\ msg'[v] = msg[v] /\ auth'[v] = auth[v],
           \/ wpc'[w] \notin Resolved
           \/ /\ wpc[w] \in Started /\ wpc'[w] \in Started
              /\ msg'[w] = msg[w] /\ auth'[w] = auth[w]
           \/ wpc'[w] = "claim" /\ active
    PROVE  Inv'
<1>1. "claim" \notin Started /\ Started \subseteq Resolved
  BY DEF Started, Resolved, Phases, Target
<1>2. \A v \in Workers : wpc'[v] \in Started =>
          wpc[v] \in Started /\ msg'[v] = msg[v] /\ auth'[v] = auth[v]
  BY <1>1
<1>3. Recorded'
  BY <1>2 DEF Inv, Recorded
<1>4. OneCyclePerIntent'
  BY <1>2 DEF Inv, OneCyclePerIntent
<1>5. Fenced'
  <2> SUFFICES ASSUME reconnect' # "none", NEW v \in Workers, wpc'[v] \in Resolved
               PROVE  auth'[v] # generation'
    BY DEF Fenced
  <2>1. reconnect # "none" /\ ~active /\ generation' = generation
    BY DEF credential, Inv, TypeOK
  <2>2. wpc[v] \in Resolved /\ auth'[v] = auth[v]
    BY <1>1, <2>1 DEF Resolved
  <2> QED
    BY <2>1, <2>2 DEF Inv, Fenced
<1>6. Current'
  BY <1>2 DEF Inv, Current, credential
<1> QED
  BY <1>3, <1>4, <1>5, <1>6 DEF Inv

\* The step that starts a cycle: the intent is the latest and has started none.
LEMMA ClaimStarts ==
    ASSUME Inv, TypeOK', NEW w \in Workers, wpc[w] = "claim", Startable(msg[w]),
           started' = started \cup {msg[w]}, GoTo(w, "guard"),
           UNCHANGED <<intents, credential, msg, auth>>
    PROVE  Inv'
<1>1. msg[w] = Latest /\ msg[w] \notin started
  BY DEF Startable, Unconsumed
<1>2. wpc'[w] = "guard" /\ \A v \in Workers \ {w} : wpc'[v] = wpc[v]
  BY DEF GoTo, Inv, TypeOK
<1>3. "claim" \in Resolved /\ Started \subseteq Resolved
  BY DEF Resolved
<1>4. \A v \in Workers \ {w} : wpc[v] \in Started => msg[v] # msg[w]
  BY <1>1 DEF Inv, Recorded
<1>5. Recorded'
  BY <1>2 DEF Inv, Recorded
<1>6. OneCyclePerIntent'
  BY <1>2, <1>4 DEF Inv, OneCyclePerIntent
<1>7. Fenced'
  BY <1>2, <1>3 DEF Inv, Fenced, credential
<1>8. Current'
  <2>1. \A i \in DOMAIN intents : i <= msg[w]
    BY <1>1 DEF Inv, TypeOK, Latest
  <2> QED
    BY <1>2, <2>1 DEF Inv, Current, credential
<1> QED
  BY <1>5, <1>6, <1>7, <1>8 DEF Inv

\* What Drop does to the others and to the one that is gone.
LEMMA DropGoesOn ==
    ASSUME Inv, TypeOK', NEW w \in Workers, Drop(w), started' = started,
           UNCHANGED <<intents, credential>>
    PROVE  Inv'
<1>1. wpc'[w] = "idle" /\ "idle" \notin Resolved
  BY DEF Drop, GoTo, Inv, TypeOK, Resolved, Started, Phases, Target
<1>2. \A v \in Workers \ {w} : wpc'[v] = wpc[v] /\ msg'[v] = msg[v] /\ auth'[v] = auth[v]
  BY DEF Drop, GoTo, Inv, TypeOK
<1> QED
  BY <1>1, <1>2, WorkGoesOn

\* A cycle at work that goes on with what it has.
LEMMA CycleGoesOn ==
    ASSUME Inv, TypeOK', NEW w \in Workers, NEW label \in Started, wpc[w] \in Started,
           GoTo(w, label), started' = started, UNCHANGED <<intents, credential, msg, auth>>
    PROVE  Inv'
<1>1. wpc'[w] = label
  BY DEF GoTo, Inv, TypeOK
<1>2. \A v \in Workers \ {w} : wpc'[v] = wpc[v] /\ msg'[v] = msg[v] /\ auth'[v] = auth[v]
  BY DEF GoTo, Inv, TypeOK
<1> QED
  BY <1>1, <1>2, WorkGoesOn

LEMMA WorkInv ==
    ASSUME Inv, TypeOK', NEW w \in Workers, Work(w) \/ Crash(w) PROVE Inv'
<1>1. CASE Deliver(w)
  <2>1. wpc'[w] = "resolve" /\ "resolve" \notin Resolved
    BY <1>1 DEF Deliver, GoTo, Inv, TypeOK, Resolved, Started, Phases, Target
  <2>2. \A v \in Workers \ {w} : wpc'[v] = wpc[v] /\ msg'[v] = msg[v] /\ auth'[v] = auth[v]
    BY <1>1 DEF Deliver, GoTo, Inv, TypeOK
  <2> QED
    BY <1>1, <2>1, <2>2, WorkGoesOn DEF Deliver
<1>2. CASE Resolve(w)
  <2>1. CASE Drop(w)
    BY <1>2, <2>1, DropGoesOn DEF Resolve
  <2>2. CASE active /\ GoTo(w, "claim") /\ auth' = [auth EXCEPT ![w] = generation] /\ UNCHANGED msg
    <3>1. wpc'[w] = "claim"
      BY <2>2 DEF GoTo, Inv, TypeOK
    <3>2. \A v \in Workers \ {w} : wpc'[v] = wpc[v] /\ msg'[v] = msg[v] /\ auth'[v] = auth[v]
      BY <2>2 DEF GoTo, Inv, TypeOK
    <3> QED
      BY <1>2, <2>2, <3>1, <3>2, WorkGoesOn DEF Resolve
  <2> QED
    BY <1>2, <2>1, <2>2 DEF Resolve
<1>3. CASE Claim(w)
  <2>1. CASE Drop(w) /\ started' = started
    BY <1>3, <2>1, DropGoesOn DEF Claim
  <2>2. CASE /\ Startable(msg[w]) /\ started' = started \cup {msg[w]}
             /\ GoTo(w, "guard") /\ UNCHANGED <<msg, auth>>
    BY <1>3, <2>2, ClaimStarts DEF Claim
  <2> QED
    BY <1>3, <2>1, <2>2 DEF Claim
<1>4. CASE Guard(w)
  <2>1. CASE Drop(w)
    BY <1>4, <2>1, DropGoesOn DEF Guard
  <2>2. ASSUME NEW label \in {"enter", "report"}, GoTo(w, label), UNCHANGED <<msg, auth>>
        PROVE  Inv'
    <3>1. wpc[w] \in Started /\ label \in Started
      BY <1>4 DEF Guard, Started, Phases, Target
    <3> QED
      BY <1>4, <2>2, <3>1, CycleGoesOn DEF Guard
  <2> QED
    BY <1>4, <2>1, <2>2 DEF Guard
<1>5. CASE Progress(w)
  <2>1. wpc[w] \in {"enter", "catalog", "orders", "complete"} /\ wpc[w] \in Started
    BY <1>5 DEF Progress, Phases, Target, Started
  <2>2. CASE wpc[w] = "complete"
    <3>1. Drop(w)
      BY <1>5, <2>2 DEF Progress, Drop, GoTo, After
    <3> QED
      BY <1>5, <3>1, DropGoesOn DEF Progress
  <2>3. CASE wpc[w] # "complete"
    <3>1. PICK label \in {"catalog", "orders", "complete"} : GoTo(w, label)
      BY <1>5, <2>1, <2>3 DEF Progress, After
    <3>2. label \in Started /\ msg' = msg
      BY <1>5, <2>3 DEF Started, Phases, Target, Progress
    <3> QED
      BY <1>5, <2>1, <3>1, <3>2, CycleGoesOn DEF Progress
  <2> QED
    BY <2>2, <2>3
<1>6. CASE Break(w)
  <2>1. wpc[w] \in Started /\ "fail" \in Started
    BY <1>6 DEF Break, Started
  <2> QED
    BY <1>6, <2>1, CycleGoesOn DEF Break
<1>7. CASE Fail(w)
  <2>1. wpc[w] \in Started /\ "report" \in Started
    BY <1>7 DEF Fail, Started
  <2> QED
    BY <1>7, <2>1, CycleGoesOn DEF Fail
<1>8. CASE Report(w)
  BY <1>8, DropGoesOn DEF Report
<1>9. CASE Discard(w)
  BY <1>9, DropGoesOn DEF Discard
<1>10. CASE Crash(w)
  BY <1>10, DropGoesOn DEF Crash
<1> QED
  BY <1>1, <1>2, <1>3, <1>4, <1>5, <1>6, <1>7, <1>8, <1>9, <1>10 DEF Work

\* A higher generation outdates everybody at once.
LEMMA GenerationAdvances ==
    ASSUME Inv, TypeOK', Advance, UNCHANGED <<intents, started, work>> PROVE Inv'
<1>1. \A w \in Workers : auth'[w] # generation'
  BY SyncAssumption DEF Advance, Inv, TypeOK, work
<1>2. Fenced' /\ Current'
  BY <1>1 DEF Fenced, Current
<1> QED
  BY <1>2 DEF Inv, Recorded, OneCyclePerIntent, work

LEMMA OutsideInv == ASSUME Inv, TypeOK', Outside PROVE Inv'
<1>0. TypeOK
  BY DEF Inv
<1>1. CASE Request
  <2>1. "recovery" \in Sources /\ Record("recovery")
    BY <1>1 DEF Request, Sources
  <2>2. /\ intents' \in Seq(Sources) /\ Latest' = Latest + 1 /\ intents'[Latest'] = "recovery"
        /\ \A i \in 1 .. Latest : intents'[i] = intents[i]
    BY <1>0, <2>1, Appended
  <2>3. \A i \in DOMAIN intents' : intents'[i] = "reconnect" => i \in DOMAIN intents /\ intents[i] = "reconnect"
    <3>1. DOMAIN intents = 1 .. Latest /\ DOMAIN intents' = 1 .. Latest' /\ Latest \in Nat
      BY <1>0, <2>2 DEF TypeOK, Latest
    <3> SUFFICES ASSUME NEW i \in DOMAIN intents', intents'[i] = "reconnect"
                 PROVE  i \in DOMAIN intents /\ intents[i] = "reconnect"
      OBVIOUS
    <3>2. i \in 1 .. Latest
      <4>1. i # Latest' /\ i \in 1 .. Latest'
        BY <2>2, <3>1
      <4> QED
        BY <2>2, <3>1, <4>1
    <3> QED
      BY <2>2, <3>1, <3>2
  <2>4. Current'
    BY <1>1, <2>3 DEF Inv, Current, Request, work, credential
  <2> QED
    BY <1>1, <2>4 DEF Inv, Recorded, OneCyclePerIntent, Fenced, Request, work, credential
<1>2. CASE Reconnect
  <2>1. \A w \in Workers : wpc'[w] \in Started => auth'[w] # generation'
    BY <1>2 DEF Reconnect, Inv, Fenced, Resolved, work
  <2>2. Current' /\ Fenced'
    BY <1>2, <2>1 DEF Current, Fenced, Reconnect
  <2> QED
    BY <1>2, <2>2 DEF Inv, Recorded, OneCyclePerIntent, Reconnect, work
<1>3. CASE Rotate
  BY <1>3, GenerationAdvances DEF Rotate
<1>4. CASE Revoke
  BY <1>4, GenerationAdvances DEF Revoke
<1>5. CASE Fence
  BY <1>5, GenerationAdvances DEF Fence
<1>6. CASE GiveUp
  BY <1>6 DEF GiveUp, Inv, Recorded, OneCyclePerIntent, Fenced, Current, work
<1> QED
  BY <1>1, <1>2, <1>3, <1>4, <1>5, <1>6 DEF Outside

LEMMA InvStep == ASSUME Inv, [Next]_vars PROVE Inv'
<1>0. TypeOK'
  BY TypeStep DEF Inv
<1>1. CASE Outside
  BY <1>0, <1>1, OutsideInv
<1>2. ASSUME NEW d \in Dispatchers, Dispatch(d) \/ Interrupt(d) PROVE Inv'
  <2>1. UNCHANGED <<intents, started, credential, work>>
    BY <1>2 DEF Dispatch, ClaimRow, Publish, Settle, Interrupt
  <2> QED
    BY <1>0, <2>1, WorkUntouched
<1>3. ASSUME NEW w \in Workers, Work(w) \/ Crash(w) PROVE Inv'
  BY <1>0, <1>3, WorkInv
<1>4. CASE UNCHANGED vars
  BY <1>0, <1>4, WorkUntouched DEF vars
<1> QED
  BY <1>1, <1>2, <1>3, <1>4 DEF Next

THEOREM Invariant == Spec => []Inv
  BY InitInv, InvStep, PTL DEF Spec

\* However often a message is published and delivered, and whatever dies, an
\* intent never has two cycles at work.
THEOREM CyclesAreOnce == Spec => []OneCyclePerIntent
<1>1. Inv => OneCyclePerIntent
  BY DEF Inv
<1> QED
  BY <1>1, Invariant, PTL

\* A step of a delivery that moves the status is a start or an authorised
\* write of a cycle that no reconnection has superseded.
LEMMA SilentStep ==
    ASSUME Inv, [Next]_vars, NEW w \in Workers, wpc'[w] # wpc[w], sync' # sync,
           NEW i \in DOMAIN intents, intents[i] = "reconnect"
    PROVE  i <= msg[w]
<1>0. TypeOK /\ wpc \in [Workers -> Labels]
  BY DEF Inv, TypeOK
<1>1. ~UNCHANGED vars /\ ~Outside
  BY DEF vars, work, Outside, Request, Rotate, Revoke, Fence, GiveUp, Reconnect
<1>2. ASSUME NEW d \in Dispatchers, Dispatch(d) \/ Interrupt(d) PROVE FALSE
  BY <1>2 DEF Dispatch, ClaimRow, Publish, Settle, Interrupt
<1>3. PICK v \in Workers : Work(v) \/ Crash(v)
  BY <1>1, <1>2 DEF Next
<1>4. v = w
  BY <1>0, <1>3 DEF Work, Crash, Deliver, Resolve, Claim, Guard, Progress, Break, Fail,
                    Report, Discard, Drop, GoTo
<1>5. Claim(w) \/ Progress(w) \/ Fail(w) \/ Report(w)
  BY <1>3, <1>4 DEF Work, Crash, Deliver, Resolve, Guard, Break, Discard
<1>6. CASE Claim(w)
  <2>1. msg[w] = Latest
    BY <1>6 DEF Claim, Startable
  <2> QED
    BY <1>0, <2>1 DEF TypeOK, Latest
<1>7. CASE Progress(w) \/ Fail(w) \/ Report(w)
  <2>1. wpc[w] \in Started /\ auth[w] = generation
    BY <1>7 DEF Progress, Fail, Report, Authorised, Started
  <2> QED
    BY <2>1 DEF Inv, Current
<1> QED
  BY <1>5, <1>6, <1>7

\* A cycle of the time before a reconnection never moves the status again.
THEOREM SupersededAreSilent == Spec => SupersededIsSilent
<1>1. Inv /\ [Next]_vars =>
        [\A w \in Workers : wpc'[w] # wpc[w] /\ sync' # sync =>
            \A i \in DOMAIN intents : intents[i] = "reconnect" => i <= msg[w]]_vars
  BY SilentStep
<1> QED
  BY <1>1, Invariant, PTL DEF Spec, SupersededIsSilent

------------------------------------------------------------------------------
(* How cycles end.                                                         *)

Present(w) == auth[w] = generation

\* A generation that somebody works under is in use.
InUse == \A w \in Workers : wpc[w] \in Resolved /\ Present(w) => active

\* The status is not PENDING any more while the cycle it asked for is at work.
Moved == \A w \in Workers : wpc[w] \in Started /\ Present(w) => sync # "PENDING"

\* Until something fails beyond a cycle itself, a cycle that has only its report to
\* make leaves a final status behind, or another cycle at work.
Reported ==
    faults = 0 =>
        \A w \in Workers : wpc[w] = "report" /\ Present(w) =>
            \/ sync \in {"COMPLETED", "FAILED"}
            \/ \E v \in Workers \ {w} : wpc[v] \in Started /\ Present(v)

Ends == InUse /\ Moved /\ Reported

\* When nobody works under the present generation there is nothing to show, also after
\* a step.
LEMMA NobodyPresent ==
    ASSUME \A w \in Workers : wpc[w] \in Resolved => ~Present(w) PROVE Ends
<1>1. Started \subseteq Resolved /\ "report" \in Resolved
  BY DEF Resolved, Started
<1> QED
  BY <1>1 DEF Ends, InUse, Moved, Reported

LEMMA NobodyPresentNext ==
    ASSUME \A w \in Workers : wpc'[w] \in Resolved => ~Present(w)' PROVE Ends'
<1>1. Started \subseteq Resolved /\ "report" \in Resolved
  BY DEF Resolved, Started
<1> QED
  BY <1>1 DEF Ends, InUse, Moved, Reported

LEMMA InitEnds == ASSUME Init PROVE Ends
<1>1. \A w \in Workers : wpc[w] \notin Resolved
  BY DEF Init, Resolved, Started, Phases, Target
<1> QED
  BY <1>1, NobodyPresent

\* Steps that leave the status, the credential and the deliveries alone.
LEMMA EndsUntouched ==
    ASSUME TypeOK, Ends, UNCHANGED <<sync, credential, work>>, faults' = 0 => faults = 0
    PROVE  Ends'
  BY DEF Ends, InUse, Moved, Reported, Present, credential, work

\* Whatever ends a generation, or fences it, leaves nobody at work under it.
LEMMA OutsideEnds == ASSUME Inv, Ends, Outside PROVE Ends'
<1>0. TypeOK /\ Fenced
  BY DEF Inv
<1>1. CASE Request
  BY <1>0, <1>1, EndsUntouched DEF Request
<1>2. CASE Advance /\ UNCHANGED work
  <2>1. \A w \in Workers : ~Present(w)'
    BY <1>0, <1>2, SyncAssumption DEF Advance, TypeOK, work, Present
  <2> QED
    BY <2>1, NobodyPresentNext
<1>3. CASE reconnect # "none" /\ UNCHANGED <<generation, work>>
  <2>1. \A w \in Workers : wpc'[w] \in Resolved => ~Present(w)'
    BY <1>0, <1>3 DEF Fenced, Present, work
  <2> QED
    BY <2>1, NobodyPresentNext
<1> QED
  BY <1>1, <1>2, <1>3 DEF Outside, Rotate, Revoke, Fence, GiveUp, Reconnect

LEMMA DispatchEnds ==
    ASSUME TypeOK, Ends, NEW d \in Dispatchers, Dispatch(d) \/ Interrupt(d) PROVE Ends'
<1>1. UNCHANGED <<sync, credential, work>>
  BY DEF Dispatch, ClaimRow, Publish, Settle, Interrupt
<1>2. faults' = 0 => faults = 0
  BY DEF Dispatch, ClaimRow, Publish, Settle, Interrupt, Fault, NoFault, TypeOK
<1> QED
  BY <1>1, <1>2, EndsUntouched

\* A delivery moves alone, under the authority it has or the one in use.
LEMMA OneMoves ==
    ASSUME TypeOK, NEW w \in Workers, Work(w) \/ Crash(w)
    PROVE  /\ \A v \in Workers \ {w} : wpc'[v] = wpc[v] /\ auth'[v] = auth[v]
           /\ UNCHANGED credential
           /\ faults' = faults \/ (faults' # 0 /\ Fault)
  BY DEF TypeOK, Work, Crash, Deliver, Resolve, Claim, Guard, Progress, Break, Fail, Report,
         Discard, Drop, GoTo, WriteFailed, NoFault, Fault

LEMMA WorkInUse ==
    ASSUME TypeOK, InUse, NEW w \in Workers, Work(w) \/ Crash(w) PROVE InUse'
<1>1. \/ wpc'[w] \notin Resolved
      \/ wpc[w] \in Resolved /\ auth'[w] = auth[w]
      \/ active
  BY DEF TypeOK, Work, Crash, Deliver, Resolve, Claim, Guard, Progress, Break, Fail, Report,
         Discard, Drop, GoTo, Authorised, Resolved, Started, Phases, Target
<1> QED
  BY <1>1, OneMoves DEF InUse, Present, credential

LEMMA WorkMoved ==
    ASSUME TypeOK, Moved, NEW w \in Workers, Work(w) \/ Crash(w) PROVE Moved'
<1>1. sync' = sync \/ sync' # "PENDING"
  BY DEF Work, Crash, Deliver, Resolve, Claim, Guard, Progress, Break, Fail, Report, Discard,
         WriteFailed, Phases, Target
<1>2. \/ sync' # "PENDING"
      \/ wpc'[w] \notin Started
      \/ wpc[w] \in Started /\ auth'[w] = auth[w]
  BY DEF TypeOK, Work, Crash, Deliver, Resolve, Claim, Guard, Progress, Break, Fail, Report,
         Discard, Drop, GoTo, Started, Phases, Target
<1> QED
  BY <1>1, <1>2, OneMoves DEF Moved, Present, credential

\* A failure that is recorded, or need not be.
LEMMA FailedIsFinal ==
    ASSUME TypeOK, Moved, NEW w \in Workers, wpc[w] \in Started, Authorised(w), WriteFailed
    PROVE  sync' \in {"COMPLETED", "FAILED"} \/ (Fault /\ faults' # 0 /\ sync' = sync)
<1>1. sync # "PENDING" /\ sync \in Status
  BY DEF Moved, Present, Authorised, TypeOK
<1>2. CASE NoFault /\ ~Legal(sync, "FAILED") /\ sync' = sync
  BY <1>1, <1>2 DEF Legal, Status, Syncing
<1>3. CASE Fault /\ sync' = sync
  BY <1>3 DEF Fault, TypeOK
<1> QED
  BY <1>2, <1>3 DEF WriteFailed

\* Who was not counted on by others may move as it likes.
LEMMA OthersReport ==
    ASSUME TypeOK, Reported, NEW w \in Workers, Work(w) \/ Crash(w), sync' = sync,
           wpc'[w] # "report",
           wpc[w] \in Started /\ Present(w) => wpc'[w] \in Started /\ Present(w)'
    PROVE  Reported'
<1> SUFFICES ASSUME faults' = 0, NEW v \in Workers, wpc'[v] = "report", Present(v)'
             PROVE  \/ sync' \in {"COMPLETED", "FAILED"}
                    \/ \E u \in Workers \ {v} : wpc'[u] \in Started /\ Present(u)'
  BY DEF Reported
<1>1. v # w /\ faults = 0 /\ UNCHANGED credential
  BY OneMoves
<1>2. \A u \in Workers \ {w} : wpc'[u] = wpc[u] /\ (Present(u)' <=> Present(u))
  BY <1>1, OneMoves DEF Present, credential
<1>3. \/ sync \in {"COMPLETED", "FAILED"}
      \/ \E u \in Workers \ {v} : wpc[u] \in Started /\ Present(u)
  BY <1>1, <1>2 DEF Reported
<1> QED
  BY <1>2, <1>3

LEMMA WorkReported ==
    ASSUME TypeOK, Ends, NEW w \in Workers, Work(w) \/ Crash(w) PROVE Reported'
<1>0. Reported /\ InUse /\ Moved /\ wpc \in [Workers -> Labels]
  BY DEF Ends, TypeOK
<1>1. CASE sync' \in {"COMPLETED", "FAILED"} \/ faults' # 0
  BY <1>1 DEF Reported
<1>2. CASE Deliver(w) \/ Resolve(w)
  <2>1. sync' = sync /\ wpc'[w] # "report" /\ wpc[w] \notin Started
    BY <1>0, <1>2 DEF Deliver, Resolve, Drop, GoTo, Started, Phases, Target
  <2> QED
    BY <1>0, <2>1, OthersReport
<1>3. CASE Claim(w)
  <2>1. CASE Drop(w) /\ sync' = sync
    <3>1. wpc'[w] # "report" /\ wpc[w] \notin Started
      BY <1>0, <1>3, <2>1 DEF Claim, Drop, GoTo, Started, Phases, Target
    <3> QED
      BY <1>0, <2>1, <3>1, OthersReport
  <2>2. CASE GoTo(w, "guard") /\ UNCHANGED auth
    <3>1. wpc'[w] = "guard" /\ "guard" \in Started /\ Present(w)'
      BY <1>0, <1>3, <2>2 DEF Claim, GoTo, Authorised, Present, Started, credential
    <3> QED
      BY <3>1 DEF Reported
  <2> QED
    BY <1>3, <2>1, <2>2 DEF Claim
<1>4. CASE Guard(w)
  <2>1. CASE GoTo(w, "enter") /\ UNCHANGED auth
    <3>1. sync' = sync /\ wpc'[w] = "enter" /\ "enter" \in Started
      BY <1>0, <1>4, <2>1 DEF Guard, GoTo, Started, Phases, Target
    <3>2. Present(w)' <=> Present(w)
      BY <2>1, OneMoves DEF Present, credential
    <3> QED
      BY <1>0, <3>1, <3>2, OthersReport
  <2> QED
    BY <1>1, <1>4, <2>1, OneMoves DEF Guard, Fault, TypeOK
<1>5. CASE Progress(w)
  <2>1. CASE wpc[w] = "complete"
    BY <1>1, <1>5, <2>1 DEF Progress, Target
  <2>2. CASE wpc[w] # "complete"
    <3>1. wpc'[w] \in {"catalog", "orders", "complete"}
      BY <1>0, <1>5, <2>2 DEF Progress, GoTo, After, Phases, Target
    <3>2. wpc'[w] \in Started /\ wpc'[w] # "report"
      BY <3>1 DEF Started, Phases, Target
    <3>3. Present(w)'
      BY <1>5 DEF Progress, Authorised, Present, credential
    <3> QED
      BY <3>2, <3>3 DEF Reported
  <2> QED
    BY <2>1, <2>2
<1>6. CASE Break(w)
  <2>1. sync' = sync /\ wpc'[w] = "fail" /\ "fail" \in Started /\ (Present(w)' <=> Present(w))
    BY <1>0, <1>6 DEF Break, GoTo, Started, Present, credential
  <2> QED
    BY <1>0, <2>1, OthersReport
<1>7. CASE Fail(w) \/ Report(w)
  <2>1. wpc[w] \in Started /\ Authorised(w) /\ WriteFailed
    BY <1>7 DEF Fail, Report, Started
  <2> QED
    BY <1>0, <1>1, <2>1, FailedIsFinal
<1>8. CASE Discard(w)
  <2>1. wpc[w] \in Resolved /\ ~Authorised(w)
    BY <1>8 DEF Discard, Resolved, Started
  <2>2. ~Present(w)
    BY <1>0, <2>1 DEF InUse, Present, Authorised
  <2>3. sync' = sync /\ wpc'[w] # "report"
    BY <1>0, <1>8 DEF Discard, Drop, GoTo
  <2> QED
    BY <1>0, <2>2, <2>3, OthersReport
<1>9. CASE Crash(w)
  BY <1>1, <1>9 DEF Crash, Fault, TypeOK
<1> QED
  BY <1>2, <1>3, <1>4, <1>5, <1>6, <1>7, <1>8, <1>9 DEF Work

LEMMA EndsStep == ASSUME Inv, Ends, [Next]_vars PROVE Ends'
<1>0. TypeOK
  BY DEF Inv
<1>1. CASE Outside
  BY <1>1, OutsideEnds
<1>2. ASSUME NEW d \in Dispatchers, Dispatch(d) \/ Interrupt(d) PROVE Ends'
  BY <1>0, <1>2, DispatchEnds
<1>3. ASSUME NEW w \in Workers, Work(w) \/ Crash(w) PROVE Ends'
  BY <1>0, <1>3, WorkInUse, WorkMoved, WorkReported DEF Ends
<1>4. CASE UNCHANGED vars
  BY <1>0, <1>4, EndsUntouched DEF vars
<1> QED
  BY <1>1, <1>2, <1>3, <1>4 DEF Next

\* What a cycle that ends leaves behind.
LEMMA ReportStep ==
    ASSUME Inv, Ends, [Next]_vars, NEW w \in Workers, wpc[w] \in Started, Authorised(w),
           wpc'[w] = "idle", queue' = queue, faults' <= 1
    PROVE  \/ sync' \in {"COMPLETED", "FAILED"}
           \/ \E v \in Workers \ {w} : wpc[v] \in Started /\ Authorised(v)
<1>0. TypeOK /\ InUse /\ Moved /\ Reported /\ wpc \in [Workers -> Labels] /\ wpc[w] # "idle"
  BY DEF Inv, Ends, TypeOK, Started, Phases, Target
<1>1. ~UNCHANGED vars /\ ~Outside
  BY <1>0 DEF vars, work, Outside, Request, Rotate, Revoke, Fence, GiveUp, Reconnect
<1>2. ASSUME NEW d \in Dispatchers, Dispatch(d) \/ Interrupt(d) PROVE FALSE
  BY <1>0, <1>2 DEF Dispatch, ClaimRow, Publish, Settle, Interrupt, work
<1>3. PICK v \in Workers : Work(v) \/ Crash(v)
  BY <1>1, <1>2 DEF Next
<1>4. v = w
  BY <1>0, <1>3, OneMoves
<1>5. ~Crash(w)
  <2>1. msg[w] \in Ids /\ queue[msg[w]] \in Nat
    BY <1>0, HasIntent DEF TypeOK
  <2> QED
    BY <1>0, <2>1 DEF Crash, TypeOK
<1>6. Guard(w) \/ Progress(w) \/ Report(w)
  BY <1>0, <1>3, <1>4, <1>5
     DEF Work, Deliver, Resolve, Claim, Break, Fail, Discard, GoTo, Started, Phases, Target
<1>7. CASE Guard(w)
  BY <1>0, <1>7 DEF Guard, GoTo
<1>8. CASE Progress(w)
  <2>1. wpc[w] = "complete"
    BY <1>0, <1>8 DEF Progress, GoTo, After, Phases, Target
  <2> QED
    BY <1>8, <2>1 DEF Progress, Target
<1>9. CASE Report(w)
  <2>1. wpc[w] = "report" /\ WriteFailed /\ Present(w)
    BY <1>9 DEF Report, Authorised, Present
  <2>2. CASE Fault /\ sync' = sync
    <3>1. faults = 0
      BY <1>0, <2>2 DEF Fault, TypeOK
    <3>2. \/ sync \in {"COMPLETED", "FAILED"}
          \/ \E u \in Workers \ {w} : wpc[u] \in Started /\ Present(u)
      BY <1>0, <2>1, <3>1 DEF Reported
    <3> QED
      BY <2>2, <3>2 DEF Present, Authorised
  <2> QED
    BY <1>0, <2>1, <2>2, FailedIsFinal
<1> QED
  BY <1>6, <1>7, <1>8, <1>9

\* One failure beside those of the cycles never strands the integration: a cycle that
\* stays authorised to its end leaves COMPLETED or FAILED, or another cycle at work
\* (the second record of a failure, for any number of deliveries at a time).
THEOREM CyclesDoReport == Spec => CyclesReport
<1>1. Init => Inv /\ Ends
  BY InitInv, InitEnds
<1>2. (Inv /\ Ends) /\ [Next]_vars => (Inv /\ Ends)'
  BY InvStep, EndsStep
<1>3. Inv /\ Ends /\ [Next]_vars =>
        [\A w \in Workers :
            (wpc[w] \in Started /\ Authorised(w) /\ wpc'[w] = "idle"
                /\ queue' = queue /\ faults' <= 1) =>
            \/ sync' \in {"COMPLETED", "FAILED"}
            \/ \E v \in Workers \ {w} : wpc[v] \in Started /\ Authorised(v)]_vars
  BY ReportStep
<1> QED
  BY <1>1, <1>2, <1>3, PTL DEF Spec, CyclesReport

=============================================================================
