---------------------- MODULE NotificationDeliveryProofs ----------------------
(***************************************************************************)
(* Proofs about NotificationDelivery for any deliveries, processes, lease, *)
(* timeout, safety margin, budget, limit of attempts and bounds.           *)
(***************************************************************************)
EXTENDS NotificationDelivery, FiniteSetTheorems, TLAPS

USE ConstantsAssumption DEF ConstantsAssumption

\* A worker that is not idle has a delivery.
Working == \A p \in Processes : at[p] # "idle" => job[p] \in Deliveries

\* What the deadline is worth: a worker that may still call, or is calling, has
\* a claim that outlives its budget by the safety margin.
Holds(p) ==
    /\ status[job[p]] = "processing"
    /\ claim[job[p]] = p
    /\ left[p] + Safety <= lease[job[p]]

Budgeted ==
    \A p \in Processes :
        \/ at[p] = "call"
        \/ at[p] \in {"fetched", "prepared"} /\ left[p] > 0
        => Holds(p)

\* The attempt of a worker has been committed.
Counted(p) == at[p] \in {"prepared", "call", "cleanup", "finalize"}

\* While its claim stands, nobody else changes the count a worker has read.
CountRead ==
    \A p \in Processes :
        /\ Counted(p) => seen[p] < MaxAttempts
        /\ at[p] = "fetched" /\ Fenced(p) => attempts[job[p]] = seen[p]
        /\ Counted(p) /\ Fenced(p) => attempts[job[p]] = seen[p] + 1

\* A push that is prepared has a subscription to go to; one that is cleaned up
\* after has found it dead.
Destined ==
    \A p \in Processes :
        /\ at[p] \in {"prepared", "call"} /\ job[p] \in Push => target[p] # 0
        /\ at[p] = "cleanup" => target[p] \in dead

\* The result a worker brings home is an answer of the provider.
Answered ==
    \A p \in Processes :
        at[p] \in {"cleanup", "finalize"} => result[p] \in answers[job[p]]

Inv == TypeOK /\ Working /\ Budgeted /\ CountRead /\ Destined /\ Answered

LEMMA InitInv == Init => Inv
  BY DEF Init, Inv, TypeOK, Working, Budgeted, CountRead, Counted, Destined, Answered, Holds,
       Fenced,
     DeliveryStatus, Labels, Results

\* A delivery that leaves the hands of a worker.
LEMMA ReleaseType ==
    ASSUME TypeOK, NEW p \in Processes, job[p] \in Deliveries,
           NEW s \in DeliveryStatus, NEW n, n \subseteq Deliveries,
           NEW c \in 0 .. MaxAttempts, FencedUpdate(p, s, n, c)
    PROVE  /\ status' \in [Deliveries -> DeliveryStatus]
           /\ due' \subseteq Deliveries
           /\ claim' \in [Deliveries -> Processes \cup {None}]
           /\ lease' \in [Deliveries -> 0 .. Lease]
           /\ attempts' \in [Deliveries -> 0 .. MaxAttempts]
           /\ at' \in [Processes -> Labels]
           /\ job' \in [Processes -> Deliveries \cup {None}]
           /\ left' \in [Processes -> 0 .. Timeout]
           /\ seen' \in [Processes -> 0 .. MaxAttempts]
           /\ target' \in [Processes -> 0 .. MaxVersions]
           /\ result' \in [Processes -> Results \cup {"none"}]
<1>1. CASE Fenced(p)
    BY <1>1 DEF TypeOK, FencedUpdate, Finish, Labels
<1>2. CASE ~Fenced(p)
    BY <1>2 DEF TypeOK, FencedUpdate, Finish, Labels, delivery
<1> QED
    BY <1>1, <1>2

LEMMA SettleType ==
    ASSUME TypeOK, NEW p \in Processes, job[p] \in Deliveries,
           NEW s \in DeliveryStatus, Settle(p, s)
    PROVE  /\ status' \in [Deliveries -> DeliveryStatus]
           /\ due' \subseteq Deliveries
           /\ claim' \in [Deliveries -> Processes \cup {None}]
           /\ lease' \in [Deliveries -> 0 .. Lease]
           /\ attempts' \in [Deliveries -> 0 .. MaxAttempts]
           /\ at' \in [Processes -> Labels]
           /\ job' \in [Processes -> Deliveries \cup {None}]
           /\ left' \in [Processes -> 0 .. Timeout]
           /\ seen' \in [Processes -> 0 .. MaxAttempts]
           /\ target' \in [Processes -> 0 .. MaxVersions]
           /\ result' \in [Processes -> Results \cup {"none"}]
<1>1. Later(p) \subseteq Deliveries /\ attempts[job[p]] \in 0 .. MaxAttempts
    BY DEF TypeOK, Later
<1> QED
    BY <1>1, ReleaseType DEF Settle

LEMMA TypeStep == Inv /\ Next => TypeOK'
<1> SUFFICES ASSUME Inv, Next PROVE TypeOK'
    OBVIOUS
<1> USE DEF Inv
<1>1. ASSUME NEW d \in Deliveries, Plan(d) PROVE TypeOK'
    BY <1>1 DEF Plan, TypeOK, worker, device, history, bounds, DeliveryStatus
<1>2. ASSUME NEW d \in Deliveries, BecomeDue(d) PROVE TypeOK'
    BY <1>2 DEF BecomeDue, TypeOK, worker, device, history, bounds
<1>3. ASSUME Subscribe PROVE TypeOK'
    BY <1>3 DEF Subscribe, TypeOK, worker, delivery, history, bounds
<1>4. ASSUME Unsubscribe PROVE TypeOK'
    BY <1>4 DEF Unsubscribe, TypeOK, worker, delivery, history, bounds
<1>5. ASSUME Tick PROVE TypeOK'
  <2>1. /\ lease' \in [Deliveries -> 0 .. Lease]
        /\ left' \in [Processes -> 0 .. Timeout]
      BY <1>5 DEF Tick, TypeOK, Drop
  <2>2. delays' \in 0 .. MaxDelays
      BY <1>5 DEF Tick, TypeOK
  <2> QED
      BY <1>5, <2>1, <2>2 DEF Tick, TypeOK, device, history
<1>6. ASSUME NEW p \in Processes, Before(p) PROVE TypeOK'
  <2>1. ASSUME NEW d \in Deliveries, Claim(p, d) PROVE TypeOK'
    <3>1. /\ at' \in [Processes -> Labels]
          /\ status' \in [Deliveries -> DeliveryStatus]
        BY <2>1 DEF Claim, TypeOK, Labels, DeliveryStatus
    <3> QED
        BY <2>1, <3>1 DEF Claim, TypeOK, device, history, bounds
  <2>2. ASSUME Start(p) PROVE TypeOK'
    <3>1. at' \in [Processes -> Labels]
        BY <2>2 DEF Start, TypeOK, Labels
    <3> QED
        BY <2>2, <3>1 DEF Start, TypeOK, delivery, device, history, bounds
  <2>3. ASSUME Fetch(p) PROVE TypeOK'
    <3>1. job[p] \in Deliveries
        BY <2>3 DEF Fetch, Working
    <3>2. Budget(p) \in 0 .. Timeout
        BY <3>1 DEF Budget, Least, TypeOK
    <3>3. at' \in [Processes -> Labels]
        BY <2>3 DEF Fetch, TypeOK, Labels
    <3>4. left' \in [Processes -> 0 .. Timeout] /\ seen' \in [Processes -> 0 .. MaxAttempts]
        BY <2>3, <3>1, <3>2 DEF Fetch, TypeOK
    <3>5. target' \in [Processes -> 0 .. MaxVersions]
        BY <2>3 DEF Fetch, TypeOK
    <3> QED
        BY <2>3, <3>3, <3>4, <3>5 DEF Fetch, TypeOK, delivery, device, history, bounds
  <2>4. ASSUME NotFound(p) PROVE TypeOK'
    BY <2>4 DEF NotFound, Finish, TypeOK, Labels, delivery, device, history, bounds
  <2>5. ASSUME Cancel(p) PROVE TypeOK'
    <3>1. job[p] \in Deliveries /\ "cancelled" \in DeliveryStatus
        BY <2>5 DEF Cancel, Working, DeliveryStatus, Final
    <3> QED
        BY <2>5, <3>1, SettleType DEF Cancel, TypeOK, device, history, bounds
  <2>6. ASSUME QuietHours(p) PROVE TypeOK'
    <3>1. job[p] \in Deliveries /\ "queued" \in DeliveryStatus
        BY <2>6 DEF QuietHours, Working, DeliveryStatus
    <3>2. quiets' \in 0 .. MaxQuiet
        BY <2>6 DEF QuietHours, TypeOK
    <3> QED
        BY <2>6, <3>1, <3>2, SettleType DEF QuietHours, TypeOK, device, history
  <2>7. ASSUME GiveUp(p) PROVE TypeOK'
    <3>1. job[p] \in Deliveries /\ "failed" \in DeliveryStatus
        BY <2>7 DEF GiveUp, Working, DeliveryStatus, Final
    <3> QED
        BY <2>7, <3>1, SettleType DEF GiveUp, TypeOK, device, history, bounds
  <2>8. ASSUME NoTimeLeft(p) PROVE TypeOK'
    <3>1. job[p] \in Deliveries /\ "queued" \in DeliveryStatus
        BY <2>8 DEF NoTimeLeft, Working, DeliveryStatus
    <3>2. Now(p) \subseteq Deliveries /\ attempts[job[p]] \in 0 .. MaxAttempts
        BY <3>1 DEF TypeOK, Now
    <3> QED
        BY <2>8, <3>1, <3>2, ReleaseType DEF NoTimeLeft, TypeOK, device, history, bounds
  <2>9. ASSUME CountAttempt(p) PROVE TypeOK'
    <3>1. job[p] \in Deliveries
        BY <2>9 DEF CountAttempt, Working
    <3>2. CASE Fenced(p)
      <4>1. attempts[job[p]] < MaxAttempts
          BY <2>9, <3>1, <3>2 DEF CountAttempt, CountRead, Exhausted, TypeOK
      <4>2. at' \in [Processes -> Labels]
          BY <2>9, <3>2 DEF CountAttempt, TypeOK, Labels
      <4> QED
          BY <2>9, <3>1, <3>2, <4>1, <4>2 DEF CountAttempt, TypeOK, device, history, bounds
    <3>3. CASE ~Fenced(p)
      BY <2>9, <3>3 DEF CountAttempt, Finish, TypeOK, Labels, device, history, bounds
    <3> QED
      BY <3>2, <3>3
  <2> QED
    BY <1>6, <2>1, <2>2, <2>3, <2>4, <2>5, <2>6, <2>7, <2>8, <2>9 DEF Before
<1>7. ASSUME NEW p \in Processes, After(p) PROVE TypeOK'
  <2>1. ASSUME GiveBack(p) PROVE TypeOK'
    <3>1. job[p] \in Deliveries /\ "queued" \in DeliveryStatus
        BY <2>1 DEF GiveBack, Working, DeliveryStatus
    <3>2. Now(p) \subseteq Deliveries /\ CountBefore(p) \in 0 .. MaxAttempts
        BY <3>1 DEF TypeOK, Now, CountBefore
    <3>3. forfeits' \in [Deliveries -> Nat]
        BY <2>1, <3>1 DEF GiveBack, Forfeit, TypeOK
    <3> QED
        BY <2>1, <3>1, <3>2, <3>3, ReleaseType DEF GiveBack, TypeOK, device, bounds
  <2>2. ASSUME BeginCall(p) PROVE TypeOK'
    <3>1. job[p] \in Deliveries
        BY <2>2 DEF BeginCall, Working
    <3>2. at' \in [Processes -> Labels]
        BY <2>2 DEF BeginCall, TypeOK, Labels
    <3> QED
        BY <2>2, <3>1, <3>2 DEF BeginCall, TypeOK, delivery, device, bounds
  <2>3. ASSUME NEW r \in Results, NEW gone \in BOOLEAN, Answer(p, r, gone) PROVE TypeOK'
    <3>1. job[p] \in Deliveries
        BY <2>3 DEF Answer, Working
    <3>2. at' \in [Processes -> Labels]
        BY <2>3 DEF Answer, TypeOK, Labels
    <3>3. dead' \subseteq 1 .. MaxVersions
      <4>1. CASE gone
        <5>1. target[p] \in 1 .. MaxVersions
            BY <2>3, <4>1 DEF Answer, Destined, TypeOK
        <5> QED
            BY <2>3, <4>1, <5>1 DEF Answer, TypeOK
      <4>2. CASE ~gone
            BY <2>3, <4>2 DEF Answer, TypeOK
      <4> QED
            BY <4>1, <4>2
    <3>4. /\ result' \in [Processes -> Results \cup {"none"}]
          /\ answers' \in [Deliveries -> SUBSET Results]
        BY <2>3, <3>1 DEF Answer, TypeOK
    <3> QED
        BY <2>3, <3>2, <3>3, <3>4 DEF Answer, TypeOK, delivery, bounds
  <2>4. ASSUME CleanUp(p) PROVE TypeOK'
    <3>1. at' \in [Processes -> Labels]
        BY <2>4 DEF CleanUp, TypeOK, Labels
    <3> QED
        BY <2>4, <3>1 DEF CleanUp, TypeOK, delivery, history, bounds
  <2>5. ASSUME CleanUpFails(p) PROVE TypeOK'
    <3>1. at' \in [Processes -> Labels] /\ faults' \in 0 .. MaxFaults
        BY <2>5 DEF CleanUpFails, TypeOK, Labels
    <3> QED
        BY <2>5, <3>1 DEF CleanUpFails, TypeOK, delivery, device, history
  <2>6. ASSUME Finalize(p) PROVE TypeOK'
    <3>1. /\ job[p] \in Deliveries
          /\ Outcome(result[p], seen[p] + 1) \in DeliveryStatus
        BY <2>6 DEF Finalize, Working, DeliveryStatus, Final, Outcome
    <3> QED
        BY <2>6, <3>1, SettleType DEF Finalize, TypeOK, device, history, bounds
  <2> QED
    BY <1>7, <2>1, <2>2, <2>3, <2>4, <2>5, <2>6 DEF After
<1>8. ASSUME NEW p \in Processes, Abandon(p) PROVE TypeOK'
  <2>1. job[p] \in Deliveries
      BY <1>8 DEF Abandon, Working
  <2>2. forfeits' \in [Deliveries -> Nat] /\ faults' \in 0 .. MaxFaults
      BY <1>8, <2>1 DEF Abandon, Forfeit, TypeOK
  <2>3. /\ at' \in [Processes -> Labels]
        /\ job' \in [Processes -> Deliveries \cup {None}]
        /\ left' \in [Processes -> 0 .. Timeout]
        /\ seen' \in [Processes -> 0 .. MaxAttempts]
        /\ target' \in [Processes -> 0 .. MaxVersions]
        /\ result' \in [Processes -> Results \cup {"none"}]
      BY <1>8 DEF Abandon, Finish, TypeOK, Labels
  <2> QED
      BY <1>8, <2>2, <2>3 DEF Abandon, TypeOK, delivery, device
<1> QED
    BY <1>1, <1>2, <1>3, <1>4, <1>5, <1>6, <1>7, <1>8 DEF Next, Work

-----------------------------------------------------------------------------
(* What a step of one worker does to another.                              *)

Step(p) == Before(p) \/ After(p) \/ Abandon(p)

\* It leaves the other worker where it is.
LEMMA WorkerFrame ==
    ASSUME TypeOK, NEW p \in Processes, Step(p), NEW q \in Processes, q # p
    PROVE  /\ at'[q] = at[q] /\ job'[q] = job[q] /\ left'[q] = left[q]
           /\ seen'[q] = seen[q] /\ target'[q] = target[q] /\ result'[q] = result[q]
<1>1. ASSUME Before(p)
      PROVE  /\ at'[q] = at[q] /\ job'[q] = job[q] /\ left'[q] = left[q]
             /\ seen'[q] = seen[q] /\ target'[q] = target[q] /\ result'[q] = result[q]
    BY <1>1 DEF Before, Claim, Start, Fetch, NotFound, Cancel, QuietHours, GiveUp, NoTimeLeft,
       CountAttempt, Settle, FencedUpdate, Finish, TypeOK
<1>2. ASSUME After(p)
      PROVE  /\ at'[q] = at[q] /\ job'[q] = job[q] /\ left'[q] = left[q]
             /\ seen'[q] = seen[q] /\ target'[q] = target[q] /\ result'[q] = result[q]
    BY <1>2 DEF After, GiveBack, BeginCall, Answer, CleanUp, CleanUpFails, Finalize, Settle,
       FencedUpdate, Finish, TypeOK
<1>3. ASSUME Abandon(p)
      PROVE  /\ at'[q] = at[q] /\ job'[q] = job[q] /\ left'[q] = left[q]
             /\ seen'[q] = seen[q] /\ target'[q] = target[q] /\ result'[q] = result[q]
    BY <1>3 DEF Abandon, Finish, TypeOK
<1> QED
    BY <1>1, <1>2, <1>3 DEF Step

\* A delivery that is claimed by another changes hands only when its lease is
\* over.
Same(d) ==
    /\ status'[d] = status[d] /\ claim'[d] = claim[d]
    /\ lease'[d] = lease[d] /\ attempts'[d] = attempts[d]

LEMMA ReleaseFrame ==
    ASSUME TypeOK, NEW p \in Processes, job[p] \in Deliveries, NEW s, NEW n, NEW c,
           FencedUpdate(p, s, n, c), NEW d \in Deliveries, claim[d] # p
    PROVE  Same(d)
  BY DEF FencedUpdate, Fenced, TypeOK, Same, delivery

LEMMA ClaimFrame ==
    ASSUME TypeOK, Working, NEW p \in Processes, Step(p),
           NEW d \in Deliveries, status[d] = "processing", claim[d] # p
    PROVE  Same(d) \/ (lease[d] = 0 /\ claim'[d] = p)
<1>1. ASSUME Before(p) PROVE Same(d) \/ (lease[d] = 0 /\ claim'[d] = p)
  <2>1. ASSUME NEW e \in Deliveries, Claim(p, e)
        PROVE  Same(d) \/ (lease[d] = 0 /\ claim'[d] = p)
      BY <2>1 DEF Claim, Claimable, Same, TypeOK
  <2>2. CASE Start(p) \/ Fetch(p) \/ NotFound(p)
      BY <2>2 DEF Start, Fetch, NotFound, Same, delivery
  <2>3. CASE Cancel(p) \/ QuietHours(p) \/ GiveUp(p) \/ NoTimeLeft(p)
    <3>1. job[p] \in Deliveries
        BY <2>3 DEF Cancel, QuietHours, GiveUp, NoTimeLeft, Working
    <3> QED
        BY <2>3, <3>1, ReleaseFrame DEF Cancel, QuietHours, GiveUp, NoTimeLeft, Settle
  <2>4. CASE CountAttempt(p)
    <3>1. job[p] \in Deliveries
        BY <2>4 DEF CountAttempt, Working
    <3> QED
        BY <2>4, <3>1 DEF CountAttempt, Fenced, Same, TypeOK
  <2> QED
      BY <1>1, <2>1, <2>2, <2>3, <2>4 DEF Before
<1>2. ASSUME After(p) PROVE Same(d)
  <2>1. CASE GiveBack(p) \/ Finalize(p)
    <3>1. job[p] \in Deliveries
        BY <2>1 DEF GiveBack, Finalize, Working
    <3> QED
        BY <2>1, <3>1, ReleaseFrame DEF GiveBack, Finalize, Settle
  <2>2. CASE ~(GiveBack(p) \/ Finalize(p))
    <3>1. UNCHANGED delivery
        BY <1>2, <2>2 DEF After, BeginCall, Answer, CleanUp, CleanUpFails
    <3> QED
        BY <3>1 DEF Same, delivery
  <2> QED
      BY <2>1, <2>2
<1>3. ASSUME Abandon(p) PROVE Same(d)
    BY <1>3 DEF Abandon, Same, delivery
<1> QED
    BY <1>1, <1>2, <1>3 DEF Step

\* A claim that is lost stays lost: only its own worker could draw it again.
LEMMA ClaimGain ==
    ASSUME TypeOK, Working, NEW p \in Processes, Step(p),
           NEW d \in Deliveries, NEW q \in Processes, q # p,
           status'[d] = "processing", claim'[d] = q
    PROVE  status[d] = "processing" /\ claim[d] = q
<1>1. ASSUME NEW s, NEW n, NEW c, FencedUpdate(p, s, n, c), job[p] \in Deliveries
      PROVE  status[d] = "processing" /\ claim[d] = q
    BY <1>1 DEF FencedUpdate, Fenced, TypeOK, delivery
<1>2. ASSUME Before(p) PROVE status[d] = "processing" /\ claim[d] = q
  <2>1. ASSUME NEW e \in Deliveries, Claim(p, e)
        PROVE  status[d] = "processing" /\ claim[d] = q
      BY <2>1 DEF Claim, TypeOK
  <2>2. CASE Start(p) \/ Fetch(p) \/ NotFound(p) \/ CountAttempt(p)
      BY <2>2 DEF Start, Fetch, NotFound, CountAttempt, delivery
  <2>3. CASE Cancel(p) \/ QuietHours(p) \/ GiveUp(p) \/ NoTimeLeft(p)
    <3>1. job[p] \in Deliveries
        BY <2>3 DEF Cancel, QuietHours, GiveUp, NoTimeLeft, Working
    <3> QED
        BY <2>3, <3>1, <1>1 DEF Cancel, QuietHours, GiveUp, NoTimeLeft, Settle
  <2> QED
      BY <1>2, <2>1, <2>2, <2>3 DEF Before
<1>3. ASSUME After(p) PROVE status[d] = "processing" /\ claim[d] = q
  <2>1. CASE GiveBack(p) \/ Finalize(p)
    <3>1. job[p] \in Deliveries
        BY <2>1 DEF GiveBack, Finalize, Working
    <3> QED
        BY <2>1, <3>1, <1>1 DEF GiveBack, Finalize, Settle
  <2>2. CASE ~(GiveBack(p) \/ Finalize(p))
    <3>1. UNCHANGED delivery
        BY <1>3, <2>2 DEF After, BeginCall, Answer, CleanUp, CleanUpFails
    <3> QED
        BY <3>1 DEF delivery
  <2> QED
      BY <2>1, <2>2
<1>4. ASSUME Abandon(p) PROVE status[d] = "processing" /\ claim[d] = q
    BY <1>4 DEF Abandon, delivery
<1> QED
    BY <1>2, <1>3, <1>4 DEF Step

\* What the world outside does to the claim of a worker and to the worker.
Outside ==
    \/ \E d \in Deliveries : Plan(d) \/ BecomeDue(d)
    \/ Subscribe \/ Unsubscribe

LEMMA OutsideFrame ==
    ASSUME TypeOK, Outside
    PROVE  /\ UNCHANGED <<worker, claim, lease, attempts, history>>
           /\ \A d \in Deliveries : status[d] = "processing" <=> status'[d] = "processing"
           /\ dead' = dead
<1>1. ASSUME NEW d \in Deliveries, Plan(d)
      PROVE  /\ UNCHANGED <<worker, claim, lease, attempts, history>>
             /\ \A e \in Deliveries : status[e] = "processing" <=> status'[e] = "processing"
             /\ dead' = dead
    BY <1>1 DEF Plan, TypeOK, device
<1>2. CASE (\E d \in Deliveries : BecomeDue(d)) \/ Subscribe \/ Unsubscribe
    BY <1>2 DEF BecomeDue, Subscribe, Unsubscribe, delivery, device
<1> QED
    BY <1>1, <1>2 DEF Outside

LEMMA Kinds == Next <=> Outside \/ Tick \/ \E p \in Processes : Step(p)
  BY DEF Next, Outside, Step, Work

-----------------------------------------------------------------------------
(* The other conjuncts of the invariant.                                   *)

LEMMA FinishIdle ==
    ASSUME TypeOK, NEW p \in Processes, Finish(p)
    PROVE  at'[p] = "idle"
  BY DEF Finish, TypeOK

\* Where a step leaves its own worker.
LEMMA OwnStep ==
    ASSUME TypeOK, NEW p \in Processes, Step(p)
    PROVE  \/ at'[p] = "idle"
           \/ \E d \in Deliveries : Claim(p, d) /\ at'[p] = "claimed" /\ job'[p] = d
           \/ at'[p] # "idle" /\ at[p] # "idle" /\ job'[p] = job[p]
<1>1. CASE \E d \in Deliveries : Claim(p, d)
    BY <1>1 DEF Claim, TypeOK
<1>2. CASE Start(p) \/ Fetch(p)
    BY <1>2 DEF Start, Fetch, TypeOK
<1>3. CASE NotFound(p) \/ Abandon(p)
    BY <1>3, FinishIdle DEF NotFound, Abandon
<1>4. CASE Cancel(p) \/ QuietHours(p) \/ GiveUp(p) \/ NoTimeLeft(p) \/ GiveBack(p) \/ Finalize(p)
    BY <1>4, FinishIdle DEF Cancel, QuietHours, GiveUp, NoTimeLeft, GiveBack, Finalize, Settle,
       FencedUpdate
<1>5. CASE CountAttempt(p)
    BY <1>5, FinishIdle DEF CountAttempt, TypeOK
<1>6. CASE BeginCall(p) \/ CleanUp(p) \/ CleanUpFails(p)
    BY <1>6 DEF BeginCall, CleanUp, CleanUpFails, TypeOK
<1>7. CASE \E r \in Results, gone \in BOOLEAN : Answer(p, r, gone)
    BY <1>7 DEF Answer, TypeOK
<1> QED
    BY <1>1, <1>2, <1>3, <1>4, <1>5, <1>6, <1>7 DEF Step, Before, After

LEMMA WorkingStep == Inv /\ Next => Working'
<1> SUFFICES ASSUME Inv, Next, NEW q \in Processes, at'[q] # "idle"
             PROVE  job'[q] \in Deliveries
    BY DEF Working
<1> USE DEF Inv
<1>1. CASE Outside
    BY <1>1, OutsideFrame DEF Working, worker
<1>2. CASE Tick
    BY <1>2 DEF Tick, Working
<1>3. ASSUME NEW p \in Processes, Step(p) PROVE job'[q] \in Deliveries
  <2>1. CASE p = q
      BY <1>3, <2>1, OwnStep DEF Working
  <2>2. CASE p # q
      BY <1>3, <2>2, WorkerFrame DEF Working
  <2> QED
      BY <2>1, <2>2
<1> QED
    BY <1>1, <1>2, <1>3, Kinds

LEMMA BudgetedStep == Inv /\ Next => Budgeted'
<1> SUFFICES ASSUME Inv, Next, NEW q \in Processes,
                    \/ at'[q] = "call"
                    \/ at'[q] \in {"fetched", "prepared"} /\ left'[q] > 0
             PROVE  Holds(q)'
    BY DEF Budgeted
<1> USE DEF Inv
<1>1. CASE Outside
  <2>1. /\ at'[q] = at[q] /\ job'[q] = job[q] /\ left'[q] = left[q]
        /\ claim' = claim /\ lease' = lease
        /\ \A d \in Deliveries : status[d] = "processing" <=> status'[d] = "processing"
      BY <1>1, OutsideFrame DEF worker
  <2>2. job[q] \in Deliveries /\ Holds(q)
      BY <2>1 DEF Working, Budgeted
  <2> QED
      BY <2>1, <2>2 DEF Holds
<1>2. CASE Tick
  <2>1. /\ at'[q] = at[q] /\ job'[q] = job[q] /\ status' = status /\ claim' = claim
        /\ left'[q] = Drop(left[q])
        /\ at[q] = "call" => left[q] > 0
      BY <1>2 DEF Tick
  <2>2. left[q] > 0 /\ left[q] \in Nat
      BY <2>1 DEF Drop, TypeOK
  <2>3. job[q] \in Deliveries /\ Holds(q)
      BY <2>1, <2>2 DEF Working, Budgeted
  <2>4. lease'[job[q]] = Drop(lease[job[q]]) /\ lease[job[q]] \in Nat
      BY <1>2, <2>3 DEF Tick, TypeOK
  <2> QED
      BY <2>1, <2>2, <2>3, <2>4 DEF Holds, Drop
<1>3. ASSUME NEW p \in Processes, Step(p), p # q PROVE Holds(q)'
  <2>1. at'[q] = at[q] /\ job'[q] = job[q] /\ left'[q] = left[q]
      BY <1>3, WorkerFrame
  <2>2. job[q] \in Deliveries /\ Holds(q)
      BY <2>1 DEF Working, Budgeted
  <2>3. left[q] \in Nat /\ lease[job[q]] \in Nat
      BY <2>2 DEF TypeOK
  <2>4. lease[job[q]] # 0
      BY <2>2, <2>3 DEF Holds
  <2>5. Same(job[q])
      BY <1>3, <2>2, <2>4, ClaimFrame DEF Holds
  <2> QED
      BY <2>1, <2>2, <2>5 DEF Holds, Same
<1>4. CASE Step(q)
  <2>1. CASE Fetch(q)
    <3>1. /\ job[q] \in Deliveries /\ job'[q] = job[q]
          /\ at'[q] = "fetched" /\ left'[q] = Budget(q)
          /\ UNCHANGED <<status, claim, lease>>
        BY <2>1 DEF Fetch, Working, TypeOK, delivery
    <3>2. left[q] \in Nat /\ lease[job[q]] \in Nat
        BY <3>1 DEF TypeOK
    <3>3. Budget(q) + Safety <= lease[job[q]]
        BY <3>1, <3>2 DEF Budget, Least
    <3> QED
        BY <2>1, <3>1, <3>3 DEF Fetch, Fenced, Holds
  <2>2. CASE CountAttempt(q)
    <3>1. /\ at[q] = "fetched" /\ left[q] >= MinBudget /\ left[q] \in Nat
          /\ UNCHANGED <<status, claim, lease>>
        BY <2>2 DEF CountAttempt, TypeOK
    <3>2. at'[q] = "prepared" /\ left' = left /\ job' = job
        BY <2>2, FinishIdle DEF CountAttempt, TypeOK
    <3> QED
        BY <3>1, <3>2 DEF Budgeted, Holds
  <2>3. CASE BeginCall(q)
    <3>1. /\ at[q] = "prepared" /\ left[q] >= MinBudget /\ left[q] \in Nat
          /\ UNCHANGED <<status, claim, lease, left, job>>
        BY <2>3 DEF BeginCall, TypeOK, delivery
    <3> QED
        BY <3>1 DEF Budgeted, Holds
  <2>4. CASE ~(Fetch(q) \/ CountAttempt(q) \/ BeginCall(q))
    <3>1. at'[q] \notin {"fetched", "prepared", "call"}
      <4>1. CASE (\E d \in Deliveries : Claim(q, d)) \/ Start(q)
          BY <4>1 DEF Claim, Start, TypeOK
      <4>2. CASE NotFound(q) \/ Abandon(q)
          BY <4>2, FinishIdle DEF NotFound, Abandon
      <4>3. CASE Cancel(q) \/ QuietHours(q) \/ GiveUp(q) \/ NoTimeLeft(q) \/ GiveBack(q) \/ Finalize(q)
          BY <4>3, FinishIdle DEF Cancel, QuietHours, GiveUp, NoTimeLeft, GiveBack, Finalize,
             Settle, FencedUpdate
      <4>4. CASE CleanUp(q) \/ CleanUpFails(q)
          BY <4>4 DEF CleanUp, CleanUpFails, TypeOK
      <4>5. CASE \E r \in Results, gone \in BOOLEAN : Answer(q, r, gone)
          BY <4>5 DEF Answer, TypeOK
      <4> QED
          BY <1>4, <2>4, <4>1, <4>2, <4>3, <4>4, <4>5 DEF Step, Before, After
    <3> QED
        BY <3>1
  <2> QED
      BY <2>1, <2>2, <2>3, <2>4
<1> QED
    BY <1>1, <1>2, <1>3, <1>4, Kinds

\* The count a worker has read, for one worker.
Read(q) ==
    /\ Counted(q) => seen[q] < MaxAttempts
    /\ at[q] = "fetched" /\ Fenced(q) => attempts[job[q]] = seen[q]
    /\ Counted(q) /\ Fenced(q) => attempts[job[q]] = seen[q] + 1

LEMMA CountReadStep == Inv /\ Next => CountRead'
<1> SUFFICES ASSUME Inv, Next, NEW q \in Processes PROVE Read(q)'
    BY DEF CountRead, Read, Counted
<1> USE DEF Inv
<1>0. Read(q)
    BY DEF CountRead, Read
<1>1. CASE Outside
  <2>1. /\ at'[q] = at[q] /\ job'[q] = job[q] /\ seen'[q] = seen[q]
        /\ claim' = claim /\ attempts' = attempts
        /\ \A d \in Deliveries : status[d] = "processing" <=> status'[d] = "processing"
      BY <1>1, OutsideFrame DEF worker
  <2> QED
      BY <1>0, <2>1 DEF Read, Counted, Fenced, Working
<1>2. CASE Tick
  <2>1. at' = at /\ job' = job /\ seen' = seen /\ UNCHANGED <<status, claim, attempts>>
      BY <1>2 DEF Tick
  <2> QED
      BY <1>0, <2>1 DEF Read, Counted, Fenced
<1>3. ASSUME NEW p \in Processes, Step(p), p # q PROVE Read(q)'
  <2>1. at'[q] = at[q] /\ job'[q] = job[q] /\ seen'[q] = seen[q]
      BY <1>3, WorkerFrame
  <2>2. CASE at[q] = "fetched" \/ Counted(q)
    <3>1. job[q] \in Deliveries
        BY <2>2 DEF Working, Counted
    <3>2. Fenced(q)' => Fenced(q)
        BY <1>3, <2>1, <3>1, ClaimGain DEF Fenced
    <3>3. Fenced(q)' => Same(job[q])
        BY <1>3, <2>1, <3>1, <3>2, ClaimFrame DEF Fenced
    <3> QED
        BY <1>0, <2>1, <3>2, <3>3 DEF Read, Counted, Same
  <2>3. CASE ~(at[q] = "fetched" \/ Counted(q))
      BY <2>1, <2>3 DEF Read, Counted
  <2> QED
      BY <2>2, <2>3
<1>4. CASE Step(q)
  <2>1. CASE at'[q] \notin {"fetched", "prepared", "call", "cleanup", "finalize"}
      BY <2>1 DEF Read, Counted
  <2>2. CASE Fetch(q)
    <3>1. /\ at'[q] = "fetched" /\ job'[q] = job[q] /\ seen'[q] = attempts[job[q]]
          /\ attempts' = attempts
        BY <2>2 DEF Fetch, TypeOK, delivery
    <3> QED
        BY <3>1 DEF Read, Counted
  <2>3. CASE CountAttempt(q) /\ Fenced(q)
    <3>1. /\ job[q] \in Deliveries /\ seen[q] < MaxAttempts
          /\ at[q] = "fetched" /\ at'[q] = "prepared" /\ job' = job /\ seen' = seen
          /\ attempts'[job[q]] = attempts[job[q]] + 1
        BY <2>3 DEF CountAttempt, Exhausted, Working, TypeOK
    <3> QED
        BY <1>0, <2>3, <3>1 DEF Read, Counted
  <2>4. CASE BeginCall(q) \/ CleanUp(q) \/ CleanUpFails(q)
    <3>1. /\ Counted(q) /\ at'[q] \notin {"fetched", "idle"} /\ job' = job /\ seen' = seen
          /\ UNCHANGED <<status, claim, attempts>>
        BY <2>4 DEF BeginCall, CleanUp, CleanUpFails, Counted, TypeOK, delivery
    <3> QED
        BY <1>0, <3>1 DEF Read, Counted, Fenced
  <2>5. CASE \E r \in Results, gone \in BOOLEAN : Answer(q, r, gone)
    <3>1. /\ Counted(q) /\ at'[q] \notin {"fetched", "idle"} /\ job' = job /\ seen' = seen
          /\ UNCHANGED <<status, claim, attempts>>
        BY <2>5 DEF Answer, Counted, TypeOK, delivery
    <3> QED
        BY <1>0, <3>1 DEF Read, Counted, Fenced
  <2>6. CASE (\E d \in Deliveries : Claim(q, d)) \/ Start(q)
      BY <2>1, <2>6 DEF Claim, Start, TypeOK
  <2>7. CASE NotFound(q) \/ Abandon(q) \/ (CountAttempt(q) /\ ~Fenced(q))
      BY <2>1, <2>7, FinishIdle DEF NotFound, Abandon, CountAttempt
  <2>8. CASE Cancel(q) \/ QuietHours(q) \/ GiveUp(q) \/ NoTimeLeft(q) \/ GiveBack(q) \/ Finalize(q)
      BY <2>1, <2>8, FinishIdle DEF Cancel, QuietHours, GiveUp, NoTimeLeft, GiveBack, Finalize,
         Settle, FencedUpdate
  <2> QED
      BY <1>4, <2>2, <2>3, <2>4, <2>5, <2>6, <2>7, <2>8 DEF Step, Before, After
<1> QED
    BY <1>1, <1>2, <1>3, <1>4, Kinds

\* What has been answered, and what has been found dead, stays so.
LEMMA HistoryGrows ==
    ASSUME Inv, Next
    PROVE  dead \subseteq dead' /\ \A d \in Deliveries : answers[d] \subseteq answers'[d]
<1> USE DEF Inv
<1>1. CASE Outside \/ Tick
    BY <1>1, OutsideFrame DEF Tick, history, device
<1>2. ASSUME NEW p \in Processes, Step(p)
      PROVE  dead \subseteq dead' /\ \A d \in Deliveries : answers[d] \subseteq answers'[d]
  <2>1. ASSUME NEW r \in Results, NEW gone \in BOOLEAN, Answer(p, r, gone)
        PROVE  dead \subseteq dead' /\ \A d \in Deliveries : answers[d] \subseteq answers'[d]
    <3>1. dead \subseteq dead'
        BY <2>1 DEF Answer
    <3>2. \A d \in Deliveries : answers[d] \subseteq answers'[d]
        BY <2>1 DEF Answer, TypeOK
    <3> QED
        BY <3>1, <3>2
  <2>2. CASE Before(p)
      BY <2>2 DEF Before, Claim, Start, Fetch, NotFound, Cancel, QuietHours, GiveUp, NoTimeLeft,
         CountAttempt, history, device
  <2>3. CASE After(p) /\ ~\E r \in Results, gone \in BOOLEAN : Answer(p, r, gone)
      BY <2>3 DEF After, GiveBack, BeginCall, CleanUp, CleanUpFails, Finalize, history, device
  <2>4. CASE Abandon(p)
      BY <2>4 DEF Abandon, device
  <2> QED
      BY <1>2, <2>1, <2>2, <2>3, <2>4 DEF Step
<1> QED
    BY <1>1, <1>2, Kinds

\* The last two conjuncts, for one worker.
Prepared(q) ==
    /\ at[q] \in {"prepared", "call"} /\ job[q] \in Push => target[q] # 0
    /\ at[q] = "cleanup" => target[q] \in dead
    /\ at[q] \in {"cleanup", "finalize"} => result[q] \in answers[job[q]]

LEMMA PreparedStep == Inv /\ Next => Destined' /\ Answered'
<1> SUFFICES ASSUME Inv, Next, NEW q \in Processes PROVE Prepared(q)'
    BY DEF Destined, Answered, Prepared
<1> USE DEF Inv
<1>0. Prepared(q)
    BY DEF Prepared, Destined, Answered
<1>1. dead \subseteq dead' /\ \A d \in Deliveries : answers[d] \subseteq answers'[d]
    BY HistoryGrows
<1>2. ASSUME at'[q] = at[q], job'[q] = job[q], target'[q] = target[q], result'[q] = result[q]
      PROVE  Prepared(q)'
    BY <1>0, <1>1, <1>2 DEF Prepared, Working
<1>3. CASE Outside
    BY <1>2, <1>3, OutsideFrame DEF worker
<1>4. CASE Tick
    BY <1>2, <1>4 DEF Tick
<1>5. ASSUME NEW p \in Processes, Step(p), p # q PROVE Prepared(q)'
    BY <1>2, <1>5, WorkerFrame
<1>6. CASE Step(q)
  <2>1. CASE at'[q] \notin {"prepared", "call", "cleanup", "finalize"}
      BY <2>1 DEF Prepared
  <2>2. CASE Fetch(q) \/ Start(q) \/ \E d \in Deliveries : Claim(q, d)
      BY <2>1, <2>2 DEF Claim, Start, Fetch, TypeOK
  <2>3. CASE CountAttempt(q) /\ Fenced(q)
    <3>1. /\ at'[q] = "prepared" /\ job' = job /\ target' = target
          /\ job[q] \in Push => target[q] # 0
        BY <2>3 DEF CountAttempt, HasDestination, TypeOK
    <3> QED
        BY <3>1 DEF Prepared
  <2>4. CASE NotFound(q) \/ Abandon(q) \/ (CountAttempt(q) /\ ~Fenced(q))
      BY <2>1, <2>4, FinishIdle DEF NotFound, Abandon, CountAttempt
  <2>5. CASE Cancel(q) \/ QuietHours(q) \/ GiveUp(q) \/ NoTimeLeft(q) \/ GiveBack(q) \/ Finalize(q)
      BY <2>1, <2>5, FinishIdle DEF Cancel, QuietHours, GiveUp, NoTimeLeft, GiveBack, Finalize,
         Settle, FencedUpdate
  <2>6. CASE BeginCall(q)
    <3>1. at[q] = "prepared" /\ at'[q] = "call" /\ job' = job /\ target' = target
        BY <2>6 DEF BeginCall, TypeOK
    <3> QED
        BY <1>0, <3>1 DEF Prepared
  <2>7. ASSUME NEW r \in Results, NEW gone \in BOOLEAN, Answer(q, r, gone) PROVE Prepared(q)'
    <3>1. /\ job[q] \in Deliveries /\ job' = job /\ target' = target
          /\ result'[q] = r /\ r \in answers'[job[q]]
        BY <2>7 DEF Answer, Working, TypeOK
    <3>2. at'[q] \in {"cleanup", "finalize"}
        BY <2>7 DEF Answer, TypeOK
    <3>3. at'[q] = "cleanup" => target[q] \in dead'
        BY <2>7 DEF Answer, TypeOK
    <3> QED
        BY <3>1, <3>2, <3>3 DEF Prepared
  <2>8. CASE CleanUp(q) \/ CleanUpFails(q)
    <3>1. /\ at[q] = "cleanup" /\ at'[q] = "finalize" /\ job' = job /\ result' = result
          /\ answers' = answers
        BY <2>8 DEF CleanUp, CleanUpFails, TypeOK, history
    <3> QED
        BY <1>0, <3>1 DEF Prepared
  <2> QED
      BY <1>6, <2>2, <2>3, <2>4, <2>5, <2>6, <2>7, <2>8 DEF Step, Before, After
<1> QED
    BY <1>3, <1>4, <1>5, <1>6, Kinds

LEMMA InvStep == Inv /\ [Next]_vars => Inv'
<1>1. Inv /\ Next => Inv'
    BY TypeStep, WorkingStep, BudgetedStep, CountReadStep, PreparedStep DEF Inv
<1>2. ASSUME Inv, UNCHANGED vars PROVE Inv'
  <2>1. TypeOK' /\ Working' /\ Budgeted'
      BY <1>2 DEF Inv, vars, TypeOK, Working, Budgeted, Holds
  <2>2. CountRead' /\ Destined' /\ Answered'
      BY <1>2 DEF Inv, vars, CountRead, Counted, Fenced, Destined, Answered
  <2> QED
      BY <2>1, <2>2 DEF Inv
<1> QED
    BY <1>1, <1>2

\* The invariant holds in every reachable state.
THEOREM InvHolds == Spec => []Inv
  BY InitInv, InvStep, PTL DEF Spec

\* The tables and the workers stay within their types; in particular no attempt
\* is counted past MaxAttempts.
THEOREM TypeCorrect == Spec => []TypeOK
<1>1. Inv => TypeOK
    BY DEF Inv
<1> QED
    BY <1>1, InvHolds, PTL

\* No two calls for one delivery are open at a time: a call is open only while
\* the claim of its worker stands.
THEOREM CallsAreExclusive == Spec => []ExclusiveCalls
<1>1. Inv => ExclusiveCalls
    BY DEF Inv, Budgeted, Holds, ExclusiveCalls
<1> QED
    BY <1>1, InvHolds, PTL

-----------------------------------------------------------------------------
(* What is recorded for good.                                              *)

Decided(s, d, a, n) ==
    /\ s = "sent" => "accepted" \in a
    /\ s = "failed" => "rejected" \in a \/ n = MaxAttempts

\* A step that leaves the status of a delivery, or leaves it unsettled, keeps
\* what is true of its outcome.
LEMMA ReleaseOutcome ==
    ASSUME Inv, OutcomeIsTrue, NEW p \in Processes, job[p] \in Deliveries, NEW s, NEW n,
           NEW c \in 0 .. MaxAttempts, FencedUpdate(p, s, n, c), answers' = answers,
           Fenced(p) => Decided(s, job[p], answers[job[p]], c)
    PROVE  OutcomeIsTrue'
<1> USE DEF Inv
<1>1. CASE Fenced(p)
  <2> SUFFICES ASSUME NEW d \in Deliveries
               PROVE  /\ status'[d] = "sent" => "accepted" \in answers'[d]
                      /\ status'[d] = "failed" => "rejected" \in answers'[d]
                                                  \/ attempts'[d] = MaxAttempts
      BY DEF OutcomeIsTrue
  <2>1. CASE d = job[p]
      BY <1>1, <2>1 DEF FencedUpdate, Decided, TypeOK
  <2>2. CASE d # job[p]
      BY <1>1, <2>2 DEF FencedUpdate, OutcomeIsTrue, TypeOK
  <2> QED
      BY <2>1, <2>2
<1>2. CASE ~Fenced(p)
    BY <1>2 DEF FencedUpdate, OutcomeIsTrue, delivery
<1> QED
    BY <1>1, <1>2

LEMMA OutcomeStep == Inv /\ OutcomeIsTrue /\ Next => OutcomeIsTrue'
<1> SUFFICES ASSUME Inv, OutcomeIsTrue, Next PROVE OutcomeIsTrue'
    OBVIOUS
<1> USE DEF Inv
<1>1. ASSUME status' = status, attempts' = attempts PROVE OutcomeIsTrue'
    BY <1>1, HistoryGrows DEF OutcomeIsTrue
<1>2. ASSUME NEW d \in Deliveries, Plan(d) PROVE OutcomeIsTrue'
    BY <1>2 DEF Plan, OutcomeIsTrue, TypeOK, history
<1>3. CASE (\E d \in Deliveries : BecomeDue(d)) \/ Subscribe \/ Unsubscribe \/ Tick
    BY <1>1, <1>3 DEF BecomeDue, Subscribe, Unsubscribe, Tick, delivery
<1>4. ASSUME NEW p \in Processes, NEW d \in Deliveries, Claim(p, d) PROVE OutcomeIsTrue'
    BY <1>4 DEF Claim, OutcomeIsTrue, TypeOK, history
<1>5. ASSUME NEW p \in Processes,
             Start(p) \/ Fetch(p) \/ NotFound(p) \/ BeginCall(p) \/ CleanUp(p) \/ CleanUpFails(p)
             \/ Abandon(p) \/ \E r \in Results, gone \in BOOLEAN : Answer(p, r, gone)
      PROVE  OutcomeIsTrue'
    BY <1>1, <1>5 DEF Start, Fetch, NotFound, BeginCall, CleanUp, CleanUpFails, Abandon, Answer,
       delivery
<1>6. ASSUME NEW p \in Processes, CountAttempt(p) PROVE OutcomeIsTrue'
  <2>1. CASE Fenced(p)
      BY <1>6, <2>1 DEF CountAttempt, Fenced, OutcomeIsTrue, TypeOK, history
  <2>2. CASE ~Fenced(p)
      BY <1>1, <1>6, <2>2 DEF CountAttempt
  <2> QED
      BY <2>1, <2>2
<1>7. ASSUME NEW p \in Processes, Cancel(p) \/ QuietHours(p) \/ NoTimeLeft(p) \/ GiveBack(p)
      PROVE  OutcomeIsTrue'
  <2>1. /\ job[p] \in Deliveries /\ answers' = answers
        /\ attempts[job[p]] \in 0 .. MaxAttempts /\ CountBefore(p) \in 0 .. MaxAttempts
      BY <1>7 DEF Cancel, QuietHours, NoTimeLeft, GiveBack, Working, history, TypeOK, CountBefore
  <2>2. \A a, c : Decided("cancelled", job[p], a, c) /\ Decided("queued", job[p], a, c)
      BY DEF Decided
  <2> QED
      BY <1>7, <2>1, <2>2, ReleaseOutcome DEF Cancel, QuietHours, NoTimeLeft, GiveBack, Settle
<1>8. ASSUME NEW p \in Processes, GiveUp(p) PROVE OutcomeIsTrue'
  <2>1. /\ job[p] \in Deliveries /\ answers' = answers
        /\ attempts[job[p]] \in 0 .. MaxAttempts /\ Settle(p, "failed")
      BY <1>8 DEF GiveUp, Working, history, TypeOK
  <2>2. Fenced(p) => attempts[job[p]] = MaxAttempts
      BY <1>8, <2>1 DEF GiveUp, Exhausted, CountRead
  <2>3. Fenced(p) => Decided("failed", job[p], answers[job[p]], attempts[job[p]])
      BY <2>2 DEF Decided
  <2> QED
      BY <2>1, <2>3, ReleaseOutcome DEF Settle
<1>9. ASSUME NEW p \in Processes, Finalize(p) PROVE OutcomeIsTrue'
  <2> DEFINE s == Outcome(result[p], seen[p] + 1)
  <2>1. /\ job[p] \in Deliveries /\ answers' = answers /\ at[p] = "finalize"
        /\ attempts[job[p]] \in 0 .. MaxAttempts /\ Settle(p, s)
      BY <1>9 DEF Finalize, Working, history, TypeOK
  <2>2. result[p] \in answers[job[p]] /\ result[p] \in Results
      BY <2>1 DEF Answered, TypeOK
  <2>3. Fenced(p) => attempts[job[p]] = seen[p] + 1
      BY <2>1 DEF CountRead, Counted
  <2>4. Fenced(p) => Decided(s, job[p], answers[job[p]], attempts[job[p]])
      BY <2>1, <2>2, <2>3 DEF Decided, Outcome, Exhausted, Results
  <2> HIDE DEF s
  <2> QED
      BY <2>1, <2>4, ReleaseOutcome DEF Settle
<1> QED
    BY <1>2, <1>3, <1>4, <1>5, <1>6, <1>7, <1>8, <1>9 DEF Next, Work, Before, After

\* A delivery that is recorded as sent was accepted; one that is recorded as
\* failed was refused, or tried MaxAttempts times.
THEOREM OutcomesAreTrue == Spec => []OutcomeIsTrue
<1>1. Init => OutcomeIsTrue
    BY DEF Init, OutcomeIsTrue
<1>2. Inv /\ OutcomeIsTrue /\ [Next]_vars => OutcomeIsTrue'
  <2>1. OutcomeIsTrue /\ UNCHANGED vars => OutcomeIsTrue'
      BY DEF OutcomeIsTrue, vars
  <2> QED
      BY <2>1, OutcomeStep
<1> QED
    BY <1>1, <1>2, InvHolds, PTL DEF Spec

-----------------------------------------------------------------------------
(* The accounts of the attempts.                                           *)

\* The workers that have counted an attempt at d and not begun the call.
Ahead(d) == {p \in Processes : at[p] = "prepared" /\ job[p] = d}

Balanced(d) == attempts[d] = calls[d] + forfeits[d] + Cardinality(Ahead(d))

LEMMA AheadFinite ==
    ASSUME NEW d
    PROVE  /\ IsFiniteSet(Ahead(d)) /\ IsFiniteSet(Ahead(d)')
           /\ Cardinality(Ahead(d)) \in Nat /\ Cardinality(Ahead(d)') \in Nat
<1>1. IsFiniteSet(Ahead(d)) /\ IsFiniteSet(Ahead(d)')
    BY FS_Subset DEF Ahead
<1> QED
    BY <1>1, FS_CardinalityType

\* A worker joins them.
LEMMA AheadJoin ==
    ASSUME NEW d, NEW p \in Processes, Ahead(d)' = Ahead(d) \cup {p}, p \notin Ahead(d)
    PROVE  Cardinality(Ahead(d)') = Cardinality(Ahead(d)) + 1
  BY AheadFinite, FS_AddElement

\* A worker leaves them.
LEMMA AheadLeave ==
    ASSUME NEW d, NEW p \in Processes, Ahead(d)' = Ahead(d) \ {p}, p \in Ahead(d)
    PROVE  Cardinality(Ahead(d)) = Cardinality(Ahead(d)') + 1
  BY AheadFinite, FS_RemoveElement, FS_CardinalityType

\* Nobody joins or leaves, and the books are not touched.
LEMMA AheadKept ==
    ASSUME NEW d, Balanced(d), Ahead(d)' = Ahead(d), attempts'[d] = attempts[d],
           calls'[d] = calls[d], forfeits'[d] = forfeits[d]
    PROVE  Balanced(d)'
  BY DEF Balanced

\* The only worker that may join or leave is the one that takes the step.
LEMMA AheadStep ==
    ASSUME TypeOK, NEW p \in Processes, Step(p), NEW d
    PROVE  Ahead(d)' \ {p} = Ahead(d) \ {p}
  BY WorkerFrame DEF Ahead

LEMMA BalanceStep == Inv /\ AttemptsAreCalls /\ Next => AttemptsAreCalls'
<1> SUFFICES ASSUME Inv, AttemptsAreCalls, Next, NEW d \in Deliveries PROVE Balanced(d)'
    BY DEF AttemptsAreCalls, Balanced, Ahead
<1> USE DEF Inv
<1>0. Balanced(d) /\ attempts[d] \in Nat /\ calls[d] \in Nat /\ forfeits[d] \in Nat
    BY DEF AttemptsAreCalls, Balanced, Ahead, TypeOK
<1>1. CASE Outside \/ Tick
  <2>1. UNCHANGED <<at, job, attempts, calls, forfeits>>
      BY <1>1, OutsideFrame DEF Tick, worker, history
  <2>2. Ahead(d)' = Ahead(d)
      BY <2>1 DEF Ahead
  <2> QED
      BY <1>0, <2>1, <2>2, AheadKept
<1>2. ASSUME NEW p \in Processes, Step(p), p \notin Ahead(d), p \notin Ahead(d)',
             attempts'[d] = attempts[d], calls'[d] = calls[d], forfeits'[d] = forfeits[d]
      PROVE  Balanced(d)'
  <2>1. Ahead(d)' = Ahead(d)
      BY <1>2, AheadStep
  <2> QED
      BY <1>0, <1>2, <2>1, AheadKept
<1>3. ASSUME NEW p \in Processes, NEW e \in Deliveries, Claim(p, e) PROVE Balanced(d)'
  <2>1. /\ at[p] = "idle" /\ at'[p] = "claimed"
        /\ UNCHANGED <<attempts, calls, forfeits>>
      BY <1>3 DEF Claim, TypeOK, history
  <2>2. p \notin Ahead(d) /\ p \notin Ahead(d)' /\ Step(p)
      BY <1>3, <2>1 DEF Ahead, Step, Before
  <2> QED
      BY <1>2, <2>1, <2>2
<1>4. ASSUME NEW p \in Processes,
             Start(p) \/ Fetch(p) \/ NotFound(p) \/ CleanUp(p) \/ CleanUpFails(p)
             \/ \E r \in Results, gone \in BOOLEAN : Answer(p, r, gone)
      PROVE  Balanced(d)'
  <2>1. /\ at[p] # "prepared" /\ at'[p] # "prepared"
        /\ UNCHANGED <<attempts, calls, forfeits>>
      BY <1>4, FinishIdle DEF Start, Fetch, NotFound, CleanUp, CleanUpFails, Answer, TypeOK,
         delivery, history
  <2>2. p \notin Ahead(d) /\ p \notin Ahead(d)' /\ Step(p)
      BY <1>4, <2>1 DEF Ahead, Step, Before, After
  <2> QED
      BY <1>2, <2>1, <2>2
<1>5. ASSUME NEW p \in Processes, Cancel(p) \/ QuietHours(p) \/ GiveUp(p) \/ NoTimeLeft(p) \/ Finalize(p)
      PROVE  Balanced(d)'
  <2>1. /\ at[p] # "prepared" /\ at'[p] # "prepared" /\ job[p] \in Deliveries
        /\ UNCHANGED <<calls, forfeits>>
      BY <1>5, FinishIdle DEF Cancel, QuietHours, GiveUp, NoTimeLeft, Finalize, Settle,
           FencedUpdate,
         Working, history
  <2>2. attempts' = attempts
      BY <1>5, <2>1 DEF Cancel, QuietHours, GiveUp, NoTimeLeft, Finalize, Settle, FencedUpdate,
         delivery, TypeOK
  <2>3. p \notin Ahead(d) /\ p \notin Ahead(d)' /\ Step(p)
      BY <1>5, <2>1 DEF Ahead, Step, Before, After
  <2> QED
      BY <1>2, <2>1, <2>2, <2>3
<1>6. ASSUME NEW p \in Processes, CountAttempt(p) PROVE Balanced(d)'
  <2>1. at[p] = "fetched" /\ job[p] \in Deliveries /\ UNCHANGED <<calls, forfeits>> /\ Step(p)
      BY <1>6 DEF CountAttempt, Working, history, Step, Before
  <2>2. CASE Fenced(p) /\ job[p] = d
    <3>1. attempts'[d] = attempts[d] + 1 /\ at'[p] = "prepared" /\ job'[p] = d
        BY <1>6, <2>1, <2>2 DEF CountAttempt, TypeOK
    <3>2. Ahead(d)' = Ahead(d) \cup {p} /\ p \notin Ahead(d)
        BY <2>1, <3>1, AheadStep DEF Ahead
    <3>3. Cardinality(Ahead(d)') = Cardinality(Ahead(d)) + 1
        BY <3>2, AheadJoin
    <3>4. Cardinality(Ahead(d)) \in Nat /\ Cardinality(Ahead(d)') \in Nat
        BY AheadFinite
    <3> QED
        BY <1>0, <2>1, <3>1, <3>3, <3>4 DEF Balanced
  <2>3. CASE Fenced(p) /\ job[p] # d
    <3>1. attempts'[d] = attempts[d] /\ job'[p] = job[p]
        BY <1>6, <2>1, <2>3 DEF CountAttempt, TypeOK
    <3> QED
        BY <1>2, <2>1, <2>3, <3>1 DEF Ahead
  <2>4. CASE ~Fenced(p)
    <3>1. attempts' = attempts /\ at'[p] = "idle"
        BY <1>6, <2>4, FinishIdle DEF CountAttempt
    <3> QED
        BY <1>2, <2>1, <3>1 DEF Ahead
  <2> QED
      BY <2>2, <2>3, <2>4
<1>7. ASSUME NEW p \in Processes, BeginCall(p) PROVE Balanced(d)'
  <2>1. /\ at[p] = "prepared" /\ at'[p] = "call" /\ job[p] \in Deliveries
        /\ UNCHANGED <<attempts, forfeits>> /\ Step(p)
      BY <1>7 DEF BeginCall, Working, delivery, TypeOK, Step, After
  <2>2. CASE job[p] = d
    <3>1. calls'[d] = calls[d] + 1
        BY <1>7, <2>1, <2>2 DEF BeginCall, TypeOK
    <3>2. Ahead(d)' = Ahead(d) \ {p} /\ p \in Ahead(d)
        BY <2>1, <2>2, AheadStep DEF Ahead
    <3>3. Cardinality(Ahead(d)) = Cardinality(Ahead(d)') + 1
        BY <3>2, AheadLeave
    <3>4. Cardinality(Ahead(d)) \in Nat /\ Cardinality(Ahead(d)') \in Nat
        BY AheadFinite
    <3> QED
        BY <1>0, <2>1, <3>1, <3>3, <3>4 DEF Balanced
  <2>3. CASE job[p] # d
    <3>1. calls'[d] = calls[d]
        BY <1>7, <2>1, <2>3 DEF BeginCall, TypeOK
    <3> QED
        BY <1>2, <2>1, <2>3, <3>1 DEF Ahead
  <2> QED
      BY <2>2, <2>3
<1>8. ASSUME NEW p \in Processes, GiveBack(p) PROVE Balanced(d)'
  <2>1. /\ at[p] = "prepared" /\ at'[p] = "idle" /\ job[p] \in Deliveries
        /\ UNCHANGED calls /\ Step(p)
      BY <1>8, FinishIdle DEF GiveBack, FencedUpdate, Working, Step, After
  <2>2. CASE job[p] = d
    <3>1. Ahead(d)' = Ahead(d) \ {p} /\ p \in Ahead(d)
        BY <2>1, <2>2, AheadStep DEF Ahead
    <3>2. Cardinality(Ahead(d)) = Cardinality(Ahead(d)') + 1
        BY <3>1, AheadLeave
    <3>3. Cardinality(Ahead(d)) \in Nat /\ Cardinality(Ahead(d)') \in Nat
        BY AheadFinite
    <3>4. CASE Fenced(p)
      <4>1. attempts[d] = seen[p] + 1
          BY <2>1, <2>2, <3>4 DEF CountRead, Counted
      <4>2. attempts'[d] = seen[p] /\ forfeits' = forfeits /\ seen[p] \in Nat
          BY <1>8, <2>1, <2>2, <3>4 DEF GiveBack, FencedUpdate, CountBefore, TypeOK
      <4> QED
          BY <1>0, <2>1, <3>2, <3>3, <4>1, <4>2 DEF Balanced
    <3>5. CASE ~Fenced(p)
      <4>1. attempts' = attempts /\ forfeits'[d] = forfeits[d] + 1
          BY <1>8, <2>1, <2>2, <3>5 DEF GiveBack, FencedUpdate, Forfeit, delivery, TypeOK
      <4> QED
          BY <1>0, <2>1, <3>2, <3>3, <4>1 DEF Balanced
    <3> QED
        BY <3>4, <3>5
  <2>3. CASE job[p] # d
    <3>1. attempts'[d] = attempts[d] /\ forfeits'[d] = forfeits[d]
        BY <1>8, <2>1, <2>3 DEF GiveBack, FencedUpdate, Forfeit, delivery, TypeOK
    <3> QED
        BY <1>2, <2>1, <2>3, <3>1 DEF Ahead
  <2> QED
      BY <2>2, <2>3
<1>9. ASSUME NEW p \in Processes, Abandon(p) PROVE Balanced(d)'
  <2>1. /\ at[p] # "idle" /\ at'[p] = "idle" /\ job[p] \in Deliveries
        /\ UNCHANGED <<calls, attempts>> /\ Step(p)
      BY <1>9, FinishIdle DEF Abandon, Working, delivery, Step
  <2>2. CASE at[p] = "prepared" /\ job[p] = d
    <3>1. forfeits'[d] = forfeits[d] + 1
        BY <1>9, <2>1, <2>2 DEF Abandon, Forfeit, TypeOK
    <3>2. Ahead(d)' = Ahead(d) \ {p} /\ p \in Ahead(d)
        BY <2>1, <2>2, AheadStep DEF Ahead
    <3>3. Cardinality(Ahead(d)) = Cardinality(Ahead(d)') + 1
        BY <3>2, AheadLeave
    <3>4. Cardinality(Ahead(d)) \in Nat /\ Cardinality(Ahead(d)') \in Nat
        BY AheadFinite
    <3> QED
        BY <1>0, <2>1, <3>1, <3>3, <3>4 DEF Balanced
  <2>3. CASE ~(at[p] = "prepared" /\ job[p] = d)
    <3>1. forfeits'[d] = forfeits[d]
        BY <1>9, <2>1, <2>3 DEF Abandon, Forfeit, TypeOK
    <3> QED
        BY <1>2, <2>1, <2>3, <3>1 DEF Ahead
  <2> QED
      BY <2>2, <2>3
<1> QED
    BY <1>1, <1>3, <1>4, <1>5, <1>6, <1>7, <1>8, <1>9, Kinds DEF Step, Before, After

\* Every attempt counted is a call begun, a call about to begin, or one that was
\* lost with its process; with TypeCorrect, no delivery is called for more than
\* MaxAttempts times.
THEOREM AttemptsAccounted == Spec => []AttemptsAreCalls
<1>1. Init => AttemptsAreCalls
  <2> SUFFICES ASSUME Init, NEW d \in Deliveries PROVE Balanced(d)
      BY DEF AttemptsAreCalls, Balanced, Ahead
  <2>1. Ahead(d) = {}
      BY DEF Init, Ahead
  <2> QED
      BY <2>1, FS_EmptySet DEF Balanced, Init
<1>2. Inv /\ AttemptsAreCalls /\ [Next]_vars => AttemptsAreCalls'
  <2>1. AttemptsAreCalls /\ UNCHANGED vars => AttemptsAreCalls'
      BY DEF AttemptsAreCalls, vars
  <2> QED
      BY <2>1, BalanceStep
<1> QED
    BY <1>1, <1>2, InvHolds, PTL DEF Spec

-----------------------------------------------------------------------------
(* What no step may do.                                                    *)

LEMMA FinalStep ==
    ASSUME Inv, Next, NEW d \in Deliveries, status[d] \in Final
    PROVE  status'[d] = status[d]
<1> USE DEF Inv
<1>1. status[d] \notin {"none", "queued", "processing"}
    BY DEF Final
<1>2. ASSUME NEW e \in Deliveries, Plan(e) PROVE status'[d] = status[d]
    BY <1>1, <1>2 DEF Plan, TypeOK
<1>3. CASE (\E e \in Deliveries : BecomeDue(e)) \/ Subscribe \/ Unsubscribe \/ Tick
    BY <1>3 DEF BecomeDue, Subscribe, Unsubscribe, Tick, delivery
<1>4. ASSUME NEW p \in Processes, NEW e \in Deliveries, Claim(p, e) PROVE status'[d] = status[d]
    BY <1>1, <1>4 DEF Claim, Claimable, TypeOK
<1>5. ASSUME NEW p \in Processes, NEW s, NEW n, NEW c, FencedUpdate(p, s, n, c)
      PROVE  status'[d] = status[d]
    BY <1>1, <1>5 DEF FencedUpdate, Fenced, delivery, TypeOK
<1>6. ASSUME NEW p \in Processes, Step(p), ~\E e \in Deliveries : Claim(p, e)
      PROVE  status'[d] = status[d]
  <2>1. CASE Cancel(p) \/ QuietHours(p) \/ GiveUp(p) \/ NoTimeLeft(p) \/ GiveBack(p) \/ Finalize(p)
      BY <1>5, <2>1 DEF Cancel, QuietHours, GiveUp, NoTimeLeft, GiveBack, Finalize, Settle
  <2>2. CASE Start(p) \/ Fetch(p) \/ NotFound(p) \/ CountAttempt(p) \/ BeginCall(p) \/ CleanUp(p)
             \/ CleanUpFails(p) \/ Abandon(p) \/ \E r \in Results, gone \in BOOLEAN : Answer(p, r, gone)
      BY <2>2 DEF Start, Fetch, NotFound, CountAttempt, BeginCall, CleanUp, CleanUpFails, Abandon,
         Answer, delivery
  <2> QED
      BY <1>6, <2>1, <2>2 DEF Step, Before, After
<1> QED
    BY <1>2, <1>3, <1>4, <1>6, Kinds DEF Outside

\* A result is recorded once: no late answer, reclaim or requeue changes it.
FinalIsFinal ==
    [][\A d \in Deliveries : status[d] \in Final => status'[d] = status[d]]_vars

\* A result that is recorded for good is never changed.
THEOREM OutcomesAreFinal == Spec => FinalIsFinal
<1>1. Inv /\ [Next]_vars =>
        [\A d \in Deliveries : status[d] \in Final => status'[d] = status[d]]_vars
    BY FinalStep DEF vars
<1> QED
    BY <1>1, InvHolds, PTL DEF Spec, FinalIsFinal

\* The cleanup takes a subscription only in the version that was found dead.
THEOREM RenewalsSurvive == Spec => RenewalSurvives
<1>1. ASSUME Inv, Next, subscription # 0, subscription' = 0
      PROVE  subscription \in dead \/ Unsubscribe
  <2>1. CASE Outside \/ Tick
      BY <1>1, <2>1 DEF Outside, Plan, BecomeDue, Subscribe, Tick, device, Inv, TypeOK
  <2>2. ASSUME NEW p \in Processes, CleanUp(p) PROVE subscription \in dead
      BY <1>1, <2>2 DEF CleanUp, SameVersion, Inv, Destined
  <2>3. ASSUME NEW p \in Processes, Step(p), ~CleanUp(p) PROVE FALSE
      BY <1>1, <2>3 DEF Step, Before, After, Claim, Start, Fetch, NotFound, Cancel, QuietHours,
         GiveUp, NoTimeLeft, CountAttempt, GiveBack, BeginCall, Answer, CleanUpFails, Finalize,
         Abandon, device
  <2> QED
      BY <1>1, <2>1, <2>2, <2>3, Kinds
<1>2. Inv /\ [Next]_vars =>
        [subscription # 0 /\ subscription' = 0 => subscription \in dead \/ Unsubscribe]_vars
    BY <1>1 DEF vars
<1> QED
    BY <1>2, InvHolds, PTL DEF Spec, RenewalSurvives

-----------------------------------------------------------------------------
(* The workers implement the contract.                                     *)

\* A worker whose claim stands, and that is not calling, has the delivery to
\* itself: whoever calls holds the claim.
LEMMA ClaimIsRest ==
    ASSUME Inv, NEW p \in Processes, job[p] \in Deliveries, Fenced(p), at[p] # "call"
    PROVE  Contract!AtRest(job[p])
<1>1. Visible[job[p]] = "open"
    BY DEF Visible, Fenced
<1>2. ASSUME NEW q \in Processes, at[q] = "call", job[q] = job[p] PROVE FALSE
    BY <1>2 DEF Inv, Budgeted, Holds, Fenced
<1> QED
    BY <1>1, <1>2 DEF Contract!AtRest, Calling

\* The same of a worker that is about to call, or is calling.
LEMMA HoldsClaim ==
    ASSUME Inv, NEW p \in Processes,
           at[p] = "call" \/ (at[p] = "prepared" /\ left[p] >= MinBudget)
    PROVE  job[p] \in Deliveries /\ Fenced(p)
<1>1. job[p] \in Deliveries /\ left[p] \in Nat
    BY DEF Inv, Working, TypeOK
<1>2. Holds(p)
    BY <1>1 DEF Inv, Budgeted
<1> QED
    BY <1>1, <1>2 DEF Holds, Fenced

LEMMA CallingKept ==
    ASSUME TypeOK, NEW p \in Processes, Step(p), at[p] # "call", at'[p] # "call"
    PROVE  Calling' = Calling
<1>1. \A q \in Processes : at'[q] = "call" <=> at[q] = "call"
    BY WorkerFrame
<1>2. \A q \in Processes : at[q] = "call" => job'[q] = job[q]
    BY WorkerFrame
<1> QED
    BY <1>1, <1>2 DEF Calling

\* The call of a worker ends: it was the only one for its delivery.
LEMMA CallingEnds ==
    ASSUME Inv, NEW p \in Processes, Step(p), at[p] = "call", at'[p] # "call"
    PROVE  job[p] \in Calling /\ Calling' = Calling \ {job[p]}
<1>1. job[p] \in Calling
    BY HoldsClaim DEF Calling
<1>2. \A q \in Processes : q # p => at'[q] = at[q] /\ job'[q] = job[q]
    BY WorkerFrame DEF Inv
<1>3. \A q \in Processes : at[q] = "call" /\ job[q] = job[p] => q = p
    BY DEF Inv, Budgeted, Holds
<1> QED
    BY <1>1, <1>2, <1>3 DEF Calling

\* What the end of a worker's hold on a delivery shows from outside.
LEMMA ReleaseShows ==
    ASSUME TypeOK, NEW p \in Processes, job[p] \in Deliveries, NEW s, NEW n, NEW c,
           FencedUpdate(p, s, n, c)
    PROVE  \/ ~Fenced(p) /\ Visible' = Visible /\ attempts' = attempts
           \/ /\ Fenced(p)
              /\ Visible' = [Visible EXCEPT ![job[p]] =
                                IF s \in {"queued", "processing"} THEN "open" ELSE s]
              /\ attempts' = [attempts EXCEPT ![job[p]] = c]
<1>1. CASE Fenced(p)
    BY <1>1 DEF FencedUpdate, Visible, TypeOK
<1>2. CASE ~Fenced(p)
    BY <1>2 DEF FencedUpdate, Visible, delivery
<1> QED
    BY <1>1, <1>2

\* A worker that hands its delivery back, or closes it, and keeps the count.
LEMMA SettleContract ==
    ASSUME Inv, NEW p \in Processes, Step(p), job[p] \in Deliveries,
           at[p] \notin {"call", "idle"}, NEW s \in {"queued"} \cup Final, NEW n,
           FencedUpdate(p, s, n, attempts[job[p]]), UNCHANGED <<calls, answers>>,
           Fenced(p) => Decided(s, job[p], answers[job[p]], attempts[job[p]])
    PROVE  [Contract!Next]_(Contract!vars)
<1>1. attempts' = attempts
    BY ReleaseShows DEF Inv, TypeOK
<1>2. Calling' = Calling
    BY CallingKept, FinishIdle DEF Inv, FencedUpdate
<1>3. CASE ~Fenced(p)
    BY <1>1, <1>2, <1>3, ReleaseShows DEF Inv, Contract!vars
<1>4. CASE Fenced(p) /\ s = "queued"
  <2>1. Visible[job[p]] = "open" /\ Visible = [d \in Deliveries |-> Visible[d]]
      BY <1>4 DEF Visible, Fenced
  <2>2. Visible' = [Visible EXCEPT ![job[p]] = "open"]
      BY <1>4, ReleaseShows DEF Inv
  <2>3. Visible' = Visible
      BY <2>1, <2>2
  <2> QED
      BY <1>1, <1>2, <2>3 DEF Contract!vars
<1>5. CASE Fenced(p) /\ s \in Final
  <2>1. Contract!AtRest(job[p])
      BY <1>5, ClaimIsRest
  <2>2. Visible' = [Visible EXCEPT ![job[p]] = s]
      BY <1>5, ReleaseShows DEF Inv, Final
  <2>3. Contract!Close(job[p], s)
      BY <1>1, <1>2, <1>5, <2>1, <2>2 DEF Contract!Close, Decided
  <2> QED
      BY <1>5, <2>3 DEF Contract!Next, Final
<1> QED
    BY <1>3, <1>4, <1>5

LEMMA ContractStep == Inv /\ AttemptsAreCalls /\ Next => [Contract!Next]_(Contract!vars)
<1> SUFFICES ASSUME Inv, AttemptsAreCalls, Next PROVE [Contract!Next]_(Contract!vars)
    OBVIOUS
<1> USE DEF Inv
<1>1. ASSUME UNCHANGED <<status, attempts, calls, answers>>, Calling' = Calling
      PROVE  [Contract!Next]_(Contract!vars)
    BY <1>1 DEF Contract!vars, Visible
<1>2. ASSUME NEW d \in Deliveries, Plan(d) PROVE [Contract!Next]_(Contract!vars)
  <2>1. Visible[d] = "none" /\ Visible' = [Visible EXCEPT ![d] = "open"]
      BY <1>2 DEF Plan, Visible, TypeOK
  <2>2. Contract!Open(d)
      BY <1>2, <2>1 DEF Plan, Contract!Open, Calling, worker, history
  <2> QED
      BY <2>2 DEF Contract!Next
<1>3. CASE (\E d \in Deliveries : BecomeDue(d)) \/ Subscribe \/ Unsubscribe \/ Tick
    BY <1>1, <1>3 DEF BecomeDue, Subscribe, Unsubscribe, Tick, Calling, delivery, worker, history
<1>4. ASSUME NEW p \in Processes, NEW d \in Deliveries, Claim(p, d)
      PROVE  [Contract!Next]_(Contract!vars)
  <2>1. Visible' = Visible
      BY <1>4 DEF Claim, Claimable, Visible, TypeOK
  <2>2. Calling' = Calling
    <3>1. Step(p) /\ at[p] = "idle" /\ at'[p] = "claimed"
        BY <1>4 DEF Claim, Step, Before, TypeOK
    <3> QED
        BY <3>1, CallingKept
  <2> QED
      BY <1>4, <2>1, <2>2 DEF Claim, Contract!vars, history
<1>5. ASSUME NEW p \in Processes,
             Start(p) \/ Fetch(p) \/ NotFound(p) \/ CleanUp(p) \/ CleanUpFails(p)
      PROVE  [Contract!Next]_(Contract!vars)
  <2>1. /\ at[p] # "call" /\ at'[p] # "call" /\ Step(p)
        /\ UNCHANGED <<status, attempts, calls, answers>>
      BY <1>5, FinishIdle DEF Start, Fetch, NotFound, CleanUp, CleanUpFails, Step, Before, After,
         TypeOK, delivery, history
  <2> QED
      BY <1>1, <2>1, CallingKept
<1>6. ASSUME NEW p \in Processes, Cancel(p) \/ QuietHours(p) \/ NoTimeLeft(p)
      PROVE  [Contract!Next]_(Contract!vars)
  <2>1. /\ Step(p) /\ at[p] = "fetched" /\ job[p] \in Deliveries
        /\ UNCHANGED <<calls, answers>>
      BY <1>6 DEF Cancel, QuietHours, NoTimeLeft, Step, Before, Working, history
  <2>2. \A a, c : Decided("cancelled", job[p], a, c) /\ Decided("queued", job[p], a, c)
      BY DEF Decided
  <2> QED
      BY <1>6, <2>1, <2>2, SettleContract DEF Cancel, QuietHours, NoTimeLeft, Settle, Final
<1>7. ASSUME NEW p \in Processes, GiveUp(p) PROVE [Contract!Next]_(Contract!vars)
  <2>1. /\ Step(p) /\ at[p] = "fetched" /\ job[p] \in Deliveries
        /\ UNCHANGED <<calls, answers>> /\ Settle(p, "failed")
        /\ attempts[job[p]] \in 0 .. MaxAttempts
      BY <1>7 DEF GiveUp, Step, Before, Working, history, TypeOK
  <2>2. Fenced(p) => attempts[job[p]] = MaxAttempts
      BY <1>7, <2>1 DEF GiveUp, Exhausted, CountRead
  <2>3. Fenced(p) => Decided("failed", job[p], answers[job[p]], attempts[job[p]])
      BY <2>2 DEF Decided
  <2> QED
      BY <2>1, <2>3, SettleContract DEF Settle, Final
<1>8. ASSUME NEW p \in Processes, Finalize(p) PROVE [Contract!Next]_(Contract!vars)
  <2> DEFINE s == Outcome(result[p], seen[p] + 1)
  <2>1. /\ Step(p) /\ at[p] = "finalize" /\ job[p] \in Deliveries
        /\ UNCHANGED <<calls, answers>> /\ Settle(p, s)
        /\ attempts[job[p]] \in 0 .. MaxAttempts
      BY <1>8 DEF Finalize, Step, After, Working, history, TypeOK
  <2>2. result[p] \in answers[job[p]] /\ result[p] \in Results
      BY <2>1 DEF Answered, TypeOK
  <2>3. Fenced(p) => attempts[job[p]] = seen[p] + 1
      BY <2>1 DEF CountRead, Counted
  <2>4. Fenced(p) => Decided(s, job[p], answers[job[p]], attempts[job[p]])
      BY <2>1, <2>2, <2>3 DEF Decided, Outcome, Exhausted, Results
  <2>5. s \in {"queued"} \cup Final
      BY DEF Outcome, Final
  <2> HIDE DEF s
  <2> QED
      BY <2>1, <2>4, <2>5, SettleContract DEF Settle
<1>9. ASSUME NEW p \in Processes, CountAttempt(p) PROVE [Contract!Next]_(Contract!vars)
  <2>1. /\ at[p] = "fetched" /\ job[p] \in Deliveries /\ Step(p)
        /\ UNCHANGED <<status, calls, answers>>
      BY <1>9 DEF CountAttempt, Step, Before, Working, history
  <2>2. at'[p] # "call"
      BY <1>9, FinishIdle DEF CountAttempt, TypeOK
  <2>3. Calling' = Calling
      BY <2>1, <2>2, CallingKept
  <2>4. CASE Fenced(p)
    <3>1. Contract!AtRest(job[p])
        BY <2>1, <2>4, ClaimIsRest
    <3>2. /\ attempts[job[p]] < MaxAttempts
          /\ attempts' = [attempts EXCEPT ![job[p]] = @ + 1]
        BY <1>9, <2>1, <2>4 DEF CountAttempt, CountRead, Exhausted, TypeOK
    <3>3. Contract!Pay(job[p])
        BY <2>1, <2>3, <3>1, <3>2 DEF Contract!Pay, Visible
    <3> QED
        BY <2>1, <3>3 DEF Contract!Next
  <2>5. CASE ~Fenced(p)
      BY <1>1, <1>9, <2>1, <2>3, <2>5 DEF CountAttempt
  <2> QED
      BY <2>4, <2>5
<1>10. ASSUME NEW p \in Processes, at[p] = "prepared", job[p] \in Deliveries
       PROVE  calls[job[p]] < attempts[job[p]]
  <2>1. p \in Ahead(job[p]) /\ Balanced(job[p])
      BY <1>10 DEF Ahead, Balanced, AttemptsAreCalls
  <2>2. Cardinality(Ahead(job[p])) # 0
      BY <2>1, AheadFinite, FS_EmptySet
  <2>3. /\ Cardinality(Ahead(job[p])) \in Nat /\ calls[job[p]] \in Nat
        /\ forfeits[job[p]] \in Nat
      BY <1>10, AheadFinite DEF TypeOK
  <2> QED
      BY <2>1, <2>2, <2>3 DEF Balanced
<1>11. ASSUME NEW p \in Processes, GiveBack(p) PROVE [Contract!Next]_(Contract!vars)
  <2>1. /\ at[p] = "prepared" /\ at'[p] = "idle" /\ job[p] \in Deliveries /\ Step(p)
        /\ UNCHANGED <<calls, answers>>
      BY <1>11, FinishIdle DEF GiveBack, FencedUpdate, Step, After, Working
  <2>2. Calling' = Calling
      BY <2>1, CallingKept
  <2>3. CASE Fenced(p)
    <3>1. Contract!AtRest(job[p])
        BY <2>1, <2>3, ClaimIsRest
    <3>2. seen[p] = attempts[job[p]] - 1
        BY <2>1, <2>3 DEF CountRead, Counted, TypeOK
    <3>3. /\ attempts' = [attempts EXCEPT ![job[p]] = @ - 1]
          /\ Visible' = [Visible EXCEPT ![job[p]] = "open"]
        BY <1>11, <2>1, <2>3, <3>2, ReleaseShows DEF GiveBack, CountBefore
    <3>4. Visible' = Visible
        BY <3>1, <3>3 DEF Contract!AtRest, Visible
    <3>5. Contract!PayBack(job[p])
        BY <1>10, <2>1, <2>2, <3>1, <3>3, <3>4 DEF Contract!PayBack
    <3> QED
        BY <2>1, <3>5 DEF Contract!Next
  <2>4. CASE ~Fenced(p)
      BY <1>11, <2>1, <2>2, <2>4, ReleaseShows DEF GiveBack, Contract!vars
  <2> QED
      BY <2>3, <2>4
<1>12. ASSUME NEW p \in Processes, BeginCall(p) PROVE [Contract!Next]_(Contract!vars)
  <2>1. /\ at[p] = "prepared" /\ job[p] \in Deliveries /\ Fenced(p) /\ Step(p)
        /\ UNCHANGED <<status, attempts, answers, job>>
      BY <1>12, HoldsClaim DEF BeginCall, Step, After, delivery
  <2>2. Calling' = Calling \cup {job[p]}
      BY <1>12, <2>1 DEF BeginCall, Calling, TypeOK
  <2>3. Contract!AtRest(job[p])
      BY <2>1, ClaimIsRest
  <2>4. Contract!Call(job[p])
      BY <1>10, <1>12, <2>1, <2>2, <2>3 DEF BeginCall, Contract!Call, Visible
  <2> QED
      BY <2>1, <2>4 DEF Contract!Next
<1>13. ASSUME NEW p \in Processes, NEW r \in Results, NEW gone \in BOOLEAN, Answer(p, r, gone)
       PROVE  [Contract!Next]_(Contract!vars)
  <2>1. /\ at[p] = "call" /\ at'[p] # "call" /\ Step(p)
        /\ UNCHANGED <<status, attempts, calls>>
        /\ answers' = [answers EXCEPT ![job[p]] = @ \cup {r}]
      BY <1>13 DEF Answer, Step, After, TypeOK, delivery
  <2>2. job[p] \in Calling /\ Calling' = Calling \ {job[p]}
      BY <2>1, CallingEnds
  <2>3. Contract!Hear(job[p], r)
      BY <2>1, <2>2 DEF Contract!Hear, Visible
  <2>4. job[p] \in Deliveries
      BY <2>2 DEF Calling
  <2> QED
      BY <2>3, <2>4 DEF Contract!Next
<1>14. ASSUME NEW p \in Processes, Abandon(p) PROVE [Contract!Next]_(Contract!vars)
  <2>1. /\ at'[p] = "idle" /\ Step(p) /\ UNCHANGED <<status, attempts, calls, answers>>
      BY <1>14, FinishIdle DEF Abandon, Step, delivery
  <2>2. CASE at[p] = "call"
    <3>1. job[p] \in Calling /\ Calling' = Calling \ {job[p]}
        BY <2>1, <2>2, CallingEnds
    <3>2. Contract!Lose(job[p])
        BY <2>1, <3>1 DEF Contract!Lose, Visible
    <3>3. job[p] \in Deliveries
        BY <3>1 DEF Calling
    <3> QED
        BY <3>2, <3>3 DEF Contract!Next
  <2>3. CASE at[p] # "call"
      BY <1>1, <2>1, <2>3, CallingKept
  <2> QED
      BY <2>2, <2>3
<1> QED
    BY <1>2, <1>3, <1>4, <1>5, <1>6, <1>7, <1>8, <1>9, <1>11, <1>12, <1>13, <1>14
       DEF Next, Work, Before, After

\* The workers, with their claims, leases, budgets, lost processes and slow
\* transactions, keep the contract of a delivery.
THEOREM KeepsContract == Spec => ImplementsContract
<1>1. Init => Contract!Init
    BY DEF Init, Contract!Init, Visible, Calling
<1>2. Inv /\ AttemptsAreCalls /\ [Next]_vars => [Contract!Next]_(Contract!vars)
  <2>1. UNCHANGED vars => UNCHANGED Contract!vars
      BY DEF vars, Contract!vars, Visible, Calling
  <2> QED
      BY <2>1, ContractStep
<1> QED
    BY <1>1, <1>2, InvHolds, AttemptsAccounted, PTL DEF Spec, ImplementsContract, Contract!Spec

=============================================================================
