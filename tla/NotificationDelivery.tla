------------------------- MODULE NotificationDelivery -------------------------
(***************************************************************************)
(* The delivery of notifications by push and e-mail.                       *)
(*                                                                         *)
(* Every process runs one delivery worker.  It claims one due delivery at  *)
(* a time under a lease, reads it again, counts an attempt, calls the      *)
(* provider while nothing is locked, and writes the result where its claim *)
(* still stands.  A claim whose lease is over goes to whoever asks next,   *)
(* whatever its owner is doing: what keeps two calls for one delivery      *)
(* apart is the clock and the budget a call gets.                          *)
(*                                                                         *)
(* Time is counted down: a lease and the budget of a process are the units *)
(* of time they still have.  A claim token is the process that drew it,    *)
(* because a process has one claim at work at a time.                      *)
(***************************************************************************)
EXTENDS Naturals, FiniteSets

CONSTANTS
    Push,           \* deliveries by push
    Email,          \* deliveries by e-mail
    Processes,      \* processes that run the worker
    None,           \* no delivery, no process
    Lease,          \* NOTIFICATION_DELIVERY_LEASE_SECONDS
    Timeout,        \* NOTIFICATION_PROVIDER_TIMEOUT_MS
    Safety,         \* NOTIFICATION_PROVIDER_LEASE_SAFETY_MS
    MinBudget,      \* NOTIFICATION_PROVIDER_MIN_BUDGET_MS
    MaxAttempts,    \* MAX_ATTEMPTS
    MaxDelays,      \* bound: units of time that pass outside provider calls
    MaxFaults,      \* bound: crashes and failing transactions
    MaxQuiet,       \* bound: times a delivery is put off for quiet hours
    MaxVersions     \* bound: versions of the user's push subscription

Deliveries == Push \cup Email

ASSUME ConstantsAssumption ==
    /\ Push \cap Email = {}
    /\ IsFiniteSet(Processes)
    /\ None \notin Deliveries \cup Processes
    /\ Lease \in Nat /\ Timeout \in Nat
    /\ Safety \in Nat \ {0} /\ MinBudget \in Nat \ {0}
    /\ MaxAttempts \in Nat \ {0}
    /\ MaxDelays \in Nat /\ MaxFaults \in Nat /\ MaxQuiet \in Nat
    /\ MaxVersions \in Nat

VARIABLES
    status,         \* notification_deliveries.status
    due,            \* the deliveries whose next_attempt_at has come
    claim,          \* claim_token
    lease,          \* time to claim_expires_at
    attempts,       \* attempt_count
    at,             \* where each worker is
    job,            \* the delivery it has claimed
    left,           \* time to its deadline
    seen,           \* attempt_count as it read it
    target,         \* version of the subscription as it read it
    result,         \* the answer of the provider
    subscription,   \* version of the user's push subscription, 0 if there is none
    issued,         \* versions so far
    dead,           \* history: versions the provider has reported dead
    calls,          \* history: provider calls begun
    forfeits,       \* history: attempts counted for which no call was made
    answers,        \* history: what the provider has answered
    delays, faults, quiets

delivery == <<status, due, claim, lease, attempts>>
worker == <<at, job, left, seen, target, result>>
device == <<subscription, issued, dead>>
history == <<calls, forfeits, answers>>
bounds == <<delays, faults, quiets>>
vars == <<status, due, claim, lease, attempts, at, job, left, seen, target, result,
          subscription, issued, dead, calls, forfeits, answers, delays, faults, quiets>>

Final == {"sent", "failed", "cancelled"}
DeliveryStatus == {"none", "queued", "processing"} \cup Final
Results == {"accepted", "retry", "rejected"}
Labels == {"idle", "claimed", "started", "fetched", "prepared", "call", "cleanup",
           "finalize"}

Least(a, b) == IF a < b THEN a ELSE b
Drop(n) == IF n = 0 THEN 0 ELSE n - 1

Init ==
    /\ status = [d \in Deliveries |-> "none"]
    /\ due = {}
    /\ claim = [d \in Deliveries |-> None]
    /\ lease = [d \in Deliveries |-> 0]
    /\ attempts = [d \in Deliveries |-> 0]
    /\ at = [p \in Processes |-> "idle"]
    /\ job = [p \in Processes |-> None]
    /\ left = [p \in Processes |-> 0]
    /\ seen = [p \in Processes |-> 0]
    /\ target = [p \in Processes |-> 0]
    /\ result = [p \in Processes |-> "none"]
    /\ subscription = 0 /\ issued = 0 /\ dead = {}
    /\ calls = [d \in Deliveries |-> 0]
    /\ forfeits = [d \in Deliveries |-> 0]
    /\ answers = [d \in Deliveries |-> {}]
    /\ delays = 0 /\ faults = 0 /\ quiets = 0

\* The worker is through with its delivery.
Finish(p) ==
    /\ at' = [at EXCEPT ![p] = "idle"]
    /\ job' = [job EXCEPT ![p] = None]
    /\ left' = [left EXCEPT ![p] = 0]
    /\ seen' = [seen EXCEPT ![p] = 0]
    /\ target' = [target EXCEPT ![p] = 0]
    /\ result' = [result EXCEPT ![p] = "none"]

\* Mutant: the update asks for the delivery alone.
ById(p) == TRUE

\* The claim this worker drew still stands.
Fenced(p) == status[job[p]] = "processing" /\ claim[job[p]] = p

\* The delivery leaves the hands of the worker, in status s with count
\* attempts, if the claim stands; a stale worker changes nothing.
FencedUpdate(p, s, nowDue, count) ==
    /\ IF Fenced(p)
       THEN /\ status' = [status EXCEPT ![job[p]] = s]
            /\ due' = nowDue
            /\ claim' = [claim EXCEPT ![job[p]] = None]
            /\ lease' = [lease EXCEPT ![job[p]] = 0]
            /\ attempts' = [attempts EXCEPT ![job[p]] = count]
       ELSE UNCHANGED delivery
    /\ Finish(p)

\* A queued delivery is due at once or later; nobody asks when it is closed.
Now(p) == due \cup {job[p]}
Later(p) == due \ {job[p]}

Settle(p, s) == FencedUpdate(p, s, Later(p), attempts[job[p]])

-----------------------------------------------------------------------------
(* What the workers do not decide.                                         *)

\* The planner inserts the delivery, due at once; ON CONFLICT it does nothing.
Plan(d) ==
    /\ status[d] = "none"
    /\ d \in Push => subscription # 0
    /\ status' = [status EXCEPT ![d] = "queued"]
    /\ due' = due \cup {d}
    /\ UNCHANGED <<claim, lease, attempts, worker, device, history, bounds>>

\* next_attempt_at comes: the end of a back-off or of the quiet hours.
BecomeDue(d) ==
    /\ status[d] = "queued" /\ d \notin due
    /\ due' = due \cup {d}
    /\ UNCHANGED <<status, claim, lease, attempts, worker, device, history, bounds>>

\* The device subscribes, or subscribes anew: updated_at moves on.
Subscribe ==
    /\ issued < MaxVersions
    /\ issued' = issued + 1
    /\ subscription' = issued + 1
    /\ UNCHANGED <<dead, delivery, worker, history, bounds>>

Unsubscribe ==
    /\ subscription # 0
    /\ subscription' = 0
    /\ UNCHANGED <<issued, dead, delivery, worker, history, bounds>>

\* A unit of time.  The timer of a call fires when its budget is spent; nothing
\* limits how long a transaction takes.
InDatabase(p) == at[p] \notin {"idle", "call"}

Tick ==
    /\ \A p \in Processes : at[p] = "call" => left[p] > 0
    /\ (\E d \in Deliveries : lease[d] > 0) \/ (\E p \in Processes : left[p] > 0)
    /\ IF \E p \in Processes : InDatabase(p)
       THEN delays < MaxDelays /\ delays' = delays + 1
       ELSE delays' = delays
    /\ lease' = [d \in Deliveries |-> Drop(lease[d])]
    /\ left' = [p \in Processes |-> Drop(left[p])]
    /\ UNCHANGED <<status, due, claim, attempts, at, job, seen, target, result,
                   device, history, faults, quiets>>

-----------------------------------------------------------------------------
(* The claim and the transaction before the call.                          *)

\* Mutant: a delivery in processing is left to its owner.
OnlyQueued(d) == status[d] = "queued" /\ d \in due

Claimable(d) ==
    \/ status[d] = "queued" /\ d \in due
    \/ status[d] = "processing" /\ lease[d] = 0

\* claim_notification_deliveries(1, 60), by the clock of the database.
Claim(p, d) ==
    /\ at[p] = "idle"
    /\ Claimable(d)
    /\ status' = [status EXCEPT ![d] = "processing"]
    /\ claim' = [claim EXCEPT ![d] = p]
    /\ lease' = [lease EXCEPT ![d] = Lease]
    /\ at' = [at EXCEPT ![p] = "claimed"]
    /\ job' = [job EXCEPT ![p] = d]
    /\ UNCHANGED <<due, attempts, left, seen, target, result, device, history, bounds>>

\* The claim has reached the process: its own clock starts.
Start(p) ==
    /\ at[p] = "claimed"
    /\ at' = [at EXCEPT ![p] = "started"]
    /\ left' = [left EXCEPT ![p] = Timeout]
    /\ UNCHANGED <<job, seen, target, result, delivery, device, history, bounds>>

\* Mutant: the budget of a call is the provider's timeout, whatever the lease.
TimeoutOnly(p) == left[p]

\* deadlineAt: the timeout of the call, cut short of the end of the lease.
Budget(p) ==
    Least(left[p], IF lease[job[p]] > Safety THEN lease[job[p]] - Safety ELSE 0)

Fetch(p) ==
    /\ at[p] = "started"
    /\ Fenced(p)
    /\ at' = [at EXCEPT ![p] = "fetched"]
    /\ left' = [left EXCEPT ![p] = Budget(p)]
    /\ seen' = [seen EXCEPT ![p] = attempts[job[p]]]
    /\ target' = [target EXCEPT ![p] = IF job[p] \in Push THEN subscription ELSE 0]
    /\ UNCHANGED <<job, result, delivery, device, history, bounds>>

NotFound(p) ==
    /\ at[p] = "started"
    /\ ~Fenced(p)
    /\ Finish(p)
    /\ UNCHANGED <<delivery, device, history, bounds>>

\* A membership that ended, a channel that was turned off, a notification that
\* was read, an address that is gone.
Cancel(p) ==
    /\ at[p] = "fetched"
    /\ Settle(p, "cancelled")
    /\ UNCHANGED <<device, history, bounds>>

HasDestination(p) == job[p] \in Push => target[p] # 0

QuietHours(p) ==
    /\ at[p] = "fetched" /\ HasDestination(p)
    /\ quiets < MaxQuiet
    /\ quiets' = quiets + 1
    /\ Settle(p, "queued")
    /\ UNCHANGED <<device, history, delays, faults>>

Exhausted(n) == n >= MaxAttempts

\* Reclaimed after the last attempt: its owner never recorded the result.
GiveUp(p) ==
    /\ at[p] = "fetched" /\ HasDestination(p)
    /\ Exhausted(seen[p])
    /\ Settle(p, "failed")
    /\ UNCHANGED <<device, history, bounds>>

NoTimeLeft(p) ==
    /\ at[p] = "fetched" /\ HasDestination(p)
    /\ ~Exhausted(seen[p])
    /\ left[p] < MinBudget
    /\ FencedUpdate(p, "queued", Now(p), attempts[job[p]])
    /\ UNCHANGED <<device, history, bounds>>

\* The attempt is committed before the call is made.
CountAttempt(p) ==
    /\ at[p] = "fetched" /\ HasDestination(p)
    /\ ~Exhausted(seen[p])
    /\ left[p] >= MinBudget
    /\ IF Fenced(p)
       THEN /\ attempts' = [attempts EXCEPT ![job[p]] = @ + 1]
            /\ at' = [at EXCEPT ![p] = "prepared"]
            /\ UNCHANGED <<job, left, seen, target, result>>
       ELSE Finish(p) /\ UNCHANGED attempts
    /\ UNCHANGED <<status, due, claim, lease, device, history, bounds>>

Forfeit(d) == forfeits' = [forfeits EXCEPT ![d] = @ + 1]

\* Mutant: the attempt is not given back.
SameCount(p) == attempts[job[p]]

CountBefore(p) == seen[p]

\* The commit was too slow: the attempt is given back, if the claim stands.
GiveBack(p) ==
    /\ at[p] = "prepared"
    /\ left[p] < MinBudget
    /\ FencedUpdate(p, "queued", Now(p), CountBefore(p))
    /\ IF Fenced(p) THEN UNCHANGED forfeits ELSE Forfeit(job[p])
    /\ UNCHANGED <<calls, answers, device, bounds>>

-----------------------------------------------------------------------------
(* The call and its result.                                                *)

BeginCall(p) ==
    /\ at[p] = "prepared"
    /\ left[p] >= MinBudget
    /\ at' = [at EXCEPT ![p] = "call"]
    /\ calls' = [calls EXCEPT ![job[p]] = @ + 1]
    /\ UNCHANGED <<job, left, seen, target, result, forfeits, answers, delivery,
                   device, bounds>>

\* An answer, an error, or the abort when the budget is spent: from then on only
\* an acceptance is believed.  A push may find its subscription gone.
Answer(p, r, gone) ==
    /\ at[p] = "call"
    /\ left[p] = 0 => r # "rejected"
    /\ gone => job[p] \in Push
    /\ result' = [result EXCEPT ![p] = r]
    /\ answers' = [answers EXCEPT ![job[p]] = @ \cup {r}]
    /\ dead' = IF gone THEN dead \cup {target[p]} ELSE dead
    /\ at' = [at EXCEPT ![p] = IF gone THEN "cleanup" ELSE "finalize"]
    /\ UNCHANGED <<job, left, seen, target, delivery, subscription, issued, calls,
                   forfeits, bounds>>

\* Mutant: the subscription is deleted by its id.
AnyVersion(p) == TRUE

SameVersion(p) == subscription = target[p]

\* A transaction of its own: the dead subscription goes if it is still the one
\* that was called.
CleanUp(p) ==
    /\ at[p] = "cleanup"
    /\ subscription' = IF SameVersion(p) THEN 0 ELSE subscription
    /\ at' = [at EXCEPT ![p] = "finalize"]
    /\ UNCHANGED <<job, left, seen, target, result, issued, dead, delivery, history,
                   bounds>>

\* Its error is caught.
CleanUpFails(p) ==
    /\ at[p] = "cleanup"
    /\ faults < MaxFaults
    /\ faults' = faults + 1
    /\ at' = [at EXCEPT ![p] = "finalize"]
    /\ UNCHANGED <<job, left, seen, target, result, delivery, device, history, delays,
                   quiets>>

\* Mutant: what was not refused is taken for sent.
RetryIsSent(r, n) == IF r = "rejected" THEN "failed" ELSE "sent"

\* What the answer r to attempt n makes of the delivery.
Outcome(r, n) ==
    IF r = "accepted" THEN "sent"
    ELSE IF r = "retry" /\ ~Exhausted(n) THEN "queued" ELSE "failed"

Finalize(p) ==
    /\ at[p] = "finalize"
    /\ Settle(p, Outcome(result[p], seen[p] + 1))
    /\ UNCHANGED <<device, history, bounds>>

\* The process dies, or a transaction fails: the claim stays until its lease is
\* over, and an attempt that was counted is used up.
Abandon(p) ==
    /\ at[p] # "idle"
    /\ faults < MaxFaults
    /\ faults' = faults + 1
    /\ Finish(p)
    /\ IF at[p] = "prepared" THEN Forfeit(job[p]) ELSE UNCHANGED forfeits
    /\ UNCHANGED <<calls, answers, delivery, device, delays, quiets>>

-----------------------------------------------------------------------------

Before(p) ==
    \/ \E d \in Deliveries : Claim(p, d)
    \/ Start(p)
    \/ Fetch(p)
    \/ NotFound(p)
    \/ Cancel(p)
    \/ QuietHours(p)
    \/ GiveUp(p)
    \/ NoTimeLeft(p)
    \/ CountAttempt(p)

After(p) ==
    \/ GiveBack(p)
    \/ BeginCall(p)
    \/ \E r \in Results, gone \in BOOLEAN : Answer(p, r, gone)
    \/ CleanUp(p)
    \/ CleanUpFails(p)
    \/ Finalize(p)

Work(p) == Before(p) \/ After(p)

Next ==
    \/ \E d \in Deliveries : Plan(d) \/ BecomeDue(d)
    \/ Subscribe \/ Unsubscribe
    \/ Tick
    \/ \E p \in Processes : Work(p) \/ Abandon(p)

Spec == Init /\ [][Next]_vars

\* Time passes, and every worker polls and carries on with what it has claimed.
Fairness ==
    /\ WF_vars(Tick)
    /\ \A d \in Deliveries : WF_vars(BecomeDue(d))
    /\ \A p \in Processes : WF_vars(Work(p))

FairSpec == Spec /\ Fairness

-----------------------------------------------------------------------------
(* Properties.                                                             *)

TypeOK ==
    /\ status \in [Deliveries -> DeliveryStatus]
    /\ due \subseteq Deliveries
    /\ claim \in [Deliveries -> Processes \cup {None}]
    /\ lease \in [Deliveries -> 0 .. Lease]
    /\ attempts \in [Deliveries -> 0 .. MaxAttempts]
    /\ at \in [Processes -> Labels]
    /\ job \in [Processes -> Deliveries \cup {None}]
    /\ left \in [Processes -> 0 .. Timeout]
    /\ seen \in [Processes -> 0 .. MaxAttempts]
    /\ target \in [Processes -> 0 .. MaxVersions]
    /\ result \in [Processes -> Results \cup {"none"}]
    /\ subscription \in 0 .. MaxVersions /\ issued \in 0 .. MaxVersions
    /\ dead \subseteq 1 .. MaxVersions
    /\ calls \in [Deliveries -> Nat]
    /\ forfeits \in [Deliveries -> Nat]
    /\ answers \in [Deliveries -> SUBSET Results]
    /\ delays \in 0 .. MaxDelays /\ faults \in 0 .. MaxFaults /\ quiets \in 0 .. MaxQuiet

\* No two provider calls for one delivery are open at a time, however slow the
\* transactions are ("another process could then reclaim one of those rows and
\* invoke the provider concurrently").
ExclusiveCalls ==
    \A p, q \in Processes :
        at[p] = "call" /\ at[q] = "call" /\ job[p] = job[q] => p = q

\* The count is the truth: every attempt counted is a provider call, or is about
\* to be one, or was lost with its process ("a slow commit must not consume an
\* attempt when no provider was called"); so there are at most MaxAttempts calls.
AttemptsAreCalls ==
    \A d \in Deliveries :
        attempts[d] = calls[d] + forfeits[d]
                      + Cardinality({p \in Processes : at[p] = "prepared" /\ job[p] = d})

\* What is recorded for good has happened: sent was accepted by the provider,
\* failed was refused or tried as often as it may be.
OutcomeIsTrue ==
    \A d \in Deliveries :
        /\ status[d] = "sent" => "accepted" \in answers[d]
        /\ status[d] = "failed" => "rejected" \in answers[d] \/ attempts[d] = MaxAttempts

\* What is seen of a delivery from outside, and the deliveries being called for.
Visible ==
    [d \in Deliveries |-> IF status[d] \in {"queued", "processing"} THEN "open" ELSE status[d]]
Calling == {d \in Deliveries : \E p \in Processes : at[p] = "call" /\ job[p] = d}

\* Under the claims, the leases and the crashes there is one plain life of each
\* delivery: no two calls overlap, no call is made that was not paid for and none
\* that was made is given back, and no late answer, reclaim or requeue changes an
\* outcome, which is never recorded while a call is open.
Contract == INSTANCE DeliveryContract WITH
    Answers <- Results, outcome <- Visible, paid <- attempts, made <- calls,
    calling <- Calling, heard <- answers
ImplementsContract == Contract!Spec

\* The cleanup never takes a subscription the device has renewed since.
RenewalSurvives ==
    [][subscription # 0 /\ subscription' = 0 => subscription \in dead \/ Unsubscribe]_vars

\* Every delivery comes to an end, through lost claims, crashes, slow commits,
\* quiet hours and retries.
DeliveriesSettle ==
    \A d \in Deliveries : (status[d] = "queued") ~> (status[d] \in Final)

=============================================================================
