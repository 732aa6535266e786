--------------------------- MODULE OpeningCutover ---------------------------
(***************************************************************************)
(* The opening inventory cutover of a shop: the physical stock that the    *)
(* warehouse has counted is written to Shopify, once.                      *)
(*                                                                         *)
(* An approval reads Shopify and freezes a generation: for every slot the  *)
(* quantity to reach and the quantity to change it from.  It then sends    *)
(* the batches one after the other, each as a compare-and-set, under a     *)
(* lease; an answer that was lost is settled by reading, never by sending  *)
(* again; at the end Shopify is read once more and the completion mark is  *)
(* set.  What no longer fits ends the generation, and another approval     *)
(* freezes the next.                                                       *)
(*                                                                         *)
(* A slot is what one batch would write.  Every action is one transaction, *)
(* one page read from Shopify, or something that happens outside.  A lease *)
(* token is the request that drew it: a request claims once.               *)
(***************************************************************************)
EXTENDS Integers, Sequences

CONSTANTS
    MaxSlots,       \* slots of the location, in the order of their batches
    Quantities,     \* what a slot may hold
    Openings,       \* what Shopify may have on hand before
    Requests,       \* approvals that may be at work at a time
    None,           \* no request
    MaxGenerations, \* bound: generations
    MaxTroubles     \* bound: movements, sales, lost answers, refusals, failures

Slots == 1 .. MaxSlots
Generations == 1 .. MaxGenerations

ASSUME CutoverAssumption ==
    /\ MaxSlots \in Nat \ {0} /\ MaxGenerations \in Nat /\ MaxTroubles \in Nat
    /\ Openings \subseteq [Slots -> Quantities]
    /\ None \notin Requests

VARIABLES
    local,          \* the physical target, as the warehouse has it
    remote,         \* what Shopify has on hand
    target, from,   \* the frozen generations
    status,         \* opening_inventory_cutover_executions.status
    holder,         \* its lease_token
    live,           \* the generations whose lease_expires_at is to come
    batch,          \* status of the batch executions
    collecting,     \* the request that has begun a verification
    mark,           \* opening_inventory_shopify_synced_at
    mutation,       \* what has become of the mutation of a batch
    at,             \* where each request is
    gen,            \* its generation; its basis while it is building one
    plan,           \* the batches as it has read them
    view,           \* what it has read from Shopify, page by page
    answer,         \* what it has made of the answer to its mutation
    reached,        \* history: slots that Shopify has had at the present target
    troubles

frozen == <<target, from>>
execution == <<status, holder, live, batch, collecting, mark>>
shopify == <<remote, mutation, reached>>
request == <<at, gen, plan, view, answer>>
elsewhere == <<local, frozen, execution, shopify, troubles>>
vars == <<local, remote, target, from, status, holder, live, batch, collecting, mark,
          mutation, at, gen, plan, view, answer, reached, troubles>>

Unfinished == {"pending", "dispatching", "ambiguous", "rejected"}
BatchStatus == {"none", "succeeded"} \cup Unfinished
Status == {"none", "executing", "verifying", "requires_regeneration", "blocked",
           "converged"}
Labels == {"idle", "reserve", "collect", "claim", "read", "plan", "drift", "dispatch",
           "call", "record", "recover", "inspect", "mark", "certify", "compare", "verify"}

Latest == Len(target)

Init ==
    /\ local \in [Slots -> Quantities]
    /\ remote \in Openings
    /\ target = <<>> /\ from = <<>>
    /\ status = [g \in Generations |-> "none"]
    /\ holder = [g \in Generations |-> None]
    /\ live = {}
    /\ batch = [g \in Generations |-> [s \in Slots |-> "none"]]
    /\ collecting = [g \in Generations |-> None]
    /\ mark = FALSE
    /\ mutation = [g \in Generations |-> [s \in Slots |-> "none"]]
    /\ at = [p \in Requests |-> "idle"]
    /\ gen = [p \in Requests |-> 0]
    /\ plan = [p \in Requests |-> [s \in Slots |-> "none"]]
    /\ view = [p \in Requests |-> <<>>]
    /\ answer = [p \in Requests |-> "none"]
    /\ reached = {}
    /\ troubles = 0

Trouble == troubles < MaxTroubles /\ troubles' = troubles + 1
NoTrouble == UNCHANGED troubles

GoTo(p, label) == at' = [at EXCEPT ![p] = label]

\* The request is answered, or its process is gone.  Its lease stays.
End(p) ==
    /\ at' = [at EXCEPT ![p] = "idle"]
    /\ gen' = [gen EXCEPT ![p] = 0]
    /\ plan' = [plan EXCEPT ![p] = [s \in Slots |-> "none"]]
    /\ view' = [view EXCEPT ![p] = <<>>]
    /\ answer' = [answer EXCEPT ![p] = "none"]

\* The batches of a generation.
Writes(g) == {s \in Slots : target[g][s] # from[g][s]}

\* The first of some slots: batches are sent and judged in their order.
First(S) == CHOOSE s \in S : \A t \in S : s <= t

Todo(p) == {s \in Slots : plan[p][s] \in Unfinished}
Current(p) == First(Todo(p))

\* casLease, and what the transaction of each label tests besides: a request
\* writes only while its lease stands and what it has read is still so.
Writable(p) ==
    LET g == gen[p]
    IN  /\ status[g] = IF at[p] \in {"certify", "compare", "verify"}
                       THEN "verifying" ELSE "executing"
        /\ holder[g] = p /\ g \in live
        /\ at[p] = "dispatch" => batch[g][Current(p)] = "pending"
        /\ at[p] = "record" => batch[g][Current(p)] = "dispatching"
        /\ at[p] = "mark" => \A s \in Slots : batch[g][s] \in {"none", "succeeded"}
        /\ at[p] = "recover" => batch[g][Current(p)] = "ambiguous"
        /\ at[p] \in {"recover", "certify"} => collecting[g] = None
        /\ at[p] \in {"inspect", "compare", "verify"} => collecting[g] = p

-----------------------------------------------------------------------------
(* What happens outside.                                                   *)

\* The warehouse moves stock.
Move(s, q) ==
    /\ Trouble
    /\ q # local[s]
    /\ local' = [local EXCEPT ![s] = q]
    /\ UNCHANGED <<frozen, execution, shopify, request>>

Reach(r) ==
    reached' = reached \cup {s \in Slots : Latest > 0 /\ r[s] = target[Latest][s]}

\* A sale, or somebody at the Shopify admin.
Sell(s, q) ==
    /\ Trouble
    /\ q # remote[s]
    /\ remote' = [remote EXCEPT ![s] = q]
    /\ Reach(remote')
    /\ UNCHANGED <<local, frozen, execution, mutation, request>>

\* A mutation reaches Shopify, while somebody waits for its answer or after:
\* it is applied where the quantities are those it was frozen against.
Arrive(g, s) ==
    /\ mutation[g][s] = "flight"
    /\ LET fits == remote[s] = from[g][s]
       IN  /\ mutation' = [mutation EXCEPT ![g][s] =
                               IF fits THEN "applied" ELSE "refused"]
           /\ remote' = IF fits THEN [remote EXCEPT ![s] = target[g][s]] ELSE remote
           /\ Reach(remote')
    /\ UNCHANGED <<local, frozen, execution, request, troubles>>

\* It does not, or Shopify refuses it for a reason of its own.
Vanish(g, s) ==
    /\ mutation[g][s] = "flight" /\ Trouble
    /\ \E m \in {"lost", "refused"} : mutation' = [mutation EXCEPT ![g][s] = m]
    /\ UNCHANGED <<local, remote, reached, frozen, execution, request>>

\* Somebody works under the lease of a generation.
AtWork(g) == \E p \in Requests :
    holder[g] = p /\ gen[p] = g /\ at[p] \notin {"idle", "reserve", "collect", "claim"}

\* A lease runs out, if its holder is slow also under its hands.
Expire(g) ==
    /\ g \in live
    /\ IF AtWork(g) THEN Trouble ELSE NoTrouble
    /\ live' = live \ {g}
    /\ UNCHANGED <<local, frozen, status, holder, batch, collecting, mark, shopify,
                   request>>

-----------------------------------------------------------------------------
(* The approval: a generation is replayed or built.                        *)

Approve(p) ==
    /\ at[p] = "idle"
    /\ GoTo(p, "reserve")
    /\ UNCHANGED <<gen, plan, view, answer, elsewhere>>

\* readLatestGenerationDecision: the latest generation and its execution decide.
Regenerate == Latest = 0 \/ status[Latest] = "requires_regeneration"

\* T1: under the advisory lock; a generation to be built is not written yet.
Reserve(p) ==
    /\ at[p] = "reserve"
    /\ GoTo(p, IF Regenerate THEN "collect" ELSE "claim")
    /\ gen' = [gen EXCEPT ![p] = Latest]
    /\ UNCHANGED <<plan, view, answer, elsewhere>>

\* A page of the location, with nothing locked.
Page(p) == view' = [view EXCEPT ![p] = Append(@, remote[Len(@) + 1])]

Collected(p) == Len(view[p]) = MaxSlots

Collect(p) ==
    /\ at[p] = "collect" /\ ~Collected(p)
    /\ Page(p)
    /\ UNCHANGED <<at, gen, plan, answer, elsewhere>>

\* No other approval has built a generation since T1.
BasisStands(p) == gen[p] = Latest

\* T2: one snapshot under the advisory lock, and an insertion that only one of
\* two approvals can make; the other replays what the first has frozen.
Freeze(p) ==
    /\ at[p] = "collect" /\ Collected(p)
    /\ BasisStands(p) /\ Latest < MaxGenerations
    /\ target' = Append(target, local)
    /\ from' = Append(from, view[p])
    /\ reached' = {s \in Slots : remote[s] = local[s]}
    /\ GoTo(p, "claim")
    /\ gen' = [gen EXCEPT ![p] = Latest + 1]
    /\ view' = [view EXCEPT ![p] = <<>>]
    /\ UNCHANGED <<plan, answer, local, execution, remote, mutation, troubles>>

Overtaken(p) ==
    /\ at[p] = "collect" /\ Collected(p)
    /\ ~BasisStands(p)
    /\ IF Regenerate THEN End(p)
       ELSE /\ GoTo(p, "claim")
            /\ gen' = [gen EXCEPT ![p] = Latest]
            /\ view' = [view EXCEPT ![p] = <<>>]
            /\ UNCHANGED <<plan, answer>>
    /\ UNCHANGED elsewhere

-----------------------------------------------------------------------------
(* The claim.                                                              *)

\* Mutant: what was being sent is made ready to be sent.
SendAgain(g) ==
    batch' = [batch EXCEPT ![g] =
        [s \in Slots |-> IF @[s] = "dispatching" THEN "pending" ELSE @[s]]]

\* What an owner that is gone was sending may have reached Shopify.
Interrupted(g) ==
    batch' = [batch EXCEPT ![g] =
        [s \in Slots |-> IF @[s] = "dispatching" THEN "ambiguous" ELSE @[s]]]

Take(p, g) == holder' = [holder EXCEPT ![g] = p] /\ live' = live \cup {g}

\* claimExecution: the first owner creates the execution and its batches.
Create(p) ==
    /\ at[p] = "claim" /\ status[gen[p]] = "none"
    /\ status' = [status EXCEPT ![gen[p]] = "executing"]
    /\ Take(p, gen[p])
    /\ batch' = [batch EXCEPT ![gen[p]] =
           [s \in Slots |-> IF s \in Writes(gen[p]) THEN "pending" ELSE "none"]]
    /\ GoTo(p, "read")
    /\ UNCHANGED <<gen, plan, view, answer, local, frozen, collecting, mark, shopify,
                   troubles>>

\* Mutant: a verification that was begun stays open.
KeepCollecting(g) == UNCHANGED collecting

DropCollecting(g) == collecting' = [collecting EXCEPT ![g] = None]

\* A later one takes over when the lease has run out, ...
Reclaim(p) ==
    /\ at[p] = "claim" /\ status[gen[p]] \in {"executing", "verifying"}
    /\ gen[p] \notin live
    /\ Take(p, gen[p])
    /\ Interrupted(gen[p])
    /\ DropCollecting(gen[p])
    /\ GoTo(p, IF status[gen[p]] = "verifying" THEN "certify" ELSE "read")
    /\ UNCHANGED <<status, mark, gen, plan, view, answer, local, frozen, shopify,
                   troubles>>

\* ... and there is nothing to do when it has not, or when all is over.
Turned(p) ==
    /\ at[p] = "claim"
    /\ gen[p] \in live \/ status[gen[p]] \notin {"none", "executing", "verifying"}
    /\ End(p)
    /\ UNCHANGED elsewhere

-----------------------------------------------------------------------------
(* The executor: E02.                                                      *)

\* Read without the lease: whoever has lost it is stopped by the next write.
\* What is ambiguous is recovered by a new owner only; and there is one at most.
ReadPlan(p) ==
    /\ at[p] = "read"
    /\ plan' = [plan EXCEPT ![p] = batch[gen[p]]]
    /\ LET todo == {s \in Slots : batch[gen[p]][s] \in Unfinished}
       IN  GoTo(p, IF todo # {} /\ batch[gen[p]][First(todo)] = "ambiguous"
                   THEN "recover" ELSE "plan")
    /\ UNCHANGED <<gen, view, answer, elsewhere>>

\* Current authority is looked at before each batch, and once if there is none.
Revalidates(p) == Todo(p) # {} \/ Writes(gen[p]) = {}

GoesOn(p) == Todo(p) # {} => plan[p][Current(p)] = "pending"

\* A batch that is not pending was left by somebody else: nothing is sent.
Stop(p) ==
    /\ at[p] = "plan" /\ ~GoesOn(p)
    /\ End(p)
    /\ UNCHANGED elsewhere

TargetStands(p) == local = target[gen[p]]

Proceed(p) ==
    /\ at[p] = "plan" /\ GoesOn(p)
    /\ GoTo(p, IF Revalidates(p) /\ ~TargetStands(p) THEN "drift"
               ELSE IF Todo(p) = {} THEN "mark" ELSE "dispatch")
    /\ UNCHANGED <<gen, plan, view, answer, elsewhere>>

\* The same for what is not stock: the shop, its readiness, the variants.
Diverge(p) ==
    /\ at[p] = "recover" \/ (at[p] = "plan" /\ GoesOn(p) /\ Revalidates(p))
    /\ Trouble
    /\ GoTo(p, "drift")
    /\ UNCHANGED <<gen, plan, view, answer, local, frozen, execution, shopify>>

\* An execution ends: it has no lease any more.
Terminate(g, s) ==
    /\ status' = [status EXCEPT ![g] = s]
    /\ holder' = [holder EXCEPT ![g] = None]
    /\ live' = live \ {g}

\* markRequiresRegeneration
Drift(p) ==
    /\ at[p] = "drift" /\ Writable(p)
    /\ Terminate(gen[p], "requires_regeneration")
    /\ End(p)
    /\ UNCHANGED <<batch, collecting, mark, local, frozen, shopify, troubles>>

\* The intent is committed before the mutation is sent, once.
BeginDispatch(p) ==
    /\ at[p] = "dispatch" /\ Writable(p)
    /\ batch' = [batch EXCEPT ![gen[p]][Current(p)] = "dispatching"]
    /\ mutation' = [mutation EXCEPT ![gen[p]][Current(p)] = "flight"]
    /\ GoTo(p, "call")
    /\ UNCHANGED <<gen, plan, view, answer, local, frozen, status, holder, live,
                   collecting, mark, remote, reached, troubles>>

\* Only an answer of Shopify says what became of the mutation.
Respond(p) ==
    /\ at[p] = "call"
    /\ \E m \in {"applied", "refused"} :
        /\ mutation[gen[p]][Current(p)] = m
        /\ answer' = [answer EXCEPT ![p] =
                         IF m = "applied" THEN "succeeded" ELSE "rejected"]
    /\ GoTo(p, "record")
    /\ UNCHANGED <<gen, plan, view, elsewhere>>

\* classifyThrown: "no thrown failure proves the mutation did not execute".
Thrown == "ambiguous"

LoseAnswer(p) ==
    /\ at[p] = "call"
    /\ IF mutation[gen[p]][Current(p)] = "lost" THEN NoTrouble ELSE Trouble
    /\ answer' = [answer EXCEPT ![p] = Thrown]
    /\ GoTo(p, "record")
    /\ UNCHANGED <<gen, plan, view, local, frozen, execution, shopify>>

\* finalizeDispatch: a rejection blocks the execution, an ambiguity leaves it
\* to the end of the lease, and a success leads to the next batch.
Record(p) ==
    /\ at[p] = "record" /\ Writable(p)
    /\ batch' = [batch EXCEPT ![gen[p]][Current(p)] = answer[p]]
    /\ IF answer[p] = "rejected" THEN Terminate(gen[p], "blocked")
       ELSE UNCHANGED <<status, holder, live>>
    /\ IF answer[p] # "succeeded" THEN End(p)
       ELSE /\ plan' = [plan EXCEPT ![p][Current(p)] = "succeeded"]
            /\ answer' = [answer EXCEPT ![p] = "none"]
            /\ GoTo(p, "plan")
            /\ UNCHANGED <<gen, view>>
    /\ UNCHANGED <<collecting, mark, local, frozen, shopify, troubles>>

\* The lease is kept, renewed, and the same request certifies.
MarkVerifying(p) ==
    /\ at[p] = "mark" /\ Writable(p)
    /\ status' = [status EXCEPT ![gen[p]] = "verifying"]
    /\ GoTo(p, "certify")
    /\ UNCHANGED <<gen, plan, view, answer, local, frozen, holder, live, batch,
                   collecting, mark, shopify, troubles>>

-----------------------------------------------------------------------------
(* The recovery of an ambiguous batch: E03.                                *)

BeginInspection(p) ==
    /\ at[p] = "recover" /\ Writable(p)
    /\ collecting' = [collecting EXCEPT ![gen[p]] = p]
    /\ GoTo(p, "inspect")
    /\ UNCHANGED <<gen, plan, view, answer, local, frozen, status, holder, live, batch,
                   mark, shopify, troubles>>

\* A page of an executor, which asserts its lease after each.
Read(p) ==
    /\ at[p] \in {"inspect", "verify"} /\ ~Collected(p) /\ Writable(p)
    /\ Page(p)
    /\ UNCHANGED <<at, gen, plan, answer, elsewhere>>

AtTarget(p, s) == view[p][s] = target[gen[p]][s]

\* Applied, and the executor goes on; not applied, or something else, and the
\* generation ends: nothing is sent again.
Inspect(p) ==
    /\ at[p] = "inspect" /\ Collected(p) /\ Writable(p)
    /\ collecting' = [collecting EXCEPT ![gen[p]] = None]
    /\ IF AtTarget(p, Current(p))
       THEN /\ batch' = [batch EXCEPT ![gen[p]][Current(p)] = "succeeded"]
            /\ view' = [view EXCEPT ![p] = <<>>]
            /\ GoTo(p, "read")
            /\ UNCHANGED <<status, holder, live, gen, plan, answer>>
       ELSE /\ Terminate(gen[p], "requires_regeneration")
            /\ End(p)
            /\ UNCHANGED batch
    /\ UNCHANGED <<mark, local, frozen, shopify, troubles>>

-----------------------------------------------------------------------------
(* The certification: E04.                                                 *)

BeginFinal(p) ==
    /\ at[p] = "certify" /\ Writable(p)
    /\ collecting' = [collecting EXCEPT ![gen[p]] = p]
    /\ GoTo(p, "compare")
    /\ UNCHANGED <<gen, plan, view, answer, local, frozen, status, holder, live, batch,
                   mark, shopify, troubles>>

\* V1: the frozen target is still the physical one before Shopify is read, ...
Compare(p) ==
    /\ at[p] = "compare" /\ TargetStands(p)
    /\ GoTo(p, "verify")
    /\ UNCHANGED <<gen, plan, view, answer, elsewhere>>

\* failFinalVerification
CompareFails(p) ==
    /\ at[p] = "compare" /\ ~TargetStands(p) /\ Writable(p)
    /\ collecting' = [collecting EXCEPT ![gen[p]] = None]
    /\ Terminate(gen[p], "requires_regeneration")
    /\ End(p)
    /\ UNCHANGED <<batch, mark, local, frozen, shopify, troubles>>

\* Mutant: only what was written is compared.
WrittenAtTarget(p) == \A s \in Writes(gen[p]) : AtTarget(p, s)

AllAtTarget(p) == \A s \in Slots : AtTarget(p, s)

\* V2: ... and after, in the transaction that ends the cutover.
Finalize(p) ==
    /\ at[p] = "verify" /\ Collected(p) /\ Writable(p)
    /\ collecting' = [collecting EXCEPT ![gen[p]] = None]
    /\ IF TargetStands(p) /\ AllAtTarget(p)
       THEN ~mark /\ mark' = TRUE /\ Terminate(gen[p], "converged")
       ELSE UNCHANGED mark /\ Terminate(gen[p], "requires_regeneration")
    /\ End(p)
    /\ UNCHANGED <<batch, local, frozen, shopify, troubles>>

\* A reading fails, or cannot begin: it is closed, and the execution stays with
\* its lease, or what was found rules the generation out.
ReadFails(p) ==
    /\ at[p] \in {"inspect", "compare", "verify"} /\ Writable(p)
    /\ Trouble
    /\ collecting' = [collecting EXCEPT ![gen[p]] = None]
    /\ \/ Terminate(gen[p], "requires_regeneration")
       \/ UNCHANGED <<status, holder, live>>
    /\ End(p)
    /\ UNCHANGED <<batch, mark, local, frozen, shopify>>

-----------------------------------------------------------------------------

\* A write of a request that has lost its lease, or finds something else than
\* it has read: it changes nothing, and the request is over.
Fenced(p) ==
    /\ \/ at[p] \in {"drift", "dispatch", "record", "mark", "recover", "inspect",
                    "certify", "verify"}
       \/ at[p] = "compare" /\ ~TargetStands(p)
    /\ ~Writable(p)
    /\ End(p)
    /\ UNCHANGED elsewhere

\* The process dies, or something throws.
Quit(p) ==
    /\ at[p] # "idle" /\ Trouble
    /\ End(p)
    /\ UNCHANGED <<local, frozen, execution, shopify>>

Build(p) == Reserve(p) \/ Collect(p) \/ Freeze(p) \/ Overtaken(p)

Execute(p) ==
    \/ Create(p) \/ Reclaim(p) \/ Turned(p)
    \/ ReadPlan(p) \/ Stop(p) \/ Proceed(p) \/ Diverge(p) \/ Drift(p)
    \/ BeginDispatch(p) \/ Respond(p) \/ LoseAnswer(p) \/ Record(p) \/ MarkVerifying(p)

Settle(p) ==
    \/ BeginInspection(p) \/ Read(p) \/ ReadFails(p) \/ Inspect(p)
    \/ BeginFinal(p) \/ Compare(p) \/ CompareFails(p) \/ Finalize(p)
    \/ Fenced(p)

Work(p) == Build(p) \/ Execute(p) \/ Settle(p)

Outside ==
    \/ \E s \in Slots, q \in Quantities : Move(s, q) \/ Sell(s, q)
    \/ \E g \in Generations : Expire(g) \/ (\E s \in Slots : Arrive(g, s) \/ Vanish(g, s))

Next ==
    \/ Outside
    \/ \E p \in Requests : Approve(p) \/ Work(p) \/ Quit(p)

Spec == Init /\ [][Next]_vars

\* A request goes on, a lease runs out, a mutation arrives or is lost; and the
\* merchant approves until the cutover is over.
Fairness ==
    /\ \A p \in Requests : WF_vars(Approve(p)) /\ WF_vars(Work(p))
    /\ \A g \in Generations : WF_vars(Expire(g))
    /\ \A g \in Generations, s \in Slots : WF_vars(Arrive(g, s))

FairSpec == Spec /\ Fairness

-----------------------------------------------------------------------------
(* Properties.                                                             *)

\* Types; and an execution has a lease exactly while it is executing or
\* verifying ("executions_lease_valid").
TypeOK ==
    /\ local \in [Slots -> Quantities] /\ remote \in [Slots -> Quantities]
    /\ target \in Seq([Slots -> Quantities]) /\ Len(target) <= MaxGenerations
    /\ from \in Seq([Slots -> Quantities]) /\ Len(from) = Len(target)
    /\ status \in [Generations -> Status]
    /\ holder \in [Generations -> Requests \cup {None}]
    /\ live \subseteq {g \in Generations : holder[g] # None}
    /\ \A g \in Generations :
           holder[g] # None <=> status[g] \in {"executing", "verifying"}
    /\ batch \in [Generations -> [Slots -> BatchStatus]]
    /\ collecting \in [Generations -> Requests \cup {None}]
    /\ mark \in BOOLEAN
    /\ mutation \in [Generations ->
                        [Slots -> {"none", "flight", "applied", "refused", "lost"}]]
    /\ at \in [Requests -> Labels]
    /\ gen \in [Requests -> 0 .. Latest]
    /\ plan \in [Requests -> [Slots -> BatchStatus]]
    /\ view \in [Requests -> Seq(Quantities)]
    /\ \A p \in Requests : Len(view[p]) <= MaxSlots
    /\ answer \in [Requests -> {"none", "succeeded", "rejected", "ambiguous"}]
    /\ reached \subseteq Slots
    /\ troubles \in 0 .. MaxTroubles

\* "Nothing is ever resent": a batch is sent once, through lost answers, leases
\* that run out and owners that come back from the dead; only when all before
\* it have succeeded; and never for a generation that another has replaced.
NeverResent ==
    [][\A g \in Generations, s \in Slots :
        batch'[g][s] = "dispatching" /\ batch[g][s] # "dispatching" =>
            /\ mutation[g][s] = "none"
            /\ \A t \in 1 .. s - 1 : batch[g][t] \in {"none", "succeeded"}
            /\ g = Latest]_vars

\* The cutover ends with what is true: the mark stands for a generation that has
\* converged, which has the stock as it is then, and which Shopify has been at,
\* slot by slot, since it was frozen.
EndIsTrue ==
    [][mark' # mark =>
        /\ status'[Latest] = "converged"
        /\ local = target[Latest]
        /\ reached = Slots]_vars

\* If the merchant keeps approving, the cutover converges or is blocked; what
\* ends a generation is one of the bounded troubles.
CutoverEnds ==
    <>/\ Latest > 0
      /\ \/ status[Latest] \in {"converged", "blocked"}
         \/ Latest = MaxGenerations /\ status[Latest] = "requires_regeneration"

=============================================================================
