----------------------------- MODULE ShopifySync -----------------------------
(***************************************************************************)
(* The first synchronisation of a Shopify store: durable intents, the      *)
(* dispatcher that publishes them (workers/domain-event-outbox.dispatcher  *)
(* and the functions of migration 0217), the consumer of sync_jobs         *)
(* (sync.worker.ts), the cycle itself (services/shopify.service.ts) and    *)
(* the status writes fenced by the generation of the credential            *)
(* (services/shopify/shopifyIntegrationStatus.service.ts).                 *)
(*                                                                         *)
(* One shop with one installation and one integration.  Every action is    *)
(* one transaction, one broker operation or one failure.  The advisory     *)
(* lock of the credential makes the status transactions and those of the   *)
(* credential follow one another, so each of them is one step.  Time is    *)
(* left out: a lease may be over and a back-off may have passed whenever   *)
(* somebody looks, and a provider may fail at any call.                    *)
(***************************************************************************)
EXTENDS Integers, Sequences

CONSTANTS
    Dispatchers,   \* processes that publish intents
    Workers,       \* deliveries the consumers work on at a time
    None,          \* no intent
    MaxIntents,    \* bound: intents in the log
    MaxGeneration, \* bound: generations of the credential
    MaxCopies,     \* bound: copies of one message before it is published again
    MaxFaults      \* bound: crashes, failed database calls, refused publishes

Ids == 1 .. MaxIntents

ASSUME SyncAssumption ==
    /\ MaxIntents \in Nat \ {0}
    /\ MaxGeneration \in Nat
    /\ MaxCopies \in Nat \ {0}
    /\ MaxFaults \in Nat
    /\ None \notin Ids

VARIABLES
    sync,        \* integrations.sync_status
    intents,     \* sources of the integration/sync_dispatch_requested events
    started,     \* intents with an integration/sync_cycle_started event
    published,   \* outbox rows with published_at
    claimed,     \* outbox rows with processing_at
    generation,  \* shopify_admin_credentials.credential_generation
    active,      \* credential_state is ACTIVE and the app is installed
    reconnect,   \* the prior state, while somebody holds the reconnect lease
    queue,       \* copies of the message of an intent in sync_jobs
    dpc, row,    \* a dispatcher: where it is, and the intent it has claimed
    wpc, msg,    \* a delivery: where its handler is, and its intent
    auth,        \* the generation its credential was resolved under
    faults

outbox == <<published, claimed>>
credential == <<generation, active, reconnect>>
dispatch == <<dpc, row>>
work == <<wpc, msg, auth>>
vars == <<sync, intents, started, outbox, credential, queue, dispatch, work, faults>>

Sources == {"install", "reconnect", "recovery"}
Syncing == {"SYNCING_PRODUCTS", "SYNCING_ORDERS"}
Status == {"PENDING", "COMPLETED", "FAILED"} \cup Syncing

\* The status writes of a cycle in their order, and where each leads.
Target == [enter |-> "SYNCING_PRODUCTS", catalog |-> "SYNCING_PRODUCTS",
           orders |-> "SYNCING_ORDERS", complete |-> "COMPLETED"]
After == [enter |-> "catalog", catalog |-> "orders", orders |-> "complete", complete |-> "idle"]
Phases == DOMAIN Target

Started == {"guard", "fail", "report"} \cup Phases
Labels == {"idle", "resolve", "claim"} \cup Started

Latest == Len(intents)

Init ==
    /\ sync \in {"PENDING", "FAILED"}
    /\ intents = <<"install">>
    /\ started = {} /\ published = {} /\ claimed = {}
    /\ generation = 0 /\ active = TRUE /\ reconnect = "none"
    /\ queue = [i \in Ids |-> 0]
    /\ dpc = [d \in Dispatchers |-> "idle"] /\ row = [d \in Dispatchers |-> None]
    /\ wpc = [w \in Workers |-> "idle"] /\ msg = [w \in Workers |-> None]
    /\ auth = [w \in Workers |-> 0]
    /\ faults = 0

Fault == faults < MaxFaults /\ faults' = faults + 1
NoFault == UNCHANGED faults

------------------------------------------------------------------------------
(* Who may do what.                                                        *)

\* An intent may start a cycle from PENDING, or from FAILED if it was asked for.
Eligible(i) ==
    \/ sync = "PENDING"
    \/ sync = "FAILED" /\ intents[i] \in {"install", "recovery"}

\* The trigger on the status.  The phases of the disabled fallback are left out.
Legal(old, new) ==
    \/ old = new
    \/ old = "PENDING" /\ new = "SYNCING_PRODUCTS"
    \/ old = "SYNCING_PRODUCTS" /\ new \in {"SYNCING_ORDERS", "FAILED"}
    \/ old = "SYNCING_ORDERS" /\ new \in {"COMPLETED", "FAILED"}
    \/ old = "FAILED" /\ new = "SYNCING_PRODUCTS"

\* Mutant: the installation counts, not the generation of its credential.
AnyGeneration(w) == active /\ auth[w] \in Nat

\* The authority a delivery was resolved under is the present one.
Authorised(w) == active /\ auth[w] = generation

\* The intent has started no cycle yet.
Unconsumed(i) == i \notin started

------------------------------------------------------------------------------
(* The dispatcher.                                                         *)

\* Mutant: what was published once is never published again.
OnlyUnpublished(i) == i = Latest /\ Unconsumed(i) /\ Eligible(i) /\ i \notin published

\* The latest intent, while it can start a cycle.  A claim that is still open
\* may be two minutes old, and a published intent is due again after a while.
Dispatchable(i) == i = Latest /\ Unconsumed(i) /\ Eligible(i)

ClaimRow(d) ==
    /\ dpc[d] = "idle"
    /\ \E i \in Ids :
        /\ Dispatchable(i)
        /\ claimed' = claimed \cup {i}
        /\ row' = [row EXCEPT ![d] = i]
    /\ dpc' = [dpc EXCEPT ![d] = "publish"]
    /\ UNCHANGED <<sync, intents, started, published, credential, queue, work, faults>>

\* The broker confirms, or the publish is rejected; the message may be there
\* all the same when only the confirmation was lost.
Publish(d) ==
    /\ dpc[d] = "publish" /\ queue[row[d]] < MaxCopies
    /\ \/ /\ dpc' = [dpc EXCEPT ![d] = "mark"]
          /\ queue' = [queue EXCEPT ![row[d]] = @ + 1]
          /\ NoFault
       \/ /\ dpc' = [dpc EXCEPT ![d] = "refused"]
          /\ queue' \in {queue, [queue EXCEPT ![row[d]] = @ + 1]}
          /\ Fault
    /\ UNCHANGED <<sync, intents, started, outbox, credential, row, work>>

\* Both records test only that some claim is open, not whose it is.
Settle(d) ==
    /\ dpc[d] \in {"mark", "refused"}
    /\ claimed' = claimed \ {row[d]}
    /\ published' = IF dpc[d] = "mark" /\ row[d] \in claimed
                    THEN published \cup {row[d]} ELSE published
    /\ dpc' = [dpc EXCEPT ![d] = "idle"] /\ row' = [row EXCEPT ![d] = None]
    /\ UNCHANGED <<sync, intents, started, credential, queue, work, faults>>

\* The process dies or its database call fails; the claim stays open.
Interrupt(d) ==
    /\ dpc[d] # "idle" /\ Fault
    /\ dpc' = [dpc EXCEPT ![d] = "idle"] /\ row' = [row EXCEPT ![d] = None]
    /\ UNCHANGED <<sync, intents, started, outbox, credential, queue, work>>

Dispatch(d) == ClaimRow(d) \/ Publish(d) \/ Settle(d)

------------------------------------------------------------------------------
(* The consumer.                                                           *)

GoTo(w, label) == wpc' = [wpc EXCEPT ![w] = label]

\* The delivery is acknowledged, or rejected without requeueing: gone either way.
Drop(w) == GoTo(w, "idle") /\ msg' = [msg EXCEPT ![w] = None] /\ UNCHANGED auth

Deliver(w) ==
    /\ wpc[w] = "idle"
    /\ \E i \in Ids :
        /\ queue[i] > 0
        /\ queue' = [queue EXCEPT ![i] = @ - 1]
        /\ msg' = [msg EXCEPT ![w] = i]
    /\ GoTo(w, "resolve")
    /\ UNCHANGED <<sync, intents, started, outbox, credential, dispatch, auth, faults>>

\* Without a ready credential the delivery is dropped; the intent stays.
Resolve(w) ==
    /\ wpc[w] = "resolve"
    /\ \/ /\ active /\ NoFault
          /\ GoTo(w, "claim") /\ auth' = [auth EXCEPT ![w] = generation] /\ UNCHANGED msg
       \/ ~active /\ NoFault /\ Drop(w)
       \/ active /\ Fault /\ Drop(w)
    /\ UNCHANGED <<sync, intents, started, outbox, credential, queue, dispatch>>

\* Mutant: the start of an intent is recorded and not looked for.
StartableAgain(i) == i = Latest /\ Eligible(i)

\* One transaction: the intent is current and unused and the status lets it
\* start; then the status moves and the start is recorded, or nothing happens.
Startable(i) == i = Latest /\ Unconsumed(i) /\ Eligible(i)

Claim(w) ==
    /\ wpc[w] = "claim" /\ Authorised(w)
    /\ \/ /\ Startable(msg[w]) /\ NoFault
          /\ sync' = "SYNCING_PRODUCTS" /\ started' = started \cup {msg[w]}
          /\ GoTo(w, "guard") /\ UNCHANGED <<msg, auth>>
       \/ ~Startable(msg[w]) /\ NoFault /\ Drop(w) /\ UNCHANGED <<sync, started>>
       \/ Fault /\ Drop(w) /\ UNCHANGED <<sync, started>>
    /\ UNCHANGED <<intents, outbox, credential, queue, dispatch>>

\* performInitialSync reads the status first and leaves a completed one alone.
Guard(w) ==
    /\ wpc[w] = "guard"
    /\ \/ sync = "COMPLETED" /\ NoFault /\ Drop(w)
       \/ sync # "COMPLETED" /\ NoFault /\ GoTo(w, "enter") /\ UNCHANGED <<msg, auth>>
       \/ Fault /\ GoTo(w, "report") /\ UNCHANGED <<msg, auth>>
    /\ UNCHANGED <<sync, intents, started, outbox, credential, queue, dispatch>>

\* A fenced status write that the trigger lets through.
Progress(w) ==
    /\ wpc[w] \in Phases /\ Authorised(w)
    /\ Legal(sync, Target[wpc[w]])
    /\ sync' = Target[wpc[w]]
    /\ GoTo(w, After[wpc[w]])
    /\ msg' = IF wpc[w] = "complete" THEN [msg EXCEPT ![w] = None] ELSE msg
    /\ UNCHANGED <<intents, started, outbox, credential, queue, dispatch, auth, faults>>

\* The provider, the ingestion, the trigger or the database stops the cycle.
Break(w) ==
    /\ wpc[w] \in Phases
    /\ GoTo(w, "fail")
    /\ UNCHANGED <<sync, intents, started, outbox, credential, queue, dispatch, msg, auth, faults>>

\* FAILED is written where the trigger allows it, unless the database fails.
WriteFailed ==
    \/ Legal(sync, "FAILED") /\ sync' = "FAILED" /\ NoFault
    \/ ~Legal(sync, "FAILED") /\ UNCHANGED sync /\ NoFault
    \/ Fault /\ UNCHANGED sync

\* performInitialSync records the failure and throws, ...
Fail(w) ==
    /\ wpc[w] = "fail" /\ Authorised(w)
    /\ WriteFailed
    /\ GoTo(w, "report")
    /\ UNCHANGED <<intents, started, outbox, credential, queue, dispatch, msg, auth>>

\* Mutant: ... and nobody records it again.
ReportNothing(w) ==
    /\ wpc[w] = "report" /\ Authorised(w)
    /\ Drop(w)
    /\ UNCHANGED <<sync, intents, started, outbox, credential, queue, dispatch, faults>>

\* ... processSyncJob records it again and rejects the delivery.
Report(w) ==
    /\ wpc[w] = "report" /\ Authorised(w)
    /\ WriteFailed
    /\ Drop(w)
    /\ UNCHANGED <<intents, started, outbox, credential, queue, dispatch>>

\* A write under an authority that has passed throws; so does the record of
\* that failure, since a generation never comes back.  The job is acknowledged.
Discard(w) ==
    /\ wpc[w] \in {"claim", "fail", "report"} \cup Phases
    /\ ~Authorised(w)
    /\ Drop(w)
    /\ UNCHANGED <<sync, intents, started, outbox, credential, queue, dispatch, faults>>

\* The consumer dies: the broker delivers again what was not acknowledged.
Crash(w) ==
    /\ wpc[w] # "idle" /\ Fault
    /\ queue' = [queue EXCEPT ![msg[w]] = @ + 1]
    /\ Drop(w)
    /\ UNCHANGED <<sync, intents, started, outbox, credential, dispatch>>

Work(w) ==
    \/ Deliver(w) \/ Resolve(w) \/ Claim(w) \/ Guard(w) \/ Progress(w)
    \/ Break(w) \/ Fail(w) \/ Report(w) \/ Discard(w)

------------------------------------------------------------------------------
(* The merchant and the credential.                                        *)

Record(source) == Latest < MaxIntents /\ intents' = Append(intents, source)

\* The latest intent has not started yet and still can.
Outstanding == Unconsumed(Latest) /\ Eligible(Latest)

\* requestShopifyManualRecovery; its refusals change nothing.
Request ==
    /\ active /\ sync \in {"PENDING", "FAILED"} /\ ~Outstanding
    /\ Record("recovery")
    /\ UNCHANGED <<sync, started, outbox, credential, queue, dispatch, work, faults>>

Advance == generation < MaxGeneration /\ generation' = generation + 1

\* A token is refreshed.
Rotate ==
    /\ active /\ Advance /\ UNCHANGED <<active, reconnect>>
    /\ UNCHANGED <<sync, intents, started, outbox, queue, dispatch, work, faults>>

\* Shopify refuses the refresh for good, or the app is uninstalled.
Revoke ==
    /\ active \/ reconnect # "none"
    /\ Advance /\ active' = FALSE /\ reconnect' = "none"
    /\ UNCHANGED <<sync, intents, started, outbox, queue, dispatch, work, faults>>

\* The owner starts to connect again; a lease before this one has run out.
Fence ==
    /\ Advance /\ active' = FALSE
    /\ reconnect' = IF active THEN "active" ELSE "reauth"
    /\ UNCHANGED <<sync, intents, started, outbox, queue, dispatch, work, faults>>

\* It comes to nothing: certainly no token was issued, or perhaps one was.
GiveUp ==
    /\ reconnect # "none" /\ reconnect' = "none"
    /\ active' \in {FALSE, reconnect = "active"}
    /\ UNCHANGED <<generation, sync, intents, started, outbox, queue, dispatch, work, faults>>

\* The finalizer: a fresh credential, PENDING and the intent of a fresh cycle.
Reconnect ==
    /\ reconnect # "none" /\ reconnect' = "none"
    /\ active' = TRUE /\ UNCHANGED generation
    /\ sync' = "PENDING" /\ Record("reconnect")
    /\ UNCHANGED <<started, outbox, queue, dispatch, work, faults>>

Outside == Request \/ Rotate \/ Revoke \/ Fence \/ GiveUp \/ Reconnect

Next ==
    \/ Outside
    \/ \E d \in Dispatchers : Dispatch(d) \/ Interrupt(d)
    \/ \E w \in Workers : Work(w) \/ Crash(w)

Spec == Init /\ [][Next]_vars

\* The dispatcher polls and the consumer works on what it is given.
Fairness ==
    /\ \A d \in Dispatchers : WF_vars(Dispatch(d))
    /\ \A w \in Workers : WF_vars(Work(w))

FairSpec == Spec /\ Fairness

------------------------------------------------------------------------------
(* Properties.                                                             *)

TypeOK ==
    /\ sync \in Status
    /\ intents \in Seq(Sources) /\ Latest \in Ids
    /\ started \subseteq 1 .. Latest
    /\ published \subseteq 1 .. Latest /\ claimed \subseteq 1 .. Latest
    /\ generation \in 0 .. MaxGeneration
    /\ active \in BOOLEAN /\ reconnect \in {"none", "active", "reauth"}
    /\ reconnect # "none" => ~active
    /\ queue \in [Ids -> Nat] /\ \A i \in Ids : queue[i] > 0 => i <= Latest
    /\ dpc \in [Dispatchers -> {"idle", "publish", "mark", "refused"}]
    /\ row \in [Dispatchers -> 1 .. Latest \cup {None}]
    /\ \A d \in Dispatchers : dpc[d] = "idle" <=> row[d] = None
    /\ wpc \in [Workers -> Labels]
    /\ msg \in [Workers -> 1 .. Latest \cup {None}]
    /\ \A w \in Workers : wpc[w] = "idle" <=> msg[w] = None
    /\ auth \in [Workers -> 0 .. generation]
    /\ faults \in 0 .. MaxFaults

\* However often a message is published, delivered and delivered again, one
\* intent never has two cycles at work ("one-time cycle start"), also not when
\* the first has failed and the status would let a second one start.
OneCyclePerIntent ==
    \A v, w \in Workers :
        v # w /\ wpc[v] \in Started /\ wpc[w] \in Started => msg[v] # msg[w]

\* A cycle of the time before a reconnection never moves the status of the
\* connection that came after it ("old-generation in-flight sync writers cannot
\* restore or complete superseded authority").
SupersededIsSilent ==
    [][\A w \in Workers : wpc'[w] # wpc[w] /\ sync' # sync =>
            \A i \in DOMAIN intents : intents[i] = "reconnect" => i <= msg[w]]_vars

\* One failed call does not strand the integration: a cycle that stays
\* authorised to its end leaves a final status, or another cycle at work.
CyclesReport ==
    [][\A w \in Workers :
        (wpc[w] \in Started /\ Authorised(w) /\ wpc'[w] = "idle"
            /\ queue' = queue /\ faults' <= 1) =>
        \/ sync' \in {"COMPLETED", "FAILED"}
        \/ \E v \in Workers \ {w} : wpc[v] \in Started /\ Authorised(v)]_vars

\* An intent that can start a cycle does, is superseded, or can no longer:
\* lost messages, dropped deliveries and dead publishers only delay it.
IntentsStart ==
    \A i \in Ids :
        (i = Latest /\ active /\ i \notin started /\ Eligible(i)) ~>
        (i # Latest \/ ~active \/ i \in started \/ ~Eligible(i))

=============================================================================
