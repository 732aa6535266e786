--------------------------- MODULE WebhookLedger ---------------------------
(***************************************************************************)
(* The reception of webhooks.                                              *)
(*                                                                         *)
(* A provider delivers an event by a request and delivers it again when    *)
(* the answer is not 200, or does not come in time, whatever has become of *)
(* the first request.  A request runs in one transaction: it claims the    *)
(* event in the ledger (integration_webhook_events), runs the handler,     *)
(* marks the row and commits; then it answers.  It claims the event by     *)
(* inserting its row or by taking over the row of a delivery that failed.  *)
(*                                                                         *)
(* row is what is committed.  holder is the transaction that has locked    *)
(* the row, or inserted it and not yet committed.                          *)
(***************************************************************************)
EXTENDS Naturals, FiniteSets

CONSTANTS
    Plain,          \* events with a handler
    Recoverable,    \* fulfilments: their handler needs an order that is known
    Uninstalls,     \* app/uninstalled, which has an ingress of its own
    Unsupported,    \* events with no handler
    Requests,       \* requests that may be open at a time
    None,           \* no event, no request
    MaxRefusals,    \* bound: failures of handlers and recoveries
    MaxTimeouts,    \* bound: times the provider does not wait any longer
    MaxCrashes      \* bound: dead processes and failing transactions

Events == Plain \cup Recoverable \cup Uninstalls \cup Unsupported

ASSUME ConstantsAssumption ==
    /\ \A e \in Uninstalls : e \notin Plain \cup Recoverable \cup Unsupported
    /\ \A e \in Unsupported : e \notin Plain \cup Recoverable
    /\ None \notin Events \cup Requests
    /\ MaxRefusals \in Nat /\ MaxTimeouts \in Nat /\ MaxCrashes \in Nat

VARIABLES
    row,            \* processing_status, as committed
    holder,         \* the transaction that holds the row
    effects,        \* how often the effect of the handler was committed
    unknown,        \* fulfilments whose order is not known yet
    at,             \* where each request is
    ev,             \* its event
    answer,         \* what it will answer
    provider,       \* what the provider thinks of each event
    awaits,         \* the request it waits for
    met,            \* history: requests that overlapped the owner of their event
    fell,           \* history: requests whose event failed while they were open
    shadowed,       \* history: events whose duplicate was answered beside an owner
    refusals, timeouts, crashes

ledger == <<row, holder, effects, unknown>>
request == <<at, ev, answer>>
outside == <<provider, awaits>>
history == <<met, fell, shadowed>>
bounds == <<refusals, timeouts, crashes>>
vars == <<row, holder, effects, unknown, at, ev, answer, provider, awaits,
          met, fell, shadowed, refusals, timeouts, crashes>>

Status == {"none", "received", "ignored", "processed", "failed"}
Labels == {"idle", "reclaim", "exists", "insert", "own", "hook", "answer"}

Init ==
    /\ row = [e \in Events |-> "none"]
    /\ holder = [e \in Events |-> None]
    /\ effects = [e \in Events |-> 0]
    /\ unknown \in SUBSET Recoverable
    /\ at = [r \in Requests |-> "idle"]
    /\ ev = [r \in Requests |-> None]
    /\ answer = [r \in Requests |-> "none"]
    /\ provider = [e \in Events |-> "silent"]
    /\ awaits = [e \in Events |-> None]
    /\ met = {} /\ fell = {} /\ shadowed = {}
    /\ refusals = 0 /\ timeouts = 0 /\ crashes = 0

Open(e) == {r \in Requests : ev[r] = e}

\* The requests for e that have looked for a failed row and not decided yet.
Undecided(e) == {r \in Open(e) : at[r] \in {"exists", "insert"}}

-----------------------------------------------------------------------------
(* The provider.                                                           *)

Emit(e) ==
    /\ provider[e] = "silent"
    /\ provider' = [provider EXCEPT ![e] = "due"]
    /\ UNCHANGED <<ledger, request, awaits, history, bounds>>

Send(e, r) ==
    /\ provider[e] = "due" /\ at[r] = "idle"
    /\ provider' = [provider EXCEPT ![e] = "waiting"]
    /\ awaits' = [awaits EXCEPT ![e] = r]
    /\ at' = [at EXCEPT ![r] = "reclaim"]
    /\ ev' = [ev EXCEPT ![r] = e]
    /\ UNCHANGED <<ledger, answer, history, bounds>>

\* The provider gives up on the request, which goes on.
TimeOut(e) ==
    /\ provider[e] = "waiting" /\ timeouts < MaxTimeouts
    /\ timeouts' = timeouts + 1
    /\ provider' = [provider EXCEPT ![e] = "due"]
    /\ awaits' = [awaits EXCEPT ![e] = None]
    /\ UNCHANGED <<ledger, request, history, refusals, crashes>>

-----------------------------------------------------------------------------
(* recordReceived                                                          *)

\* The request owns the event: it holds the row, and whoever is on the way to
\* a decision on this event meets an owner.
Own(r) ==
    /\ holder' = [holder EXCEPT ![ev[r]] = r]
    /\ at' = [at EXCEPT ![r] = "own"]
    /\ met' = met \cup (Undecided(ev[r]) \ {r})
    /\ UNCHANGED <<row, effects, unknown, ev, answer, outside, fell, shadowed, bounds>>

\* The request is a duplicate, stops at the router, and is answered 200.
Duplicate(r) ==
    /\ at' = [at EXCEPT ![r] = "answer"]
    /\ answer' = [answer EXCEPT ![r] = "ok"]
    /\ shadowed' = IF r \in met THEN shadowed \cup {ev[r]} ELSE shadowed
    /\ UNCHANGED <<ledger, ev, outside, met, fell, bounds>>

\* Mutant: the status of the row is not asked for.
AnyRow(r) == row[ev[r]] # "none" /\ holder[ev[r]] = None

\* A failed row that nobody holds.  A locked one is skipped, not waited for.
Retryable(r) == row[ev[r]] = "failed" /\ holder[ev[r]] = None

Reclaim(r) ==
    /\ at[r] = "reclaim" /\ Retryable(r)
    /\ Own(r)

\* The row is not there, not failed, or locked.
SkipReclaim(r) ==
    /\ at[r] = "reclaim" /\ ~Retryable(r)
    /\ at' = [at EXCEPT ![r] = "exists"]
    /\ met' = IF holder[ev[r]] # None THEN met \cup {r} ELSE met
    /\ UNCHANGED <<ledger, ev, answer, outside, fell, shadowed, bounds>>

\* A read that waits for nothing and sees what is committed.
FindRow(r) ==
    /\ at[r] = "exists" /\ row[ev[r]] # "none"
    /\ Duplicate(r)

FindNoRow(r) ==
    /\ at[r] = "exists" /\ row[ev[r]] = "none"
    /\ at' = [at EXCEPT ![r] = "insert"]
    /\ UNCHANGED <<ledger, ev, answer, outside, history, bounds>>

\* The insertion waits for a transaction that is inserting the same key.
Insert(r) ==
    /\ at[r] = "insert" /\ holder[ev[r]] = None /\ row[ev[r]] = "none"
    /\ Own(r)

\* Mutant: who loses the race takes a row that has failed meanwhile.
TakeFailed(r) ==
    /\ at[r] = "insert" /\ holder[ev[r]] = None /\ row[ev[r]] # "none"
    /\ IF row[ev[r]] = "failed" THEN Own(r) ELSE Duplicate(r)

\* ON CONFLICT DO NOTHING: somebody else was first.
Conflict(r) ==
    /\ at[r] = "insert" /\ holder[ev[r]] = None /\ row[ev[r]] # "none"
    /\ Duplicate(r)

\* Mutant: the ingress takes a lock that is not to be had for a duplicate.
BusyIsDuplicate(r) ==
    /\ at[r] = "insert" /\ ev[r] \in Uninstalls /\ holder[ev[r]] # None
    /\ Duplicate(r)

\* The ingress for uninstallations waits for a lock 250 ms and no longer.
LockTimeout(r) ==
    /\ at[r] = "insert" /\ ev[r] \in Uninstalls /\ holder[ev[r]] # None
    /\ at' = [at EXCEPT ![r] = "answer"]
    /\ answer' = [answer EXCEPT ![r] = "error"]
    /\ UNCHANGED <<ledger, ev, outside, history, bounds>>

-----------------------------------------------------------------------------
(* The handler, the mark and the commit.                                   *)

\* The transaction ends.  Whoever is on the way to a decision has seen it fail.
Close(r, failed, next, result) ==
    /\ holder' = [holder EXCEPT ![ev[r]] = None]
    /\ at' = [at EXCEPT ![r] = next]
    /\ answer' = [answer EXCEPT ![r] = result]
    /\ fell' = IF failed THEN fell \cup (Undecided(ev[r]) \ {r}) ELSE fell
    /\ UNCHANGED <<unknown, ev, outside, met, shadowed, timeouts, crashes>>

\* The route of app/uninstalled is receiptOnly: nothing is marked.
Marked(e) == IF e \in Uninstalls THEN "received" ELSE "processed"

Succeed(r) ==
    /\ at[r] = "own" /\ ev[r] \notin Unsupported \cup unknown
    /\ row' = [row EXCEPT ![ev[r]] = Marked(ev[r])]
    /\ effects' = [effects EXCEPT ![ev[r]] = @ + 1]
    /\ Close(r, FALSE, "answer", "ok")
    /\ UNCHANGED refusals

\* A handler refuses as long as it lacks its order, and may for other reasons.
Refuses(e) ==
    IF e \in unknown THEN UNCHANGED refusals
    ELSE refusals < MaxRefusals /\ refusals' = refusals + 1

\* Mutant: the handler runs outside the savepoint.
FailKeepsEffect(r) ==
    /\ at[r] = "own" /\ ev[r] \in Plain \cup Recoverable
    /\ Refuses(ev[r])
    /\ row' = [row EXCEPT ![ev[r]] = "failed"]
    /\ effects' = [effects EXCEPT ![ev[r]] = @ + 1]
    /\ Close(r, TRUE, IF ev[r] \in Recoverable THEN "hook" ELSE "answer", "error")

\* The savepoint is rolled back and the failure committed.
Fail(r) ==
    /\ at[r] = "own" /\ ev[r] \in Plain \cup Recoverable
    /\ Refuses(ev[r])
    /\ row' = [row EXCEPT ![ev[r]] = "failed"]
    /\ Close(r, TRUE, IF ev[r] \in Recoverable THEN "hook" ELSE "answer", "error")
    /\ UNCHANGED effects

\* The ingress for uninstallations rolls everything back, its row included.
RollBack(r) ==
    /\ at[r] = "own" /\ ev[r] \in Uninstalls
    /\ Refuses(ev[r])
    /\ Close(r, FALSE, "answer", "error")
    /\ UNCHANGED <<row, effects>>

\* An event without a route is kept as a domain event, if that can be done.
Ignore(r) ==
    /\ at[r] = "own" /\ ev[r] \in Unsupported
    /\ row' = [row EXCEPT ![ev[r]] = "ignored"]
    /\ \E n \in {0, 1} : effects' = [effects EXCEPT ![ev[r]] = @ + n]
    /\ Close(r, FALSE, "answer", "ok")
    /\ UNCHANGED refusals

\* Mutant: the recovery reports success and leaves the order unknown.
NotRecovered(r) ==
    /\ at[r] = "hook"
    /\ at' = [at EXCEPT ![r] = "answer"]
    /\ UNCHANGED <<ledger, ev, answer, outside, history, bounds>>

\* After the commit the order is fetched from Shopify and recorded.
Recover(r) ==
    /\ at[r] = "hook"
    /\ unknown' = unknown \ {ev[r]}
    /\ at' = [at EXCEPT ![r] = "answer"]
    /\ UNCHANGED <<row, holder, effects, ev, answer, outside, history, bounds>>

\* What goes wrong in it changes nothing about the answer.
RecoverFails(r) ==
    /\ at[r] = "hook" /\ refusals < MaxRefusals
    /\ refusals' = refusals + 1
    /\ at' = [at EXCEPT ![r] = "answer"]
    /\ UNCHANGED <<ledger, ev, answer, outside, history, timeouts, crashes>>

-----------------------------------------------------------------------------
(* The answer.                                                             *)

\* The request is over, and the provider, if it still waits, hears of it.
End(r, result) ==
    /\ at' = [at EXCEPT ![r] = "idle"]
    /\ ev' = [ev EXCEPT ![r] = None]
    /\ answer' = [answer EXCEPT ![r] = "none"]
    /\ met' = met \ {r} /\ fell' = fell \ {r}
    /\ IF awaits[ev[r]] = r
       THEN /\ provider' = [provider EXCEPT ![ev[r]] = IF result = "ok" THEN "satisfied" ELSE "due"]
            /\ awaits' = [awaits EXCEPT ![ev[r]] = None]
       ELSE UNCHANGED outside
    /\ UNCHANGED <<row, effects, unknown, shadowed, refusals, timeouts>>

Answer(r) ==
    /\ at[r] = "answer"
    /\ End(r, answer[r])
    /\ UNCHANGED <<holder, crashes>>

\* The process dies, or a statement or the commit fails: the transaction, if
\* it is open, never was, and the provider gets an error or nothing at all.
Crash(r) ==
    /\ at[r] # "idle" /\ crashes < MaxCrashes
    /\ crashes' = crashes + 1
    /\ holder' = IF holder[ev[r]] = r THEN [holder EXCEPT ![ev[r]] = None] ELSE holder
    /\ End(r, "error")

-----------------------------------------------------------------------------
Handle(r) ==
    \/ Reclaim(r) \/ SkipReclaim(r) \/ FindRow(r) \/ FindNoRow(r)
    \/ Insert(r) \/ Conflict(r) \/ LockTimeout(r)
    \/ Succeed(r) \/ Fail(r) \/ RollBack(r) \/ Ignore(r)
    \/ Recover(r) \/ RecoverFails(r) \/ Answer(r)

Next ==
    \/ \E e \in Events :
          \/ Emit(e) \/ TimeOut(e)
          \/ \E r \in Requests : Send(e, r)
    \/ \E r \in Requests : Handle(r) \/ Crash(r)

Spec == Init /\ [][Next]_vars

\* An open request is worked on; the provider redelivers what is not settled.
Fairness ==
    /\ \A r \in Requests : WF_vars(Handle(r))
    /\ \A e \in Events : WF_vars(\E r \in Requests : Send(e, r))

FairSpec == Spec /\ Fairness

-----------------------------------------------------------------------------
(* Properties.                                                             *)

\* Types; and a row is held by a request that owns its event and by no other.
TypeOK ==
    /\ row \in [Events -> Status]
    /\ holder \in [Events -> Requests \cup {None}]
    /\ effects \in [Events -> Nat]
    /\ unknown \subseteq Recoverable
    /\ at \in [Requests -> Labels]
    /\ ev \in [Requests -> Events \cup {None}]
    /\ answer \in [Requests -> {"none", "ok", "error"}]
    /\ provider \in [Events -> {"silent", "due", "waiting", "satisfied"}]
    /\ awaits \in [Events -> Requests \cup {None}]
    /\ met \subseteq Requests /\ fell \subseteq Requests /\ shadowed \subseteq Events
    /\ refusals \in 0..MaxRefusals /\ timeouts \in 0..MaxTimeouts
    /\ crashes \in 0..MaxCrashes
    /\ \A e \in Events : holder[e] # None => at[holder[e]] = "own" /\ ev[holder[e]] = e

\* However often and however closely an event is delivered, its handler takes
\* effect at most once.
EffectOnce == \A e \in Events : effects[e] <= 1

\* The ledger tells what happened: processed has taken effect, failed has not
\* and can be tried again, and a row that stays "received" is the receipt of
\* an uninstallation and never an event somebody began and abandoned.
LedgerIsTrue ==
    \A e \in Events :
       /\ row[e] = "processed" => effects[e] = 1
       /\ row[e] \in {"none", "failed"} => effects[e] = 0
       /\ row[e] = "received" => e \in Uninstalls /\ effects[e] = 1

\* A delivery that was open when its event failed does not own the event
\* after that: it neither waits for the failure nor tries again behind it.
OneOwnerPerWave == \A r \in Requests : at[r] = "own" => r \notin fell

Landed(e) == effects[e] = 1 \/ row[e] = "ignored"

\* A provider that is satisfied need not send the event again: it has landed.
\* This is what is left of NoSilentLoss, which the code does not keep: the one
\* way to lose an event is the answer given to a duplicate while its owner is
\* still open, so crashes, timeouts, failures that are recorded and reclaims
\* lose nothing by themselves, and an uninstallation is never lost.
AckIsKept ==
    \A e \in Events : provider[e] = "satisfied" =>
        Landed(e) \/ e \in shadowed \ Uninstalls

\* What the provider has to send lands in the end, whatever fails on the way,
\* unless a duplicate was answered beside an owner.
EventsLand ==
    \A e \in Events : provider[e] = "due" ~> (Landed(e) \/ e \in shadowed \ Uninstalls)

\* "Swallowing here causes silent permanent ingestion loss"; "never return 200
\* on handler failure - Shopify will not retry and the event is permanently
\* lost": an event whose provider is satisfied and which nobody handles any
\* more has landed.  The code does not keep this: a duplicate is answered 200
\* beside an owner that then fails.
NoSilentLoss ==
    \A e \in Events : provider[e] = "satisfied" /\ Open(e) = {} => Landed(e)
=============================================================================
