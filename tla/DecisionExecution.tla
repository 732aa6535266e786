-------------------------- MODULE DecisionExecution --------------------------
(***************************************************************************)
(* How a decision gets executed, by two paths over one table.              *)
(*                                                                         *)
(* Manual decisions are approved over HTTP: the request inserts the row of *)
(* decision_execution_queue and, in a second transaction, a command; the   *)
(* commands consumer executes it under a row lock.  Automated decisions    *)
(* are found by the execution dispatcher, sent through RabbitMQ and run by *)
(* the execution worker, which handles its deliveries concurrently.        *)
(*                                                                         *)
(* Each process (the HTTP runtime and the worker entry start the same      *)
(* fleet) runs one consumer, one dispatcher and one worker.  The decision  *)
(* engine emits manual decisions only; automated ones come from rows that  *)
(* are already stored.                                                     *)
(***************************************************************************)
EXTENDS Naturals

CONSTANTS
    Manual,         \* manual decisions whose action a user may execute
    Automated,      \* decisions the dispatcher executes
    Retired,        \* the automated ones with action proceed_fulfillment
    Requests,       \* concurrent POST /orders/:orderId/execute requests
    Processes,      \* processes that run the workers
    Messages,       \* bound: broker messages that exist at once
    Together,       \* bound: the sets of decisions that have rows in one behaviour
    None,           \* no decision, no process, no lock holder
    MaxTries,       \* MAX_RETRY_ATTEMPTS
    MaxErrors,      \* bound: database and handler errors
    MaxCrashes      \* bound: process crashes

ASSUME ConstantsAssumption ==
    /\ Manual \cap Automated = {}
    /\ Retired \subseteq Automated
    /\ None \notin Manual \cup Automated \cup Processes \cup Messages
    /\ Processes \cap Messages = {}
    /\ MaxTries \in Nat /\ MaxErrors \in Nat /\ MaxCrashes \in Nat

Decisions == Manual \cup Automated

VARIABLES
    row,        \* committed status of the decision's row in decision_execution_queue
    decision,   \* committed status of the decision
    command,    \* status of the EXECUTE_DECISION command
    lock,       \* who holds the rows of the decision
    runs,       \* history: committed executions of the handler
    overwritten,\* history: decisions whose recorded outcome a later mark replaced
    dropped,    \* history: decisions whose last job died unsent with its process
    request,    \* the HTTP requests
    consumer,   \* the commands consumer of each process
    dispatcher, \* the execution dispatcher of each process
    msg,        \* the execution jobs in the broker and in the workers
    errors,     \* database and handler errors so far
    crashes     \* crashes so far

tables == <<row, decision, command, runs, overwritten>>
vars == <<row, decision, command, lock, runs, overwritten, dropped, request,
          consumer, dispatcher, msg, errors, crashes>>

\* "in_progress" is written and replaced inside one transaction, so nobody
\* else ever reads it.
RowStatus == {"none", "pending", "dispatched", "success", "failure"}

NoMessage == [at |-> "free", job |-> None, tries |-> 0, owner |-> None]
Idle == [at |-> "idle", job |-> None, todo |-> {}]

Init ==
    /\ row = [d \in Decisions |-> "none"]
    /\ decision = [d \in Decisions |-> "pending"]
    /\ command = [d \in Decisions |-> "none"]
    /\ lock = [d \in Decisions |-> None]
    /\ runs = [d \in Decisions |-> 0]
    /\ overwritten = {}
    /\ dropped = {}
    /\ request = [r \in Requests |-> None]
    /\ consumer = [p \in Processes |-> Idle]
    /\ dispatcher = [p \in Processes |-> Idle]
    /\ msg = [m \in Messages |-> NoMessage]
    /\ errors = 0
    /\ crashes = 0

\* A database or handler call that throws.
Error == errors < MaxErrors /\ errors' = errors + 1

\* INSERT ... ON CONFLICT DO NOTHING.
InsertRow(d) ==
    /\ row' = [row EXCEPT ![d] = IF @ = "none" THEN "pending" ELSE @]
    /\ UNCHANGED overwritten

Unlock(d) == lock' = [lock EXCEPT ![d] = None]

\* No update has a condition on the status it replaces.  The history notes where
\* a mark replaces an outcome; an execution that follows a failure is no mark.
SetRow(d, s) ==
    /\ row' = [row EXCEPT ![d] = s]
    /\ overwritten' = IF row[d] \in {"success", "failure"} /\ s \notin {row[d], "success"}
                      THEN overwritten \cup {d} ELSE overwritten

\* The handler, markSuccess and the row in one commit; the lock goes with it.
CommitSuccess(d) ==
    /\ SetRow(d, "success")
    /\ decision' = [decision EXCEPT ![d] = "resolved"]
    /\ runs' = [runs EXCEPT ![d] = @ + 1]
    /\ Unlock(d)
    /\ UNCHANGED command

-----------------------------------------------------------------------------
(* Rows come into being: reconciliation records every pending decision, an *)
(* approving request records its own.                                      *)

\* The rows that a behaviour has stay within one of the sets it may have together.
Within(d) == \E c \in Together : {e \in Decisions : row[e] # "none"} \cup {d} \subseteq c

RecordIntent(d) ==
    /\ Within(d)
    /\ row[d] = "none"
    /\ InsertRow(d)
    /\ UNCHANGED <<decision, command, lock, runs, request, consumer,
                   dispatcher, msg, errors, crashes, dropped>>

\* The request's transaction; the row is read without a lock.
Approve(r, d) ==
    /\ Within(d)
    /\ request[r] = None
    /\ decision[d] = "pending"
    /\ row[d] \notin {"success", "dispatched"}
    /\ InsertRow(d)
    /\ request' = [request EXCEPT ![r] = d]
    /\ UNCHANGED <<decision, command, lock, runs, consumer,
                   dispatcher, msg, errors, crashes, dropped>>

\* dispatchCommand, in a transaction of its own and idempotent by key: then 202.
SendCommand(r) ==
    /\ request[r] # None
    /\ command' = [command EXCEPT ![request[r]] = IF @ = "none" THEN "pending" ELSE @]
    /\ request' = [request EXCEPT ![r] = None]
    /\ UNCHANGED <<row, overwritten, decision, lock, runs, consumer, dispatcher, msg, errors,
                    crashes, dropped>>

\* The row is there, the command is not: 500, or no answer at all.
LoseRequest(r) ==
    /\ request[r] # None
    /\ Error
    /\ request' = [request EXCEPT ![r] = None]
    /\ UNCHANGED <<tables, lock, consumer, dispatcher, msg, crashes, dropped>>

-----------------------------------------------------------------------------
(* The commands consumer.                                                  *)

Consumer(p, s) == consumer' = [consumer EXCEPT ![p].at = s]

\* The job goes back to nothing; what the poll listed stays.
EndCommand(p) == consumer' = [consumer EXCEPT ![p].at = "idle", ![p].job = None]

\* Mutant: only the commands of decisions without an outcome are listed.
WaitingUnstarted(d) == command[d] = "pending" /\ row[d] = "pending"

Waiting(d) == command[d] = "pending"

ListCommands(p) ==
    /\ consumer[p].at = "idle" /\ consumer[p].todo = {}
    /\ consumer' = [consumer EXCEPT ![p].todo = {d \in Manual : Waiting(d)}]
    /\ UNCHANGED <<tables, lock, request, dispatcher, msg, errors, crashes, dropped>>

\* Mutant: the status under the lock is not looked at.
NeverDone(d) == FALSE

AlreadyDone(d) == row[d] = "success"

\* SELECT ... FOR UPDATE waits for whoever executes the decision.
BeginCommand(p, d) ==
    /\ consumer[p].at = "idle" /\ d \in consumer[p].todo
    /\ lock[d] = None
    /\ lock' = [lock EXCEPT ![d] = IF AlreadyDone(d) THEN None ELSE p]
    /\ consumer' = [consumer EXCEPT
                      ![p] = [at |-> IF AlreadyDone(d) THEN "processed" ELSE "run",
                              job |-> d, todo |-> @.todo \ {d}]]
    /\ UNCHANGED <<row, overwritten, decision, command, runs, request, dispatcher, msg, errors,
                   crashes, dropped>>

\* The guard reads the "in_progress" this transaction wrote: it never objects.
ExecuteCommand(p) ==
    /\ consumer[p].at = "run"
    /\ CommitSuccess(consumer[p].job)
    /\ Consumer(p, "processed")
    /\ UNCHANGED <<request, dispatcher, msg, errors, crashes, dropped>>

ExecuteCommandFails(p) ==
    /\ consumer[p].at = "run"
    /\ Error
    /\ Unlock(consumer[p].job)
    /\ Consumer(p, "failed")
    /\ UNCHANGED <<tables, request, dispatcher, msg, crashes, dropped>>

\* A transaction of its own, with no condition on the status it overwrites.
MarkCommandFailure(p) ==
    /\ consumer[p].at = "failed"
    /\ lock[consumer[p].job] = None
    /\ SetRow(consumer[p].job, "failure")
    /\ Consumer(p, "error")
    /\ UNCHANGED <<decision, command, lock, runs, request, dispatcher,
                   msg, errors, crashes, dropped>>

\* Best effort: the error is logged and the command is closed all the same.
MarkCommandFailureFails(p) ==
    /\ consumer[p].at = "failed"
    /\ Error
    /\ Consumer(p, "error")
    /\ UNCHANGED <<tables, lock, request, dispatcher, msg, crashes, dropped>>

CloseCommand(p) ==
    /\ consumer[p].at \in {"processed", "error"}
    /\ command' = [command EXCEPT ![consumer[p].job] = consumer[p].at]
    /\ EndCommand(p)
    /\ UNCHANGED <<row, overwritten, decision, lock, runs, request, dispatcher, msg,
                   errors, crashes, dropped>>

\* The command stays pending and is listed again.
CloseCommandFails(p) ==
    /\ consumer[p].at \in {"processed", "error"}
    /\ Error
    /\ EndCommand(p)
    /\ UNCHANGED <<tables, lock, request, dispatcher, msg, crashes, dropped>>

-----------------------------------------------------------------------------
(* The execution dispatcher: from the table to the broker.                 *)

EndDispatch(p) == dispatcher' = [dispatcher EXCEPT ![p].at = "idle", ![p].job = None]

\* Manual decisions are listed too and skipped.
ListPending(p) ==
    /\ dispatcher[p].at = "idle" /\ dispatcher[p].todo = {}
    /\ dispatcher' = [dispatcher EXCEPT ![p].todo = {d \in Automated : row[d] = "pending"}]
    /\ UNCHANGED <<tables, lock, request, consumer, msg, errors, crashes, dropped>>

\* A slot for one more message; a new job leaves one for the copies of retries.
HasRoom == \E m \in Messages : msg[m].at = "free"
HasRoomForJob == \E m, k \in Messages : m # k /\ msg[m].at = "free" /\ msg[k].at = "free"
FreeSlot == CHOOSE m \in Messages : msg[m].at = "free"

\* sendToQueue of the channel wrapper is not awaited: the message sits in the
\* process until the connection has taken it.
EnqueueJob(p, d) ==
    /\ dispatcher[p].at = "idle" /\ d \in dispatcher[p].todo
    /\ HasRoomForJob
    /\ msg' = [msg EXCEPT ![FreeSlot] = [at |-> "buffer", job |-> d, tries |-> 0, owner |-> p]]
    /\ dispatcher' = [dispatcher EXCEPT ![p] = [at |-> "mark", job |-> d, todo |-> @.todo \ {d}]]
    /\ dropped' = dropped \ {d}
    /\ UNCHANGED <<tables, lock, request, consumer, errors, crashes>>

\* No condition on the status it overwrites.
MarkDispatched(p) ==
    /\ dispatcher[p].at = "mark"
    /\ SetRow(dispatcher[p].job, "dispatched")
    /\ EndDispatch(p)
    /\ UNCHANGED <<decision, command, lock, runs, request, consumer, msg,
                   errors, crashes, dropped>>

\* The job is out, the row still pending: the next poll sends it again.
MarkDispatchedFails(p) ==
    /\ dispatcher[p].at = "mark"
    /\ Error
    /\ EndDispatch(p)
    /\ UNCHANGED <<tables, lock, request, consumer, msg, crashes, dropped>>

-----------------------------------------------------------------------------
(* The broker and the execution worker.                                    *)

Message(m, s) == msg' = [msg EXCEPT ![m].at = s]

Publish(m) ==
    /\ msg[m].at = "buffer"
    /\ msg' = [msg EXCEPT ![m].at = "queue", ![m].owner = None]
    /\ UNCHANGED <<tables, lock, request, consumer, dispatcher, errors, crashes, dropped>>

\* The unlocked status read: a job already done is acknowledged on the spot.
Deliver(m, p) ==
    /\ msg[m].at = "queue"
    /\ IF row[msg[m].job] = "success"
       THEN msg' = [msg EXCEPT ![m] = NoMessage]
       ELSE msg' = [msg EXCEPT ![m].owner = p,
                               ![m].at = IF msg[m].tries >= MaxTries THEN "giveup" ELSE "start"]
    /\ UNCHANGED <<tables, lock, request, consumer, dispatcher, errors, crashes, dropped>>

\* markStarted locks the decision.
StartJob(m) ==
    /\ msg[m].at = "start"
    /\ lock[msg[m].job] = None
    /\ lock' = [lock EXCEPT ![msg[m].job] = m]
    /\ Message(m, "run")
    /\ UNCHANGED <<tables, request, consumer, dispatcher, errors, crashes, dropped>>

\* Mutant: validateExecution lets every job through.
NothingBlocks(d) == FALSE

GuardBlocks(d) == row[d] \in {"success", "failure"}

RunJob(m) ==
    /\ msg[m].at = "run"
    /\ ~GuardBlocks(msg[m].job)
    /\ msg[m].job \notin Retired
    /\ CommitSuccess(msg[m].job)
    /\ Message(m, "ack")
    /\ UNCHANGED <<request, consumer, dispatcher, errors, crashes, dropped>>

\* The guard throws, or the job is retired: rolled back.
RefuseJob(m) ==
    /\ msg[m].at = "run"
    /\ GuardBlocks(msg[m].job) \/ msg[m].job \in Retired
    /\ Unlock(msg[m].job)
    /\ Message(m, IF GuardBlocks(msg[m].job) THEN "retry" ELSE "giveup")
    /\ UNCHANGED <<tables, request, consumer, dispatcher, errors, crashes, dropped>>

RunJobFails(m) ==
    /\ msg[m].at = "run"
    /\ Error
    /\ Unlock(msg[m].job)
    /\ Message(m, "retry")
    /\ UNCHANGED <<tables, request, consumer, dispatcher, crashes, dropped>>

\* Out of attempts, or retired: failed for good.
GiveUp(m) ==
    /\ msg[m].at = "giveup"
    /\ lock[msg[m].job] = None
    /\ SetRow(msg[m].job, "failure")
    /\ decision' = [decision EXCEPT ![msg[m].job] = "pending"]
    /\ Message(m, "ack")
    /\ UNCHANGED <<command, lock, runs, request, consumer, dispatcher,
                   errors, crashes, dropped>>

\* A message out of attempts goes round again; a retired one throws out of the
\* catch block and is left unacknowledged until the process ends.
GiveUpFails(m) ==
    /\ msg[m].at = "giveup"
    /\ Error
    /\ Message(m, IF msg[m].tries >= MaxTries THEN "retry" ELSE "stuck")
    /\ UNCHANGED <<tables, lock, request, consumer, dispatcher, crashes, dropped>>

\* Mutant: the message is acknowledged and no copy is sent.
NoCopy(m) == Message(m, "ack")

\* The copy is confirmed before the original is acknowledged.  A count past the
\* cap acts like the cap.
SendCopy(m) ==
    msg' = [msg EXCEPT
              ![m].at = "ack",
              ![FreeSlot] = [at |-> "queue", job |-> msg[m].job, owner |-> None,
                             tries |-> IF msg[m].tries < MaxTries THEN msg[m].tries + 1 ELSE MaxTries]]

RetryJob(m) ==
    /\ msg[m].at = "retry"
    /\ HasRoom
    /\ SendCopy(m)
    /\ UNCHANGED <<tables, lock, request, consumer, dispatcher, errors, crashes, dropped>>

Ack(m) ==
    /\ msg[m].at = "ack"
    /\ msg' = [msg EXCEPT ![m] = NoMessage]
    /\ UNCHANGED <<tables, lock, request, consumer, dispatcher, errors, crashes, dropped>>

-----------------------------------------------------------------------------

\* Mutant: deliveries count as acknowledged when they are made (noAck).
Dropped(x) == NoMessage

\* A delivery that was not acknowledged goes back to the queue.
Redelivered(x) == [x EXCEPT !.at = "queue", !.owner = None]

\* What becomes of a message of a process that dies: buffered, it is lost.
Survivor(x) == IF x.at = "buffer" THEN NoMessage ELSE Redelivered(x)

Crash(p) ==
    /\ crashes < MaxCrashes
    /\ crashes' = crashes + 1
    /\ consumer' = [consumer EXCEPT ![p] = Idle]
    /\ dispatcher' = [dispatcher EXCEPT ![p] = Idle]
    /\ msg' = [m \in Messages |-> IF msg[m].owner = p THEN Survivor(msg[m]) ELSE msg[m]]
    /\ dropped' = dropped \cup {msg[m].job : m \in {k \in Messages : msg[k].owner = p
                                                                 /\ msg[k].at = "buffer"}}
    /\ lock' = [d \in Decisions |->
                  IF lock[d] = p \/ \E m \in Messages : lock[d] = m /\ msg[m].owner = p
                  THEN None ELSE lock[d]]
    /\ UNCHANGED <<tables, request, errors>>

ConsumeCommands(p) ==
    \/ ListCommands(p)
    \/ \E d \in Manual : BeginCommand(p, d)
    \/ ExecuteCommand(p)
    \/ ExecuteCommandFails(p)
    \/ MarkCommandFailure(p)
    \/ MarkCommandFailureFails(p)
    \/ CloseCommand(p)
    \/ CloseCommandFails(p)

Dispatch(p) ==
    \/ ListPending(p)
    \/ \E d \in Automated : EnqueueJob(p, d)
    \/ MarkDispatched(p)
    \/ MarkDispatchedFails(p)

Work(m) ==
    \/ Publish(m)
    \/ \E p \in Processes : Deliver(m, p)
    \/ StartJob(m)
    \/ RunJob(m)
    \/ RefuseJob(m)
    \/ RunJobFails(m)
    \/ GiveUp(m)
    \/ GiveUpFails(m)
    \/ RetryJob(m)
    \/ Ack(m)

Next ==
    \/ \E d \in Decisions : RecordIntent(d)
    \/ \E r \in Requests, d \in Manual : Approve(r, d)
    \/ \E r \in Requests : SendCommand(r) \/ LoseRequest(r)
    \/ \E p \in Processes : ConsumeCommands(p) \/ Dispatch(p) \/ Crash(p)
    \/ \E m \in Messages : Work(m)

Spec == Init /\ [][Next]_vars

\* The consumer and the dispatcher poll for ever, every delivery is carried on;
\* nothing is assumed of users, of reconciliation and of failures.
Fairness ==
    /\ \A p \in Processes : WF_vars(ConsumeCommands(p)) /\ WF_vars(Dispatch(p))
    /\ \A m \in Messages : WF_vars(Work(m))

FairSpec == Spec /\ Fairness

-----------------------------------------------------------------------------
(* Properties.                                                             *)

Jobs == Decisions \cup {None}

TypeOK ==
    /\ row \in [Decisions -> RowStatus]
    /\ decision \in [Decisions -> {"pending", "resolved"}]
    /\ command \in [Decisions -> {"none", "pending", "processed", "error"}]
    /\ lock \in [Decisions -> Processes \cup Messages \cup {None}]
    /\ runs \in [Decisions -> Nat]
    /\ overwritten \subseteq Decisions /\ dropped \subseteq Automated
    /\ request \in [Requests -> Manual \cup {None}]
    /\ consumer \in [Processes ->
          [at : {"idle", "run", "failed", "processed", "error"},
           job : Jobs, todo : SUBSET Decisions]]
    /\ dispatcher \in [Processes ->
          [at : {"idle", "mark"}, job : Jobs, todo : SUBSET Decisions]]
    /\ msg \in [Messages ->
          [at : {"free", "buffer", "queue", "start", "run", "retry", "giveup",
                 "stuck", "ack"},
           job : Jobs, tries : 0 .. MaxTries, owner : Processes \cup {None}]]
    /\ errors \in 0 .. MaxErrors
    /\ crashes \in 0 .. MaxCrashes

\* The row, the decision and the command say what really happened: a success is
\* resolved and was executed, nothing is resolved or processed that was not, and a
\* manual decision that was executed is resolved, whatever its row says.  As long
\* as no mark replaces an outcome, it was executed exactly once where the row says
\* success and not at all elsewhere, whatever is sent, redelivered, retried or
\* approved twice ("prevents duplicate execution across retries / race
\* conditions").  The marks do replace outcomes: see SuccessIsFinal.
OutcomeIsRecorded ==
    \A d \in Decisions :
        /\ row[d] = "success" => decision[d] = "resolved" /\ runs[d] > 0
        /\ decision[d] = "resolved" \/ command[d] = "processed" => runs[d] > 0
        /\ d \in Manual /\ runs[d] > 0 => decision[d] = "resolved"
        /\ d \notin overwritten =>
              /\ runs[d] = IF row[d] = "success" THEN 1 ELSE 0
              /\ decision[d] = "resolved" \/ command[d] = "processed" => row[d] = "success"

\* A row that says dispatched and has not been executed has a job that some worker
\* will look at ("no execution loss"): nothing else would ever look at the row.
\* Excepted are the two ways the code has to such a row: the mark came after the
\* failure of its own job, or the last job died unsent in its process.
JobsAreKept ==
    \A d \in Decisions :
        row[d] = "dispatched" /\ runs[d] = 0 /\ d \notin overwritten \cup dropped =>
            \E m \in Messages : msg[m].job = d /\ msg[m].at # "ack"

\* A command is closed in the end, through crashes, failed marks and overlaps.
CommandsClose ==
    \A d \in Manual : (command[d] = "pending") ~> (command[d] \in {"processed", "error"})

\* An automated decision is executed or failed in the end, through retries,
\* redeliveries and restarts, unless its last job died unsent and its row was
\* marked.  (A retired one can get stuck: see GiveUpFails.)
AutomatedSettles ==
    \A d \in Automated \ Retired :
        (row[d] = "pending") ~>
            (runs[d] > 0 \/ row[d] = "failure" \/ (row[d] = "dispatched" /\ d \in dropped))

\* What the comments say of the status ("pending -> dispatched -> in_progress ->
\* success | failure"): a recorded success is never overwritten.
SuccessIsFinal ==
    [][\A d \in Decisions : row[d] = "success" => row'[d] = "success"]_vars
=============================================================================
