----------------------- MODULE DecisionExecutionProofs -----------------------
(***************************************************************************)
(* Proofs about DecisionExecution, for any number of decisions, requests,  *)
(* processes, messages, attempts, errors and crashes.                      *)
(*                                                                         *)
(* A step leaves the tables of a decision alone, commits its execution, or *)
(* marks its row.  What is recorded is right because only the holder of a  *)
(* decision's lock, or a job that read the row under it, commits, and      *)
(* because the history notes every mark that replaces an outcome.  No job  *)
(* is lost because a message goes only when its decision has an outcome,   *)
(* its copy is in the queue, or its process took it along unsent.          *)
(***************************************************************************)
EXTENDS DecisionExecution, TLAPS

ConsumerState ==
    [at : {"idle", "run", "failed", "processed", "error"}, job : Jobs, todo : SUBSET Decisions]
DispatcherState == [at : {"idle", "mark"}, job : Jobs, todo : SUBSET Decisions]
MessageState ==
    [at : {"free", "buffer", "queue", "start", "run", "retry", "giveup", "stuck", "ack"},
     job : Jobs, tries : 0 .. MaxTries, owner : Processes \cup {None}]

\* The types in four parts, and what each actor has in hand.
TablesOK ==
    /\ row \in [Decisions -> RowStatus]
    /\ decision \in [Decisions -> {"pending", "resolved"}]
    /\ command \in [Decisions -> {"none", "pending", "processed", "error"}]
    /\ runs \in [Decisions -> Nat]
    /\ overwritten \subseteq Decisions

LocksOK ==
    /\ lock \in [Decisions -> Processes \cup Messages \cup {None}]
    /\ errors \in 0 .. MaxErrors
    /\ crashes \in 0 .. MaxCrashes
    /\ dropped \subseteq Automated

RequestsOK == request \in [Requests -> Manual \cup {None}]

ConsumersOK ==
    /\ consumer \in [Processes -> ConsumerState]
    /\ \A p \in Processes : consumer[p].at # "idle" => consumer[p].job \in Manual

DispatchersOK ==
    /\ dispatcher \in [Processes -> DispatcherState]
    /\ \A p \in Processes : dispatcher[p].at # "idle" => dispatcher[p].job \in Automated

MessagesOK ==
    /\ msg \in [Messages -> MessageState]
    /\ \A m \in Messages : msg[m].at # "free" => msg[m].job \in Automated
    /\ \A m \in Messages : msg[m].at = "free" => msg[m].owner = None

Control == TablesOK /\ LocksOK /\ RequestsOK /\ ConsumersOK /\ DispatchersOK /\ MessagesOK

LEMMA ControlTypes == ASSUME Control PROVE TypeOK
  BY DEF Control, TablesOK, LocksOK, RequestsOK, ConsumersOK, DispatchersOK, MessagesOK, TypeOK,
         ConsumerState, DispatcherState, MessageState

------------------------------------------------------------------------------
(* The pieces that actions are made of.                                    *)

LEMMA InitControl == ASSUME Init PROVE Control
<1>1. TablesOK /\ LocksOK /\ RequestsOK
  BY ConstantsAssumption DEF Init, TablesOK, LocksOK, RequestsOK, RowStatus
<1>2. ConsumersOK /\ DispatchersOK
  BY DEF Init, Idle, ConsumersOK, DispatchersOK, ConsumerState, DispatcherState, Jobs
<1>3. MessagesOK
  BY ConstantsAssumption DEF Init, NoMessage, MessagesOK, MessageState, Jobs
<1> QED
  BY <1>1, <1>2, <1>3 DEF Control

\* An error stays within its bound.
LEMMA ErrorBound == ASSUME LocksOK, Error PROVE errors' \in 0 .. MaxErrors
  BY ConstantsAssumption DEF LocksOK, Error

\* What a step does to the tables of a decision, apart from its command.
Untouched(d) ==
    /\ row'[d] = row[d] \/ (row[d] = "none" /\ row'[d] = "pending")
    /\ decision'[d] = decision[d] /\ runs'[d] = runs[d]
    /\ d \in overwritten' <=> d \in overwritten

Commits(d) ==
    /\ row'[d] = "success" /\ decision'[d] = "resolved" /\ runs'[d] = runs[d] + 1
    /\ d \in overwritten' <=> d \in overwritten

Marks(d) ==
    /\ row'[d] \in {"dispatched", "failure"} /\ runs'[d] = runs[d]
    /\ decision'[d] = decision[d] \/ (d \in Automated /\ decision'[d] = "pending")
    /\ d \in overwritten => d \in overwritten'
    /\ row[d] = "success" => d \in overwritten'
    /\ row[d] = "failure" => row'[d] = "failure" \/ d \in overwritten'

\* One row changes.
LEMMA RowIs ==
    ASSUME TablesOK, NEW d \in Decisions, NEW s \in RowStatus, SetRow(d, s)
    PROVE  /\ row' \in [Decisions -> RowStatus] /\ overwritten' \subseteq Decisions
           /\ \A e \in Decisions : row'[e] = IF e = d THEN s ELSE row[e]
           /\ overwritten \subseteq overwritten'
           /\ \A e \in Decisions : e # d => (e \in overwritten' <=> e \in overwritten)
           /\ s = "success" => overwritten' = overwritten
           /\ row[d] = "success" /\ s # "success" => d \in overwritten'
           /\ row[d] = "failure" /\ s = "dispatched" => d \in overwritten'
  BY DEF TablesOK, SetRow

\* A mark of one row.
LEMMA MarkIs ==
    ASSUME TablesOK, NEW d \in Decisions, NEW s \in {"dispatched", "failure"}, SetRow(d, s),
           UNCHANGED runs, \A e \in Decisions : e # d => decision'[e] = decision[e],
           decision'[d] = decision[d] \/ (d \in Automated /\ decision'[d] = "pending")
    PROVE  /\ row' \in [Decisions -> RowStatus] /\ overwritten' \subseteq Decisions
           /\ \A e \in Decisions : row'[e] = IF e = d THEN s ELSE row[e]
           /\ Marks(d) /\ \A e \in Decisions : e # d => Untouched(e)
<1>1. s \in RowStatus /\ s # "success"
  BY DEF RowStatus
<1>2. /\ row' \in [Decisions -> RowStatus] /\ overwritten' \subseteq Decisions
      /\ \A e \in Decisions : row'[e] = IF e = d THEN s ELSE row[e]
      /\ overwritten \subseteq overwritten'
      /\ \A e \in Decisions : e # d => (e \in overwritten' <=> e \in overwritten)
      /\ row[d] = "success" /\ s # "success" => d \in overwritten'
      /\ row[d] = "failure" /\ s = "dispatched" => d \in overwritten'
  BY <1>1, RowIs
<1>3. Marks(d)
  BY <1>1, <1>2 DEF Marks
<1>4. \A e \in Decisions : e # d => Untouched(e)
  BY <1>2 DEF Untouched
<1> QED
  BY <1>2, <1>3, <1>4

\* A row comes, or is there.
LEMMA InsertIs ==
    ASSUME TablesOK, NEW d \in Decisions, InsertRow(d)
    PROVE  /\ row' \in [Decisions -> RowStatus] /\ UNCHANGED overwritten
           /\ \A e \in Decisions :
                 row'[e] = IF e = d /\ row[d] = "none" THEN "pending" ELSE row[e]
  BY DEF TablesOK, InsertRow, RowStatus

\* The outcome in one commit.
LEMMA CommitIs ==
    ASSUME TablesOK, LocksOK, NEW d \in Decisions, CommitSuccess(d)
    PROVE  /\ TablesOK' /\ lock' = [lock EXCEPT ![d] = None]
           /\ lock' \in [Decisions -> Processes \cup Messages \cup {None}]
           /\ command' = command
           /\ Commits(d) /\ \A e \in Decisions : e # d => Untouched(e)
<1>1. /\ SetRow(d, "success")
      /\ decision' = [decision EXCEPT ![d] = "resolved"]
      /\ runs' = [runs EXCEPT ![d] = runs[d] + 1]
      /\ lock' = [lock EXCEPT ![d] = None] /\ command' = command
  BY DEF CommitSuccess, Unlock
<1>2. /\ row' \in [Decisions -> RowStatus] /\ overwritten' = overwritten
      /\ \A e \in Decisions : row'[e] = IF e = d THEN "success" ELSE row[e]
  BY <1>1, RowIs DEF RowStatus
<1>3. /\ decision' \in [Decisions -> {"pending", "resolved"}]
      /\ \A e \in Decisions : decision'[e] = IF e = d THEN "resolved" ELSE decision[e]
      /\ \A e \in Decisions : runs'[e] = IF e = d THEN runs[d] + 1 ELSE runs[e]
  BY <1>1 DEF TablesOK
<1>4. TablesOK'
  <2>1. runs' \in [Decisions -> Nat]
    BY <1>1 DEF TablesOK
  <2> QED
    BY <1>1, <1>2, <1>3, <2>1 DEF TablesOK
<1>5. Commits(d) /\ \A e \in Decisions : e # d => Untouched(e)
  <2>1. Commits(d)
    BY <1>2, <1>3 DEF Commits
  <2>2. \A e \in Decisions : e # d => Untouched(e)
    BY <1>2, <1>3 DEF Untouched
  <2> QED
    BY <2>1, <2>2
<1>6. lock' \in [Decisions -> Processes \cup Messages \cup {None}]
  BY <1>1 DEF LocksOK
<1> QED
  BY <1>1, <1>4, <1>5, <1>6

LEMMA UnlockIs ==
    ASSUME LocksOK, NEW d, Unlock(d)
    PROVE  lock' \in [Decisions -> Processes \cup Messages \cup {None}]
  BY DEF LocksOK, Unlock

\* The consumer of a process goes on with its job.
LEMMA ConsumerIs ==
    ASSUME ConsumersOK, NEW p \in Processes,
           NEW s \in {"run", "failed", "processed", "error"},
           consumer[p].at # "idle", Consumer(p, s)
    PROVE  /\ ConsumersOK'
           /\ consumer'[p].at = s /\ consumer'[p].job = consumer[p].job
           /\ \A q \in Processes : q # p => consumer'[q] = consumer[q]
<1> DEFINE c == [consumer[p] EXCEPT !.at = s]
<1>1. consumer[p] \in ConsumerState /\ consumer[p].job \in Manual
  BY DEF ConsumersOK
<1>2. c \in ConsumerState /\ c.at = s /\ c.job = consumer[p].job
  BY <1>1 DEF ConsumerState
<1>3. consumer' = [consumer EXCEPT ![p] = c]
  BY DEF Consumer
<1> HIDE DEF c
<1>4. \A q \in Processes : consumer'[q] = IF q = p THEN c ELSE consumer[q]
  BY <1>3 DEF ConsumersOK
<1>5. ConsumersOK'
  BY <1>1, <1>2, <1>3, <1>4 DEF ConsumersOK
<1> QED
  BY <1>2, <1>4, <1>5

\* The consumer is done with its job.
LEMMA EndCommandIs ==
    ASSUME ConsumersOK, NEW p \in Processes, EndCommand(p)
    PROVE  /\ ConsumersOK' /\ consumer'[p].at = "idle"
           /\ \A q \in Processes : q # p => consumer'[q] = consumer[q]
<1> DEFINE c == [consumer[p] EXCEPT !.at = "idle", !.job = None]
<1>1. consumer[p] \in ConsumerState
  BY DEF ConsumersOK
<1>2. c \in ConsumerState /\ c.at = "idle"
  BY <1>1 DEF ConsumerState, Jobs
<1>3. consumer' = [consumer EXCEPT ![p] = c]
  BY DEF EndCommand
<1> HIDE DEF c
<1>4. \A q \in Processes : consumer'[q] = IF q = p THEN c ELSE consumer[q]
  BY <1>3 DEF ConsumersOK
<1>5. ConsumersOK'
  BY <1>2, <1>3, <1>4 DEF ConsumersOK
<1> QED
  BY <1>2, <1>4, <1>5

\* The dispatcher is done with its job, and what it listed stays.
LEMMA EndDispatchIs ==
    ASSUME DispatchersOK, NEW p \in Processes, EndDispatch(p)
    PROVE  /\ DispatchersOK' /\ dispatcher'[p].at = "idle" /\ dispatcher'[p].job = None
           /\ dispatcher'[p].todo = dispatcher[p].todo
           /\ \A q \in Processes : q # p => dispatcher'[q] = dispatcher[q]
<1> DEFINE c == [dispatcher[p] EXCEPT !.at = "idle", !.job = None]
<1>1. dispatcher[p] \in DispatcherState
  BY DEF DispatchersOK
<1>2. /\ c \in DispatcherState /\ c.at = "idle" /\ c.job = None
      /\ c.todo = dispatcher[p].todo
  BY <1>1 DEF DispatcherState, Jobs
<1>3. dispatcher' = [dispatcher EXCEPT ![p] = c]
  BY DEF EndDispatch
<1> HIDE DEF c
<1>4. \A q \in Processes : dispatcher'[q] = IF q = p THEN c ELSE dispatcher[q]
  BY <1>3 DEF DispatchersOK
<1>5. DispatchersOK'
  BY <1>2, <1>3, <1>4 DEF DispatchersOK
<1> QED
  BY <1>2, <1>4, <1>5

\* A message goes on, with its job and its count.
LEMMA MessageIs ==
    ASSUME MessagesOK, NEW m \in Messages, msg[m].at # "free",
           NEW s \in {"run", "retry", "giveup", "stuck", "ack"}, Message(m, s)
    PROVE  /\ MessagesOK'
           /\ msg'[m].at = s /\ msg'[m].job = msg[m].job /\ msg'[m].tries = msg[m].tries
           /\ \A k \in Messages : k # m => msg'[k] = msg[k]
<1> DEFINE x == [msg[m] EXCEPT !.at = s]
<1>1. msg[m] \in MessageState /\ msg[m].job \in Automated
  BY DEF MessagesOK
<1>2. x \in MessageState /\ x.at = s /\ x.job = msg[m].job /\ x.tries = msg[m].tries
  BY <1>1 DEF MessageState
<1>3. msg' = [msg EXCEPT ![m] = x]
  BY DEF Message
<1> HIDE DEF x
<1>4. \A k \in Messages : msg'[k] = IF k = m THEN x ELSE msg[k]
  BY <1>3 DEF MessagesOK
<1>5. MessagesOK'
  BY <1>1, <1>2, <1>3, <1>4 DEF MessagesOK
<1> QED
  BY <1>2, <1>4, <1>5

\* A slot for a message.
LEMMA SlotIs ==
    ASSUME HasRoom \/ HasRoomForJob
    PROVE  FreeSlot \in Messages /\ msg[FreeSlot].at = "free"
  BY DEF HasRoom, HasRoomForJob, FreeSlot

------------------------------------------------------------------------------
(* What a step does to the tables, the locks and the actors.               *)

\* A step of the manual path leaves the dispatchers and the broker alone; one of
\* the automated path leaves manual rows, their locks and the consumers alone.
SparesAutomated == UNCHANGED <<dispatcher, msg, dropped>>

SparesManual ==
    /\ UNCHANGED <<consumer, command>>
    /\ \A d \in Manual : Untouched(d) /\ row'[d] = row[d] /\ lock'[d] = lock[d]

\* A decision is of one path only.
LEMMA Apart ==
    ASSUME NEW d \in Manual, NEW e \in Automated
    PROVE  d # e /\ d \in Decisions /\ e \in Decisions
  BY ConstantsAssumption DEF Decisions

\* Nothing in the tables moves.
LEMMA TablesStay ==
    ASSUME UNCHANGED <<row, decision, runs, overwritten>>
    PROVE  \A d \in Decisions : Untouched(d)
  BY DEF Untouched

\* Reconciliation inserts a row that was not there.
LEMMA RecordStep ==
    ASSUME Control, NEW d \in Decisions, RecordIntent(d)
    PROVE  /\ Control' /\ SparesAutomated /\ UNCHANGED <<lock, command, consumer>>
           /\ \A e \in Decisions : Untouched(e)
<1>1. /\ InsertRow(d)
      /\ UNCHANGED <<decision, command, lock, runs, request, consumer,
                     dispatcher, msg, errors, crashes, dropped>>
  BY DEF RecordIntent
<1>2. /\ row' \in [Decisions -> RowStatus] /\ UNCHANGED overwritten
      /\ \A e \in Decisions :
            row'[e] = IF e = d /\ row[d] = "none" THEN "pending" ELSE row[e]
  BY <1>1, InsertIs DEF Control
<1>3. TablesOK' /\ LocksOK' /\ RequestsOK'
  BY <1>1, <1>2 DEF Control, TablesOK, LocksOK, RequestsOK
<1>4. ConsumersOK' /\ DispatchersOK' /\ MessagesOK'
  BY <1>1 DEF Control, ConsumersOK, DispatchersOK, MessagesOK
<1>5. \A e \in Decisions : Untouched(e)
  BY <1>1, <1>2 DEF Untouched
<1>6. Control'
  BY <1>3, <1>4 DEF Control
<1> QED
  BY <1>1, <1>5, <1>6 DEF SparesAutomated

\* Requests insert rows and send commands of manual decisions.
LEMMA RequestStep ==
    ASSUME Control, NEW r \in Requests,
           (\E d \in Manual : Approve(r, d)) \/ SendCommand(r) \/ LoseRequest(r)
    PROVE  /\ Control' /\ SparesAutomated /\ UNCHANGED <<lock, consumer>>
           /\ \A e \in Decisions : /\ Untouched(e)
                                   /\ command'[e] = command[e] \/ command'[e] = "pending"
<1> USE DEF Control
<1>1. ASSUME NEW d \in Manual, Approve(r, d)
      PROVE  Control' /\ SparesAutomated /\ UNCHANGED <<lock, command, consumer>>
             /\ \A e \in Decisions : Untouched(e)
  <2>1. /\ InsertRow(d) /\ request' = [request EXCEPT ![r] = d]
        /\ UNCHANGED <<decision, command, lock, runs, consumer,
                       dispatcher, msg, errors, crashes, dropped>>
    BY <1>1 DEF Approve
  <2>2. d \in Decisions
    BY DEF Decisions
  <2>3. /\ row' \in [Decisions -> RowStatus] /\ UNCHANGED overwritten
        /\ \A e \in Decisions :
              row'[e] = IF e = d /\ row[d] = "none" THEN "pending" ELSE row[e]
    BY <2>1, <2>2, InsertIs
  <2>4. TablesOK' /\ LocksOK' /\ RequestsOK'
    BY <2>1, <2>3 DEF TablesOK, LocksOK, RequestsOK
  <2>5. ConsumersOK' /\ DispatchersOK' /\ MessagesOK'
    BY <2>1 DEF ConsumersOK, DispatchersOK, MessagesOK
  <2>6. \A e \in Decisions : Untouched(e)
    BY <2>1, <2>3 DEF Untouched
  <2>7. Control'
    BY <2>4, <2>5
  <2> HIDE DEF Control
  <2> QED
    BY <2>1, <2>6, <2>7 DEF SparesAutomated
<1>2. CASE SendCommand(r)
  <2>1. /\ request[r] # None
        /\ command' = [command EXCEPT ![request[r]] =
                         IF command[request[r]] = "none" THEN "pending"
                         ELSE command[request[r]]]
        /\ request' = [request EXCEPT ![r] = None]
        /\ UNCHANGED <<row, overwritten, decision, lock, runs, consumer, dispatcher, msg,
                       errors, crashes, dropped>>
    BY <1>2 DEF SendCommand
  <2>2. request[r] \in Manual
    BY <2>1 DEF RequestsOK
  <2>3. /\ command' \in [Decisions -> {"none", "pending", "processed", "error"}]
        /\ \A e \in Decisions : command'[e] = command[e] \/ command'[e] = "pending"
    BY <2>1, <2>2 DEF TablesOK, Decisions
  <2>4. TablesOK' /\ LocksOK' /\ RequestsOK'
    BY <2>1, <2>3 DEF TablesOK, LocksOK, RequestsOK
  <2>5. ConsumersOK' /\ DispatchersOK' /\ MessagesOK'
    BY <2>1 DEF ConsumersOK, DispatchersOK, MessagesOK
  <2>6. Control' /\ SparesAutomated
    BY <2>1, <2>4, <2>5 DEF SparesAutomated
  <2> HIDE DEF Control
  <2> QED
    BY <2>1, <2>3, <2>6, TablesStay
<1>3. CASE LoseRequest(r)
  <2>1. /\ Error /\ request' = [request EXCEPT ![r] = None]
        /\ UNCHANGED <<row, decision, command, runs, overwritten, lock, consumer,
                       dispatcher, msg, crashes, dropped>>
    BY <1>3 DEF LoseRequest, tables
  <2>2. TablesOK' /\ LocksOK' /\ RequestsOK'
    BY <2>1, ErrorBound DEF TablesOK, LocksOK, RequestsOK
  <2>3. ConsumersOK' /\ DispatchersOK' /\ MessagesOK'
    BY <2>1 DEF ConsumersOK, DispatchersOK, MessagesOK
  <2>4. Control' /\ SparesAutomated
    BY <2>1, <2>2, <2>3 DEF SparesAutomated
  <2> HIDE DEF Control
  <2> QED
    BY <2>1, <2>4, TablesStay
<1> HIDE DEF Control
<1> QED
  BY <1>1, <1>2, <1>3

\* The consumer of p: its own place, or the row it has, or the command it has.
\* When it starts to run it has the lock, and the row is no success.
LEMMA ConsumeStep ==
    ASSUME Control, NEW p \in Processes, ConsumeCommands(p)
    PROVE  /\ Control' /\ SparesAutomated
           /\ \A q \in Processes : q # p => consumer'[q] = consumer[q]
           /\ \A e \in Decisions :
                 \/ Untouched(e)
                 \/ e \in Manual /\ Marks(e) /\ row'[e] = "failure"
                 \/ consumer[p].at = "run" /\ e = consumer[p].job /\ Commits(e)
           /\ \A e \in Decisions :
                 \/ command'[e] = command[e]
                 \/ /\ consumer[p].at \in {"processed", "error"} /\ e = consumer[p].job
                    /\ command'[e] = consumer[p].at
           /\ \A e \in Decisions, q \in Processes :
                 q # p /\ lock[e] = q =>
                    lock'[e] = q \/ (consumer[p].at = "run" /\ e = consumer[p].job)
           /\ consumer'[p].at = "run" =>
                 lock'[consumer'[p].job] = p /\ row'[consumer'[p].job] # "success"
           /\ consumer'[p].at = "processed" => row'[consumer'[p].job] = "success"
<1> USE DEF Control
<1>1. consumer[p] \in ConsumerState /\ (consumer[p].at # "idle" => consumer[p].job \in Manual)
  BY DEF ConsumersOK
<1>2. \A d \in Manual : d \in Decisions
  BY DEF Decisions
<1>3. CASE ListCommands(p)
  <2> DEFINE c == [consumer[p] EXCEPT !.todo = {d \in Manual : Waiting(d)}]
  <2>1. /\ consumer[p].at = "idle" /\ consumer' = [consumer EXCEPT ![p] = c]
        /\ UNCHANGED <<row, decision, command, runs, overwritten, lock, request,
                       dispatcher, msg, errors, crashes, dropped>>
    BY <1>3 DEF ListCommands, tables
  <2>2. c \in ConsumerState /\ c.at = "idle"
    BY <1>1, <1>2, <2>1 DEF ConsumerState
  <2> HIDE DEF c
  <2>3. \A q \in Processes : consumer'[q] = IF q = p THEN c ELSE consumer[q]
    BY <2>1 DEF ConsumersOK
  <2>4. ConsumersOK'
    BY <2>1, <2>2, <2>3 DEF ConsumersOK
  <2>5. TablesOK' /\ LocksOK' /\ RequestsOK' /\ DispatchersOK' /\ MessagesOK'
    BY <2>1 DEF TablesOK, LocksOK, RequestsOK, DispatchersOK, MessagesOK
  <2>6. Control'
    BY <2>4, <2>5
  <2> HIDE DEF Control
  <2> QED
    BY <2>1, <2>2, <2>3, <2>6, TablesStay DEF SparesAutomated
<1>4. ASSUME NEW d \in Manual, BeginCommand(p, d)
      PROVE  /\ Control' /\ SparesAutomated
             /\ UNCHANGED <<row, decision, command, runs, overwritten>>
             /\ \A q \in Processes : q # p => consumer'[q] = consumer[q]
             /\ \A e \in Decisions, q \in Processes : q # p /\ lock[e] = q => lock'[e] = q
             /\ \/ /\ consumer'[p].at = "run" /\ row[consumer'[p].job] # "success"
                   /\ lock'[consumer'[p].job] = p
                \/ consumer'[p].at = "processed" /\ row[consumer'[p].job] = "success"
  <2> DEFINE c == [at |-> IF AlreadyDone(d) THEN "processed" ELSE "run",
                   job |-> d, todo |-> consumer[p].todo \ {d}]
  <2>1. /\ lock[d] = None
        /\ lock' = [lock EXCEPT ![d] = IF AlreadyDone(d) THEN None ELSE p]
        /\ consumer' = [consumer EXCEPT ![p] = c]
        /\ UNCHANGED <<row, decision, command, runs, overwritten, request, dispatcher, msg,
                       errors, crashes, dropped>>
    BY <1>4 DEF BeginCommand
  <2>2. c \in ConsumerState /\ c.job = d /\ c.job \in Manual
    BY <1>1, <1>2 DEF ConsumerState, Jobs
  <2>3. \A e \in Decisions :
           lock'[e] = IF e = d THEN (IF AlreadyDone(d) THEN None ELSE p) ELSE lock[e]
    BY <1>2, <2>1 DEF LocksOK
  <2>4. \/ c.at = "run" /\ row[d] # "success" /\ lock'[d] = p
        \/ c.at = "processed" /\ row[d] = "success"
    BY <1>2, <2>3 DEF AlreadyDone
  <2> HIDE DEF c
  <2>5. \A q \in Processes : consumer'[q] = IF q = p THEN c ELSE consumer[q]
    BY <2>1 DEF ConsumersOK
  <2>6. ConsumersOK'
    BY <2>1, <2>2, <2>5 DEF ConsumersOK
  <2>7. LocksOK'
    BY <2>1 DEF LocksOK
  <2>8. TablesOK' /\ RequestsOK' /\ DispatchersOK' /\ MessagesOK'
    BY <2>1 DEF TablesOK, RequestsOK, DispatchersOK, MessagesOK
  <2>9. \A e \in Decisions, q \in Processes : q # p /\ lock[e] = q => lock'[e] = q
    BY <2>1, <2>3, ConstantsAssumption
  <2>10. Control'
    BY <2>6, <2>7, <2>8
  <2> HIDE DEF Control
  <2> QED
    BY <2>1, <2>2, <2>4, <2>5, <2>9, <2>10 DEF SparesAutomated
<1>5. CASE ExecuteCommand(p)
  <2>1. /\ consumer[p].at = "run" /\ CommitSuccess(consumer[p].job) /\ Consumer(p, "processed")
        /\ UNCHANGED <<request, dispatcher, msg, errors, crashes, dropped>>
    BY <1>5 DEF ExecuteCommand
  <2>2. consumer[p].job \in Manual /\ consumer[p].job \in Decisions
    BY <1>1, <1>2, <2>1
  <2>3. /\ TablesOK' /\ lock' = [lock EXCEPT ![consumer[p].job] = None]
        /\ lock' \in [Decisions -> Processes \cup Messages \cup {None}]
        /\ command' = command
        /\ Commits(consumer[p].job)
        /\ \A e \in Decisions : e # consumer[p].job => Untouched(e)
    BY <2>1, <2>2, CommitIs
  <2>4. /\ ConsumersOK' /\ consumer'[p].at = "processed" /\ consumer'[p].job = consumer[p].job
        /\ \A q \in Processes : q # p => consumer'[q] = consumer[q]
    BY <2>1, ConsumerIs
  <2>5. LocksOK' /\ RequestsOK' /\ DispatchersOK' /\ MessagesOK'
    BY <2>1, <2>3 DEF LocksOK, RequestsOK, DispatchersOK, MessagesOK
  <2>6. \A e \in Decisions : e # consumer[p].job => lock'[e] = lock[e]
    BY <2>3 DEF LocksOK
  <2>7. Control'
    BY <2>3, <2>4, <2>5
  <2>8. row'[consumer'[p].job] = "success"
    BY <2>3, <2>4 DEF Commits
  <2> HIDE DEF Control
  <2> QED
    BY <2>1, <2>3, <2>4, <2>6, <2>7, <2>8 DEF SparesAutomated
<1>6. CASE ExecuteCommandFails(p)
  <2>1. /\ consumer[p].at = "run" /\ Error /\ Unlock(consumer[p].job) /\ Consumer(p, "failed")
        /\ UNCHANGED <<row, decision, command, runs, overwritten, request, dispatcher, msg,
                       crashes, dropped>>
    BY <1>6 DEF ExecuteCommandFails, tables
  <2>2. /\ ConsumersOK' /\ consumer'[p].at = "failed" /\ consumer'[p].job = consumer[p].job
        /\ \A q \in Processes : q # p => consumer'[q] = consumer[q]
    BY <2>1, ConsumerIs
  <2>3. LocksOK'
    BY <2>1, UnlockIs, ErrorBound DEF LocksOK
  <2>4. TablesOK' /\ RequestsOK' /\ DispatchersOK' /\ MessagesOK'
    BY <2>1 DEF TablesOK, RequestsOK, DispatchersOK, MessagesOK
  <2>5. \A e \in Decisions : e # consumer[p].job => lock'[e] = lock[e]
    BY <2>1 DEF LocksOK, Unlock
  <2>6. Control'
    BY <2>2, <2>3, <2>4
  <2> HIDE DEF Control
  <2> QED
    BY <2>1, <2>2, <2>5, <2>6, TablesStay DEF SparesAutomated
<1>7. CASE MarkCommandFailure(p)
  <2>1. /\ consumer[p].at = "failed" /\ SetRow(consumer[p].job, "failure")
        /\ Consumer(p, "error")
        /\ UNCHANGED <<decision, command, lock, runs, request, dispatcher,
                       msg, errors, crashes, dropped>>
    BY <1>7 DEF MarkCommandFailure
  <2>2. consumer[p].job \in Manual /\ consumer[p].job \in Decisions
    BY <1>1, <1>2, <2>1
  <2>3. /\ row' \in [Decisions -> RowStatus] /\ overwritten' \subseteq Decisions
        /\ Marks(consumer[p].job) /\ row'[consumer[p].job] = "failure"
        /\ \A e \in Decisions : e # consumer[p].job => Untouched(e)
    BY <2>1, <2>2, MarkIs
  <2>4. /\ ConsumersOK' /\ consumer'[p].at = "error"
        /\ \A q \in Processes : q # p => consumer'[q] = consumer[q]
    BY <2>1, ConsumerIs
  <2>5. TablesOK' /\ LocksOK' /\ RequestsOK' /\ DispatchersOK' /\ MessagesOK'
    BY <2>1, <2>3 DEF TablesOK, LocksOK, RequestsOK, DispatchersOK, MessagesOK
  <2>6. Control'
    BY <2>4, <2>5
  <2> HIDE DEF Control
  <2> QED
    BY <2>1, <2>2, <2>3, <2>4, <2>6 DEF SparesAutomated
<1>8. CASE MarkCommandFailureFails(p)
  <2>1. /\ consumer[p].at = "failed" /\ Error /\ Consumer(p, "error")
        /\ UNCHANGED <<row, decision, command, runs, overwritten, lock, request, dispatcher,
                       msg, crashes, dropped>>
    BY <1>8 DEF MarkCommandFailureFails, tables
  <2>2. /\ ConsumersOK' /\ consumer'[p].at = "error"
        /\ \A q \in Processes : q # p => consumer'[q] = consumer[q]
    BY <2>1, ConsumerIs
  <2>3. LocksOK'
    BY <2>1, ErrorBound DEF LocksOK
  <2>4. TablesOK' /\ RequestsOK' /\ DispatchersOK' /\ MessagesOK'
    BY <2>1 DEF TablesOK, RequestsOK, DispatchersOK, MessagesOK
  <2>5. Control'
    BY <2>2, <2>3, <2>4
  <2> HIDE DEF Control
  <2> QED
    BY <2>1, <2>2, <2>5, TablesStay DEF SparesAutomated
<1>9. CASE CloseCommand(p)
  <2>1. /\ consumer[p].at \in {"processed", "error"} /\ EndCommand(p)
        /\ command' = [command EXCEPT ![consumer[p].job] = consumer[p].at]
        /\ UNCHANGED <<row, overwritten, decision, lock, runs, request, dispatcher, msg,
                       errors, crashes, dropped>>
    BY <1>9 DEF CloseCommand
  <2>2. consumer[p].job \in Decisions
    BY <1>1, <1>2, <2>1
  <2>3. /\ command' \in [Decisions -> {"none", "pending", "processed", "error"}]
        /\ \A e \in Decisions :
              command'[e] = IF e = consumer[p].job THEN consumer[p].at ELSE command[e]
    BY <2>1, <2>2 DEF TablesOK
  <2>4. /\ ConsumersOK' /\ consumer'[p].at = "idle"
        /\ \A q \in Processes : q # p => consumer'[q] = consumer[q]
    BY <2>1, EndCommandIs
  <2>5. TablesOK' /\ LocksOK' /\ RequestsOK' /\ DispatchersOK' /\ MessagesOK'
    BY <2>1, <2>3 DEF TablesOK, LocksOK, RequestsOK, DispatchersOK, MessagesOK
  <2>6. Control'
    BY <2>4, <2>5
  <2> HIDE DEF Control
  <2> QED
    BY <2>1, <2>3, <2>4, <2>6, TablesStay DEF SparesAutomated
<1>10. CASE CloseCommandFails(p)
  <2>1. /\ Error /\ EndCommand(p)
        /\ UNCHANGED <<row, decision, command, runs, overwritten, lock, request, dispatcher,
                       msg, crashes, dropped>>
    BY <1>10 DEF CloseCommandFails, tables
  <2>2. /\ ConsumersOK' /\ consumer'[p].at = "idle"
        /\ \A q \in Processes : q # p => consumer'[q] = consumer[q]
    BY <2>1, EndCommandIs
  <2>3. LocksOK'
    BY <2>1, ErrorBound DEF LocksOK
  <2>4. TablesOK' /\ RequestsOK' /\ DispatchersOK' /\ MessagesOK'
    BY <2>1 DEF TablesOK, RequestsOK, DispatchersOK, MessagesOK
  <2>5. Control'
    BY <2>2, <2>3, <2>4
  <2> HIDE DEF Control
  <2> QED
    BY <2>1, <2>2, <2>5, TablesStay DEF SparesAutomated
<1>11. CASE \E d \in Manual : BeginCommand(p, d)
  BY <1>4, <1>11, TablesStay
<1> HIDE DEF Control
<1> QED
  BY <1>3, <1>5, <1>6, <1>7, <1>8, <1>9, <1>10, <1>11 DEF ConsumeCommands

------------------------------------------------------------------------------
(* The dispatcher and the worker.                                          *)

\* One message is written.
LEMMA PutIs ==
    ASSUME MessagesOK, NEW m \in Messages, NEW x \in MessageState,
           x.at # "free" => x.job \in Automated, x.at = "free" => x.owner = None,
           msg' = [msg EXCEPT ![m] = x]
    PROVE  /\ MessagesOK' /\ msg'[m] = x
           /\ \A k \in Messages : k # m => msg'[k] = msg[k]
  BY DEF MessagesOK

\* No message.
LEMMA NoMessageIs == NoMessage \in MessageState /\ NoMessage.at = "free" /\ NoMessage.owner = None
  BY ConstantsAssumption DEF NoMessage, MessageState, Jobs

\* Steps that only write the place of a message, and perhaps free a lock.
LEMMA MoveControl ==
    ASSUME Control, MessagesOK',
           lock' \in [Decisions -> Processes \cup Messages \cup {None}],
           \A d \in Manual : lock'[d] = lock[d],
           errors' \in 0 .. MaxErrors, UNCHANGED <<crashes, dropped>>,
           UNCHANGED <<row, decision, command, runs, overwritten, request, consumer, dispatcher>>
    PROVE  Control' /\ SparesManual /\ \A d \in Decisions : Untouched(d)
<1> USE DEF Control
<1>1. TablesOK' /\ LocksOK' /\ RequestsOK' /\ ConsumersOK' /\ DispatchersOK'
  BY DEF TablesOK, LocksOK, RequestsOK, ConsumersOK, DispatchersOK
<1>2. Control'
  BY <1>1
<1> HIDE DEF Control
<1> QED
  BY <1>2, TablesStay DEF SparesManual, Decisions

\* The dispatcher of p lists, sends, or marks.
LEMMA DispatchStep ==
    ASSUME Control, NEW p \in Processes, Dispatch(p)
    PROVE  /\ Control' /\ SparesManual
           /\ \A q \in Processes : q # p => dispatcher'[q] = dispatcher[q]
           /\ \/ /\ UNCHANGED <<msg, dropped>> /\ dispatcher'[p].at = "idle"
                 /\ \A e \in Decisions : Untouched(e)
                 /\ UNCHANGED row
              \/ /\ \A e \in Decisions : Untouched(e)
                 /\ UNCHANGED row
                 /\ \E d \in dispatcher[p].todo, k \in Messages :
                       /\ dispatcher'[p].at = "mark" /\ dispatcher'[p].job = d
                       /\ dropped' = dropped \ {d}
                       /\ msg[k].at = "free" /\ msg'[k].at = "buffer" /\ msg'[k].job = d
                       /\ \A m \in Messages : m # k => msg'[m] = msg[m]
              \/ /\ UNCHANGED <<msg, dropped>>
                 /\ dispatcher[p].at = "mark" /\ dispatcher'[p].at = "idle"
                 /\ dispatcher[p].job \in Automated
                 /\ Marks(dispatcher[p].job)
                 /\ \A e \in Decisions :
                       /\ e # dispatcher[p].job => Untouched(e)
                       /\ row'[e] = IF e = dispatcher[p].job THEN "dispatched" ELSE row[e]
<1> USE DEF Control
<1>1. /\ dispatcher[p] \in DispatcherState
      /\ dispatcher[p].at # "idle" => dispatcher[p].job \in Automated
  BY DEF DispatchersOK
<1>2. \A d \in Automated : d \in Decisions
  BY DEF Decisions
<1>3. CASE ListPending(p)
  <2> DEFINE c == [dispatcher[p] EXCEPT !.todo = {d \in Automated : row[d] = "pending"}]
  <2>1. /\ dispatcher[p].at = "idle" /\ dispatcher' = [dispatcher EXCEPT ![p] = c]
        /\ UNCHANGED <<row, decision, command, runs, overwritten, lock, request, consumer,
                       msg, errors, crashes, dropped>>
    BY <1>3 DEF ListPending, tables
  <2>2. c \in DispatcherState /\ c.at = "idle"
    BY <1>1, <1>2, <2>1 DEF DispatcherState
  <2> HIDE DEF c
  <2>3. \A q \in Processes : dispatcher'[q] = IF q = p THEN c ELSE dispatcher[q]
    BY <2>1 DEF DispatchersOK
  <2>4. DispatchersOK'
    BY <2>1, <2>2, <2>3 DEF DispatchersOK
  <2>5. TablesOK' /\ LocksOK' /\ RequestsOK' /\ ConsumersOK' /\ MessagesOK'
    BY <2>1 DEF TablesOK, LocksOK, RequestsOK, ConsumersOK, MessagesOK
  <2>6. Control'
    BY <2>4, <2>5
  <2> HIDE DEF Control
  <2>7. SparesManual /\ \A e \in Decisions : Untouched(e)
    BY <2>1, TablesStay DEF SparesManual, Decisions
  <2> QED
    BY <2>1, <2>2, <2>3, <2>6, <2>7
<1>4. CASE \E d \in Automated : EnqueueJob(p, d)
  <2>1. PICK d \in Automated : EnqueueJob(p, d)
    BY <1>4
  <2> DEFINE c == [at |-> "mark", job |-> d, todo |-> dispatcher[p].todo \ {d}]
             x == [at |-> "buffer", job |-> d, tries |-> 0, owner |-> p]
  <2>2. /\ d \in dispatcher[p].todo /\ HasRoomForJob
        /\ msg' = [msg EXCEPT ![FreeSlot] = x]
        /\ dispatcher' = [dispatcher EXCEPT ![p] = c]
        /\ dropped' = dropped \ {d}
        /\ UNCHANGED <<row, decision, command, runs, overwritten, lock, request, consumer,
                       errors, crashes>>
    BY <2>1 DEF EnqueueJob, tables
  <2>3. c \in DispatcherState /\ c.at = "mark" /\ c.job = d
    BY <1>1, <1>2 DEF DispatcherState, Jobs
  <2>4. /\ x \in MessageState /\ x.at = "buffer" /\ x.job = d
    BY <1>2, ConstantsAssumption DEF MessageState, Jobs
  <2> HIDE DEF c, x
  <2>5. \A q \in Processes : dispatcher'[q] = IF q = p THEN c ELSE dispatcher[q]
    BY <2>2 DEF DispatchersOK
  <2>6. DispatchersOK'
    BY <2>2, <2>3, <2>5 DEF DispatchersOK
  <2>7. /\ MessagesOK' /\ FreeSlot \in Messages /\ msg[FreeSlot].at = "free"
        /\ msg'[FreeSlot] = x /\ \A m \in Messages : m # FreeSlot => msg'[m] = msg[m]
    BY <2>2, <2>4, PutIs, SlotIs
  <2>8. TablesOK' /\ LocksOK' /\ RequestsOK' /\ ConsumersOK'
    BY <2>2 DEF TablesOK, LocksOK, RequestsOK, ConsumersOK
  <2>9. Control'
    BY <2>6, <2>7, <2>8
  <2> HIDE DEF Control
  <2>10. \E e \in dispatcher[p].todo, k \in Messages :
            /\ dispatcher'[p].at = "mark" /\ dispatcher'[p].job = e
            /\ dropped' = dropped \ {e}
            /\ msg[k].at = "free" /\ msg'[k].at = "buffer" /\ msg'[k].job = e
            /\ \A m \in Messages : m # k => msg'[m] = msg[m]
    BY <2>2, <2>3, <2>4, <2>5, <2>7
  <2>11. SparesManual /\ \A e \in Decisions : Untouched(e)
    BY <2>2, TablesStay DEF SparesManual, Decisions
  <2> QED
    BY <2>2, <2>5, <2>9, <2>10, <2>11
<1>5. CASE MarkDispatched(p)
  <2>1. /\ dispatcher[p].at = "mark" /\ EndDispatch(p)
        /\ SetRow(dispatcher[p].job, "dispatched")
        /\ UNCHANGED <<decision, command, runs, lock, request, consumer, msg, errors,
                       crashes, dropped>>
    BY <1>5 DEF MarkDispatched
  <2>2. dispatcher[p].job \in Automated /\ dispatcher[p].job \in Decisions
    BY <1>1, <1>2, <2>1
  <2>3. /\ row' \in [Decisions -> RowStatus] /\ overwritten' \subseteq Decisions
        /\ Marks(dispatcher[p].job)
        /\ \A e \in Decisions :
              /\ e # dispatcher[p].job => Untouched(e)
              /\ row'[e] = IF e = dispatcher[p].job THEN "dispatched" ELSE row[e]
    BY <2>1, <2>2, MarkIs
  <2>4. /\ DispatchersOK' /\ dispatcher'[p].at = "idle"
        /\ \A q \in Processes : q # p => dispatcher'[q] = dispatcher[q]
    BY <2>1, EndDispatchIs
  <2>5. TablesOK' /\ LocksOK' /\ RequestsOK' /\ ConsumersOK' /\ MessagesOK'
    BY <2>1, <2>3 DEF TablesOK, LocksOK, RequestsOK, ConsumersOK, MessagesOK
  <2>6. Control'
    BY <2>4, <2>5
  <2> HIDE DEF Control
  <2>7. SparesManual
    BY <2>1, <2>2, <2>3, Apart DEF SparesManual
  <2> QED
    BY <2>1, <2>2, <2>3, <2>4, <2>6, <2>7
<1>6. CASE MarkDispatchedFails(p)
  <2>1. /\ dispatcher[p].at = "mark" /\ EndDispatch(p) /\ Error
        /\ UNCHANGED <<row, decision, command, runs, overwritten, lock, request, consumer,
                       msg, crashes, dropped>>
    BY <1>6 DEF MarkDispatchedFails, tables
  <2>2. /\ DispatchersOK' /\ dispatcher'[p].at = "idle"
        /\ \A q \in Processes : q # p => dispatcher'[q] = dispatcher[q]
    BY <2>1, EndDispatchIs
  <2>3. LocksOK'
    BY <2>1, ErrorBound DEF LocksOK
  <2>4. TablesOK' /\ RequestsOK' /\ ConsumersOK' /\ MessagesOK'
    BY <2>1 DEF TablesOK, RequestsOK, ConsumersOK, MessagesOK
  <2>5. Control'
    BY <2>2, <2>3, <2>4
  <2> HIDE DEF Control
  <2>6. SparesManual /\ \A e \in Decisions : Untouched(e)
    BY <2>1, TablesStay DEF SparesManual, Decisions
  <2> QED
    BY <2>1, <2>2, <2>5, <2>6
<1> HIDE DEF Control
<1> QED
  BY <1>3, <1>4, <1>5, <1>6 DEF Dispatch

\* A message on its way to a worker.
LEMMA PublishStep ==
    ASSUME Control, NEW m \in Messages, Publish(m)
    PROVE  /\ Control' /\ SparesManual /\ UNCHANGED <<row, dispatcher, dropped>>
           /\ \A e \in Decisions : Untouched(e)
           /\ msg[m].at = "buffer" /\ msg'[m].at = "queue"
           /\ msg'[m].job = msg[m].job /\ msg'[m].tries = msg[m].tries
           /\ \A k \in Messages : k # m => msg'[k] = msg[k]
<1> DEFINE x == [msg[m] EXCEPT !.at = "queue", !.owner = None]
<1>1. /\ msg[m].at = "buffer" /\ msg' = [msg EXCEPT ![m] = x]
      /\ UNCHANGED <<row, decision, command, runs, overwritten, lock, request, consumer,
                     dispatcher, errors, crashes, dropped>>
  BY DEF Publish, tables
<1>2. msg[m] \in MessageState /\ msg[m].job \in Automated
  BY <1>1 DEF Control, MessagesOK
<1>3. /\ x \in MessageState /\ x.at = "queue" /\ x.job = msg[m].job
      /\ x.tries = msg[m].tries
  BY <1>2 DEF MessageState
<1> HIDE DEF x
<1>4. /\ MessagesOK' /\ msg'[m] = x /\ \A k \in Messages : k # m => msg'[k] = msg[k]
  BY <1>1, <1>2, <1>3, PutIs DEF Control
<1>5. Control' /\ SparesManual /\ \A e \in Decisions : Untouched(e)
  BY <1>1, <1>4, MoveControl DEF Control, LocksOK
<1> QED
  BY <1>1, <1>3, <1>4, <1>5

LEMMA DeliverStep ==
    ASSUME Control, NEW m \in Messages, NEW p \in Processes, Deliver(m, p)
    PROVE  /\ Control' /\ SparesManual /\ UNCHANGED <<row, dispatcher, dropped>>
           /\ \A e \in Decisions : Untouched(e)
           /\ msg[m].at = "queue" /\ msg[m].job \in Automated
           /\ \/ row[msg[m].job] = "success" /\ msg'[m].at = "free"
              \/ /\ msg'[m].job = msg[m].job /\ msg'[m].tries = msg[m].tries
                 /\ msg'[m].at = IF msg[m].tries >= MaxTries THEN "giveup" ELSE "start"
           /\ \A k \in Messages : k # m => msg'[k] = msg[k]
<1> DEFINE s == IF msg[m].tries >= MaxTries THEN "giveup" ELSE "start"
           y == [msg[m] EXCEPT !.owner = p, !.at = s]
           x == IF row[msg[m].job] = "success" THEN NoMessage ELSE y
<1>1. /\ msg[m].at = "queue" /\ msg' = [msg EXCEPT ![m] = x]
      /\ UNCHANGED <<row, decision, command, runs, overwritten, lock, request, consumer,
                     dispatcher, errors, crashes, dropped>>
  BY DEF Deliver, tables
<1>2. msg[m] \in MessageState /\ msg[m].job \in Automated
  BY <1>1 DEF Control, MessagesOK
<1>3. s \in {"giveup", "start"}
  OBVIOUS
<1>4. y \in MessageState /\ y.at = s /\ y.job = msg[m].job /\ y.tries = msg[m].tries
  <2> HIDE DEF s
  <2> QED
    BY <1>2, <1>3 DEF MessageState
<1> HIDE DEF y, s
<1>5. /\ x \in MessageState /\ (x.at # "free" => x.job \in Automated)
      /\ (x.at = "free" => x.owner = None)
      /\ \/ row[msg[m].job] = "success" /\ x.at = "free"
         \/ x.job = msg[m].job /\ x.tries = msg[m].tries /\ x.at = s
  BY <1>2, <1>3, <1>4, NoMessageIs
<1> HIDE DEF x
<1>6. /\ MessagesOK' /\ msg'[m] = x /\ \A k \in Messages : k # m => msg'[k] = msg[k]
  BY <1>1, <1>5, PutIs DEF Control
<1>7. Control' /\ SparesManual /\ \A e \in Decisions : Untouched(e)
  BY <1>1, <1>6, MoveControl DEF Control, LocksOK
<1> QED
  BY <1>1, <1>2, <1>5, <1>6, <1>7 DEF s

\* A worker that goes on with its job and writes no table.
LEMMA MoveStep ==
    ASSUME Control, NEW m \in Messages,
           StartJob(m) \/ RefuseJob(m) \/ RunJobFails(m) \/ GiveUpFails(m)
    PROVE  /\ Control' /\ SparesManual /\ UNCHANGED <<row, dispatcher, dropped>>
           /\ \A e \in Decisions : Untouched(e)
           /\ \/ msg[m].at = "start" /\ msg'[m].at = "run"
              \/ msg[m].at \in {"run", "giveup"} /\ msg'[m].at \in {"retry", "giveup", "stuck"}
           /\ msg'[m].job = msg[m].job
           /\ \A k \in Messages : k # m => msg'[k] = msg[k]
<1>1. PICK s \in {"run", "retry", "giveup", "stuck"} :
         /\ Message(m, s)
         /\ \/ msg[m].at = "start" /\ s = "run"
            \/ msg[m].at \in {"run", "giveup"} /\ s # "run"
  BY DEF StartJob, RefuseJob, RunJobFails, GiveUpFails
<1>2. UNCHANGED <<row, decision, command, runs, overwritten, request, consumer, dispatcher,
                  crashes, dropped>>
  BY DEF StartJob, RefuseJob, RunJobFails, GiveUpFails, tables
<1>3. /\ MessagesOK' /\ msg'[m].at = s /\ msg'[m].job = msg[m].job
      /\ \A k \in Messages : k # m => msg'[k] = msg[k]
  BY <1>1, MessageIs DEF Control
<1>4. lock' \in [Decisions -> Processes \cup Messages \cup {None}]
  BY UnlockIs DEF StartJob, RefuseJob, RunJobFails, GiveUpFails, Control, LocksOK
<1>5. errors' \in 0 .. MaxErrors
  BY ErrorBound DEF StartJob, RefuseJob, RunJobFails, GiveUpFails, Control, LocksOK
<1>6. \A d \in Manual : lock'[d] = lock[d]
  <2>1. msg[m].job \in Automated
    BY <1>1 DEF Control, MessagesOK
  <2>2. \A d \in Manual : d # msg[m].job
    BY <2>1, ConstantsAssumption
  <2> QED
    BY <2>2 DEF StartJob, RefuseJob, RunJobFails, GiveUpFails, Unlock, Control, LocksOK, Decisions
<1>7. Control' /\ SparesManual /\ \A e \in Decisions : Untouched(e)
  BY <1>2, <1>3, <1>4, <1>5, <1>6, MoveControl
<1> QED
  BY <1>1, <1>2, <1>3, <1>7

LEMMA RunStep ==
    ASSUME Control, NEW m \in Messages, RunJob(m)
    PROVE  /\ Control' /\ SparesManual /\ UNCHANGED <<dispatcher, dropped>>
           /\ msg[m].at = "run" /\ msg[m].job \in Automated
           /\ row[msg[m].job] \notin {"success", "failure"}
           /\ Commits(msg[m].job)
           /\ \A e \in Decisions : e # msg[m].job => Untouched(e)
           /\ \A k \in Messages : k # m => msg'[k] = msg[k]
<1>1. /\ msg[m].at = "run" /\ row[msg[m].job] \notin {"success", "failure"}
      /\ CommitSuccess(msg[m].job) /\ Message(m, "ack")
      /\ UNCHANGED <<request, consumer, dispatcher, errors, crashes, dropped>>
  BY DEF RunJob, GuardBlocks
<1>2. msg[m].job \in Automated /\ msg[m].job \in Decisions
  BY <1>1 DEF Control, MessagesOK, Decisions
<1>3. /\ MessagesOK' /\ \A k \in Messages : k # m => msg'[k] = msg[k]
  BY <1>1, MessageIs DEF Control
<1>4. /\ TablesOK' /\ lock' = [lock EXCEPT ![msg[m].job] = None]
      /\ lock' \in [Decisions -> Processes \cup Messages \cup {None}]
      /\ command' = command
      /\ Commits(msg[m].job) /\ \A e \in Decisions : e # msg[m].job => Untouched(e)
  BY <1>1, <1>2, CommitIs DEF Control
<1>5. LocksOK' /\ RequestsOK' /\ ConsumersOK' /\ DispatchersOK'
  BY <1>1, <1>4 DEF Control, LocksOK, RequestsOK, ConsumersOK, DispatchersOK
<1>6. \A d \in Manual : d # msg[m].job /\ d \in Decisions /\ row[d] \in RowStatus
  BY <1>2, Apart DEF Control, TablesOK
<1>7. \A d \in Manual : row'[d] = row[d]
  BY <1>1, <1>2, <1>6, RowIs DEF CommitSuccess, Control, RowStatus
<1>8. \A d \in Manual : lock'[d] = lock[d]
  BY <1>4, <1>6 DEF Control, LocksOK
<1>9. SparesManual
  BY <1>1, <1>4, <1>6, <1>7, <1>8 DEF SparesManual
<1>10. Control'
  BY <1>3, <1>4, <1>5 DEF Control
<1> QED
  BY <1>1, <1>2, <1>3, <1>4, <1>9, <1>10

LEMMA GiveUpStep ==
    ASSUME Control, NEW m \in Messages, GiveUp(m)
    PROVE  /\ Control' /\ SparesManual /\ UNCHANGED <<dispatcher, dropped>>
           /\ msg[m].at = "giveup" /\ msg[m].job \in Automated
           /\ row'[msg[m].job] = "failure"
           /\ Marks(msg[m].job)
           /\ \A e \in Decisions : e # msg[m].job => Untouched(e) /\ row'[e] = row[e]
           /\ \A k \in Messages : k # m => msg'[k] = msg[k]
<1>1. /\ msg[m].at = "giveup" /\ SetRow(msg[m].job, "failure") /\ Message(m, "ack")
      /\ decision' = [decision EXCEPT ![msg[m].job] = "pending"]
      /\ UNCHANGED <<command, lock, runs, request, consumer, dispatcher, errors, crashes,
                     dropped>>
  BY DEF GiveUp
<1>2. msg[m].job \in Automated /\ msg[m].job \in Decisions
  BY <1>1 DEF Control, MessagesOK, Decisions
<1>3. /\ MessagesOK' /\ \A k \in Messages : k # m => msg'[k] = msg[k]
  BY <1>1, MessageIs DEF Control
<1>4. /\ decision' \in [Decisions -> {"pending", "resolved"}]
      /\ \A e \in Decisions : e # msg[m].job => decision'[e] = decision[e]
      /\ decision'[msg[m].job] = "pending"
  BY <1>1, <1>2 DEF Control, TablesOK
<1>5. /\ row' \in [Decisions -> RowStatus] /\ overwritten' \subseteq Decisions
      /\ \A e \in Decisions : row'[e] = IF e = msg[m].job THEN "failure" ELSE row[e]
      /\ Marks(msg[m].job) /\ \A e \in Decisions : e # msg[m].job => Untouched(e)
  BY <1>1, <1>2, <1>4, MarkIs DEF Control
<1>6. TablesOK' /\ LocksOK' /\ RequestsOK' /\ ConsumersOK' /\ DispatchersOK'
  BY <1>1, <1>4, <1>5
     DEF Control, TablesOK, LocksOK, RequestsOK, ConsumersOK, DispatchersOK
<1>7. SparesManual
  BY <1>1, <1>2, <1>5, Apart DEF SparesManual
<1>8. Control'
  BY <1>3, <1>6 DEF Control
<1> QED
  BY <1>1, <1>2, <1>3, <1>5, <1>7, <1>8

\* The copy and the original, which goes when it is acknowledged.
LEMMA RetryStep ==
    ASSUME Control, NEW m \in Messages, RetryJob(m)
    PROVE  /\ Control' /\ SparesManual /\ UNCHANGED <<row, dispatcher, dropped>>
           /\ \A e \in Decisions : Untouched(e)
           /\ msg[m].at = "retry" /\ msg'[m].at = "ack" /\ msg'[m].job = msg[m].job
           /\ \E c \in Messages :
                 /\ c # m /\ msg[c].at = "free"
                 /\ msg'[c].at = "queue" /\ msg'[c].job = msg[m].job
                 /\ \A k \in Messages \ {m, c} : msg'[k] = msg[k]
<1> DEFINE c == FreeSlot
           x == [msg[m] EXCEPT !.at = "ack"]
           y == [at |-> "queue", job |-> msg[m].job, owner |-> None,
                 tries |-> IF msg[m].tries < MaxTries THEN msg[m].tries + 1 ELSE MaxTries]
<1>1. /\ msg[m].at = "retry" /\ HasRoom
      /\ msg' = [msg EXCEPT ![m].at = "ack", ![c] = y]
      /\ UNCHANGED <<row, decision, command, runs, overwritten, lock, request, consumer,
                     dispatcher, errors, crashes, dropped>>
  BY DEF RetryJob, SendCopy, tables
<1>2. msg[m] \in MessageState /\ msg[m].job \in Automated /\ msg[m].tries \in 0 .. MaxTries
  BY <1>1 DEF Control, MessagesOK, MessageState
<1>3. c \in Messages /\ msg[c].at = "free" /\ c # m
  BY <1>1, SlotIs
<1>4. x \in MessageState /\ x.at = "ack" /\ x.job = msg[m].job
  BY <1>2 DEF MessageState
<1>5. y \in MessageState /\ y.at = "queue" /\ y.job = msg[m].job
  <2>1. (IF msg[m].tries < MaxTries THEN msg[m].tries + 1 ELSE MaxTries) \in 0 .. MaxTries
    BY <1>2, ConstantsAssumption
  <2>2. msg[m].job \in Jobs
    BY <1>2 DEF Jobs, Decisions
  <2> QED
    BY <2>1, <2>2 DEF MessageState
<1>6. msg' = [[msg EXCEPT ![m] = x] EXCEPT ![c] = y]
  BY <1>1
<1> HIDE DEF x, y, c
<1>7. \A k \in Messages : msg'[k] = IF k = c THEN y ELSE IF k = m THEN x ELSE msg[k]
  BY <1>3, <1>6 DEF Control, MessagesOK
<1>8. msg' \in [Messages -> MessageState]
  BY <1>4, <1>5, <1>6 DEF Control, MessagesOK
<1>9. MessagesOK'
  BY <1>2, <1>4, <1>5, <1>7, <1>8 DEF Control, MessagesOK
<1>10. Control' /\ SparesManual /\ \A e \in Decisions : Untouched(e)
  BY <1>1, <1>9, MoveControl DEF Control, LocksOK
<1> QED
  BY <1>1, <1>3, <1>4, <1>5, <1>7, <1>10

LEMMA AckStep ==
    ASSUME Control, NEW m \in Messages, Ack(m)
    PROVE  /\ Control' /\ SparesManual /\ UNCHANGED <<row, dispatcher, dropped>>
           /\ \A e \in Decisions : Untouched(e)
           /\ msg[m].at = "ack" /\ msg'[m].at = "free"
           /\ \A k \in Messages : k # m => msg'[k] = msg[k]
<1>1. /\ msg[m].at = "ack" /\ msg' = [msg EXCEPT ![m] = NoMessage]
      /\ UNCHANGED <<row, decision, command, runs, overwritten, lock, request, consumer,
                     dispatcher, errors, crashes, dropped>>
  BY DEF Ack, tables
<1>2. /\ MessagesOK' /\ msg'[m] = NoMessage /\ \A k \in Messages : k # m => msg'[k] = msg[k]
  BY <1>1, NoMessageIs, PutIs DEF Control
<1>3. Control' /\ SparesManual /\ \A e \in Decisions : Untouched(e)
  BY <1>1, <1>2, MoveControl DEF Control, LocksOK
<1> QED
  BY <1>1, <1>2, <1>3, NoMessageIs

\* A dead process: nothing in hand, and its messages are in the queue again,
\* or lost from its buffer.
LEMMA CrashStep ==
    ASSUME Control, NEW p \in Processes, Crash(p)
    PROVE  /\ Control' /\ UNCHANGED <<row, decision, command, runs, overwritten>>
           /\ consumer'[p].at = "idle"
           /\ dispatcher'[p] = Idle
           /\ \A q \in Processes : q # p => /\ consumer'[q] = consumer[q]
                                            /\ dispatcher'[q] = dispatcher[q]
           /\ \A m \in Messages :
                 \/ msg'[m] = msg[m]
                 \/ /\ msg[m].owner = p /\ msg[m].at # "buffer" /\ msg'[m].at = "queue"
                    /\ msg'[m].job = msg[m].job /\ msg'[m].tries = msg[m].tries
                 \/ msg[m].owner = p /\ msg[m].at = "buffer" /\ msg[m].job \in dropped'
           /\ dropped \subseteq dropped'
           /\ \A e \in Decisions, q \in Processes : q # p /\ lock[e] = q => lock'[e] = q
<1>1. /\ consumer' = [consumer EXCEPT ![p] = Idle]
      /\ dispatcher' = [dispatcher EXCEPT ![p] = Idle]
      /\ msg' = [m \in Messages |-> IF msg[m].owner = p THEN Survivor(msg[m]) ELSE msg[m]]
      /\ UNCHANGED <<row, decision, command, runs, overwritten, request, errors>>
      /\ dropped' = dropped \cup {msg[m].job : m \in {k \in Messages : msg[k].owner = p
                                                                   /\ msg[k].at = "buffer"}}
      /\ crashes < MaxCrashes /\ crashes' = crashes + 1
      /\ lock' = [d \in Decisions |->
                    IF lock[d] = p \/ \E m \in Messages : lock[d] = m /\ msg[m].owner = p
                    THEN None ELSE lock[d]]
  BY DEF Crash, tables
<1>2. TablesOK' /\ RequestsOK'
  BY <1>1 DEF Control, TablesOK, RequestsOK
<1>3. LocksOK'
  <2>1. dropped' \subseteq Automated
    BY <1>1 DEF Control, LocksOK, MessagesOK
  <2> QED
    BY <1>1, <2>1, ConstantsAssumption DEF Control, LocksOK
<1>4. /\ ConsumersOK' /\ consumer'[p].at = "idle"
      /\ \A q \in Processes : q # p => consumer'[q] = consumer[q]
  BY <1>1 DEF Control, ConsumersOK, ConsumerState, Idle, Jobs
<1>5. /\ DispatchersOK' /\ dispatcher'[p] = Idle
      /\ \A q \in Processes : q # p => dispatcher'[q] = dispatcher[q]
  BY <1>1 DEF Control, DispatchersOK, DispatcherState, Idle, Jobs
<1>6. ASSUME NEW m \in Messages
      PROVE  /\ msg'[m] \in MessageState
             /\ msg'[m].at # "free" => msg'[m].job \in Automated
             /\ msg'[m].at = "free" => msg'[m].owner = None
             /\ \/ msg'[m] = msg[m]
                \/ /\ msg[m].owner = p /\ msg[m].at # "buffer" /\ msg'[m].at = "queue"
                   /\ msg'[m].job = msg[m].job /\ msg'[m].tries = msg[m].tries
                \/ msg[m].owner = p /\ msg[m].at = "buffer" /\ msg[m].job \in dropped'
  <2>1. /\ msg[m] \in MessageState
        /\ msg[m].at # "free" => msg[m].job \in Automated
        /\ msg[m].at = "free" => msg[m].owner = None
    BY DEF Control, MessagesOK
  <2>2. CASE msg[m].owner # p
    <3>1. msg'[m] = msg[m]
      BY <1>1, <2>2
    <3> QED
      BY <2>1, <3>1
  <2>3. CASE msg[m].owner = p /\ msg[m].at = "buffer"
    <3>1. msg'[m] = NoMessage /\ msg[m].job \in dropped'
      BY <1>1, <2>3 DEF Survivor
    <3> QED
      BY <2>3, <3>1, NoMessageIs
  <2>4. CASE msg[m].owner = p /\ msg[m].at # "buffer"
    <3> DEFINE x == [msg[m] EXCEPT !.at = "queue", !.owner = None]
    <3>1. msg'[m] = x
      BY <1>1, <2>4 DEF Survivor, Redelivered
    <3>2. msg[m].job \in Automated
      BY <2>1, <2>4, ConstantsAssumption
    <3>3. x \in MessageState /\ x.at = "queue" /\ x.job = msg[m].job /\ x.tries = msg[m].tries
      BY <2>1 DEF MessageState
    <3> HIDE DEF x
    <3> QED
      BY <2>4, <3>1, <3>2, <3>3
  <2> QED
    BY <2>2, <2>3, <2>4
<1>7. MessagesOK'
  <2>1. msg' = [m \in Messages |-> msg'[m]]
    BY <1>1
  <2>2. msg' \in [Messages -> MessageState]
    BY <1>6, <2>1
  <2> QED
    BY <1>6, <2>2 DEF MessagesOK
<1>8. Control'
  BY <1>2, <1>3, <1>4, <1>5, <1>7 DEF Control
<1>9. /\ UNCHANGED <<row, decision, command, runs, overwritten>>
      /\ dropped \subseteq dropped'
  BY <1>1
<1>10. \A e \in Decisions, q \in Processes : q # p /\ lock[e] = q => lock'[e] = q
  BY <1>1, ConstantsAssumption
<1> QED
  BY <1>4, <1>5, <1>6, <1>8, <1>9, <1>10

------------------------------------------------------------------------------
(* Types.                                                                  *)

\* Nothing changes.
LEMMA StutterStep ==
    ASSUME Control, UNCHANGED vars
    PROVE  /\ Control' /\ UNCHANGED <<row, command, lock, consumer, dispatcher, msg, dropped>>
           /\ \A e \in Decisions : Untouched(e)
<1>1. UNCHANGED <<row, decision, command, lock, runs, overwritten, dropped, request, consumer,
                  dispatcher, msg, errors, crashes>>
  BY DEF vars
<1>2. Control'
  BY <1>1 DEF Control, TablesOK, LocksOK, RequestsOK, ConsumersOK, DispatchersOK, MessagesOK
<1> QED
  BY <1>1, <1>2, TablesStay

LEMMA NextControl == ASSUME Control, [Next]_vars PROVE Control'
<1>1. ASSUME NEW m \in Messages, Work(m)
      PROVE  Control'
  BY <1>1, PublishStep, DeliverStep, MoveStep, RunStep, GiveUpStep, RetryStep, AckStep DEF Work
<1>2. CASE Next
  BY <1>1, <1>2, RecordStep, RequestStep, ConsumeStep, DispatchStep, CrashStep DEF Next
<1> QED
  BY <1>2, StutterStep

\* Every variable has its type, in particular every job is one of its path.
THEOREM TypeCorrect == Spec => []TypeOK
<1>1. Init => Control
  BY InitControl
<1>2. Control /\ [Next]_vars => Control'
  BY NextControl
<1>3. Control => TypeOK
  BY ControlTypes
<1> QED
  BY <1>1, <1>2, <1>3, PTL DEF Spec

------------------------------------------------------------------------------
(* What is recorded.                                                       *)

\* The decision was executed, and its row still says so unless it was overwritten.
Justified(d) == runs[d] > 0 /\ (d \notin overwritten => row[d] = "success")

Recorded(d) ==
    /\ row[d] = "success" => decision[d] = "resolved"
    /\ decision[d] = "resolved" => Justified(d)
    /\ d \in Manual /\ runs[d] > 0 => decision[d] = "resolved"
    /\ d \notin overwritten => runs[d] = IF row[d] = "success" THEN 1 ELSE 0

Agreed == \A d \in Decisions : Recorded(d) /\ (command[d] = "processed" => Justified(d))

\* A consumer that runs has the lock, and no success is in the row.
Informed ==
    \A p \in Processes :
        /\ consumer[p].at = "run" => /\ lock[consumer[p].job] = p
                                     /\ row[consumer[p].job] # "success"
        /\ consumer[p].at = "processed" => Justified(consumer[p].job)

RecordInv == Control /\ Agreed /\ Informed

LEMMA InitRecord == ASSUME Init PROVE RecordInv
<1>1. Control
  BY InitControl
<1>2. Agreed /\ Informed
  BY DEF Init, Idle, Agreed, Informed, Recorded, Justified, Decisions
<1> QED
  BY <1>1, <1>2 DEF RecordInv

\* Nothing takes back that a decision was executed.
LEMMA JustifiedStays ==
    ASSUME Control, NEW d \in Decisions, Justified(d), Untouched(d) \/ Commits(d) \/ Marks(d)
    PROVE  Justified(d)'
<1>1. runs[d] \in Nat
  BY DEF Control, TablesOK
<1> QED
  BY <1>1 DEF Justified, Untouched, Commits, Marks

\* Only what is no success is committed: the record stays right.
LEMMA RecordStays ==
    ASSUME Control, NEW d \in Decisions, Recorded(d),
           Untouched(d) \/ (Commits(d) /\ row[d] # "success") \/ Marks(d)
    PROVE  Recorded(d)'
<1>1. runs[d] \in Nat
  BY DEF Control, TablesOK
<1>2. CASE Untouched(d)
  BY <1>1, <1>2 DEF Recorded, Justified, Untouched
<1>3. CASE Commits(d) /\ row[d] # "success"
  BY <1>1, <1>3 DEF Recorded, Justified, Commits
<1>4. CASE Marks(d)
  <2>1. d \in Automated => d \notin Manual
    BY ConstantsAssumption
  <2>2. row'[d] # "success" /\ runs'[d] = runs[d]
    BY <1>4 DEF Marks
  <2>3. d \notin overwritten' => d \notin overwritten /\ row[d] # "success"
    BY <1>4 DEF Marks
  <2>4. decision'[d] = "resolved" => decision[d] = "resolved"
    BY <1>4 DEF Marks
  <2>5. d \in Manual => decision'[d] = decision[d]
    BY <1>4, <2>1 DEF Marks
  <2> QED
    BY <2>2, <2>3, <2>4, <2>5 DEF Recorded, Justified
<1> QED
  BY <1>2, <1>3, <1>4

\* A step in which each decision keeps its record, closes its command for a
\* reason, and each consumer knows what it has in hand.
LEMMA RecordNext ==
    ASSUME RecordInv, Control',
           \A d \in Decisions :
              Untouched(d) \/ (Commits(d) /\ row[d] # "success") \/ Marks(d),
           \A d \in Decisions :
              \/ command'[d] = command[d] \/ command'[d] \in {"pending", "error"}
              \/ Justified(d),
           \A p \in Processes :
              \/ /\ consumer'[p] = consumer[p]
                 /\ consumer[p].at = "run" => /\ lock'[consumer[p].job] = p
                                              /\ row'[consumer[p].job] # "success"
              \/ /\ consumer'[p].at = "run" => /\ lock'[consumer'[p].job] = p
                                               /\ row'[consumer'[p].job] # "success"
                 /\ consumer'[p].at = "processed" => row'[consumer'[p].job] = "success"
    PROVE  RecordInv'
<1>1. \A d \in Decisions : Justified(d) => Justified(d)'
  BY JustifiedStays DEF RecordInv
<1>2. \A d \in Decisions : Recorded(d)'
  BY RecordStays DEF RecordInv, Agreed
<1>3. \A d \in Decisions : command'[d] = "processed" => Justified(d)'
  BY <1>1 DEF RecordInv, Agreed
<1>4. Agreed'
  BY <1>2, <1>3 DEF Agreed
<1>5. ASSUME NEW p \in Processes
      PROVE  /\ consumer'[p].at = "run" => /\ lock'[consumer'[p].job] = p
                                           /\ row'[consumer'[p].job] # "success"
             /\ \A d \in Decisions :
                   consumer'[p].at = "processed" /\ consumer'[p].job = d => Justified(d)'
  <2>1. /\ consumer[p].at # "idle" => consumer[p].job \in Decisions
        /\ consumer'[p].at # "idle" => consumer'[p].job \in Decisions
    BY DEF RecordInv, Control, ConsumersOK, Decisions
  <2>2. CASE /\ consumer'[p] = consumer[p]
             /\ consumer[p].at = "run" => /\ lock'[consumer[p].job] = p
                                          /\ row'[consumer[p].job] # "success"
    <3>1. \A d \in Decisions :
             consumer[p].at = "processed" /\ consumer[p].job = d => Justified(d)'
      BY <1>1 DEF RecordInv, Informed
    <3> QED
      BY <2>2, <3>1
  <2>3. CASE /\ consumer'[p].at = "run" => /\ lock'[consumer'[p].job] = p
                                           /\ row'[consumer'[p].job] # "success"
             /\ consumer'[p].at = "processed" => row'[consumer'[p].job] = "success"
    <3>1. ASSUME NEW d \in Decisions, row'[d] = "success" PROVE Justified(d)'
      BY <1>2, <3>1 DEF Recorded
    <3> QED
      BY <2>1, <2>3, <3>1
  <2> QED
    BY <2>2, <2>3
<1>6. Informed'
  <2>1. \A p \in Processes : consumer'[p].at # "idle" => consumer'[p].job \in Decisions
    BY DEF Control, ConsumersOK, Decisions
  <2> QED
    BY <1>5, <2>1 DEF Informed
<1> QED
  BY <1>4, <1>6 DEF RecordInv

\* The consumers: only the one that runs may commit, and it has the lock.
LEMMA ConsumeRecord ==
    ASSUME RecordInv, NEW p \in Processes, ConsumeCommands(p)
    PROVE  RecordInv'
<1>1. Control
  BY DEF RecordInv
<1>2. /\ Control'
      /\ \A q \in Processes : q # p => consumer'[q] = consumer[q]
      /\ \A e \in Decisions :
            \/ Untouched(e)
            \/ e \in Manual /\ Marks(e) /\ row'[e] = "failure"
            \/ consumer[p].at = "run" /\ e = consumer[p].job /\ Commits(e)
      /\ \A e \in Decisions :
            \/ command'[e] = command[e]
            \/ /\ consumer[p].at \in {"processed", "error"} /\ e = consumer[p].job
               /\ command'[e] = consumer[p].at
      /\ \A e \in Decisions, q \in Processes :
            q # p /\ lock[e] = q =>
               lock'[e] = q \/ (consumer[p].at = "run" /\ e = consumer[p].job)
      /\ consumer'[p].at = "run" =>
            lock'[consumer'[p].job] = p /\ row'[consumer'[p].job] # "success"
      /\ consumer'[p].at = "processed" => row'[consumer'[p].job] = "success"
  BY <1>1, ConsumeStep
<1>3. consumer[p].at = "run" => lock[consumer[p].job] = p /\ row[consumer[p].job] # "success"
  BY DEF RecordInv, Informed
<1>4. \A e \in Decisions : Untouched(e) \/ (Commits(e) /\ row[e] # "success") \/ Marks(e)
  BY <1>2, <1>3
<1>5. \A e \in Decisions :
         \/ command'[e] = command[e] \/ command'[e] \in {"pending", "error"}
         \/ Justified(e)
  <2>1. consumer[p].at = "processed" => Justified(consumer[p].job)
    BY DEF RecordInv, Informed
  <2> QED
    BY <1>2, <2>1
<1>6. ASSUME NEW q \in Processes, q # p, consumer[q].at = "run"
      PROVE  lock'[consumer[q].job] = q /\ row'[consumer[q].job] # "success"
  <2>1. /\ lock[consumer[q].job] = q /\ row[consumer[q].job] # "success"
        /\ consumer[q].job \in Decisions
    BY <1>6 DEF RecordInv, Informed, Control, ConsumersOK, Decisions
  <2>2. ~(consumer[p].at = "run" /\ consumer[q].job = consumer[p].job)
    BY <1>3, <1>6, <2>1
  <2>3. Untouched(consumer[q].job) \/ Marks(consumer[q].job)
    BY <1>2, <2>1, <2>2
  <2>4. row'[consumer[q].job] # "success"
    BY <2>1, <2>3 DEF Untouched, Marks
  <2> QED
    BY <1>2, <1>6, <2>1, <2>2, <2>4
<1> QED
  BY <1>2, <1>4, <1>5, <1>6, RecordNext

\* The automated path: only a job that found no outcome under its lock may commit.
LEMMA AutomatedRecord ==
    ASSUME RecordInv, Control', SparesManual,
           \A d \in Decisions :
              Untouched(d) \/ (Commits(d) /\ row[d] # "success") \/ Marks(d)
    PROVE  RecordInv'
<1>1. ASSUME NEW p \in Processes
      PROVE  /\ consumer'[p] = consumer[p]
             /\ consumer[p].at = "run" => /\ lock'[consumer[p].job] = p
                                          /\ row'[consumer[p].job] # "success"
  <2>1. consumer[p].at = "run" => /\ lock[consumer[p].job] = p
                                  /\ row[consumer[p].job] # "success"
                                  /\ consumer[p].job \in Manual
    BY DEF RecordInv, Informed, Control, ConsumersOK
  <2> QED
    BY <2>1 DEF SparesManual
<1>2. \A d \in Decisions : command'[d] = command[d]
  BY DEF SparesManual
<1> QED
  BY <1>1, <1>2, RecordNext

LEMMA WorkRecord ==
    ASSUME RecordInv, NEW m \in Messages, Work(m)
    PROVE  RecordInv'
<1>1. Control
  BY DEF RecordInv
<1>2. CASE RunJob(m)
  BY <1>1, <1>2, RunStep, AutomatedRecord
<1>3. CASE GiveUp(m)
  BY <1>1, <1>3, GiveUpStep, AutomatedRecord
<1>4. CASE ~RunJob(m) /\ ~GiveUp(m)
  <2>1. Control' /\ SparesManual /\ \A e \in Decisions : Untouched(e)
    BY <1>1, <1>4, PublishStep, DeliverStep, MoveStep, RetryStep, AckStep DEF Work
  <2> QED
    BY <2>1, AutomatedRecord
<1> QED
  BY <1>2, <1>3, <1>4

LEMMA DispatchRecord ==
    ASSUME RecordInv, NEW p \in Processes, Dispatch(p)
    PROVE  RecordInv'
<1>1. Control
  BY DEF RecordInv
<1>2. Control' /\ SparesManual /\ \A e \in Decisions : Untouched(e) \/ Marks(e)
  BY <1>1, DispatchStep
<1> QED
  BY <1>2, AutomatedRecord

\* Requests and crashes leave the tables of what runs alone.
LEMMA QuietRecord ==
    ASSUME RecordInv, Control', \A d \in Decisions : Untouched(d),
           \A d \in Decisions : command'[d] = command[d] \/ command'[d] = "pending",
           \A p \in Processes :
              \/ consumer'[p].at = "idle"
              \/ /\ consumer'[p] = consumer[p]
                 /\ \A d \in Decisions : lock[d] = p => lock'[d] = p
    PROVE  RecordInv'
<1>1. ASSUME NEW p \in Processes, consumer'[p] = consumer[p],
             \A d \in Decisions : lock[d] = p => lock'[d] = p, consumer[p].at = "run"
      PROVE  lock'[consumer[p].job] = p /\ row'[consumer[p].job] # "success"
  <2>1. /\ lock[consumer[p].job] = p /\ row[consumer[p].job] # "success"
        /\ consumer[p].job \in Decisions
    BY <1>1 DEF RecordInv, Informed, Control, ConsumersOK, Decisions
  <2> QED
    BY <1>1, <2>1 DEF Untouched
<1> QED
  BY <1>1, RecordNext

LEMMA OtherRecord ==
    ASSUME RecordInv,
           \/ \E d \in Decisions : RecordIntent(d)
           \/ \E r \in Requests :
                 (\E d \in Manual : Approve(r, d)) \/ SendCommand(r) \/ LoseRequest(r)
           \/ \E p \in Processes : Crash(p)
           \/ UNCHANGED vars
    PROVE  RecordInv'
<1>1. Control
  BY DEF RecordInv
<1>2. ASSUME NEW d \in Decisions, RecordIntent(d)
      PROVE  RecordInv'
  BY <1>1, <1>2, RecordStep, QuietRecord
<1>3. ASSUME NEW r \in Requests,
             (\E d \in Manual : Approve(r, d)) \/ SendCommand(r) \/ LoseRequest(r)
      PROVE  RecordInv'
  BY <1>1, <1>3, RequestStep, QuietRecord
<1>4. ASSUME NEW p \in Processes, Crash(p)
      PROVE  RecordInv'
  <2>1. /\ Control' /\ UNCHANGED <<row, decision, command, runs, overwritten>>
        /\ consumer'[p].at = "idle"
        /\ \A q \in Processes : q # p => consumer'[q] = consumer[q]
        /\ \A e \in Decisions, q \in Processes : q # p /\ lock[e] = q => lock'[e] = q
    BY <1>1, <1>4, CrashStep
  <2>2. \A d \in Decisions : Untouched(d)
    BY <2>1, TablesStay
  <2> QED
    BY <2>1, <2>2, QuietRecord
<1>5. CASE UNCHANGED vars
  BY <1>1, <1>5, StutterStep, QuietRecord
<1> QED
  BY <1>2, <1>3, <1>4, <1>5

LEMMA NextRecord == ASSUME RecordInv, [Next]_vars PROVE RecordInv'
<1>1. CASE Next
  BY <1>1, ConsumeRecord, DispatchRecord, WorkRecord, OtherRecord DEF Next
<1> QED
  BY <1>1, OtherRecord

\* On both paths and with any number of processes, the row, the decision and the
\* command say what really happened, through any errors, crashes, duplicates and
\* overlaps; where no mark has replaced an outcome they say it exactly, and nothing
\* was executed twice.
THEOREM OutcomesAreRecorded == Spec => []OutcomeIsRecorded
<1>1. Init => RecordInv
  BY InitRecord
<1>2. RecordInv /\ [Next]_vars => RecordInv'
  BY NextRecord
<1>3. RecordInv => OutcomeIsRecorded
  BY DEF RecordInv, Agreed, Recorded, Justified, OutcomeIsRecorded
<1> QED
  BY <1>1, <1>2, <1>3, PTL DEF Spec

------------------------------------------------------------------------------
(* No job is lost.                                                         *)

Live(m, d) == msg[m].job = d /\ msg[m].at \notin {"free", "ack"}

\* The decision has an outcome, a job on its way, or one of the two excuses.
Served(d) ==
    \/ d \in overwritten \cup dropped
    \/ runs[d] > 0
    \/ row[d] = "failure"
    \/ \E m \in Messages : Live(m, d)

\* What is marked, or about to be, is served; a manual row is never marked.
Kept ==
    /\ \A d \in Automated : row[d] = "dispatched" => Served(d)
    /\ \A p \in Processes : dispatcher[p].at = "mark" => Served(dispatcher[p].job)
    /\ \A d \in Manual : row[d] # "dispatched"

KeepInv == RecordInv /\ Kept

LEMMA InitKeep == ASSUME Init PROVE KeepInv
<1>1. RecordInv
  BY InitRecord
<1>2. Kept
  BY DEF Init, Idle, Kept, Decisions
<1> QED
  BY <1>1, <1>2 DEF KeepInv

\* The step of a decision's tables leaves it served, if its messages do.
LEMMA ServedStays ==
    ASSUME Control, NEW d \in Decisions, Served(d),
           Untouched(d) \/ Commits(d) \/ Marks(d),
           d \in dropped => d \in dropped' \/ \E k \in Messages : Live(k, d)',
           \A m \in Messages : Live(m, d) =>
              \/ \E k \in Messages : Live(k, d)'
              \/ d \in dropped' \/ runs'[d] > 0 \/ row'[d] = "failure"
    PROVE  Served(d)'
<1>1. runs[d] \in Nat
  BY DEF Control, TablesOK
<1>2. CASE d \in overwritten \cup dropped
  BY <1>2 DEF Served, Untouched, Commits, Marks
<1>3. CASE runs[d] > 0
  BY <1>1, <1>3 DEF Served, Untouched, Commits, Marks
<1>4. CASE row[d] = "failure"
  BY <1>1, <1>4 DEF Served, Untouched, Commits, Marks
<1>5. CASE \E m \in Messages : Live(m, d)
  BY <1>5 DEF Served
<1> QED
  BY <1>2, <1>3, <1>4, <1>5 DEF Served

\* What was served stays so, and what is newly marked is served.
LEMMA KeepNext ==
    ASSUME KeepInv, RecordInv',
           \A d \in Automated : Served(d) => Served(d)',
           \A d \in Automated : row'[d] = "dispatched" => row[d] = "dispatched" \/ Served(d)',
           \A d \in Manual : row'[d] = "dispatched" => row[d] = "dispatched",
           \A p \in Processes : \/ dispatcher'[p] = dispatcher[p]
                                \/ dispatcher'[p].at # "mark"
                                \/ \E d \in Automated : dispatcher'[p].job = d /\ Served(d)'
    PROVE  KeepInv'
<1>1. \A p \in Processes : dispatcher[p].at = "mark" => dispatcher[p].job \in Automated
  BY DEF KeepInv, RecordInv, Control, DispatchersOK
<1>2. \A d \in Automated : row'[d] = "dispatched" => Served(d)'
  BY DEF KeepInv, Kept
<1>3. ASSUME NEW p \in Processes, dispatcher'[p].at = "mark"
      PROVE  \E d \in Automated : dispatcher'[p].job = d /\ Served(d)'
  <2>1. dispatcher'[p] = dispatcher[p] => Served(dispatcher[p].job)
    BY <1>3 DEF KeepInv, Kept
  <2>2. CASE dispatcher'[p] = dispatcher[p]
    <3> DEFINE d == dispatcher[p].job
    <3>1. d \in Automated /\ dispatcher'[p].job = d /\ Served(d)
      BY <1>1, <1>3, <2>1, <2>2
    <3> QED
      BY <3>1
  <2> QED
    BY <1>3, <2>2
<1>4. Kept'
  BY <1>2, <1>3 DEF KeepInv, Kept
<1> QED
  BY <1>4 DEF KeepInv

\* The manual path, requests and reconciliation mark nothing as dispatched.
LEMMA OtherKeep ==
    ASSUME KeepInv, RecordInv', SparesAutomated,
           \A d \in Decisions : Untouched(d) \/ Commits(d) \/ (Marks(d) /\ row'[d] = "failure")
    PROVE  KeepInv'
<1>1. \A d \in Decisions, m \in Messages : Live(m, d) => Live(m, d)'
  BY DEF Live, SparesAutomated
<1>2. \A d \in Automated : Served(d) => Served(d)'
  BY <1>1, ServedStays DEF KeepInv, RecordInv, SparesAutomated, Decisions
<1>3. \A d \in Decisions : row'[d] = "dispatched" => row[d] = "dispatched"
  BY DEF Untouched, Commits
<1> QED
  BY <1>2, <1>3, KeepNext DEF SparesAutomated, Decisions

\* What is sent is served by its job; a mark comes after it.
LEMMA DispatchKeep ==
    ASSUME KeepInv, NEW p \in Processes, Dispatch(p)
    PROVE  KeepInv'
<1>1. RecordInv /\ Control
  BY DEF KeepInv, RecordInv
<1>2. RecordInv'
  BY <1>1, DispatchRecord
<1>3. /\ SparesManual
      /\ \A q \in Processes : q # p => dispatcher'[q] = dispatcher[q]
  BY <1>1, DispatchStep
<1>4. CASE /\ UNCHANGED <<msg, dropped>> /\ dispatcher'[p].at = "idle"
           /\ \A e \in Decisions : Untouched(e)
           /\ UNCHANGED row
  <2>1. \A d \in Decisions, m \in Messages : Live(m, d) => Live(m, d)'
    BY <1>4 DEF Live
  <2>2. \A d \in Automated : Served(d) => Served(d)'
    BY <1>1, <1>4, <2>1, ServedStays DEF Decisions
  <2> QED
    BY <1>2, <1>3, <1>4, <2>2, KeepNext
<1>5. CASE /\ \A e \in Decisions : Untouched(e)
           /\ UNCHANGED row
           /\ \E d \in dispatcher[p].todo, k \in Messages :
                 /\ dispatcher'[p].at = "mark" /\ dispatcher'[p].job = d
                 /\ dropped' = dropped \ {d}
                 /\ msg[k].at = "free" /\ msg'[k].at = "buffer" /\ msg'[k].job = d
                 /\ \A m \in Messages : m # k => msg'[m] = msg[m]
  <2>1. PICK d \in dispatcher[p].todo, k \in Messages :
           /\ dispatcher'[p].at = "mark" /\ dispatcher'[p].job = d
           /\ dropped' = dropped \ {d}
           /\ msg[k].at = "free" /\ msg'[k].at = "buffer" /\ msg'[k].job = d
           /\ \A m \in Messages : m # k => msg'[m] = msg[m]
    BY <1>5
  <2>2. Live(k, d)' /\ \A e \in Decisions, m \in Messages : Live(m, e) => Live(m, e)'
    BY <2>1 DEF Live
  <2>3. \A e \in Automated : Served(e) => Served(e)'
    BY <1>1, <1>5, <2>1, <2>2, ServedStays DEF Decisions
  <2>4. Served(d)' /\ d \in Automated
    <3>1. Control'
      BY <1>2 DEF RecordInv
    <3> QED
      BY <2>1, <2>2, <3>1 DEF Served, Control, DispatchersOK
  <2> QED
    BY <1>2, <1>3, <1>5, <2>1, <2>3, <2>4, KeepNext
<1>6. CASE /\ UNCHANGED <<msg, dropped>>
           /\ dispatcher[p].at = "mark" /\ dispatcher'[p].at = "idle"
           /\ dispatcher[p].job \in Automated
           /\ Marks(dispatcher[p].job)
           /\ \A e \in Decisions :
                 /\ e # dispatcher[p].job => Untouched(e)
                 /\ row'[e] = IF e = dispatcher[p].job THEN "dispatched" ELSE row[e]
  <2>1. \A d \in Decisions, m \in Messages : Live(m, d) => Live(m, d)'
    BY <1>6 DEF Live
  <2>2. \A d \in Automated : Served(d) => Served(d)'
    BY <1>1, <1>6, <2>1, ServedStays DEF Decisions
  <2>3. Served(dispatcher[p].job)
    BY <1>6 DEF KeepInv, Kept
  <2>4. \A d \in Automated :
           row'[d] = "dispatched" => row[d] = "dispatched" \/ Served(d)'
    BY <1>6, <2>2, <2>3 DEF Decisions
  <2> QED
    BY <1>2, <1>3, <1>6, <2>2, <2>4, KeepNext DEF SparesManual
<1> QED
  BY <1>1, <1>4, <1>5, <1>6, DispatchStep

\* A message goes only when its decision has an outcome or its copy is sent.
LEMMA WorkKeep ==
    ASSUME KeepInv, NEW m \in Messages, Work(m)
    PROVE  KeepInv'
<1>1. RecordInv /\ Control
  BY DEF KeepInv, RecordInv
<1>2. RecordInv'
  BY <1>1, WorkRecord
<1>3. SparesManual /\ UNCHANGED <<dispatcher, dropped>>
  BY <1>1, PublishStep, DeliverStep, MoveStep, RunStep, GiveUpStep, RetryStep, AckStep DEF Work
<1>4. \A d \in Automated : d \in Decisions
  BY DEF Decisions
<1>5. ASSUME \A d \in Decisions : Untouched(d) \/ Commits(d)
                                 \/ (Marks(d) /\ row'[d] = "failure"),
             \A k \in Messages : k # m => (msg'[k] = msg[k] \/ msg[k].at = "free"),
             \A d \in Decisions : Live(m, d) =>
                \/ \E k \in Messages : Live(k, d)'
                \/ runs'[d] > 0 \/ row'[d] = "failure"
      PROVE  KeepInv'
  <2>1. \A d \in Decisions, k \in Messages : k # m /\ Live(k, d) => Live(k, d)'
    BY <1>5 DEF Live
  <2>2. ASSUME NEW d \in Automated, Served(d) PROVE Served(d)'
    BY <1>1, <1>3, <1>4, <1>5, <2>1, <2>2, ServedStays
  <2>3. \A d \in Decisions : row'[d] = "dispatched" => row[d] = "dispatched"
    BY <1>5 DEF Untouched, Commits
  <2> QED
    BY <1>2, <1>3, <2>2, <2>3, KeepNext DEF Decisions
<1>6. CASE Publish(m)
  <2>1. /\ \A e \in Decisions : Untouched(e)
        /\ msg[m].at = "buffer" /\ msg'[m].at = "queue" /\ msg'[m].job = msg[m].job
        /\ \A k \in Messages : k # m => msg'[k] = msg[k]
    BY <1>1, <1>6, PublishStep
  <2>2. \A d \in Decisions : Live(m, d) => Live(m, d)'
    BY <2>1 DEF Live
  <2> QED
    BY <1>5, <2>1, <2>2
<1>7. ASSUME NEW p \in Processes, Deliver(m, p)
      PROVE  KeepInv'
  <2>1. /\ \A e \in Decisions : Untouched(e) /\ UNCHANGED row
        /\ msg[m].job \in Automated
        /\ \/ row[msg[m].job] = "success"
           \/ /\ msg'[m].job = msg[m].job
              /\ msg'[m].at = IF msg[m].tries >= MaxTries THEN "giveup" ELSE "start"
        /\ \A k \in Messages : k # m => msg'[k] = msg[k]
    BY <1>1, <1>7, DeliverStep
  <2>2. row[msg[m].job] = "success" => runs'[msg[m].job] > 0
    BY <1>4, <2>1 DEF KeepInv, RecordInv, Agreed, Recorded, Justified, Untouched
  <2>3. \A d \in Decisions : Live(m, d) => Live(m, d)' \/ runs'[d] > 0
    BY <2>1, <2>2 DEF Live
  <2> QED
    BY <1>5, <2>1, <2>3
<1>8. CASE StartJob(m) \/ RefuseJob(m) \/ RunJobFails(m) \/ GiveUpFails(m)
  <2>1. /\ \A e \in Decisions : Untouched(e)
        /\ msg'[m].at \in {"run", "retry", "giveup", "stuck"} /\ msg'[m].job = msg[m].job
        /\ \A k \in Messages : k # m => msg'[k] = msg[k]
    BY <1>1, <1>8, MoveStep
  <2>2. \A d \in Decisions : Live(m, d) => Live(m, d)'
    BY <2>1 DEF Live
  <2> QED
    BY <1>5, <2>1, <2>2
<1>9. CASE RunJob(m)
  <2>1. /\ Commits(msg[m].job) /\ msg[m].job \in Automated
        /\ \A e \in Decisions : e # msg[m].job => Untouched(e)
        /\ \A k \in Messages : k # m => msg'[k] = msg[k]
    BY <1>1, <1>9, RunStep
  <2>2. runs[msg[m].job] \in Nat
    BY <1>1, <1>4, <2>1 DEF Control, TablesOK
  <2>3. \A d \in Decisions : Live(m, d) => runs'[d] > 0
    BY <2>1, <2>2 DEF Live, Commits
  <2> QED
    BY <1>5, <2>1, <2>3
<1>10. CASE GiveUp(m)
  <2>1. /\ Marks(msg[m].job) /\ row'[msg[m].job] = "failure"
        /\ \A e \in Decisions : e # msg[m].job => Untouched(e)
        /\ \A k \in Messages : k # m => msg'[k] = msg[k]
    BY <1>1, <1>10, GiveUpStep
  <2>2. \A d \in Decisions : Live(m, d) => row'[d] = "failure"
    BY <2>1 DEF Live
  <2> QED
    BY <1>5, <2>1, <2>2
<1>11. CASE RetryJob(m)
  <2>1. PICK c \in Messages :
           /\ c # m /\ msg[c].at = "free"
           /\ msg'[c].at = "queue" /\ msg'[c].job = msg[m].job
           /\ \A k \in Messages \ {m, c} : msg'[k] = msg[k]
    BY <1>1, <1>11, RetryStep
  <2>2. \A d \in Decisions : Live(m, d) => Live(c, d)'
    BY <2>1 DEF Live
  <2>3. \A e \in Decisions : Untouched(e)
    BY <1>1, <1>11, RetryStep
  <2> QED
    BY <1>5, <2>1, <2>2, <2>3
<1>12. CASE Ack(m)
  <2>1. /\ \A e \in Decisions : Untouched(e)
        /\ msg[m].at = "ack"
        /\ \A k \in Messages : k # m => msg'[k] = msg[k]
    BY <1>1, <1>12, AckStep
  <2> QED
    BY <1>5, <2>1 DEF Live
<1> QED
  BY <1>6, <1>7, <1>8, <1>9, <1>10, <1>11, <1>12 DEF Work

\* Of what a dead process had, a buffered message is lost, and noted.
LEMMA CrashKeep ==
    ASSUME KeepInv, NEW p \in Processes, Crash(p)
    PROVE  KeepInv'
<1>1. RecordInv /\ Control
  BY DEF KeepInv, RecordInv
<1>2. RecordInv'
  BY <1>1, OtherRecord
<1>3. /\ UNCHANGED <<row, decision, runs, overwritten>> /\ dispatcher'[p] = Idle
      /\ \A q \in Processes : q # p => dispatcher'[q] = dispatcher[q]
      /\ \A m \in Messages :
            \/ msg'[m] = msg[m]
            \/ /\ msg[m].owner = p /\ msg[m].at # "buffer" /\ msg'[m].at = "queue"
               /\ msg'[m].job = msg[m].job /\ msg'[m].tries = msg[m].tries
            \/ msg[m].owner = p /\ msg[m].at = "buffer" /\ msg[m].job \in dropped'
      /\ dropped \subseteq dropped'
  BY <1>1, CrashStep
<1>4. \A d \in Decisions : Untouched(d)
  BY <1>3, TablesStay
<1>5. \A d \in Decisions, m \in Messages : Live(m, d) => Live(m, d)' \/ d \in dropped'
  BY <1>3 DEF Live
<1>6. \A d \in Automated : Served(d) => Served(d)'
  BY <1>1, <1>3, <1>4, <1>5, ServedStays DEF Decisions
<1>7. dispatcher'[p].at # "mark"
  BY <1>3 DEF Idle
<1> QED
  BY <1>2, <1>3, <1>6, <1>7, KeepNext

LEMMA NextKeep == ASSUME KeepInv, [Next]_vars PROVE KeepInv'
<1>1. RecordInv /\ Control
  BY DEF KeepInv, RecordInv
<1>2. RecordInv'
  BY <1>1, NextRecord
<1>3. ASSUME NEW d \in Decisions, RecordIntent(d)
      PROVE  KeepInv'
  BY <1>1, <1>2, <1>3, RecordStep, OtherKeep
<1>4. ASSUME NEW r \in Requests,
             (\E d \in Manual : Approve(r, d)) \/ SendCommand(r) \/ LoseRequest(r)
      PROVE  KeepInv'
  BY <1>1, <1>2, <1>4, RequestStep, OtherKeep
<1>5. ASSUME NEW p \in Processes, ConsumeCommands(p)
      PROVE  KeepInv'
  BY <1>1, <1>2, <1>5, ConsumeStep, OtherKeep
<1>6. CASE UNCHANGED vars
  BY <1>1, <1>2, <1>6, StutterStep, OtherKeep DEF SparesAutomated
<1>7. CASE Next
  BY <1>3, <1>4, <1>5, <1>7, DispatchKeep, WorkKeep, CrashKeep DEF Next
<1> QED
  BY <1>6, <1>7

\* No job is lost in the broker or in a worker: what says dispatched and was not
\* executed has a live message, through crashes, retries and failed marks, unless a
\* mark replaced its failure or its last job died unsent.
THEOREM NothingIsLost == Spec => []JobsAreKept
<1>1. Init => KeepInv
  BY InitKeep
<1>2. KeepInv /\ [Next]_vars => KeepInv'
  BY NextKeep
<1>3. KeepInv => JobsAreKept
  <2> SUFFICES ASSUME KeepInv, NEW d \in Decisions, row[d] = "dispatched", runs[d] = 0,
                      d \notin overwritten \cup dropped
               PROVE  \E m \in Messages : msg[m].job = d /\ msg[m].at # "ack"
    BY DEF JobsAreKept
  <2>1. d \in Automated
    BY DEF KeepInv, Kept, Decisions
  <2> QED
    BY <2>1 DEF KeepInv, Kept, Served, Live
<1> QED
  BY <1>1, <1>2, <1>3, PTL DEF Spec

==============================================================================
