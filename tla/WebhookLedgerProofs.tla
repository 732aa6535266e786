------------------------ MODULE WebhookLedgerProofs ------------------------
(***************************************************************************)
(* Proofs about WebhookLedger for any events, requests and bounds.         *)
(***************************************************************************)
EXTENDS WebhookLedger, TLAPS

USE ConstantsAssumption DEF ConstantsAssumption

\* A request has an event from its arrival to its answer, and only a request
\* that is about to answer has "ok" to say.
Working ==
    \A r \in Requests :
        /\ at[r] # "idle" <=> ev[r] # None
        /\ answer[r] = "ok" => at[r] = "answer"
        /\ at[r] \in {"own", "hook"} => holder[ev[r]] = r \/ at[r] = "hook"

\* What is recorded is true, and whoever owns an event may run its handler.
Recorded ==
    \A e \in Events :
        /\ effects[e] \in {0, 1}
        /\ row[e] = "processed" => effects[e] = 1
        /\ row[e] \in {"none", "failed"} => effects[e] = 0
        /\ row[e] = "received" => e \in Uninstalls /\ effects[e] = 1
        /\ row[e] = "failed" => e \notin Uninstalls \cup Unsupported
        /\ row[e] = "ignored" => e \in Unsupported
        /\ holder[e] # None => row[e] \in {"none", "failed"}

\* A request that saw its event fail finds a row wherever it looks.
Waves ==
    \A r \in fell :
        /\ at[r] \in {"exists", "insert", "answer"}
        /\ row[ev[r]] # "none"

\* A request that is still to decide has met the owner of its event, if there
\* is one or has been one that failed.
Meetings ==
    \A r \in Requests :
        at[r] \in {"exists", "insert"}
        /\ (holder[ev[r]] # None \/ row[ev[r]] = "failed") => r \in met

\* A request about to answer 200 has a reason to.
Kept(e) == Landed(e) \/ e \in shadowed \ Uninstalls

Answers == \A r \in Requests : answer[r] = "ok" => Kept(ev[r])

Inv == TypeOK /\ Working /\ Recorded /\ Waves /\ Meetings /\ Answers /\ AckIsKept

LEMMA InitInv == Init => Inv
  BY DEF Init, Inv, TypeOK, Working, Recorded, Waves, Meetings, Answers, AckIsKept, Kept, Landed,
     Status, Labels

LEMMA TypeStep == Inv /\ Next => TypeOK'
<1> SUFFICES ASSUME Inv, Next PROVE TypeOK'
    OBVIOUS
<1> USE DEF Inv
<1>1. ASSUME NEW e \in Events, Emit(e) PROVE TypeOK'
    BY <1>1 DEF Emit, TypeOK, Status, Labels, Working, Undecided, Open, ledger, request,
       outside, history, bounds
<1>2. ASSUME NEW e \in Events, TimeOut(e) PROVE TypeOK'
    BY <1>2 DEF TimeOut, TypeOK, Status, Labels, Working, Undecided, Open, ledger, request,
       outside, history, bounds
<1>3. ASSUME NEW e \in Events, NEW r \in Requests, Send(e, r) PROVE TypeOK'
    BY <1>3 DEF Send, TypeOK, Status, Labels, Working, Undecided, Open, ledger, request,
       outside, history, bounds
<1>4. ASSUME NEW r \in Requests, Reclaim(r) PROVE TypeOK'
    BY <1>4 DEF Reclaim, Own, Retryable, TypeOK, Status, Labels, Working, Undecided, Open,
       ledger, request, outside, history, bounds
<1>5. ASSUME NEW r \in Requests, SkipReclaim(r) PROVE TypeOK'
    BY <1>5 DEF SkipReclaim, Retryable, TypeOK, Status, Labels, Working, Undecided, Open,
       ledger, request, outside, history, bounds
<1>6. ASSUME NEW r \in Requests, FindRow(r) PROVE TypeOK'
    BY <1>6 DEF FindRow, Duplicate, TypeOK, Status, Labels, Working, Undecided, Open,
       ledger, request, outside, history, bounds
<1>7. ASSUME NEW r \in Requests, FindNoRow(r) PROVE TypeOK'
    BY <1>7 DEF FindNoRow, TypeOK, Status, Labels, Working, Undecided, Open, ledger,
       request, outside, history, bounds
<1>8. ASSUME NEW r \in Requests, Insert(r) PROVE TypeOK'
    BY <1>8 DEF Insert, Own, TypeOK, Status, Labels, Working, Undecided, Open, ledger,
       request, outside, history, bounds
<1>9. ASSUME NEW r \in Requests, Conflict(r) PROVE TypeOK'
    BY <1>9 DEF Conflict, Duplicate, TypeOK, Status, Labels, Working, Undecided, Open,
       ledger, request, outside, history, bounds
<1>10. ASSUME NEW r \in Requests, LockTimeout(r) PROVE TypeOK'
    BY <1>10 DEF LockTimeout, TypeOK, Status, Labels, Working, Undecided, Open, ledger,
       request, outside, history, bounds
<1>11. ASSUME NEW r \in Requests, Succeed(r) PROVE TypeOK'
    BY <1>11 DEF Succeed, Close, Marked, TypeOK, Status, Labels, Working, Undecided, Open,
       ledger, request, outside, history, bounds
<1>12. ASSUME NEW r \in Requests, Fail(r) PROVE TypeOK'
    BY <1>12 DEF Fail, Close, Refuses, TypeOK, Status, Labels, Working, Undecided, Open,
       ledger, request, outside, history, bounds
<1>13. ASSUME NEW r \in Requests, RollBack(r) PROVE TypeOK'
    BY <1>13 DEF RollBack, Close, Refuses, TypeOK, Status, Labels, Working, Undecided, Open,
       ledger, request, outside, history, bounds
<1>14. ASSUME NEW r \in Requests, Ignore(r) PROVE TypeOK'
    BY <1>14 DEF Ignore, Close, TypeOK, Status, Labels, Working, Undecided, Open, ledger,
       request, outside, history, bounds
<1>15. ASSUME NEW r \in Requests, Recover(r) PROVE TypeOK'
    BY <1>15 DEF Recover, TypeOK, Status, Labels, Working, Undecided, Open, ledger, request,
       outside, history, bounds
<1>16. ASSUME NEW r \in Requests, RecoverFails(r) PROVE TypeOK'
    BY <1>16 DEF RecoverFails, TypeOK, Status, Labels, Working, Undecided, Open, ledger,
       request, outside, history, bounds
<1>17. ASSUME NEW r \in Requests, Answer(r) PROVE TypeOK'
    BY <1>17 DEF Answer, End, TypeOK, Status, Labels, Working, Undecided, Open, ledger,
       request, outside, history, bounds
<1>18. ASSUME NEW r \in Requests, Crash(r) PROVE TypeOK'
    BY <1>18 DEF Crash, End, TypeOK, Status, Labels, Working, Undecided, Open, ledger,
       request, outside, history, bounds
<1> QED
    BY <1>1, <1>2, <1>3, <1>4, <1>5, <1>6, <1>7, <1>8, <1>9, <1>10, <1>11, <1>12, <1>13, <1>14,
         <1>15, <1>16, <1>17, <1>18 DEF Next, Handle

LEMMA WorkingStep == Inv /\ Next => Working'
<1> SUFFICES ASSUME Inv, Next PROVE Working'
    OBVIOUS
<1> USE DEF Inv
<1>1. ASSUME NEW e \in Events, Emit(e) PROVE Working'
    BY <1>1 DEF Emit, Working, TypeOK, ledger, request, outside, history, bounds
<1>2. ASSUME NEW e \in Events, TimeOut(e) PROVE Working'
    BY <1>2 DEF TimeOut, Working, TypeOK, ledger, request, outside, history, bounds
<1>3. ASSUME NEW e \in Events, NEW r \in Requests, Send(e, r) PROVE Working'
    BY <1>3 DEF Send, Working, TypeOK, ledger, request, outside, history, bounds
<1>4. ASSUME NEW r \in Requests, Reclaim(r) PROVE Working'
    BY <1>4 DEF Reclaim, Own, Retryable, Working, TypeOK, ledger, request, outside, history,
       bounds
<1>5. ASSUME NEW r \in Requests, SkipReclaim(r) PROVE Working'
    BY <1>5 DEF SkipReclaim, Retryable, Working, TypeOK, ledger, request, outside, history,
       bounds
<1>6. ASSUME NEW r \in Requests, FindRow(r) PROVE Working'
    BY <1>6 DEF FindRow, Duplicate, Working, TypeOK, ledger, request, outside, history,
       bounds
<1>7. ASSUME NEW r \in Requests, FindNoRow(r) PROVE Working'
    BY <1>7 DEF FindNoRow, Working, TypeOK, ledger, request, outside, history, bounds
<1>8. ASSUME NEW r \in Requests, Insert(r) PROVE Working'
    BY <1>8 DEF Insert, Own, Working, TypeOK, ledger, request, outside, history, bounds
<1>9. ASSUME NEW r \in Requests, Conflict(r) PROVE Working'
    BY <1>9 DEF Conflict, Duplicate, Working, TypeOK, ledger, request, outside, history,
       bounds
<1>10. ASSUME NEW r \in Requests, LockTimeout(r) PROVE Working'
    BY <1>10 DEF LockTimeout, Working, TypeOK, ledger, request, outside, history, bounds
<1>11. ASSUME NEW r \in Requests, Succeed(r) PROVE Working'
    BY <1>11 DEF Succeed, Close, Marked, Working, TypeOK, ledger, request, outside, history,
       bounds
<1>12. ASSUME NEW r \in Requests, Fail(r) PROVE Working'
    BY <1>12 DEF Fail, Close, Refuses, Working, TypeOK, ledger, request, outside, history,
       bounds
<1>13. ASSUME NEW r \in Requests, RollBack(r) PROVE Working'
    BY <1>13 DEF RollBack, Close, Refuses, Working, TypeOK, ledger, request, outside,
       history, bounds
<1>14. ASSUME NEW r \in Requests, Ignore(r) PROVE Working'
    BY <1>14 DEF Ignore, Close, Working, TypeOK, ledger, request, outside, history, bounds
<1>15. ASSUME NEW r \in Requests, Recover(r) PROVE Working'
    BY <1>15 DEF Recover, Working, TypeOK, ledger, request, outside, history, bounds
<1>16. ASSUME NEW r \in Requests, RecoverFails(r) PROVE Working'
    BY <1>16 DEF RecoverFails, Working, TypeOK, ledger, request, outside, history, bounds
<1>17. ASSUME NEW r \in Requests, Answer(r) PROVE Working'
    BY <1>17 DEF Answer, End, Working, TypeOK, ledger, request, outside, history, bounds
<1>18. ASSUME NEW r \in Requests, Crash(r) PROVE Working'
    BY <1>18 DEF Crash, End, Working, TypeOK, ledger, request, outside, history, bounds
<1> QED
    BY <1>1, <1>2, <1>3, <1>4, <1>5, <1>6, <1>7, <1>8, <1>9, <1>10, <1>11, <1>12, <1>13, <1>14,
         <1>15, <1>16, <1>17, <1>18 DEF Next, Handle

LEMMA RecordedStep == Inv /\ Next => Recorded'
<1> SUFFICES ASSUME Inv, Next PROVE Recorded'
    OBVIOUS
<1> USE DEF Inv
<1>1. ASSUME NEW e \in Events, Emit(e) PROVE Recorded'
    BY <1>1 DEF Emit, Recorded, TypeOK, Working, ledger, request, outside, history, bounds
<1>2. ASSUME NEW e \in Events, TimeOut(e) PROVE Recorded'
    BY <1>2 DEF TimeOut, Recorded, TypeOK, Working, ledger, request, outside, history,
       bounds
<1>3. ASSUME NEW e \in Events, NEW r \in Requests, Send(e, r) PROVE Recorded'
    BY <1>3 DEF Send, Recorded, TypeOK, Working, ledger, request, outside, history, bounds
<1>4. ASSUME NEW r \in Requests, Reclaim(r) PROVE Recorded'
    BY <1>4 DEF Reclaim, Own, Retryable, Recorded, TypeOK, Working, ledger, request,
       outside, history, bounds
<1>5. ASSUME NEW r \in Requests, SkipReclaim(r) PROVE Recorded'
    BY <1>5 DEF SkipReclaim, Retryable, Recorded, TypeOK, Working, ledger, request, outside,
       history, bounds
<1>6. ASSUME NEW r \in Requests, FindRow(r) PROVE Recorded'
    BY <1>6 DEF FindRow, Duplicate, Recorded, TypeOK, Working, ledger, request, outside,
       history, bounds
<1>7. ASSUME NEW r \in Requests, FindNoRow(r) PROVE Recorded'
    BY <1>7 DEF FindNoRow, Recorded, TypeOK, Working, ledger, request, outside, history,
       bounds
<1>8. ASSUME NEW r \in Requests, Insert(r) PROVE Recorded'
    BY <1>8 DEF Insert, Own, Recorded, TypeOK, Working, ledger, request, outside, history,
       bounds
<1>9. ASSUME NEW r \in Requests, Conflict(r) PROVE Recorded'
    BY <1>9 DEF Conflict, Duplicate, Recorded, TypeOK, Working, ledger, request, outside,
       history, bounds
<1>10. ASSUME NEW r \in Requests, LockTimeout(r) PROVE Recorded'
    BY <1>10 DEF LockTimeout, Recorded, TypeOK, Working, ledger, request, outside, history,
       bounds
<1>11. ASSUME NEW r \in Requests, Succeed(r) PROVE Recorded'
    BY <1>11 DEF Succeed, Close, Marked, Recorded, TypeOK, Working, ledger, request,
       outside, history, bounds
<1>12. ASSUME NEW r \in Requests, Fail(r) PROVE Recorded'
    BY <1>12 DEF Fail, Close, Refuses, Recorded, TypeOK, Working, ledger, request, outside,
       history, bounds
<1>13. ASSUME NEW r \in Requests, RollBack(r) PROVE Recorded'
    BY <1>13 DEF RollBack, Close, Refuses, Recorded, TypeOK, Working, ledger, request,
       outside, history, bounds
<1>14. ASSUME NEW r \in Requests, Ignore(r) PROVE Recorded'
    BY <1>14 DEF Ignore, Close, Recorded, TypeOK, Working, ledger, request, outside,
       history, bounds
<1>15. ASSUME NEW r \in Requests, Recover(r) PROVE Recorded'
    BY <1>15 DEF Recover, Recorded, TypeOK, Working, ledger, request, outside, history,
       bounds
<1>16. ASSUME NEW r \in Requests, RecoverFails(r) PROVE Recorded'
    BY <1>16 DEF RecoverFails, Recorded, TypeOK, Working, ledger, request, outside, history,
       bounds
<1>17. ASSUME NEW r \in Requests, Answer(r) PROVE Recorded'
    BY <1>17 DEF Answer, End, Recorded, TypeOK, Working, ledger, request, outside, history,
       bounds
<1>18. ASSUME NEW r \in Requests, Crash(r) PROVE Recorded'
    BY <1>18 DEF Crash, End, Recorded, TypeOK, Working, ledger, request, outside, history,
       bounds
<1> QED
    BY <1>1, <1>2, <1>3, <1>4, <1>5, <1>6, <1>7, <1>8, <1>9, <1>10, <1>11, <1>12, <1>13, <1>14,
         <1>15, <1>16, <1>17, <1>18 DEF Next, Handle

LEMMA WavesStep == Inv /\ Next => Waves'
<1> SUFFICES ASSUME Inv, Next PROVE Waves'
    OBVIOUS
<1> USE DEF Inv
<1>1. ASSUME NEW e \in Events, Emit(e) PROVE Waves'
    BY <1>1 DEF Emit, Waves, TypeOK, Working, Recorded, Undecided, Open, ledger, request,
       outside, history, bounds
<1>2. ASSUME NEW e \in Events, TimeOut(e) PROVE Waves'
    BY <1>2 DEF TimeOut, Waves, TypeOK, Working, Recorded, Undecided, Open, ledger, request,
       outside, history, bounds
<1>3. ASSUME NEW e \in Events, NEW r \in Requests, Send(e, r) PROVE Waves'
    BY <1>3 DEF Send, Waves, TypeOK, Working, Recorded, Undecided, Open, ledger, request,
       outside, history, bounds
<1>4. ASSUME NEW r \in Requests, Reclaim(r) PROVE Waves'
    BY <1>4 DEF Reclaim, Own, Retryable, Waves, TypeOK, Working, Recorded, Undecided, Open,
       ledger, request, outside, history, bounds
<1>5. ASSUME NEW r \in Requests, SkipReclaim(r) PROVE Waves'
    BY <1>5 DEF SkipReclaim, Retryable, Waves, TypeOK, Working, Recorded, Undecided, Open,
       ledger, request, outside, history, bounds
<1>6. ASSUME NEW r \in Requests, FindRow(r) PROVE Waves'
    BY <1>6 DEF FindRow, Duplicate, Waves, TypeOK, Working, Recorded, Undecided, Open,
       ledger, request, outside, history, bounds
<1>7. ASSUME NEW r \in Requests, FindNoRow(r) PROVE Waves'
    BY <1>7 DEF FindNoRow, Waves, TypeOK, Working, Recorded, Undecided, Open, ledger,
       request, outside, history, bounds
<1>8. ASSUME NEW r \in Requests, Insert(r) PROVE Waves'
    BY <1>8 DEF Insert, Own, Waves, TypeOK, Working, Recorded, Undecided, Open, ledger,
       request, outside, history, bounds
<1>9. ASSUME NEW r \in Requests, Conflict(r) PROVE Waves'
    BY <1>9 DEF Conflict, Duplicate, Waves, TypeOK, Working, Recorded, Undecided, Open,
       ledger, request, outside, history, bounds
<1>10. ASSUME NEW r \in Requests, LockTimeout(r) PROVE Waves'
    BY <1>10 DEF LockTimeout, Waves, TypeOK, Working, Recorded, Undecided, Open, ledger,
       request, outside, history, bounds
<1>11. ASSUME NEW r \in Requests, Succeed(r) PROVE Waves'
    BY <1>11 DEF Succeed, Close, Marked, Waves, TypeOK, Working, Recorded, Undecided, Open,
       ledger, request, outside, history, bounds
<1>12. ASSUME NEW r \in Requests, Fail(r) PROVE Waves'
    BY <1>12 DEF Fail, Close, Refuses, Waves, TypeOK, Working, Recorded, Undecided, Open,
       ledger, request, outside, history, bounds
<1>13. ASSUME NEW r \in Requests, RollBack(r) PROVE Waves'
    BY <1>13 DEF RollBack, Close, Refuses, Waves, TypeOK, Working, Recorded, Undecided,
       Open, ledger, request, outside, history, bounds
<1>14. ASSUME NEW r \in Requests, Ignore(r) PROVE Waves'
    BY <1>14 DEF Ignore, Close, Waves, TypeOK, Working, Recorded, Undecided, Open, ledger,
       request, outside, history, bounds
<1>15. ASSUME NEW r \in Requests, Recover(r) PROVE Waves'
    BY <1>15 DEF Recover, Waves, TypeOK, Working, Recorded, Undecided, Open, ledger,
       request, outside, history, bounds
<1>16. ASSUME NEW r \in Requests, RecoverFails(r) PROVE Waves'
    BY <1>16 DEF RecoverFails, Waves, TypeOK, Working, Recorded, Undecided, Open, ledger,
       request, outside, history, bounds
<1>17. ASSUME NEW r \in Requests, Answer(r) PROVE Waves'
    BY <1>17 DEF Answer, End, Waves, TypeOK, Working, Recorded, Undecided, Open, ledger,
       request, outside, history, bounds
<1>18. ASSUME NEW r \in Requests, Crash(r) PROVE Waves'
    BY <1>18 DEF Crash, End, Waves, TypeOK, Working, Recorded, Undecided, Open, ledger,
       request, outside, history, bounds
<1> QED
    BY <1>1, <1>2, <1>3, <1>4, <1>5, <1>6, <1>7, <1>8, <1>9, <1>10, <1>11, <1>12, <1>13, <1>14,
         <1>15, <1>16, <1>17, <1>18 DEF Next, Handle

LEMMA MeetingsStep == Inv /\ Next => Meetings'
<1> SUFFICES ASSUME Inv, Next PROVE Meetings'
    OBVIOUS
<1> USE DEF Inv
<1>1. ASSUME NEW e \in Events, Emit(e) PROVE Meetings'
    BY <1>1 DEF Emit, Meetings, TypeOK, Working, Recorded, Undecided, Open, ledger, request,
       outside, history, bounds
<1>2. ASSUME NEW e \in Events, TimeOut(e) PROVE Meetings'
    BY <1>2 DEF TimeOut, Meetings, TypeOK, Working, Recorded, Undecided, Open, ledger,
       request, outside, history, bounds
<1>3. ASSUME NEW e \in Events, NEW r \in Requests, Send(e, r) PROVE Meetings'
    BY <1>3 DEF Send, Meetings, TypeOK, Working, Recorded, Undecided, Open, ledger, request,
       outside, history, bounds
<1>4. ASSUME NEW r \in Requests, Reclaim(r) PROVE Meetings'
    BY <1>4 DEF Reclaim, Own, Retryable, Meetings, TypeOK, Working, Recorded, Undecided,
       Open, ledger, request, outside, history, bounds
<1>5. ASSUME NEW r \in Requests, SkipReclaim(r) PROVE Meetings'
    BY <1>5 DEF SkipReclaim, Retryable, Meetings, TypeOK, Working, Recorded, Undecided,
       Open, ledger, request, outside, history, bounds
<1>6. ASSUME NEW r \in Requests, FindRow(r) PROVE Meetings'
    BY <1>6 DEF FindRow, Duplicate, Meetings, TypeOK, Working, Recorded, Undecided, Open,
       ledger, request, outside, history, bounds
<1>7. ASSUME NEW r \in Requests, FindNoRow(r) PROVE Meetings'
    BY <1>7 DEF FindNoRow, Meetings, TypeOK, Working, Recorded, Undecided, Open, ledger,
       request, outside, history, bounds
<1>8. ASSUME NEW r \in Requests, Insert(r) PROVE Meetings'
    BY <1>8 DEF Insert, Own, Meetings, TypeOK, Working, Recorded, Undecided, Open, ledger,
       request, outside, history, bounds
<1>9. ASSUME NEW r \in Requests, Conflict(r) PROVE Meetings'
    BY <1>9 DEF Conflict, Duplicate, Meetings, TypeOK, Working, Recorded, Undecided, Open,
       ledger, request, outside, history, bounds
<1>10. ASSUME NEW r \in Requests, LockTimeout(r) PROVE Meetings'
    BY <1>10 DEF LockTimeout, Meetings, TypeOK, Working, Recorded, Undecided, Open, ledger,
       request, outside, history, bounds
<1>11. ASSUME NEW r \in Requests, Succeed(r) PROVE Meetings'
    BY <1>11 DEF Succeed, Close, Marked, Meetings, TypeOK, Working, Recorded, Undecided,
       Open, ledger, request, outside, history, bounds
<1>12. ASSUME NEW r \in Requests, Fail(r) PROVE Meetings'
    BY <1>12 DEF Fail, Close, Refuses, Meetings, TypeOK, Working, Recorded, Undecided, Open,
       ledger, request, outside, history, bounds
<1>13. ASSUME NEW r \in Requests, RollBack(r) PROVE Meetings'
    BY <1>13 DEF RollBack, Close, Refuses, Meetings, TypeOK, Working, Recorded, Undecided,
       Open, ledger, request, outside, history, bounds
<1>14. ASSUME NEW r \in Requests, Ignore(r) PROVE Meetings'
    BY <1>14 DEF Ignore, Close, Meetings, TypeOK, Working, Recorded, Undecided, Open,
       ledger, request, outside, history, bounds
<1>15. ASSUME NEW r \in Requests, Recover(r) PROVE Meetings'
    BY <1>15 DEF Recover, Meetings, TypeOK, Working, Recorded, Undecided, Open, ledger,
       request, outside, history, bounds
<1>16. ASSUME NEW r \in Requests, RecoverFails(r) PROVE Meetings'
    BY <1>16 DEF RecoverFails, Meetings, TypeOK, Working, Recorded, Undecided, Open, ledger,
       request, outside, history, bounds
<1>17. ASSUME NEW r \in Requests, Answer(r) PROVE Meetings'
    BY <1>17 DEF Answer, End, Meetings, TypeOK, Working, Recorded, Undecided, Open, ledger,
       request, outside, history, bounds
<1>18. ASSUME NEW r \in Requests, Crash(r) PROVE Meetings'
    BY <1>18 DEF Crash, End, Meetings, TypeOK, Working, Recorded, Undecided, Open, ledger,
       request, outside, history, bounds
<1> QED
    BY <1>1, <1>2, <1>3, <1>4, <1>5, <1>6, <1>7, <1>8, <1>9, <1>10, <1>11, <1>12, <1>13, <1>14,
         <1>15, <1>16, <1>17, <1>18 DEF Next, Handle

\* A duplicate that finds a row finds one that has landed, or it has met the
\* owner of an event that is no uninstallation.
LEMMA DuplicatesAreKept ==
    ASSUME Inv, NEW r \in Requests, at[r] \in {"exists", "insert"},
           row[ev[r]] # "none", Duplicate(r)
    PROVE  Answers'
<1>1. ev[r] \in Events /\ row[ev[r]] \in Status /\ effects' = effects /\ row' = row
    BY DEF Inv, TypeOK, Working, Duplicate, ledger
<1>0. ev' = ev
    BY DEF Duplicate
<1>2. ASSUME row[ev[r]] = "failed" PROVE Kept(ev[r])'
  <2>1. r \in met /\ ev[r] \notin Uninstalls
      BY <1>1, <1>2 DEF Inv, Meetings, Recorded
  <2> QED
      BY <2>1, <1>1, <1>0 DEF Duplicate, Kept
<1>3. ASSUME row[ev[r]] \in {"processed", "received", "ignored"} PROVE Kept(ev[r])'
    BY <1>1, <1>3, <1>0 DEF Inv, Recorded, Kept, Landed
<1>4. Kept(ev[r])'
    BY <1>1, <1>2, <1>3 DEF Status
<1>5. ASSUME NEW q \in Requests, q # r, answer'[q] = "ok" PROVE Kept(ev[q])'
  <2>1. Kept(ev[q])
      BY <1>5 DEF Inv, TypeOK, Answers, Duplicate
  <2> QED
      BY <2>1, <1>1, <1>0 DEF Duplicate, Kept, Landed
<1> QED
    BY <1>4, <1>5 DEF Answers

LEMMA AnswersStep == Inv /\ Next => Answers'
<1> SUFFICES ASSUME Inv, Next PROVE Answers'
    OBVIOUS
<1> USE DEF Inv
<1>1. ASSUME NEW e \in Events, Emit(e) PROVE Answers'
    BY <1>1 DEF Emit, Answers, Kept, Landed, TypeOK, Working, Recorded, Waves, Meetings,
       ledger, request, outside, history, bounds
<1>2. ASSUME NEW e \in Events, TimeOut(e) PROVE Answers'
    BY <1>2 DEF TimeOut, Answers, Kept, Landed, TypeOK, Working, Recorded, Waves, Meetings,
       ledger, request, outside, history, bounds
<1>3. ASSUME NEW e \in Events, NEW r \in Requests, Send(e, r) PROVE Answers'
    BY <1>3 DEF Send, Answers, Kept, Landed, TypeOK, Working, Recorded, Waves, Meetings,
       ledger, request, outside, history, bounds
<1>4. ASSUME NEW r \in Requests, Reclaim(r) PROVE Answers'
    BY <1>4 DEF Reclaim, Own, Retryable, Answers, Kept, Landed, TypeOK, Working, Recorded,
       Waves, Meetings, ledger, request, outside, history, bounds
<1>5. ASSUME NEW r \in Requests, SkipReclaim(r) PROVE Answers'
    BY <1>5 DEF SkipReclaim, Retryable, Answers, Kept, Landed, TypeOK, Working, Recorded,
       Waves, Meetings, ledger, request, outside, history, bounds
<1>6. ASSUME NEW r \in Requests, FindRow(r) PROVE Answers'
    BY <1>6, DuplicatesAreKept DEF FindRow
<1>7. ASSUME NEW r \in Requests, FindNoRow(r) PROVE Answers'
    BY <1>7 DEF FindNoRow, Answers, Kept, Landed, TypeOK, Working, Recorded, Waves,
       Meetings, ledger, request, outside, history, bounds
<1>8. ASSUME NEW r \in Requests, Insert(r) PROVE Answers'
    BY <1>8 DEF Insert, Own, Answers, Kept, Landed, TypeOK, Working, Recorded, Waves,
       Meetings, ledger, request, outside, history, bounds
<1>9. ASSUME NEW r \in Requests, Conflict(r) PROVE Answers'
    BY <1>9, DuplicatesAreKept DEF Conflict
<1>10. ASSUME NEW r \in Requests, LockTimeout(r) PROVE Answers'
    BY <1>10 DEF LockTimeout, Answers, Kept, Landed, TypeOK, Working, Recorded, Waves,
       Meetings, ledger, request, outside, history, bounds
<1>11. ASSUME NEW r \in Requests, Succeed(r) PROVE Answers'
    BY <1>11 DEF Succeed, Close, Marked, Answers, Kept, Landed, TypeOK, Working, Recorded,
       Waves, Meetings, ledger, request, outside, history, bounds
<1>12. ASSUME NEW r \in Requests, Fail(r) PROVE Answers'
    BY <1>12 DEF Fail, Close, Refuses, Answers, Kept, Landed, TypeOK, Working, Recorded,
       Waves, Meetings, ledger, request, outside, history, bounds
<1>13. ASSUME NEW r \in Requests, RollBack(r) PROVE Answers'
    BY <1>13 DEF RollBack, Close, Refuses, Answers, Kept, Landed, TypeOK, Working, Recorded,
       Waves, Meetings, ledger, request, outside, history, bounds
<1>14. ASSUME NEW r \in Requests, Ignore(r) PROVE Answers'
    BY <1>14 DEF Ignore, Close, Answers, Kept, Landed, TypeOK, Working, Recorded, Waves,
       Meetings, ledger, request, outside, history, bounds
<1>15. ASSUME NEW r \in Requests, Recover(r) PROVE Answers'
    BY <1>15 DEF Recover, Answers, Kept, Landed, TypeOK, Working, Recorded, Waves, Meetings,
       ledger, request, outside, history, bounds
<1>16. ASSUME NEW r \in Requests, RecoverFails(r) PROVE Answers'
    BY <1>16 DEF RecoverFails, Answers, Kept, Landed, TypeOK, Working, Recorded, Waves,
       Meetings, ledger, request, outside, history, bounds
<1>17. ASSUME NEW r \in Requests, Answer(r) PROVE Answers'
    BY <1>17 DEF Answer, End, Answers, Kept, Landed, TypeOK, Working, Recorded, Waves,
       Meetings, ledger, request, outside, history, bounds
<1>18. ASSUME NEW r \in Requests, Crash(r) PROVE Answers'
    BY <1>18 DEF Crash, End, Answers, Kept, Landed, TypeOK, Working, Recorded, Waves,
       Meetings, ledger, request, outside, history, bounds
<1> QED
    BY <1>1, <1>2, <1>3, <1>4, <1>5, <1>6, <1>7, <1>8, <1>9, <1>10, <1>11, <1>12, <1>13, <1>14,
         <1>15, <1>16, <1>17, <1>18 DEF Next, Handle

LEMMA AckStep == Inv /\ Next => AckIsKept'
<1> SUFFICES ASSUME Inv, Next PROVE AckIsKept'
    OBVIOUS
<1> USE DEF Inv
<1>1. ASSUME NEW e \in Events, Emit(e) PROVE AckIsKept'
    BY <1>1 DEF Emit, AckIsKept, Kept, Landed, TypeOK, Working, Recorded, Waves, Meetings,
       Answers, ledger, request, outside, history, bounds
<1>2. ASSUME NEW e \in Events, TimeOut(e) PROVE AckIsKept'
    BY <1>2 DEF TimeOut, AckIsKept, Kept, Landed, TypeOK, Working, Recorded, Waves,
       Meetings, Answers, ledger, request, outside, history, bounds
<1>3. ASSUME NEW e \in Events, NEW r \in Requests, Send(e, r) PROVE AckIsKept'
    BY <1>3 DEF Send, AckIsKept, Kept, Landed, TypeOK, Working, Recorded, Waves, Meetings,
       Answers, ledger, request, outside, history, bounds
<1>4. ASSUME NEW r \in Requests, Reclaim(r) PROVE AckIsKept'
    BY <1>4 DEF Reclaim, Own, Retryable, AckIsKept, Kept, Landed, TypeOK, Working, Recorded,
       Waves, Meetings, Answers, ledger, request, outside, history, bounds
<1>5. ASSUME NEW r \in Requests, SkipReclaim(r) PROVE AckIsKept'
    BY <1>5 DEF SkipReclaim, Retryable, AckIsKept, Kept, Landed, TypeOK, Working, Recorded,
       Waves, Meetings, Answers, ledger, request, outside, history, bounds
<1>6. ASSUME NEW r \in Requests, FindRow(r) PROVE AckIsKept'
    BY <1>6 DEF FindRow, Duplicate, AckIsKept, Kept, Landed, TypeOK, Working, Recorded,
       Waves, Meetings, Answers, ledger, request, outside, history, bounds
<1>7. ASSUME NEW r \in Requests, FindNoRow(r) PROVE AckIsKept'
    BY <1>7 DEF FindNoRow, AckIsKept, Kept, Landed, TypeOK, Working, Recorded, Waves,
       Meetings, Answers, ledger, request, outside, history, bounds
<1>8. ASSUME NEW r \in Requests, Insert(r) PROVE AckIsKept'
    BY <1>8 DEF Insert, Own, AckIsKept, Kept, Landed, TypeOK, Working, Recorded, Waves,
       Meetings, Answers, ledger, request, outside, history, bounds
<1>9. ASSUME NEW r \in Requests, Conflict(r) PROVE AckIsKept'
    BY <1>9 DEF Conflict, Duplicate, AckIsKept, Kept, Landed, TypeOK, Working, Recorded,
       Waves, Meetings, Answers, ledger, request, outside, history, bounds
<1>10. ASSUME NEW r \in Requests, LockTimeout(r) PROVE AckIsKept'
    BY <1>10 DEF LockTimeout, AckIsKept, Kept, Landed, TypeOK, Working, Recorded, Waves,
       Meetings, Answers, ledger, request, outside, history, bounds
<1>11. ASSUME NEW r \in Requests, Succeed(r) PROVE AckIsKept'
    BY <1>11 DEF Succeed, Close, Marked, AckIsKept, Kept, Landed, TypeOK, Working, Recorded,
       Waves, Meetings, Answers, ledger, request, outside, history, bounds
<1>12. ASSUME NEW r \in Requests, Fail(r) PROVE AckIsKept'
    BY <1>12 DEF Fail, Close, Refuses, AckIsKept, Kept, Landed, TypeOK, Working, Recorded,
       Waves, Meetings, Answers, ledger, request, outside, history, bounds
<1>13. ASSUME NEW r \in Requests, RollBack(r) PROVE AckIsKept'
    BY <1>13 DEF RollBack, Close, Refuses, AckIsKept, Kept, Landed, TypeOK, Working,
       Recorded, Waves, Meetings, Answers, ledger, request, outside, history, bounds
<1>14. ASSUME NEW r \in Requests, Ignore(r) PROVE AckIsKept'
    BY <1>14 DEF Ignore, Close, AckIsKept, Kept, Landed, TypeOK, Working, Recorded, Waves,
       Meetings, Answers, ledger, request, outside, history, bounds
<1>15. ASSUME NEW r \in Requests, Recover(r) PROVE AckIsKept'
    BY <1>15 DEF Recover, AckIsKept, Kept, Landed, TypeOK, Working, Recorded, Waves,
       Meetings, Answers, ledger, request, outside, history, bounds
<1>16. ASSUME NEW r \in Requests, RecoverFails(r) PROVE AckIsKept'
    BY <1>16 DEF RecoverFails, AckIsKept, Kept, Landed, TypeOK, Working, Recorded, Waves,
       Meetings, Answers, ledger, request, outside, history, bounds
<1>17. ASSUME NEW r \in Requests, Answer(r) PROVE AckIsKept'
    BY <1>17 DEF Answer, End, AckIsKept, Kept, Landed, TypeOK, Working, Recorded, Waves,
       Meetings, Answers, ledger, request, outside, history, bounds
<1>18. ASSUME NEW r \in Requests, Crash(r) PROVE AckIsKept'
    BY <1>18 DEF Crash, End, AckIsKept, Kept, Landed, TypeOK, Working, Recorded, Waves,
       Meetings, Answers, ledger, request, outside, history, bounds
<1> QED
    BY <1>1, <1>2, <1>3, <1>4, <1>5, <1>6, <1>7, <1>8, <1>9, <1>10, <1>11, <1>12, <1>13, <1>14,
         <1>15, <1>16, <1>17, <1>18 DEF Next, Handle

LEMMA InvHolds == Spec => []Inv
<1>1. Init => Inv
    BY InitInv
<1>2. Inv /\ UNCHANGED vars => Inv'
    BY DEF Inv, TypeOK, Working, Recorded, Waves, Meetings, Answers, AckIsKept, Kept, Landed, vars
<1>3. Inv /\ [Next]_vars => Inv'
    BY <1>2, TypeStep, WorkingStep, RecordedStep, WavesStep, MeetingsStep, AnswersStep,
         AckStep DEF Inv
<1> QED
    BY <1>1, <1>3, PTL DEF Spec

\* Types, and that a row is held by the request that owns its event, in every
\* reachable state.
THEOREM TypeCorrect == Spec => []TypeOK
<1>1. Inv => TypeOK
    BY DEF Inv
<1> QED
    BY <1>1, InvHolds, PTL

\* No handler takes effect twice (the claim of recordReceived).
THEOREM EffectsAreOnce == Spec => []EffectOnce
<1>1. Inv => EffectOnce
    BY DEF Inv, Recorded, EffectOnce
<1> QED
    BY <1>1, InvHolds, PTL

\* The ledger never says of an event what did not happen to it (the marks and
\* the effect are committed together).
THEOREM LedgerTells == Spec => []LedgerIsTrue
<1>1. Inv => LedgerIsTrue
    BY DEF Inv, Recorded, LedgerIsTrue
<1> QED
    BY <1>1, InvHolds, PTL

\* No delivery becomes an owner behind an owner that failed while it was open
\* (SKIP LOCKED, and a conflict that is final).
THEOREM WavesHaveOneOwner == Spec => []OneOwnerPerWave
<1>1. Inv => OneOwnerPerWave
    BY DEF Inv, Waves, OneOwnerPerWave
<1> QED
    BY <1>1, InvHolds, PTL

\* A provider is told 200 of an event that has landed, or beside an owner, and
\* of an uninstallation only when it has landed.
THEOREM AcksAreKept == Spec => []AckIsKept
<1>1. Inv => AckIsKept
    BY DEF Inv
<1> QED
    BY <1>1, InvHolds, PTL
=============================================================================
