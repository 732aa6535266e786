------------------------ MODULE OpeningCutoverProofs ------------------------
(***************************************************************************)
(* Proofs about OpeningCutover, for any number of slots, quantities,       *)
(* requests, generations and troubles: its types, that nothing is sent     *)
(* again, and that the cutover ends with what is true.                     *)
(*                                                                         *)
(* The inductive invariant ties what a request has read to what is stored: *)
(* a batch that its plan has as done is done, what it has read at the      *)
(* target Shopify has been at, and a generation that another follows is    *)
(* over.                                                                   *)
(***************************************************************************)
EXTENDS OpeningCutover, TLAPS, WellFoundedInduction

Done == {"none", "succeeded"}

\* Where a request has an execution, and where it has read its batches.
Early == {"idle", "reserve", "collect"}
Planned == {"plan", "drift", "dispatch", "call", "record", "recover", "inspect", "mark"}
Sending == {"dispatch", "call", "record", "recover", "inspect"}

\* A request that claims has a generation, and one that executes an execution.
Numbered == \A p \in Requests :
    /\ at[p] \notin Early => gen[p] # 0
    /\ at[p] \in Planned \cup {"read"} => status[gen[p]] # "none"

\* What was sent is of a generation that there is.
Known == \A g \in Generations, s \in Slots : mutation[g][s] # "none" => g <= Latest

\* A mutation was sent after its intent was committed.
Sent == \A g \in Generations, s \in Slots :
    mutation[g][s] # "none" => batch[g][s] \notin {"none", "pending"}

\* Without an execution there are no batches.
Fresh == \A g \in Generations :
    status[g] = "none" => \A s \in Slots : batch[g][s] = "none"

\* A generation is followed by another when it is over, and not before.
Replaced ==
    /\ \A g \in Generations : g < Latest => status[g] = "requires_regeneration"
    /\ \A p \in Requests : at[p] = "collect" /\ gen[p] = Latest => Regenerate

\* What a plan has as done is done, and who sends has something to send.
PlansHold == \A p \in Requests :
    /\ at[p] \in Planned =>
           \A s \in Slots : plan[p][s] \in Done => batch[gen[p]][s] \in Done
    /\ at[p] \in Sending => Todo(p) # {}
    /\ at[p] = "record" => answer[p] # "none"

\* What a request has read at the target, Shopify has been at.
ViewsHold == \A p \in Requests :
    /\ at[p] \notin {"collect", "inspect", "verify"} => view[p] = <<>>
    /\ at[p] \in {"inspect", "verify"} /\ gen[p] = Latest =>
           \A s \in 1 .. Len(view[p]) : AtTarget(p, s) => s \in reached

\* Shopify has been at what it has now.
ReachedNow == Latest > 0 =>
    \A s \in Slots : remote[s] = target[Latest][s] => s \in reached

Control == TypeOK /\ Numbered /\ Known
Inv == Control /\ Sent /\ Fresh /\ Replaced /\ PlansHold /\ ViewsHold /\ ReachedNow

\* The three parts of the types: the world, the executions and the requests.
OutsideType ==
    /\ local \in [Slots -> Quantities] /\ remote \in [Slots -> Quantities]
    /\ target \in Seq([Slots -> Quantities]) /\ Len(target) <= MaxGenerations
    /\ from \in Seq([Slots -> Quantities]) /\ Len(from) = Len(target)
    /\ mutation \in [Generations ->
                        [Slots -> {"none", "flight", "applied", "refused", "lost"}]]
    /\ reached \subseteq Slots
    /\ troubles \in 0 .. MaxTroubles

\* A lease is there exactly while there is work for it.
LeaseType ==
    /\ status \in [Generations -> Status]
    /\ holder \in [Generations -> Requests \cup {None}]
    /\ live \subseteq {g \in Generations : holder[g] # None}
    /\ \A g \in Generations :
           holder[g] # None <=> status[g] \in {"executing", "verifying"}

ExecutionType ==
    /\ LeaseType
    /\ batch \in [Generations -> [Slots -> BatchStatus]]
    /\ collecting \in [Generations -> Requests \cup {None}]
    /\ mark \in BOOLEAN

RequestType ==
    /\ at \in [Requests -> Labels]
    /\ gen \in [Requests -> 0 .. Latest]
    /\ plan \in [Requests -> [Slots -> BatchStatus]]
    /\ view \in [Requests -> Seq(Quantities)]
    /\ \A p \in Requests : Len(view[p]) <= MaxSlots
    /\ answer \in [Requests -> {"none", "succeeded", "rejected", "ambiguous"}]

------------------------------------------------------------------------------
(* Types.                                                                  *)

\* The types, by what they are about.
LEMMA TypeParts ==
    /\ TypeOK <=> OutsideType /\ ExecutionType /\ RequestType
    /\ TypeOK' <=> OutsideType' /\ ExecutionType' /\ RequestType'
  BY DEF TypeOK, OutsideType, LeaseType, ExecutionType, RequestType

\* A request that claims has a generation.
LEMMA OwnGeneration ==
    ASSUME Control, NEW p \in Requests, at[p] \notin Early
    PROVE  gen[p] \in Generations /\ gen[p] \in 1 .. Latest
  BY CutoverAssumption
  DEF Control, Numbered, TypeOK, Latest, Generations

\* The types hold at the start.
LEMMA InitControl == Init => Control
<1> SUFFICES ASSUME Init PROVE Control
  OBVIOUS
<1>1. Latest = 0
  BY DEF Init, Latest
<1>2. OutsideType
  BY CutoverAssumption DEF Init, OutsideType
<1>3. ExecutionType
  BY DEF Init, ExecutionType, LeaseType, Status, BatchStatus
<1>4. RequestType
  BY <1>1, CutoverAssumption DEF Init, RequestType, Labels, BatchStatus
<1>5. Numbered
  BY DEF Init, Numbered, Early, Planned
<1>6. Known
  BY DEF Init, Known
<1> QED
  BY <1>2, <1>3, <1>4, <1>5, <1>6, TypeParts DEF Control

\* The request that ends is back at its start.
LEMMA EndRequest ==
    ASSUME Control, NEW p \in Requests, End(p), target' = target,
           \A g \in Generations : status[g] # "none" => status'[g] # "none"
    PROVE  RequestType' /\ Numbered'
<1>1. RequestType'
  <2>1. at' \in [Requests -> Labels]
    BY DEF Control, TypeOK, End, Labels
  <2>2. gen' \in [Requests -> 0 .. Latest']
    BY DEF Control, TypeOK, End, Latest
  <2>3. plan' \in [Requests -> [Slots -> BatchStatus]]
    BY DEF Control, TypeOK, End, BatchStatus
  <2>4. view' \in [Requests -> Seq(Quantities)]
        /\ \A q \in Requests : Len(view'[q]) <= MaxSlots
    BY CutoverAssumption DEF Control, TypeOK, End
  <2>5. answer' \in [Requests -> {"none", "succeeded", "rejected", "ambiguous"}]
    BY DEF Control, TypeOK, End
  <2> QED
    BY <2>1, <2>2, <2>3, <2>4, <2>5 DEF RequestType
<1>2. \A q \in Requests : q # p => at'[q] = at[q] /\ gen'[q] = gen[q]
  BY DEF Control, TypeOK, End
<1>3. at'[p] = "idle"
  BY DEF Control, TypeOK, End
<1>4. Numbered'
  BY <1>2, <1>3, OwnGeneration DEF Control, Numbered, Early, Planned
<1> QED
  BY <1>1, <1>4

\* The request that goes on keeps its generation, which has an execution.
LEMMA GoesRequest ==
    ASSUME Control, NEW p \in Requests, NEW label \in Labels, GoTo(p, label),
           target' = target, gen' = gen,
           \A g \in Generations : status[g] # "none" => status'[g] # "none",
           at[p] \notin Early,
           label \in Planned \cup {"read"} => status'[gen[p]] # "none"
    PROVE  Numbered' /\ at' \in [Requests -> Labels] /\ gen' \in [Requests -> 0 .. Latest']
<1>1. at' \in [Requests -> Labels] /\ gen' \in [Requests -> 0 .. Latest']
  BY DEF Control, TypeOK, GoTo, Latest
<1>2. \A q \in Requests : q # p => at'[q] = at[q]
  BY DEF Control, TypeOK, GoTo
<1>3. at'[p] = label
  BY DEF Control, TypeOK, GoTo
<1>4. Numbered'
  BY <1>2, <1>3, OwnGeneration DEF Control, Numbered, Early, Planned
<1> QED
  BY <1>1, <1>4

\* The steps that are a request's own: nothing else changes.
Quiet(p) ==
    \/ Approve(p) \/ Reserve(p) \/ Collect(p) \/ Overtaken(p) \/ Turned(p)
    \/ ReadPlan(p) \/ Stop(p) \/ Proceed(p) \/ Respond(p)
    \/ Read(p) \/ Compare(p) \/ Fenced(p)

\* The quiet steps are quiet.
LEMMA QuietIsQuiet ==
    ASSUME NEW p \in Requests, Quiet(p)
    PROVE  /\ UNCHANGED <<local, remote, target, from, mutation, reached, troubles>>
           /\ UNCHANGED <<status, holder, live, batch, collecting, mark>>
  BY DEF Quiet, Approve, Reserve, Collect, Overtaken, Turned, ReadPlan, Stop, Proceed,
         Respond, Read, Compare, Fenced, elsewhere, frozen, execution, shopify

\* A request takes the latest generation.
LEMMA TakesLatest ==
    ASSUME TypeOK, NEW p \in Requests, gen' = [gen EXCEPT ![p] = Latest], Latest' = Latest
    PROVE  gen' \in [Requests -> 0 .. Latest']
<1>1. gen \in [Requests -> 0 .. Latest] /\ Latest \in 0 .. Latest
  BY DEF TypeOK, Latest
<1> QED
  BY <1>1

\* A view is closed.
LEMMA EmptyView ==
    ASSUME TypeOK, NEW p \in Requests, view' = [view EXCEPT ![p] = <<>>]
    PROVE  /\ view' \in [Requests -> Seq(Quantities)]
           /\ \A q \in Requests : Len(view'[q]) <= MaxSlots
  BY CutoverAssumption DEF TypeOK

\* A page is one more quantity.
LEMMA PageType ==
    ASSUME TypeOK, NEW p \in Requests, Page(p), ~Collected(p)
    PROVE  /\ view' \in [Requests -> Seq(Quantities)]
           /\ \A q \in Requests : Len(view'[q]) <= MaxSlots
           /\ view'[p] = Append(view[p], remote[Len(view[p]) + 1])
           /\ \A q \in Requests : q # p => view'[q] = view[q]
<1>1. view[p] \in Seq(Quantities) /\ Len(view[p]) \in Nat /\ Len(view[p]) < MaxSlots
  BY CutoverAssumption DEF TypeOK, Collected
<1>2. remote[Len(view[p]) + 1] \in Quantities
  BY <1>1, CutoverAssumption DEF TypeOK, Slots
<1>3. view'[p] = Append(view[p], remote[Len(view[p]) + 1])
  BY DEF TypeOK, Page
<1>4. \A q \in Requests : q # p => view'[q] = view[q]
  BY DEF TypeOK, Page
<1>5. view' \in [Requests -> Seq(Quantities)]
  BY <1>1, <1>2 DEF TypeOK, Page
<1>6. Len(view'[p]) = Len(view[p]) + 1
  BY <1>1, <1>2, <1>3
<1>7. Len(view'[p]) <= MaxSlots
  BY <1>1, <1>6, CutoverAssumption
<1> QED
  BY <1>3, <1>4, <1>5, <1>7 DEF TypeOK

\* A quiet step leaves the request with its types and its generation.
LEMMA QuietControl ==
    ASSUME Control, NEW p \in Requests, Quiet(p)
    PROVE  RequestType' /\ Numbered'
<1> USE DEF elsewhere, frozen, execution, shopify
<1>1. target' = target /\ status' = status /\ Latest' = Latest
  BY QuietIsQuiet DEF Latest
<1>2. CASE Approve(p) \/ Reserve(p)
  <2>1. at' \in [Requests -> Labels]
    BY <1>2 DEF Approve, Reserve, GoTo, Control, TypeOK, Labels
  <2>2. Latest \in Nat
    BY DEF Control, TypeOK, Latest
  <2>3. gen' \in [Requests -> 0 .. Latest']
    BY <1>1, <1>2, TakesLatest DEF Approve, Reserve, Control, TypeOK
  <2>4. Numbered'
    BY <1>1, <1>2, <2>2
    DEF Approve, Reserve, GoTo, Control, TypeOK, Numbered, Early, Planned, Regenerate
  <2> QED
    BY <1>2, <2>1, <2>3, <2>4 DEF Approve, Reserve, Control, TypeOK, RequestType
<1>3. CASE Collect(p) \/ Read(p)
  <2>1. Page(p) /\ ~Collected(p) /\ UNCHANGED <<at, gen, plan, answer>>
    BY <1>3 DEF Collect, Read
  <2>2. view' \in [Requests -> Seq(Quantities)]
        /\ \A q \in Requests : Len(view'[q]) <= MaxSlots
    BY <2>1, PageType DEF Control
  <2> QED
    BY <1>1, <2>1, <2>2 DEF Control, TypeOK, RequestType, Numbered
<1>4. CASE Overtaken(p) /\ ~Regenerate
  <2>1. at' \in [Requests -> Labels]
    BY <1>4 DEF Overtaken, GoTo, Control, TypeOK, Labels
  <2>2. gen' \in [Requests -> 0 .. Latest']
    BY <1>1, <1>4, TakesLatest DEF Overtaken, Control
  <2>3. view' = [view EXCEPT ![p] = <<>>]
    BY <1>4 DEF Overtaken
  <2>4. view' \in [Requests -> Seq(Quantities)]
        /\ \A q \in Requests : Len(view'[q]) <= MaxSlots
    BY <2>3, EmptyView DEF Control
  <2>5. Latest # 0
    BY <1>4 DEF Regenerate
  <2>6. Numbered'
    BY <1>1, <1>4, <2>5
    DEF Overtaken, GoTo, Control, TypeOK, Numbered, Early, Planned
  <2> QED
    BY <1>4, <2>1, <2>2, <2>4, <2>6 DEF Overtaken, Control, TypeOK, RequestType
<1>5. CASE \/ Overtaken(p) /\ Regenerate
           \/ Turned(p) \/ Stop(p) \/ Fenced(p)
  <2>1. End(p)
    BY <1>5 DEF Overtaken, Turned, Stop, Fenced
  <2> QED
    BY <1>1, <2>1, EndRequest
<1>6. CASE ReadPlan(p)
  <2>1. gen[p] \in Generations /\ at[p] \notin Early /\ status[gen[p]] # "none"
    BY <1>6, OwnGeneration DEF ReadPlan, Early, Control, Numbered
  <2>2. PICK label \in {"recover", "plan"} : GoTo(p, label)
    BY <1>6 DEF ReadPlan
  <2>3. label \in Labels
    BY DEF Labels
  <2>4. Numbered' /\ at' \in [Requests -> Labels] /\ gen' \in [Requests -> 0 .. Latest']
    BY <1>1, <1>6, <2>1, <2>2, <2>3, GoesRequest DEF ReadPlan
  <2>5. plan' \in [Requests -> [Slots -> BatchStatus]]
    BY <1>6, <2>1 DEF ReadPlan, Control, TypeOK
  <2> QED
    BY <1>6, <2>4, <2>5 DEF ReadPlan, Control, TypeOK, RequestType
<1>7. CASE Proceed(p)
  <2>1. gen[p] \in Generations /\ at[p] \notin Early /\ status[gen[p]] # "none"
    BY <1>7, OwnGeneration DEF Proceed, Early, Planned, Control, Numbered
  <2>2. PICK label \in {"drift", "mark", "dispatch"} : GoTo(p, label)
    BY <1>7 DEF Proceed
  <2>3. label \in Labels
    BY DEF Labels
  <2>4. Numbered' /\ at' \in [Requests -> Labels] /\ gen' \in [Requests -> 0 .. Latest']
    BY <1>1, <1>7, <2>1, <2>2, <2>3, GoesRequest DEF Proceed
  <2> QED
    BY <1>7, <2>4 DEF Proceed, Control, TypeOK, RequestType
<1>8. CASE Respond(p)
  <2>1. gen[p] \in Generations /\ at[p] \notin Early /\ status[gen[p]] # "none"
    BY <1>8, OwnGeneration DEF Respond, Early, Planned, Control, Numbered
  <2>2. "record" \in Labels
    BY DEF Labels
  <2>3. Numbered' /\ at' \in [Requests -> Labels] /\ gen' \in [Requests -> 0 .. Latest']
    BY <1>1, <1>8, <2>1, <2>2, GoesRequest DEF Respond
  <2>4. answer' \in [Requests -> {"none", "succeeded", "rejected", "ambiguous"}]
    BY <1>8 DEF Respond, Control, TypeOK
  <2> QED
    BY <1>8, <2>3, <2>4 DEF Respond, Control, TypeOK, RequestType
<1>9. CASE Compare(p)
  <2>1. at[p] \notin Early /\ "verify" \in Labels /\ "verify" \notin Planned \cup {"read"}
    BY <1>9 DEF Compare, Early, Planned, Labels
  <2>2. Numbered' /\ at' \in [Requests -> Labels] /\ gen' \in [Requests -> 0 .. Latest']
    BY <1>1, <1>9, <2>1, GoesRequest DEF Compare
  <2> QED
    BY <1>9, <2>2 DEF Compare, Control, TypeOK, RequestType
<1> QED
  BY <1>2, <1>3, <1>4, <1>5, <1>6, <1>7, <1>8, <1>9 DEF Quiet

\* An execution that is begun is not unmade.
StaysBegun == \A g \in Generations : status[g] # "none" => status'[g] # "none"

\* A trouble stays within its bound.
LEMMA TroubleBound == ASSUME TypeOK, Trouble PROVE troubles' \in 0 .. MaxTroubles
  BY CutoverAssumption DEF TypeOK, Trouble

\* Whoever may write holds the lease of an execution at work.
LEMMA WritableExecution ==
    ASSUME Control, NEW p \in Requests, Writable(p), at[p] \notin Early
    PROVE  /\ gen[p] \in Generations /\ gen[p] \in 1 .. Latest
           /\ holder[gen[p]] = p /\ gen[p] \in live
           /\ status[gen[p]] = IF at[p] \in {"certify", "compare", "verify"}
                               THEN "verifying" ELSE "executing"
           /\ status[gen[p]] \in {"executing", "verifying"}
  BY OwnGeneration DEF Writable

\* An execution that ends loses its lease, and only it does.
LEMMA TerminateLease ==
    ASSUME Control, NEW g \in Generations,
           NEW s \in {"requires_regeneration", "blocked", "converged"}, Terminate(g, s)
    PROVE  LeaseType' /\ StaysBegun
<1>1. status' \in [Generations -> Status] /\ status'[g] = s
      /\ \A h \in Generations : h # g => status'[h] = status[h]
  BY DEF Control, TypeOK, Terminate, Status
<1>2. holder' \in [Generations -> Requests \cup {None}] /\ holder'[g] = None
      /\ \A h \in Generations : h # g => holder'[h] = holder[h]
  BY DEF Control, TypeOK, Terminate
<1>3. live' = live \ {g}
  BY DEF Terminate
<1>4. live' \subseteq {h \in Generations : holder'[h] # None}
  BY <1>2, <1>3 DEF Control, TypeOK
<1>5. \A h \in Generations :
         holder'[h] # None <=> status'[h] \in {"executing", "verifying"}
  BY <1>1, <1>2 DEF Control, TypeOK
<1> QED
  BY <1>1, <1>2, <1>4, <1>5 DEF LeaseType, StaysBegun

\* An execution that is begun, or goes on to its next phase, has a lease.
LEMMA TakeLease ==
    ASSUME Control, NEW p \in Requests, NEW g \in Generations,
           NEW s \in {"executing", "verifying"}, status' = [status EXCEPT ![g] = s],
           \/ Take(p, g)
           \/ holder[g] # None /\ UNCHANGED <<holder, live>>
    PROVE  LeaseType' /\ StaysBegun
<1>1. status' \in [Generations -> Status] /\ status'[g] = s
      /\ \A h \in Generations : h # g => status'[h] = status[h]
  BY DEF Control, TypeOK, Status
<1>2. p # None
  BY CutoverAssumption
<1>3. holder' \in [Generations -> Requests \cup {None}] /\ holder'[g] # None
      /\ \A h \in Generations : h # g => holder'[h] = holder[h]
  BY <1>2 DEF Control, TypeOK, Take
<1>4. live' \subseteq live \cup {g}
  BY DEF Take
<1>5. live' \subseteq {h \in Generations : holder'[h] # None}
  BY <1>3, <1>4 DEF Control, TypeOK
<1>6. \A h \in Generations :
         holder'[h] # None <=> status'[h] \in {"executing", "verifying"}
  BY <1>1, <1>3 DEF Control, TypeOK
<1> QED
  BY <1>1, <1>3, <1>5, <1>6 DEF LeaseType, StaysBegun

\* One status of one batch changes.
LEMMA BatchType ==
    ASSUME TypeOK, NEW g \in Generations, NEW s, NEW b \in BatchStatus,
           batch' = [batch EXCEPT ![g][s] = b]
    PROVE  /\ batch' \in [Generations -> [Slots -> BatchStatus]]
           /\ \A h \in Generations, t \in Slots :
                  batch'[h][t] = IF h = g /\ t = s THEN b ELSE batch[h][t]
  BY DEF TypeOK

\* What was being sent is ambiguous; the other batches are what they were.
LEMMA InterruptedType ==
    ASSUME TypeOK, NEW g \in Generations, Interrupted(g)
    PROVE  /\ batch' \in [Generations -> [Slots -> BatchStatus]]
           /\ \A h \in Generations, t \in Slots :
                  batch'[h][t] = IF h = g /\ batch[h][t] = "dispatching"
                                 THEN "ambiguous" ELSE batch[h][t]
<1> DEFINE row == [s \in Slots |-> IF batch[g][s] = "dispatching" THEN "ambiguous"
                                   ELSE batch[g][s]]
<1>1. batch' = [batch EXCEPT ![g] = row]
  BY DEF Interrupted
<1>2. batch \in [Generations -> [Slots -> BatchStatus]]
  BY DEF TypeOK
<1>3. "ambiguous" \in BatchStatus
  BY DEF BatchStatus, Unfinished
<1>4. row \in [Slots -> BatchStatus]
  BY <1>2, <1>3
<1>5. \A t \in Slots : row[t] = IF batch[g][t] = "dispatching" THEN "ambiguous"
                               ELSE batch[g][t]
  OBVIOUS
<1> HIDE DEF row
<1> QED
  BY <1>1, <1>2, <1>4, <1>5

\* A generation's verification is opened or closed.
LEMMA CollectingType ==
    ASSUME TypeOK, NEW g \in Generations, NEW r \in Requests \cup {None},
           collecting' = [collecting EXCEPT ![g] = r]
    PROVE  collecting' \in [Generations -> Requests \cup {None}]
  BY DEF TypeOK

------------------------------------------------------------------------------
(* Types: the steps.                                                       *)

\* A mutation is known for what has become of it.
LEMMA MutationType ==
    ASSUME Control, NEW g \in Generations, NEW s \in Slots,
           NEW m \in {"flight", "applied", "refused", "lost"},
           mutation' = [mutation EXCEPT ![g][s] = m], Latest' = Latest, g <= Latest
    PROVE  /\ mutation' \in [Generations ->
                  [Slots -> {"none", "flight", "applied", "refused", "lost"}]]
           /\ Known'
<1>1. mutation' \in [Generations ->
          [Slots -> {"none", "flight", "applied", "refused", "lost"}]]
  BY DEF Control, TypeOK
<1>2. \A h \in Generations, t \in Slots :
         mutation'[h][t] = IF h = g /\ t = s THEN m ELSE mutation[h][t]
  BY DEF Control, TypeOK
<1>3. Known'
  BY <1>2 DEF Control, Known
<1> QED
  BY <1>1, <1>3

\* Stock moves, in the warehouse or at Shopify.
LEMMA MoveControl ==
    ASSUME Control, NEW s \in Slots, NEW q \in Quantities, Move(s, q) \/ Sell(s, q)
    PROVE  Control'
<1> USE DEF frozen, execution, shopify, request
<1>1. troubles' \in 0 .. MaxTroubles
  BY TroubleBound DEF Move, Sell, Control
<1>2. local' \in [Slots -> Quantities] /\ remote' \in [Slots -> Quantities]
  BY DEF Move, Sell, Control, TypeOK
<1>3. reached' \subseteq Slots
  BY DEF Move, Sell, Reach, Control, TypeOK
<1>4. OutsideType'
  BY <1>1, <1>2, <1>3 DEF Move, Sell, Control, TypeOK, OutsideType
<1>5. ExecutionType' /\ RequestType' /\ Numbered' /\ Known'
  BY TypeParts
  DEF Move, Sell, Control, ExecutionType, LeaseType, RequestType, Numbered, Known, Latest
<1> QED
  BY <1>4, <1>5, TypeParts DEF Control

\* A mutation arrives, or does not.
LEMMA ArriveControl ==
    ASSUME Control, NEW g \in Generations, NEW s \in Slots, Arrive(g, s) \/ Vanish(g, s)
    PROVE  Control'
<1> USE DEF frozen, execution, shopify, request
<1>1. Latest' = Latest /\ g <= Latest
  BY DEF Arrive, Vanish, Control, Known, Latest
<1>2. PICK m \in {"flight", "applied", "refused", "lost"} :
          mutation' = [mutation EXCEPT ![g][s] = m]
  BY DEF Arrive, Vanish
<1>3. Known' /\ mutation' \in [Generations ->
          [Slots -> {"none", "flight", "applied", "refused", "lost"}]]
  BY <1>1, <1>2, MutationType
<1>4. target[g][s] \in Quantities
  BY <1>1, CutoverAssumption DEF Control, TypeOK, Generations, Latest
<1>5. remote' \in [Slots -> Quantities]
  BY <1>4 DEF Arrive, Vanish, Control, TypeOK
<1>6. reached' \subseteq Slots
  BY DEF Arrive, Vanish, Reach, Control, TypeOK
<1>7. troubles' \in 0 .. MaxTroubles
  BY TroubleBound DEF Arrive, Vanish, Control, TypeOK
<1>8. OutsideType'
  BY <1>3, <1>5, <1>6, <1>7 DEF Arrive, Vanish, Control, TypeOK, OutsideType
<1>9. ExecutionType' /\ RequestType' /\ Numbered'
  BY TypeParts
  DEF Arrive, Vanish, Control, ExecutionType, LeaseType, RequestType, Numbered, Latest
<1> QED
  BY <1>3, <1>8, <1>9, TypeParts DEF Control

\* A lease runs out.
LEMMA ExpireControl ==
    ASSUME Control, NEW g \in Generations, Expire(g) PROVE Control'
<1> USE DEF frozen, shopify, request
<1>1. troubles' \in 0 .. MaxTroubles
  BY TroubleBound DEF Expire, NoTrouble, Control, TypeOK
<1>2. OutsideType' /\ RequestType' /\ Numbered' /\ Known'
  BY <1>1
  DEF Expire, Control, TypeOK, OutsideType, RequestType, Numbered, Known, Latest
<1>3. LeaseType'
  BY DEF Expire, Control, TypeOK, LeaseType
<1>4. ExecutionType'
  BY <1>3 DEF Expire, Control, TypeOK, ExecutionType
<1> QED
  BY <1>2, <1>4, TypeParts DEF Control

\* A generation is frozen: there is one more.
LEMMA FreezeControl ==
    ASSUME Control, NEW p \in Requests, Freeze(p) PROVE Control'
<1> USE DEF execution
<1>1. Latest \in Nat /\ Latest < MaxGenerations
  BY DEF Freeze, Control, TypeOK, Latest
<1>2. view[p] \in [Slots -> Quantities]
  BY CutoverAssumption DEF Freeze, Collected, Control, TypeOK, Slots
<1>3. /\ target' \in Seq([Slots -> Quantities])
      /\ from' \in Seq([Slots -> Quantities])
      /\ Latest' = Latest + 1 /\ Len(from') = Latest'
  BY <1>2 DEF Freeze, Control, TypeOK, Latest
<1>4. OutsideType'
  BY <1>1, <1>3, CutoverAssumption
  DEF Freeze, Control, TypeOK, OutsideType, Latest
<1>5. ExecutionType'
  BY TypeParts DEF Freeze, Control, ExecutionType, LeaseType
<1>6. at' \in [Requests -> Labels]
  BY DEF Freeze, GoTo, Control, TypeOK, Labels
<1>7. gen \in [Requests -> 0 .. Latest]
  BY DEF Control, TypeOK
<1>8. gen' = [gen EXCEPT ![p] = Latest + 1]
  BY DEF Freeze
<1>9. gen' \in [Requests -> 0 .. Latest']
  BY <1>1, <1>3, <1>7, <1>8
<1>10. view' \in [Requests -> Seq(Quantities)]
       /\ \A q \in Requests : Len(view'[q]) <= MaxSlots
  BY EmptyView DEF Freeze, Control
<1>11. RequestType'
  BY <1>6, <1>9, <1>10 DEF Freeze, Control, TypeOK, RequestType
<1>12. Numbered'
  BY <1>1, <1>7, <1>8 DEF Freeze, GoTo, Control, TypeOK, Numbered, Early, Planned
<1>13. Known'
  BY <1>1, <1>3, CutoverAssumption DEF Freeze, Control, Known, Generations
<1> QED
  BY <1>4, <1>5, <1>11, <1>12, <1>13, TypeParts DEF Control

\* A step of an execution leaves the world alone, apart from what is sent.
LEMMA ExecutionControl ==
    ASSUME Control, UNCHANGED <<local, target, from, remote, reached, mutation>>,
           troubles' \in 0 .. MaxTroubles, ExecutionType', RequestType', Numbered'
    PROVE  Control'
<1>1. OutsideType'
  BY DEF Control, TypeOK, OutsideType
<1>2. Known'
  BY DEF Control, Known, Latest
<1> QED
  BY <1>1, <1>2, TypeParts DEF Control

\* A first owner begins the execution.
LEMMA CreateControl ==
    ASSUME Control, NEW p \in Requests, Create(p) PROVE Control'
<1> USE DEF frozen, shopify
<1>1. gen[p] \in Generations /\ at[p] \notin Early
  BY OwnGeneration DEF Create, Early
<1>2. LeaseType' /\ StaysBegun /\ status'[gen[p]] # "none"
  <2>1. status' = [status EXCEPT ![gen[p]] = "executing"] /\ Take(p, gen[p])
    BY DEF Create
  <2> QED
    BY <1>1, <2>1, TakeLease DEF Control, TypeOK
<1>3. batch' \in [Generations -> [Slots -> BatchStatus]]
  <2> DEFINE row == [s \in Slots |-> IF s \in Writes(gen[p]) THEN "pending" ELSE "none"]
  <2>1. row \in [Slots -> BatchStatus]
    BY DEF BatchStatus, Unfinished
  <2>2. batch' = [batch EXCEPT ![gen[p]] = row]
    BY DEF Create
  <2> HIDE DEF row
  <2> QED
    BY <1>1, <2>1, <2>2 DEF Control, TypeOK
<1>4. ExecutionType'
  BY <1>2, <1>3 DEF Create, Control, TypeOK, ExecutionType
<1>5. Numbered' /\ at' \in [Requests -> Labels] /\ gen' \in [Requests -> 0 .. Latest']
  <2>1. "read" \in Labels /\ GoTo(p, "read") /\ target' = target /\ gen' = gen
    BY DEF Create, Labels
  <2> QED
    BY <1>1, <1>2, <2>1, GoesRequest DEF StaysBegun
<1>6. RequestType'
  BY <1>5 DEF Create, Control, TypeOK, RequestType
<1> QED
  BY <1>4, <1>5, <1>6, ExecutionControl DEF Create, Control, TypeOK

\* A later owner takes it over.
LEMMA ReclaimControl ==
    ASSUME Control, NEW p \in Requests, Reclaim(p) PROVE Control'
<1> USE DEF frozen, shopify
<1>1. gen[p] \in Generations /\ at[p] \notin Early
  BY OwnGeneration DEF Reclaim, Early
<1>2. LeaseType' /\ StaysBegun /\ status' = status
  <2>1. /\ status[gen[p]] \in {"executing", "verifying"} /\ status' = status
        /\ Take(p, gen[p])
    BY DEF Reclaim
  <2>2. status' = [status EXCEPT ![gen[p]] = status[gen[p]]]
    BY <1>1, <2>1 DEF Control, TypeOK
  <2> QED
    BY <1>1, <2>1, <2>2, TakeLease
<1>3. /\ batch' \in [Generations -> [Slots -> BatchStatus]]
      /\ collecting' \in [Generations -> Requests \cup {None}]
  BY <1>1, InterruptedType, CollectingType DEF Reclaim, DropCollecting, Control
<1>4. ExecutionType'
  BY <1>2, <1>3 DEF Reclaim, Control, TypeOK, ExecutionType
<1>5. PICK label \in {"certify", "read"} : GoTo(p, label)
  BY DEF Reclaim
<1>6. Numbered' /\ at' \in [Requests -> Labels] /\ gen' \in [Requests -> 0 .. Latest']
  <2>1. /\ label \in Labels /\ target' = target /\ gen' = gen
        /\ status'[gen[p]] # "none"
    BY <1>2 DEF Reclaim, Labels
  <2> QED
    BY <1>1, <1>2, <1>5, <2>1, GoesRequest DEF StaysBegun
<1>7. RequestType'
  BY <1>6 DEF Reclaim, Control, TypeOK, RequestType
<1> QED
  BY <1>4, <1>6, <1>7, ExecutionControl DEF Reclaim, Control, TypeOK

\* A request that ends leaves types behind if the execution has them.
LEMMA EndControl ==
    ASSUME Control, NEW p \in Requests, End(p),
           UNCHANGED <<local, target, from, remote, reached, mutation>>,
           troubles' \in 0 .. MaxTroubles, ExecutionType', StaysBegun
    PROVE  Control'
  BY EndRequest, ExecutionControl DEF StaysBegun

\* So does one that goes on, with what it has read.
LEMMA GoesControl ==
    ASSUME Control, NEW p \in Requests, NEW label \in Labels, GoTo(p, label),
           UNCHANGED <<local, target, from, remote, reached, mutation>>,
           troubles' \in 0 .. MaxTroubles, ExecutionType', StaysBegun,
           at[p] \notin Early, label \in Planned \cup {"read"} => status'[gen[p]] # "none",
           UNCHANGED <<gen, plan>>,
           view' = view \/ view' = [view EXCEPT ![p] = <<>>],
           answer' = answer \/ \E a \in {"none", "succeeded", "rejected", "ambiguous"} :
                                  answer' = [answer EXCEPT ![p] = a]
    PROVE  Control'
<1>1. Numbered' /\ at' \in [Requests -> Labels] /\ gen' \in [Requests -> 0 .. Latest']
  BY GoesRequest DEF StaysBegun
<1>2. view' \in [Requests -> Seq(Quantities)]
      /\ \A q \in Requests : Len(view'[q]) <= MaxSlots
  BY EmptyView DEF Control, TypeOK
<1>3. answer' \in [Requests -> {"none", "succeeded", "rejected", "ambiguous"}]
  BY DEF Control, TypeOK
<1>4. plan' \in [Requests -> [Slots -> BatchStatus]]
  BY DEF Control, TypeOK
<1>5. RequestType'
  BY <1>1, <1>2, <1>3, <1>4 DEF RequestType
<1> QED
  BY <1>1, <1>5, ExecutionControl

\* What a step of an execution that changes no status, lease or batch needs.
LEMMA SameExecution ==
    ASSUME Control, UNCHANGED execution PROVE ExecutionType' /\ StaysBegun
  BY TypeParts DEF Control, execution, ExecutionType, LeaseType, StaysBegun

\* A request meets a trouble.
LEMMA StepControl ==
    ASSUME Control, NEW p \in Requests,
           Diverge(p) \/ LoseAnswer(p) \/ Quit(p)
    PROVE  Control'
<1>1. troubles' \in 0 .. MaxTroubles
  BY TroubleBound DEF Diverge, LoseAnswer, Quit, NoTrouble, Control, TypeOK
<1>2. /\ ExecutionType' /\ StaysBegun /\ status' = status
      /\ UNCHANGED <<local, target, from, remote, reached, mutation>>
  BY SameExecution DEF Diverge, LoseAnswer, Quit, execution, frozen, shopify
<1>3. CASE Quit(p)
  BY <1>1, <1>2, <1>3, EndControl DEF Quit
<1>4. CASE Diverge(p) \/ LoseAnswer(p)
  <2>1. at[p] \notin Early /\ status'[gen[p]] # "none"
    BY <1>2, <1>4 DEF Diverge, LoseAnswer, Control, Numbered, Early, Planned
  <2>2. PICK label \in Labels : GoTo(p, label)
    BY <1>4 DEF Diverge, LoseAnswer, Labels
  <2>3. /\ UNCHANGED <<gen, plan, view>>
        /\ answer' = answer \/ \E a \in {"none", "succeeded", "rejected", "ambiguous"} :
                                  answer' = [answer EXCEPT ![p] = a]
    BY <1>4 DEF Diverge, LoseAnswer, Thrown
  <2> QED
    BY <1>1, <1>2, <2>1, <2>2, <2>3, GoesControl
<1> QED
  BY <1>3, <1>4

\* A batch is marked and sent.
LEMMA BeginDispatchControl ==
    ASSUME Control, NEW p \in Requests, BeginDispatch(p) PROVE Control'
<1> USE DEF frozen
<1>1. /\ gen[p] \in Generations /\ gen[p] <= Latest /\ at[p] \notin Early
      /\ status[gen[p]] # "none" /\ Latest' = Latest
  BY OwnGeneration
  DEF BeginDispatch, Early, Planned, Control, Numbered, Latest
<1>2. "dispatching" \in BatchStatus
  BY DEF BatchStatus, Unfinished
<1>3. batch' \in [Generations -> [Slots -> BatchStatus]]
  BY <1>1, <1>2, BatchType DEF BeginDispatch, Control
<1>4. ExecutionType' /\ StaysBegun
  BY <1>3, TypeParts
  DEF BeginDispatch, Control, ExecutionType, LeaseType, StaysBegun
<1>5. mutation' \in [Generations ->
          [Slots -> {"none", "flight", "applied", "refused", "lost"}]]
      /\ Known'
  <2>1. mutation' = [mutation EXCEPT ![gen[p]][Current(p)] = "flight"]
    BY DEF BeginDispatch
  <2>2. CASE Current(p) \in Slots
    BY <1>1, <2>1, <2>2, MutationType
  <2>3. CASE Current(p) \notin Slots
    <3>1. \A g \in Generations, s \in Slots : mutation'[g][s] = mutation[g][s]
      BY <2>1, <2>3 DEF Control, TypeOK
    <3>2. mutation' \in [Generations ->
              [Slots -> {"none", "flight", "applied", "refused", "lost"}]]
      BY <2>1, <2>3 DEF Control, TypeOK
    <3> QED
      BY <1>1, <3>1, <3>2 DEF Control, Known
  <2> QED
    BY <2>2, <2>3
<1>6. OutsideType'
  BY <1>5 DEF BeginDispatch, Control, TypeOK, OutsideType
<1>7. Numbered' /\ at' \in [Requests -> Labels] /\ gen' \in [Requests -> 0 .. Latest']
  <2>1. /\ "call" \in Labels /\ GoTo(p, "call") /\ target' = target /\ gen' = gen
        /\ status'[gen[p]] # "none"
    BY <1>1 DEF BeginDispatch, Labels
  <2> QED
    BY <1>1, <1>4, <2>1, GoesRequest DEF StaysBegun
<1>8. RequestType'
  BY <1>7 DEF BeginDispatch, Control, TypeOK, RequestType
<1> QED
  BY <1>4, <1>5, <1>6, <1>7, <1>8, TypeParts DEF Control

\* An execution keeps its lease, or ends and loses it.
LEMMA LeaseStep ==
    ASSUME Control, NEW g \in Generations,
           \/ UNCHANGED <<status, holder, live>>
           \/ \E s \in {"requires_regeneration", "blocked", "converged"} : Terminate(g, s)
    PROVE  LeaseType' /\ StaysBegun
<1>1. CASE UNCHANGED <<status, holder, live>>
  BY <1>1, TypeParts DEF Control, ExecutionType, LeaseType, StaysBegun
<1>2. CASE \E s \in {"requires_regeneration", "blocked", "converged"} : Terminate(g, s)
  BY <1>2, TerminateLease
<1> QED
  BY <1>1, <1>2

\* The steps that close a generation, or leave it to another owner.
LEMMA ClosingControl ==
    ASSUME Control, NEW p \in Requests,
           \/ Drift(p) \/ CompareFails(p) \/ Finalize(p) \/ ReadFails(p)
           \/ Inspect(p) /\ ~AtTarget(p, Current(p))
    PROVE  Control'
<1> USE DEF frozen, shopify
<1>1. Writable(p) /\ at[p] \notin Early /\ End(p)
  BY DEF Drift, CompareFails, Finalize, ReadFails, Inspect, Early
<1>2. gen[p] \in Generations
  BY <1>1, WritableExecution
<1>3. troubles' \in 0 .. MaxTroubles
  BY TroubleBound
  DEF Drift, CompareFails, Finalize, ReadFails, Inspect, Control, TypeOK
<1>4. UNCHANGED <<local, target, from, remote, reached, mutation>>
  BY DEF Drift, CompareFails, Finalize, ReadFails, Inspect
<1>5. \/ UNCHANGED <<status, holder, live>>
      \/ \E s \in {"requires_regeneration", "blocked", "converged"} : Terminate(gen[p], s)
  BY DEF Drift, CompareFails, Finalize, ReadFails, Inspect
<1>6. LeaseType' /\ StaysBegun
  BY <1>2, <1>5, LeaseStep
<1>7. collecting' \in [Generations -> Requests \cup {None}]
  <2>1. \/ collecting' = collecting
        \/ collecting' = [collecting EXCEPT ![gen[p]] = None]
    BY DEF Drift, CompareFails, Finalize, ReadFails, Inspect
  <2> QED
    BY <1>2, <2>1, CollectingType DEF Control, TypeOK
<1>8. batch' = batch /\ mark' \in BOOLEAN
  BY DEF Drift, CompareFails, Finalize, ReadFails, Inspect, Control, TypeOK
<1>9. ExecutionType'
  BY <1>6, <1>7, <1>8 DEF ExecutionType, Control, TypeOK
<1> QED
  BY <1>1, <1>3, <1>4, <1>6, <1>9, EndControl

\* The steps that lead a request to the next phase.
LEMMA PhaseControl ==
    ASSUME Control, NEW p \in Requests,
           \/ MarkVerifying(p) \/ BeginInspection(p) \/ BeginFinal(p)
           \/ Inspect(p) /\ AtTarget(p, Current(p))
    PROVE  Control'
<1> USE DEF frozen, shopify
<1>1. Writable(p) /\ at[p] \notin Early
  BY DEF MarkVerifying, BeginInspection, BeginFinal, Inspect, Early
<1>2. gen[p] \in Generations /\ holder[gen[p]] = p /\ p # None
  BY <1>1, WritableExecution, CutoverAssumption
<1>3. /\ troubles' \in 0 .. MaxTroubles
      /\ UNCHANGED <<local, target, from, remote, reached, mutation, mark, gen, plan, answer>>
      /\ view' = view \/ view' = [view EXCEPT ![p] = <<>>]
  BY DEF MarkVerifying, BeginInspection, BeginFinal, Inspect, Control, TypeOK
<1>4. LeaseType' /\ StaysBegun
  <2>1. CASE MarkVerifying(p)
    BY <1>2, <2>1, TakeLease DEF MarkVerifying
  <2>2. CASE ~MarkVerifying(p)
    BY <1>2, <2>2, LeaseStep DEF BeginInspection, BeginFinal, Inspect
  <2> QED
    BY <2>1, <2>2
<1>5. collecting' \in [Generations -> Requests \cup {None}]
  <2>1. \/ collecting' = collecting
        \/ \E r \in Requests \cup {None} : collecting' = [collecting EXCEPT ![gen[p]] = r]
    BY DEF MarkVerifying, BeginInspection, BeginFinal, Inspect
  <2> QED
    BY <1>2, <2>1, CollectingType DEF Control, TypeOK
<1>6. batch' \in [Generations -> [Slots -> BatchStatus]]
  <2>1. \/ batch' = batch
        \/ batch' = [batch EXCEPT ![gen[p]][Current(p)] = "succeeded"]
    BY DEF MarkVerifying, BeginInspection, BeginFinal, Inspect
  <2>2. "succeeded" \in BatchStatus
    BY DEF BatchStatus
  <2> QED
    BY <1>2, <2>1, <2>2, BatchType DEF Control, TypeOK
<1>7. ExecutionType'
  BY <1>3, <1>4, <1>5, <1>6 DEF ExecutionType, Control, TypeOK
<1>8. PICK label \in Labels : GoTo(p, label)
  BY DEF MarkVerifying, BeginInspection, BeginFinal, Inspect, Labels
<1>9. status[gen[p]] # "none" /\ status'[gen[p]] # "none"
  BY <1>1, <1>2, <1>4, WritableExecution DEF StaysBegun
<1> QED
  BY <1>1, <1>3, <1>4, <1>7, <1>8, <1>9, GoesControl

\* The answer is recorded.
LEMMA RecordControl ==
    ASSUME Control, NEW p \in Requests, Record(p) PROVE Control'
<1> USE DEF frozen, shopify
<1>1. Writable(p) /\ at[p] \notin Early
  BY DEF Record, Early
<1>2. gen[p] \in Generations /\ status[gen[p]] # "none"
  BY <1>1, WritableExecution
<1>3. /\ troubles' \in 0 .. MaxTroubles
      /\ UNCHANGED <<local, target, from, remote, reached, mutation, collecting, mark>>
  BY DEF Record, Control, TypeOK
<1>4. LeaseType' /\ StaysBegun
  BY <1>2, LeaseStep DEF Record
<1>5. batch' \in [Generations -> [Slots -> BatchStatus]]
  <2>1. answer[p] \in BatchStatus
    BY DEF Control, TypeOK, BatchStatus, Unfinished
  <2> QED
    BY <1>2, <2>1, BatchType DEF Record, Control
<1>6. ExecutionType'
  BY <1>3, <1>4, <1>5 DEF ExecutionType, Control, TypeOK
<1>7. CASE answer[p] # "succeeded"
  BY <1>3, <1>4, <1>6, <1>7, EndControl DEF Record
<1>8. CASE answer[p] = "succeeded"
  <2>1. /\ GoTo(p, "plan") /\ UNCHANGED <<gen, view>>
        /\ plan' = [plan EXCEPT ![p][Current(p)] = "succeeded"]
        /\ answer' = [answer EXCEPT ![p] = "none"]
    BY <1>8 DEF Record
  <2>2. "plan" \in Labels /\ status'[gen[p]] # "none"
    BY <1>2, <1>4 DEF Labels, StaysBegun
  <2>3. Numbered' /\ at' \in [Requests -> Labels] /\ gen' \in [Requests -> 0 .. Latest']
    BY <1>1, <1>3, <1>4, <2>1, <2>2, GoesRequest DEF StaysBegun
  <2>4. plan' \in [Requests -> [Slots -> BatchStatus]]
    BY <2>1 DEF Control, TypeOK, BatchStatus
  <2>5. answer' \in [Requests -> {"none", "succeeded", "rejected", "ambiguous"}]
    BY <2>1 DEF Control, TypeOK
  <2>6. RequestType'
    BY <2>1, <2>3, <2>4, <2>5 DEF RequestType, Control, TypeOK
  <2> QED
    BY <1>3, <1>6, <2>3, <2>6, ExecutionControl
<1> QED
  BY <1>7, <1>8

\* A step that is a request's own changes only what the request knows.
LEMMA QuietStep ==
    ASSUME Control, NEW p \in Requests, Quiet(p) PROVE Control'
<1>1. RequestType' /\ Numbered'
  BY QuietControl
<1>2. /\ UNCHANGED <<local, remote, target, from, mutation, reached, troubles>>
      /\ UNCHANGED <<status, holder, live, batch, collecting, mark>>
  BY QuietIsQuiet
<1>3. ExecutionType' /\ troubles' \in 0 .. MaxTroubles
  BY <1>2, TypeParts DEF Control, TypeOK, ExecutionType, LeaseType
<1> QED
  BY <1>1, <1>2, <1>3, ExecutionControl

\* The steps of a request that is not quiet.
Loud(p) ==
    \/ Freeze(p) \/ Create(p) \/ Reclaim(p)
    \/ Diverge(p) \/ LoseAnswer(p) \/ Quit(p) \/ BeginDispatch(p) \/ Record(p)
    \/ Drift(p) \/ CompareFails(p) \/ Finalize(p) \/ ReadFails(p) \/ Inspect(p)
    \/ MarkVerifying(p) \/ BeginInspection(p) \/ BeginFinal(p)

\* Every step is of one of the three kinds.
LEMMA Kinds ==
    ASSUME Next PROVE Outside \/ \E p \in Requests : Quiet(p) \/ Loud(p)
  BY DEF Next, Work, Build, Execute, Settle, Quiet, Loud

\* Nothing happens.
LEMMA StutterControl == ASSUME Control, UNCHANGED vars PROVE Control'
  BY TypeParts
  DEF vars, Control, OutsideType, ExecutionType, LeaseType, RequestType, Numbered, Known,
      Latest

\* The types, through every step.
LEMMA NextControl == ASSUME Control, [Next]_vars PROVE Control'
<1>1. CASE Outside
  BY <1>1, MoveControl, ArriveControl, ExpireControl DEF Outside
<1>2. ASSUME NEW p \in Requests, Quiet(p) PROVE Control'
  BY <1>2, QuietStep
<1>3. ASSUME NEW p \in Requests, Loud(p) PROVE Control'
  BY <1>3, FreezeControl, CreateControl, ReclaimControl, StepControl,
     BeginDispatchControl, RecordControl, ClosingControl, PhaseControl DEF Loud
<1>4. CASE UNCHANGED vars
  BY <1>4, StutterControl
<1> QED
  BY <1>1, <1>2, <1>3, <1>4, Kinds

\* The types of the cutover, and that an execution has a lease exactly while it
\* is executing or verifying ("executions_lease_valid" of the migration).
THEOREM TypeCorrect == Spec => []TypeOK
<1>1. Init => Control
  BY InitControl
<1>2. Control /\ [Next]_vars => Control'
  BY NextControl
<1>3. Control => TypeOK
  BY DEF Control
<1> QED
  BY <1>1, <1>2, <1>3, PTL DEF Spec

------------------------------------------------------------------------------
(* What a step may do.                                                     *)

\* A set of slots that is not empty has a first one.
LEMMA FirstIsFirst ==
    ASSUME NEW S \in SUBSET Slots, S # {}
    PROVE  First(S) \in S /\ \A t \in S : First(S) <= t
<1>1. S \subseteq Nat
  BY CutoverAssumption DEF Slots
<1>2. PICK s \in S : \A t \in S : ~(<<t, s>> \in OpToRel(<, Nat))
  BY <1>1, NatLessThanWellFounded, WFMin
<1>3. \A t \in S : ~(t < s)
  BY <1>1, <1>2, Zenon DEF OpToRel
<1>4. \A t \in S : s <= t
  BY <1>1, <1>3
<1> QED
  BY <1>4 DEF First

\* Who has something to send has a first batch to send.
LEMMA CurrentIsFirst ==
    ASSUME NEW p \in Requests, Todo(p) # {}
    PROVE  /\ Current(p) \in Slots /\ plan[p][Current(p)] \in Unfinished
           /\ \A t \in Slots : plan[p][t] \in Unfinished => Current(p) <= t
<1>1. Todo(p) \in SUBSET Slots
  BY DEF Todo
<1>2. Current(p) \in Todo(p) /\ \A t \in Todo(p) : Current(p) <= t
  BY <1>1, FirstIsFirst DEF Current
<1> QED
  BY <1>2 DEF Todo

\* A step is one request's, or none's.
LEMMA OneActs ==
    ASSUME Control, NEW p \in Requests, Quiet(p) \/ Loud(p), NEW q \in Requests, q # p
    PROVE  /\ at'[q] = at[q] /\ gen'[q] = gen[q] /\ plan'[q] = plan[q]
           /\ view'[q] = view[q] /\ answer'[q] = answer[q]
<1> USE DEF Control, TypeOK, GoTo, End, Page
<1>1. CASE Quiet(p)
  BY <1>1 DEF Quiet, Approve, Reserve, Collect, Overtaken, Turned, ReadPlan, Stop, Proceed,
              Respond, Read, Compare, Fenced
<1>2. CASE Freeze(p) \/ Create(p) \/ Reclaim(p) \/ Diverge(p) \/ LoseAnswer(p) \/ Quit(p)
  BY <1>2 DEF Freeze, Create, Reclaim, Diverge, LoseAnswer, Quit
<1>3. CASE BeginDispatch(p) \/ Record(p) \/ Drift(p) \/ CompareFails(p) \/ Finalize(p)
  BY <1>3 DEF BeginDispatch, Record, Drift, CompareFails, Finalize
<1>4. CASE \/ ReadFails(p) \/ Inspect(p) \/ MarkVerifying(p)
           \/ BeginInspection(p) \/ BeginFinal(p)
  BY <1>4 DEF ReadFails, Inspect, MarkVerifying, BeginInspection, BeginFinal
<1> QED
  BY <1>1, <1>2, <1>3, <1>4 DEF Loud

\* What happens outside is no request's step, and no execution's.
LEMMA NobodyActs ==
    ASSUME Outside
    PROVE  UNCHANGED <<at, gen, plan, view, answer, target, from, status, holder, batch,
                       collecting, mark>>
  BY DEF Outside, Move, Sell, Arrive, Vanish, Expire, request, frozen, execution, shopify

\* Only the freezing of a generation and what happens outside touch the rest.
LEMMA RestStays ==
    ASSUME NEW p \in Requests, Quiet(p) \/ Loud(p), ~Freeze(p)
    PROVE  UNCHANGED <<target, from, remote, reached>>
<1>1. CASE Quiet(p)
  BY <1>1, QuietIsQuiet
<1>2. CASE Loud(p)
  BY <1>2
  DEF Loud, Create, Reclaim, Diverge, LoseAnswer, Quit, BeginDispatch, Record, Drift,
      CompareFails, Finalize, ReadFails, Inspect, MarkVerifying, BeginInspection,
      BeginFinal, frozen, shopify
<1> QED
  BY <1>1, <1>2

\* An execution is begun once; while it has a lease it may go on or end; and
\* what has ended stays.
StatusMoves == \A g \in Generations :
    \/ status'[g] = status[g]
    \/ status[g] = "none" /\ status'[g] = "executing"
    \/ status[g] \in {"executing", "verifying"} /\ status'[g] # "none"

\* The status of one execution changes.
LEMMA OneStatus ==
    ASSUME Control, NEW g \in Generations, NEW s,
           status' = [status EXCEPT ![g] = s],
           \/ status[g] = "none" /\ s = "executing"
           \/ status[g] \in {"executing", "verifying"} /\ s # "none"
    PROVE  StatusMoves
  BY DEF Control, TypeOK, StatusMoves

\* Every step moves a status so.
LEMMA StatusStep == ASSUME Control, Next PROVE StatusMoves
<1>1. CASE status' = status
  BY <1>1 DEF StatusMoves
<1>2. ASSUME NEW p \in Requests, Create(p) PROVE StatusMoves
  <2>1. gen[p] \in Generations
    BY <1>2, OwnGeneration DEF Create, Early
  <2> QED
    BY <1>2, <2>1, OneStatus DEF Create
<1>3. ASSUME NEW p \in Requests,
             \/ Record(p) \/ Drift(p) \/ CompareFails(p) \/ Finalize(p)
             \/ ReadFails(p) \/ Inspect(p) \/ MarkVerifying(p)
      PROVE  StatusMoves
  <2>1. /\ gen[p] \in Generations
        /\ status[gen[p]] \in {"executing", "verifying"}
    <3>1. Writable(p) /\ at[p] \notin Early
      BY <1>3 DEF Record, Drift, CompareFails, Finalize, ReadFails, Inspect,
                  MarkVerifying, Early
    <3> QED
      BY <3>1, WritableExecution
  <2>2. \/ status' = status
        \/ \E s \in {"requires_regeneration", "blocked", "converged", "verifying"} :
              status' = [status EXCEPT ![gen[p]] = s]
    BY <1>3 DEF Record, Drift, CompareFails, Finalize, ReadFails, Inspect,
                MarkVerifying, Terminate
  <2> QED
    BY <1>1, <2>1, <2>2, OneStatus
<1>4. ASSUME NEW p \in Requests,
             \/ Quiet(p) \/ Freeze(p) \/ Reclaim(p) \/ Diverge(p) \/ LoseAnswer(p)
             \/ Quit(p) \/ BeginDispatch(p) \/ BeginInspection(p) \/ BeginFinal(p)
      PROVE  status' = status
  BY <1>4, QuietIsQuiet
  DEF Freeze, Reclaim, Diverge, LoseAnswer, Quit, BeginDispatch, BeginInspection,
      BeginFinal, execution
<1> QED
  BY <1>1, <1>2, <1>3, <1>4, Kinds, NobodyActs DEF Loud

\* A batch has a status with its execution; after that it is never again
\* nothing or pending, and done stays done.
BatchMoves == \A g \in Generations, s \in Slots :
    \/ batch'[g][s] = batch[g][s]
    \/ status[g] = "none" /\ status'[g] # "none"
    \/ /\ status[g] # "none"
       /\ batch'[g][s] \notin {"none", "pending"}
       /\ batch[g][s] \in Done => batch'[g][s] \in Done

\* Every step moves a batch so.
LEMMA BatchStep == ASSUME Inv, Next PROVE BatchMoves
<1> USE DEF Inv
<1>1. CASE batch' = batch
  BY <1>1 DEF BatchMoves
<1>2. ASSUME NEW p \in Requests, Create(p) PROVE BatchMoves
  <2>1. gen[p] \in Generations /\ status[gen[p]] = "none"
    BY <1>2, OwnGeneration DEF Create, Early
  <2>2. status'[gen[p]] # "none"
    BY <1>2, <2>1 DEF Create, Control, TypeOK
  <2>3. \A g \in Generations : g # gen[p] => batch'[g] = batch[g]
    BY <1>2, <2>1 DEF Create, Control, TypeOK
  <2> QED
    BY <2>1, <2>2, <2>3 DEF BatchMoves
<1>3. ASSUME NEW p \in Requests, Reclaim(p) PROVE BatchMoves
  <2>1. gen[p] \in Generations /\ status[gen[p]] # "none"
    BY <1>3, OwnGeneration DEF Reclaim, Early
  <2>2. \A h \in Generations, t \in Slots :
           batch'[h][t] = IF h = gen[p] /\ batch[h][t] = "dispatching"
                          THEN "ambiguous" ELSE batch[h][t]
    BY <1>3, <2>1, InterruptedType DEF Reclaim, Control
  <2> QED
    BY <2>1, <2>2 DEF BatchMoves, Done
<1>4. ASSUME NEW p \in Requests,
             \/ BeginDispatch(p) \/ Record(p)
             \/ Inspect(p) /\ AtTarget(p, Current(p))
      PROVE  BatchMoves
  <2>1. Writable(p) /\ at[p] \notin Early
    BY <1>4 DEF BeginDispatch, Record, Inspect, Early
  <2>2. gen[p] \in Generations /\ status[gen[p]] # "none"
    BY <2>1, WritableExecution
  <2>3. PICK b \in {"dispatching", "succeeded", "rejected", "ambiguous"} :
           /\ batch' = [batch EXCEPT ![gen[p]][Current(p)] = b]
           /\ batch[gen[p]][Current(p)] \in Done => b = "succeeded"
    <3>1. CASE BeginDispatch(p)
      BY <3>1 DEF BeginDispatch, Writable, Done
    <3>2. CASE Record(p)
      <4>1. answer[p] \in {"succeeded", "rejected", "ambiguous"}
        BY <3>2 DEF Record, PlansHold, Control, TypeOK
      <4> QED
        BY <3>2, <4>1 DEF Record, Writable, Done
    <3>3. CASE Inspect(p) /\ AtTarget(p, Current(p))
      BY <3>3 DEF Inspect
    <3> QED
      BY <1>4, <3>1, <3>2, <3>3
  <2>4. \A h \in Generations, t \in Slots :
           batch'[h][t] = IF h = gen[p] /\ t = Current(p) THEN b ELSE batch[h][t]
    BY <2>2, <2>3 DEF Control, TypeOK
  <2> QED
    BY <2>2, <2>3, <2>4 DEF BatchMoves, Done
<1>5. ASSUME NEW p \in Requests,
             \/ Quiet(p) \/ Freeze(p) \/ Diverge(p) \/ LoseAnswer(p) \/ Quit(p)
             \/ Drift(p) \/ CompareFails(p) \/ Finalize(p) \/ ReadFails(p)
             \/ MarkVerifying(p) \/ BeginInspection(p) \/ BeginFinal(p)
             \/ Inspect(p) /\ ~AtTarget(p, Current(p))
      PROVE  batch' = batch
  BY <1>5, QuietIsQuiet
  DEF Freeze, Diverge, LoseAnswer, Quit, Drift, CompareFails, Finalize, ReadFails,
      MarkVerifying, BeginInspection, BeginFinal, Inspect, execution
<1>6. ASSUME NEW p \in Requests, Quiet(p) \/ Loud(p) PROVE BatchMoves
  <2>1. CASE Create(p) \/ Reclaim(p)
    BY <1>2, <1>3, <2>1
  <2>2. CASE BeginDispatch(p) \/ Record(p)
    BY <1>4, <2>2
  <2>3. CASE Inspect(p)
    BY <1>1, <1>4, <1>5, <2>3
  <2>4. CASE \/ Quiet(p) \/ Freeze(p) \/ Diverge(p) \/ LoseAnswer(p) \/ Quit(p)
            \/ Drift(p) \/ CompareFails(p) \/ Finalize(p) \/ ReadFails(p)
            \/ MarkVerifying(p) \/ BeginInspection(p) \/ BeginFinal(p)
    BY <1>1, <1>5, <2>4
  <2> QED
    BY <1>6, <2>1, <2>3, <2>4, <2>2 DEF Loud
<1> QED
  BY <1>1, <1>6, Kinds, NobodyActs

\* A mutation is sent when its batch is marked for it.
MutationMoves == \A g \in Generations, s \in Slots :
    mutation[g][s] = "none" /\ mutation'[g][s] # "none" => batch'[g][s] = "dispatching"

\* Every step sends so.
LEMMA MutationStep == ASSUME Control, Next PROVE MutationMoves
<1>1. CASE mutation' = mutation
  BY <1>1 DEF MutationMoves
<1>2. ASSUME NEW g \in Generations, NEW s \in Slots, Arrive(g, s) \/ Vanish(g, s)
      PROVE  MutationMoves
  <2>1. PICK m : mutation' = [mutation EXCEPT ![g][s] = m]
    BY <1>2 DEF Arrive, Vanish
  <2>2. mutation[g][s] = "flight"
    BY <1>2 DEF Arrive, Vanish
  <2>3. \A h \in Generations, t \in Slots :
           mutation'[h][t] = IF h = g /\ t = s THEN m ELSE mutation[h][t]
    BY <2>1 DEF Control, TypeOK
  <2> QED
    BY <2>2, <2>3 DEF MutationMoves
<1>3. ASSUME NEW p \in Requests, BeginDispatch(p) PROVE MutationMoves
  <2>1. gen[p] \in Generations
    BY <1>3, OwnGeneration DEF BeginDispatch, Early
  <2> QED
    BY <1>3, <2>1 DEF BeginDispatch, Control, TypeOK, MutationMoves
<1>4. ASSUME NEW p \in Requests, Quiet(p) \/ (Loud(p) /\ ~BeginDispatch(p))
      PROVE  mutation' = mutation
  BY <1>4, QuietIsQuiet
  DEF Loud, Freeze, Create, Reclaim, Diverge, LoseAnswer, Quit, Record, Drift,
      CompareFails, Finalize, ReadFails, Inspect, MarkVerifying, BeginInspection,
      BeginFinal, shopify
<1>5. ASSUME NEW s \in Slots, NEW q \in Quantities, Move(s, q) \/ Sell(s, q)
      PROVE  mutation' = mutation
  BY <1>5 DEF Move, Sell, shopify
<1>6. ASSUME NEW g \in Generations, Expire(g) PROVE mutation' = mutation
  BY <1>6 DEF Expire, shopify
<1> QED
  BY <1>1, <1>2, <1>3, <1>4, <1>5, <1>6, Kinds DEF Outside

------------------------------------------------------------------------------
(* The invariant.                                                          *)

\* What was sent was marked before, and there are no batches without an execution.
LEMMA SentStep == ASSUME Inv, Next PROVE Sent' /\ Fresh'
<1>1. StatusMoves /\ BatchMoves /\ MutationMoves
  BY StatusStep, BatchStep, MutationStep DEF Inv
<1>2. Fresh'
  BY <1>1 DEF StatusMoves, BatchMoves, Fresh, Inv
<1>3. ASSUME NEW g \in Generations, NEW s \in Slots, mutation'[g][s] # "none"
      PROVE  batch'[g][s] \notin {"none", "pending"}
  BY <1>1, <1>3 DEF BatchMoves, MutationMoves, Sent, Fresh, Inv
<1> QED
  BY <1>2, <1>3 DEF Sent

\* Only a request that may build a generation begins to.
LEMMA CollectStep ==
    ASSUME Control, NEW p \in Requests, Quiet(p) \/ Loud(p), at'[p] = "collect"
    PROVE  /\ ~Freeze(p)
           /\ (at[p] = "collect" /\ gen'[p] = gen[p]) \/ Regenerate
<1> USE DEF Control, TypeOK, GoTo, End, Page
<1>1. CASE Quiet(p)
  BY <1>1 DEF Quiet, Approve, Reserve, Collect, Overtaken, Turned, ReadPlan, Stop, Proceed,
              Respond, Read, Compare, Fenced, Freeze
<1>2. CASE Freeze(p) \/ Create(p) \/ Reclaim(p) \/ Diverge(p) \/ LoseAnswer(p) \/ Quit(p)
  BY <1>2 DEF Freeze, Create, Reclaim, Diverge, LoseAnswer, Quit
<1>3. CASE BeginDispatch(p) \/ Record(p) \/ Drift(p) \/ CompareFails(p) \/ Finalize(p)
  BY <1>3 DEF BeginDispatch, Record, Drift, CompareFails, Finalize
<1>4. CASE \/ ReadFails(p) \/ Inspect(p) \/ MarkVerifying(p)
           \/ BeginInspection(p) \/ BeginFinal(p)
  BY <1>4 DEF ReadFails, Inspect, MarkVerifying, BeginInspection, BeginFinal
<1> QED
  BY <1>1, <1>2, <1>3, <1>4 DEF Loud

\* A generation is replaced when it is over.
LEMMA ReplacedStep == ASSUME Inv, Next PROVE Replaced'
<1> USE DEF Inv
<1>1. StatusMoves /\ Latest \in Nat /\ gen \in [Requests -> 0 .. Latest]
  BY StatusStep DEF Control, TypeOK, Latest
<1>2. ASSUME target' = target,
             \A q \in Requests : at'[q] = "collect" =>
                 (at[q] = "collect" /\ gen'[q] = gen[q]) \/ Regenerate
      PROVE  Replaced'
  <2>1. Latest' = Latest /\ (Latest # 0 => Latest \in Generations)
    BY <1>1, <1>2 DEF Latest, Control, TypeOK, Generations
  <2>2. Regenerate => Regenerate'
    BY <1>1, <2>1 DEF Regenerate, StatusMoves
  <2> QED
    BY <1>1, <1>2, <2>1, <2>2 DEF Replaced, StatusMoves
<1>3. ASSUME NEW p \in Requests, Freeze(p) PROVE Replaced'
  <2>1. Latest' = Latest + 1 /\ gen[p] = Latest /\ at[p] = "collect" /\ status' = status
    BY <1>3 DEF Freeze, BasisStands, Latest, Control, TypeOK, execution
  <2>2. Latest = 0 \/ status[Latest] = "requires_regeneration"
    BY <2>1 DEF Replaced, Regenerate
  <2>3. \A g \in Generations : g < Latest' => status'[g] = "requires_regeneration"
    BY <1>1, <2>1, <2>2, CutoverAssumption DEF Replaced, Generations
  <2>4. at'[p] = "claim"
    BY <1>3 DEF Freeze, GoTo, Control, TypeOK
  <2>5. \A q \in Requests : q # p => gen'[q] # Latest'
    BY <1>1, <1>3, <2>1, OneActs DEF Loud
  <2> QED
    BY <2>3, <2>4, <2>5 DEF Replaced
<1>4. CASE Outside
  BY <1>2, <1>4, NobodyActs
<1>5. ASSUME NEW p \in Requests, Quiet(p) \/ Loud(p), ~Freeze(p) PROVE Replaced'
  BY <1>2, <1>5, RestStays, CollectStep, OneActs
<1> QED
  BY <1>3, <1>4, <1>5, Kinds

\* What a request has as done stays done.
LEMMA DoneStays ==
    ASSUME Inv, BatchMoves, NEW p \in Requests, at[p] \in Planned,
           gen'[p] = gen[p], NEW s \in Slots, plan[p][s] \in Done
    PROVE  batch'[gen'[p]][s] \in Done
<1>1. gen[p] \in Generations /\ status[gen[p]] # "none"
  BY OwnGeneration DEF Inv, Control, Numbered, Planned, Early
<1>2. batch[gen[p]][s] \in Done
  BY DEF Inv, PlansHold
<1> QED
  BY <1>1, <1>2 DEF BatchMoves, Done

\* The part of PlansHold that is about one request.
PlanHolds(p) ==
    /\ at[p] \in Planned =>
           \A s \in Slots : plan[p][s] \in Done => batch[gen[p]][s] \in Done
    /\ at[p] \in Sending => Todo(p) # {}
    /\ at[p] = "record" => answer[p] # "none"

\* A plan that is kept holds.
LEMMA PlanKept ==
    ASSUME Inv, BatchMoves, NEW p \in Requests, gen'[p] = gen[p], plan'[p] = plan[p],
           at[p] \in Planned \/ at'[p] \notin Planned,
           at'[p] \in Sending => Todo(p) # {},
           at'[p] = "record" => answer'[p] # "none"
    PROVE  PlanHolds(p)'
<1>1. Todo(p)' = Todo(p)
  BY DEF Todo
<1>2. at'[p] \in Planned => \A s \in Slots : plan'[p][s] \in Done =>
          batch'[gen'[p]][s] \in Done
  BY DoneStays
<1> QED
  BY <1>1, <1>2 DEF PlanHolds

\* The plan of the request that acts holds.
LEMMA PlanStep ==
    ASSUME Inv, BatchMoves, NEW p \in Requests, Quiet(p) \/ Loud(p)
    PROVE  PlanHolds(p)'
<1> USE DEF Control, TypeOK, GoTo
<1>1. CASE at'[p] \notin Planned
  BY <1>1 DEF PlanHolds, Planned, Sending
<1>2. CASE End(p)
  <2>1. at'[p] \notin Planned
    BY <1>2 DEF End, Planned, Inv
  <2> QED
    BY <1>1, <2>1
<1>3. CASE ReadPlan(p)
  <2>1. plan'[p] = batch[gen[p]] /\ gen' = gen /\ batch' = batch
    BY <1>3 DEF ReadPlan, Inv, elsewhere, execution
  <2>2. at'[p] \in Sending => {s \in Slots : batch[gen[p]][s] \in Unfinished} # {}
    BY <1>3 DEF ReadPlan, Inv, Sending
  <2>3. Todo(p)' = {s \in Slots : batch[gen[p]][s] \in Unfinished}
    BY <2>1 DEF Todo
  <2>4. at'[p] # "record"
    BY <1>3 DEF ReadPlan, Inv
  <2> QED
    BY <2>1, <2>2, <2>3, <2>4 DEF PlanHolds
<1>4. CASE Proceed(p)
  <2>1. at[p] \in Planned /\ gen' = gen /\ plan' = plan /\ at'[p] # "record"
        /\ (at'[p] \in Sending => Todo(p) # {})
    BY <1>4 DEF Proceed, Planned, Sending, Inv
  <2> QED
    BY <2>1, PlanKept
<1>5. CASE Respond(p) \/ LoseAnswer(p)
  <2>1. at[p] \in Planned /\ at[p] \in Sending /\ gen' = gen /\ plan' = plan
        /\ answer'[p] # "none"
    BY <1>5 DEF Respond, LoseAnswer, Planned, Sending, Thrown, Inv
  <2>2. Todo(p) # {}
    BY <2>1 DEF Inv, PlansHold
  <2> QED
    BY <2>1, <2>2, PlanKept
<1>6. CASE BeginDispatch(p) \/ BeginInspection(p) \/ Diverge(p)
  <2>1. at[p] \in Planned /\ gen' = gen /\ plan' = plan /\ at'[p] # "record"
        /\ (at'[p] \in Sending => at[p] \in Sending)
    BY <1>6 DEF BeginDispatch, BeginInspection, Diverge, Planned, Sending, Inv
  <2> QED
    BY <2>1, PlanKept DEF Inv, PlansHold
<1>7. CASE Record(p) /\ answer[p] = "succeeded"
  <2>1. /\ at[p] = "record" /\ at[p] \in Planned /\ at[p] \in Sending /\ Writable(p)
        /\ at'[p] = "plan" /\ gen' = gen
        /\ plan' = [plan EXCEPT ![p][Current(p)] = "succeeded"]
        /\ batch' = [batch EXCEPT ![gen[p]][Current(p)] = "succeeded"]
    BY <1>7 DEF Record, Inv, Planned, Sending
  <2>2. gen[p] \in Generations
    BY <2>1, OwnGeneration DEF Inv, Early
  <2>3. Current(p) \in Slots
    BY <2>1, CurrentIsFirst DEF Inv, PlansHold
  <2>4. batch'[gen[p]][Current(p)] = "succeeded"
    BY <2>1, <2>2, <2>3 DEF Inv
  <2>5. \A s \in Slots : s # Current(p) => plan'[p][s] = plan[p][s]
    BY <2>1 DEF Inv
  <2>6. \A s \in Slots : plan'[p][s] \in Done => batch'[gen'[p]][s] \in Done
    BY <2>1, <2>4, <2>5, DoneStays DEF Done
  <2> QED
    BY <2>1, <2>6 DEF PlanHolds, Sending
<1>8. CASE Read(p)
  <2>1. at' = at /\ gen' = gen /\ plan' = plan /\ at[p] # "record"
    BY <1>8 DEF Read
  <2> QED
    BY <2>1, PlanKept DEF Inv, PlansHold
<1>9. CASE \/ Approve(p) \/ Reserve(p) \/ Collect(p) \/ Overtaken(p) \/ Turned(p)
           \/ Stop(p) \/ Compare(p) \/ Fenced(p)
  BY <1>1, <1>2, <1>9
  DEF Approve, Reserve, Collect, Overtaken, Turned, Stop, Compare, Fenced, Planned, Inv
<1>10. CASE \/ Freeze(p) \/ Create(p) \/ Reclaim(p) \/ Quit(p) \/ Drift(p)
            \/ Record(p) /\ answer[p] # "succeeded"
  BY <1>1, <1>2, <1>10 DEF Freeze, Create, Reclaim, Quit, Drift, Record, Planned, Inv
<1>11. CASE \/ CompareFails(p) \/ Finalize(p) \/ ReadFails(p) \/ Inspect(p)
            \/ MarkVerifying(p) \/ BeginFinal(p)
  BY <1>1, <1>2, <1>11
  DEF CompareFails, Finalize, ReadFails, Inspect, MarkVerifying, BeginFinal, Planned, Inv
<1> QED
  BY <1>3, <1>4, <1>5, <1>6, <1>7, <1>8, <1>9, <1>10, <1>11 DEF Quiet, Loud

\* The plans hold through every step.
LEMMA PlansStep == ASSUME Inv, Next PROVE PlansHold'
<1>1. BatchMoves
  BY BatchStep
<1>2. ASSUME NEW q \in Requests, at'[q] = at[q], gen'[q] = gen[q], plan'[q] = plan[q],
             answer'[q] = answer[q]
      PROVE  PlanHolds(q)'
  <2>1. at[q] \in Planned \/ at'[q] \notin Planned
    BY <1>2
  <2> QED
    BY <1>1, <1>2, <2>1, PlanKept DEF Inv, PlansHold
<1>3. CASE Outside
  BY <1>2, <1>3, NobodyActs DEF PlanHolds, PlansHold
<1>4. ASSUME NEW p \in Requests, Quiet(p) \/ Loud(p) PROVE PlansHold'
  <2>1. PlanHolds(p)'
    BY <1>1, <1>4, PlanStep
  <2>2. ASSUME NEW q \in Requests, q # p PROVE PlanHolds(q)'
    BY <1>2, <1>4, <2>2, OneActs DEF Inv
  <2>3. \A q \in Requests : PlanHolds(q)'
    BY <2>1, <2>2
  <2> QED
    BY <2>3 DEF PlanHolds, PlansHold
<1> QED
  BY <1>3, <1>4, Kinds

\* The part of ViewsHold that is about one request.
ViewHolds(p) ==
    /\ at[p] \notin {"collect", "inspect", "verify"} => view[p] = <<>>
    /\ at[p] \in {"inspect", "verify"} /\ gen[p] = Latest =>
           \A s \in 1 .. Len(view[p]) : AtTarget(p, s) => s \in reached

\* A view stays true: what Shopify has been at is not forgotten.
LEMMA ViewKept ==
    ASSUME Inv, NEW p \in Requests, target' = target, reached \subseteq reached',
           at'[p] = at[p], gen'[p] = gen[p], view'[p] = view[p]
    PROVE  ViewHolds(p)'
  BY DEF Inv, ViewsHold, ViewHolds, AtTarget, Latest

\* An empty view says nothing.
LEMMA ViewEmpty ==
    ASSUME NEW p \in Requests, view'[p] = <<>> PROVE ViewHolds(p)'
<1>1. Len(view'[p]) = 0
  OBVIOUS
<1>2. \A s \in 1 .. Len(view'[p]) : FALSE
  BY <1>1
<1> QED
  BY <1>2 DEF ViewHolds

\* The view of the request that acts holds.
LEMMA ViewStep ==
    ASSUME Inv, NEW p \in Requests, Quiet(p) \/ Loud(p)
    PROVE  ViewHolds(p)'
<1> USE DEF Control, TypeOK, GoTo
<1>1. ASSUME view'[p] = view[p], at[p] \notin {"collect", "inspect", "verify"}
      PROVE  ViewHolds(p)'
  BY <1>1, ViewEmpty DEF Inv, ViewsHold
<1>2. CASE End(p)
  BY <1>2, ViewEmpty DEF End, Inv
<1>3. CASE Collect(p)
  BY <1>3 DEF Collect, ViewHolds
<1>4. CASE Read(p)
  <2>1. /\ at' = at /\ gen' = gen /\ target' = target /\ reached' = reached
        /\ at[p] \in {"inspect", "verify"}
    BY <1>4 DEF Read, elsewhere, frozen, shopify
  <2>2. view'[p] = Append(view[p], remote[Len(view[p]) + 1])
    BY <1>4, PageType DEF Read, Inv
  <2>3. ASSUME gen[p] = Latest, NEW s \in 1 .. Len(view'[p]),
               view'[p][s] = target[Latest][s]
        PROVE  s \in reached
    <3>1. Len(view[p]) \in Nat /\ Len(view[p]) < MaxSlots
      BY <1>4, CutoverAssumption DEF Read, Collected, Inv
    <3>2. gen[p] \in 1 .. Latest
      BY <2>1, OwnGeneration DEF Inv, Early
    <3>3. view[p] \in Seq(Quantities) /\ remote[Len(view[p]) + 1] \in Quantities
      BY <3>1, CutoverAssumption DEF Inv, Slots
    <3>4. Len(view'[p]) = Len(view[p]) + 1 /\ Latest > 0
      BY <2>2, <3>2, <3>3 DEF Inv, Latest
    <3>5. CASE s = Len(view[p]) + 1
      <4>1. s \in Slots /\ remote[s] = target[Latest][s]
        BY <2>2, <2>3, <3>1, <3>3, <3>5, CutoverAssumption DEF Slots
      <4> QED
        BY <3>4, <4>1 DEF Inv, ReachedNow
    <3>6. CASE s # Len(view[p]) + 1
      <4>1. s \in 1 .. Len(view[p]) /\ view'[p][s] = view[p][s]
        BY <2>2, <3>1, <3>3, <3>4, <3>6
      <4> QED
        BY <2>1, <2>3, <4>1 DEF Inv, ViewsHold, AtTarget
    <3> QED
      BY <3>5, <3>6
  <2> QED
    BY <2>1, <2>3 DEF ViewHolds, AtTarget, Latest
<1>5. CASE Freeze(p) \/ (Overtaken(p) /\ ~Regenerate)
  <2>1. view'[p] = <<>>
    BY <1>5 DEF Freeze, Overtaken, Inv
  <2> QED
    BY <2>1, ViewEmpty
<1>6. CASE Inspect(p) /\ AtTarget(p, Current(p))
  <2>1. view'[p] = <<>>
    BY <1>6 DEF Inspect, Inv
  <2> QED
    BY <2>1, ViewEmpty
<1>7. CASE \/ Approve(p) \/ Reserve(p) \/ ReadPlan(p) \/ Proceed(p) \/ Respond(p)
           \/ Compare(p) \/ Create(p) \/ Reclaim(p) \/ Diverge(p) \/ LoseAnswer(p)
           \/ BeginDispatch(p) \/ MarkVerifying(p) \/ BeginInspection(p) \/ BeginFinal(p)
  BY <1>1, <1>7
  DEF Approve, Reserve, ReadPlan, Proceed, Respond, Compare, Create, Reclaim, Diverge,
      LoseAnswer, BeginDispatch, MarkVerifying, BeginInspection, BeginFinal
<1>8. CASE Record(p) /\ answer[p] = "succeeded"
  BY <1>1, <1>8 DEF Record
<1>9. CASE \/ Overtaken(p) /\ Regenerate
           \/ Turned(p) \/ Stop(p) \/ Fenced(p) \/ Quit(p) \/ Drift(p)
           \/ Record(p) /\ answer[p] # "succeeded"
           \/ CompareFails(p) \/ Finalize(p) \/ ReadFails(p)
           \/ Inspect(p) /\ ~AtTarget(p, Current(p))
  <2>1. End(p)
    BY <1>9 DEF Overtaken, Turned, Stop, Fenced, Quit, Drift, Record, CompareFails,
                Finalize, ReadFails, Inspect
  <2> QED
    BY <1>2, <2>1
<1> QED
  BY <1>3, <1>4, <1>5, <1>6, <1>7, <1>8, <1>9 DEF Quiet, Loud

\* The views hold through every step.
LEMMA ViewsStep == ASSUME Inv, Next PROVE ViewsHold'
<1>1. CASE Outside
  <2>1. reached \subseteq reached'
    BY <1>1 DEF Outside, Move, Sell, Arrive, Vanish, Expire, Reach, shopify
  <2>2. \A q \in Requests : ViewHolds(q)'
    BY <1>1, <2>1, NobodyActs, ViewKept
  <2> QED
    BY <2>2 DEF ViewHolds, ViewsHold
<1>2. ASSUME NEW p \in Requests, Quiet(p) \/ Loud(p) PROVE ViewsHold'
  <2>1. ViewHolds(p)'
    BY <1>2, ViewStep
  <2>2. ASSUME NEW q \in Requests, q # p PROVE ViewHolds(q)'
    <3>1. at'[q] = at[q] /\ gen'[q] = gen[q] /\ view'[q] = view[q]
      BY <1>2, <2>2, OneActs DEF Inv
    <3>2. CASE Freeze(p)
      <4>1. Latest' = Latest + 1 /\ Latest \in Nat
        BY <3>2 DEF Freeze, Latest, Inv, Control, TypeOK
      <4>2. gen[q] <= Latest /\ gen[q] \in Nat
        BY <4>1 DEF Inv, Control, TypeOK
      <4>3. gen'[q] # Latest'
        BY <3>1, <4>1, <4>2
      <4> QED
        BY <3>1, <4>3 DEF ViewHolds, ViewsHold, Inv
    <3>3. CASE ~Freeze(p)
      BY <1>2, <3>1, <3>3, RestStays, ViewKept
    <3> QED
      BY <3>2, <3>3
  <2>3. \A q \in Requests : ViewHolds(q)'
    BY <2>1, <2>2
  <2> QED
    BY <2>3 DEF ViewHolds, ViewsHold
<1> QED
  BY <1>1, <1>2, Kinds

\* Shopify has been at what it has, through every step.
LEMMA ReachedStep == ASSUME Inv, Next PROVE ReachedNow'
<1> USE DEF Inv, Control, TypeOK
<1>1. ASSUME UNCHANGED <<target, remote, reached>> PROVE ReachedNow'
  BY <1>1 DEF ReachedNow, Latest
<1>2. ASSUME target' = target, Reach(remote') PROVE ReachedNow'
  BY <1>2 DEF ReachedNow, Reach, Latest
<1>3. CASE Outside
  BY <1>1, <1>2, <1>3 DEF Outside, Move, Sell, Arrive, Vanish, Expire, shopify, frozen
<1>4. ASSUME NEW p \in Requests, Freeze(p) PROVE ReachedNow'
  <2>1. target' = Append(target, local) /\ remote' = remote
        /\ reached' = {s \in Slots : remote[s] = local[s]}
    BY <1>4 DEF Freeze
  <2>2. target'[Latest'] = local
    BY <2>1 DEF Latest
  <2> QED
    BY <2>1, <2>2 DEF ReachedNow
<1>5. ASSUME NEW p \in Requests, Quiet(p) \/ Loud(p), ~Freeze(p) PROVE ReachedNow'
  BY <1>1, <1>5, RestStays
<1> QED
  BY <1>3, <1>4, <1>5, Kinds

\* The invariant holds at the start, ...
LEMMA InitInv == Init => Inv
<1> SUFFICES ASSUME Init PROVE Inv
  OBVIOUS
<1>1. Control
  BY InitControl
<1>2. Latest = 0
  BY DEF Init, Latest
<1>3. Sent /\ Fresh /\ PlansHold /\ ReachedNow
  BY <1>2 DEF Init, Sent, Fresh, PlansHold, ReachedNow, Planned, Sending
<1>4. Replaced
  BY <1>2, CutoverAssumption DEF Init, Replaced, Generations
<1>5. ViewsHold
  BY DEF Init, ViewsHold
<1> QED
  BY <1>1, <1>3, <1>4, <1>5 DEF Inv

\* ... when nothing happens, ...
LEMMA StutterInv == ASSUME Inv, UNCHANGED vars PROVE Inv'
<1>1. Control'
  BY StutterControl DEF Inv
<1>2. Sent' /\ Fresh' /\ Replaced'
  BY DEF Inv, vars, Sent, Fresh, Replaced, Regenerate, Latest
<1>3. PlansHold' /\ ViewsHold' /\ ReachedNow'
  BY DEF Inv, vars, PlansHold, ViewsHold, ReachedNow, Todo, AtTarget, Latest
<1> QED
  BY <1>1, <1>2, <1>3 DEF Inv

\* ... and through every step.
LEMMA NextInv == ASSUME Inv, [Next]_vars PROVE Inv'
<1>1. CASE Next
  BY <1>1, NextControl, SentStep, ReplacedStep, PlansStep, ViewsStep, ReachedStep DEF Inv
<1>2. CASE UNCHANGED vars
  BY <1>2, StutterInv
<1> QED
  BY <1>1, <1>2

------------------------------------------------------------------------------
(* What is never sent twice.                                               *)

\* A batch is marked for sending by the step that sends it, and by no other.
LEMMA OnlyDispatchSends ==
    ASSUME Inv, Next, NEW g \in Generations, NEW s \in Slots,
           batch'[g][s] = "dispatching", batch[g][s] # "dispatching"
    PROVE  \E p \in Requests : BeginDispatch(p) /\ g = gen[p] /\ s = Current(p)
<1> USE DEF Inv, Control, TypeOK
<1>1. batch' # batch
  OBVIOUS
<1>2. PICK p \in Requests : Quiet(p) \/ Loud(p)
  BY <1>1, Kinds, NobodyActs
<1>3. CASE Create(p)
  <2>1. gen[p] \in Generations
    BY <1>3, OwnGeneration DEF Create, Early
  <2>2. batch'[g][s] \in {"pending", "none", batch[g][s]}
    BY <1>3, <2>1 DEF Create
  <2> QED
    BY <2>2
<1>4. CASE Reclaim(p)
  <2>1. gen[p] \in Generations
    BY <1>4, OwnGeneration DEF Reclaim, Early
  <2> QED
    BY <1>4, <2>1, InterruptedType DEF Reclaim
<1>5. CASE Record(p) \/ Inspect(p)
  <2>1. gen[p] \in Generations
    BY <1>5, OwnGeneration DEF Record, Inspect, Early
  <2>2. PICK b \in {"none", "succeeded", "rejected", "ambiguous"} :
           batch' = [batch EXCEPT ![gen[p]][Current(p)] = b]
    BY <1>1, <1>5 DEF Record, Inspect
  <2> QED
    BY <2>1, <2>2
<1>6. CASE BeginDispatch(p)
  <2>1. gen[p] \in Generations
    BY <1>6, OwnGeneration DEF BeginDispatch, Early
  <2> QED
    BY <1>6, <2>1 DEF BeginDispatch
<1>7. CASE \/ Quiet(p) \/ Freeze(p) \/ Diverge(p) \/ LoseAnswer(p) \/ Quit(p)
           \/ Drift(p) \/ CompareFails(p) \/ Finalize(p) \/ ReadFails(p)
           \/ MarkVerifying(p) \/ BeginInspection(p) \/ BeginFinal(p)
  BY <1>1, <1>7, QuietIsQuiet
  DEF Freeze, Diverge, LoseAnswer, Quit, Drift, CompareFails, Finalize, ReadFails,
      MarkVerifying, BeginInspection, BeginFinal, execution
<1> QED
  BY <1>2, <1>3, <1>4, <1>5, <1>6, <1>7 DEF Loud

\* A generation that is executing or verifying is the latest.
LEMMA AtWorkIsLatest ==
    ASSUME Inv, NEW p \in Requests, at[p] \notin Early, Writable(p)
    PROVE  gen[p] \in Generations /\ gen[p] = Latest
<1>1. /\ gen[p] \in Generations /\ gen[p] \in 1 .. Latest
      /\ status[gen[p]] \in {"executing", "verifying"}
  BY WritableExecution DEF Inv
<1>2. ~(gen[p] < Latest)
  BY <1>1 DEF Inv, Replaced
<1> QED
  BY <1>1, <1>2 DEF Generations, Latest, Inv, Control, TypeOK

\* Nothing is sent twice, out of order, or for a generation that another has
\* replaced: "Nothing is ever resent" of the executor.
THEOREM NothingIsResent == Spec => NeverResent
<1> DEFINE A == \A g \in Generations, s \in Slots :
        batch'[g][s] = "dispatching" /\ batch[g][s] # "dispatching" =>
            /\ mutation[g][s] = "none"
            /\ \A t \in 1 .. s - 1 : batch[g][t] \in {"none", "succeeded"}
            /\ g = Latest
<1>1. Inv /\ [Next]_vars => [A]_vars
  <2> SUFFICES ASSUME Inv, Next, NEW g \in Generations, NEW s \in Slots,
                      batch'[g][s] = "dispatching", batch[g][s] # "dispatching"
               PROVE  /\ mutation[g][s] = "none"
                      /\ \A t \in 1 .. s - 1 : batch[g][t] \in {"none", "succeeded"}
                      /\ g = Latest
    OBVIOUS
  <2>1. PICK p \in Requests : BeginDispatch(p) /\ g = gen[p] /\ s = Current(p)
    BY OnlyDispatchSends
  <2>2. /\ at[p] = "dispatch" /\ at[p] \notin Early /\ at[p] \in Sending
        /\ at[p] \in Planned /\ Writable(p)
    BY <2>1 DEF BeginDispatch, Early, Sending, Planned
  <2>3. mutation[g][s] = "none"
    BY <2>1, <2>2 DEF Writable, Inv, Sent
  <2>4. ASSUME NEW t \in 1 .. s - 1 PROVE batch[g][t] \in {"none", "succeeded"}
    <3>1. t \in Slots /\ ~(s <= t)
      BY CutoverAssumption DEF Slots
    <3>2. plan[p][t] \notin Unfinished
      BY <2>1, <2>2, <3>1, CurrentIsFirst DEF Inv, PlansHold
    <3>3. plan[p][t] \in BatchStatus
      BY <3>1 DEF Inv, Control, TypeOK
    <3>4. plan[p][t] \in Done
      BY <3>2, <3>3 DEF BatchStatus, Done
    <3> QED
      BY <2>1, <2>2, <3>1, <3>4 DEF Inv, PlansHold, Done
  <2>5. g = Latest
    BY <2>1, <2>2, AtWorkIsLatest
  <2> QED
    BY <2>3, <2>4, <2>5
<1> QED
  BY <1>1, InitInv, NextInv, PTL DEF Spec, NeverResent

------------------------------------------------------------------------------
(* What the end says.                                                      *)

\* The mark is set when a final verification ends, and at no other time.
LEMMA OnlyFinalizeMarks ==
    ASSUME Next, mark' # mark PROVE \E p \in Requests : Finalize(p)
<1>1. PICK p \in Requests : Quiet(p) \/ Loud(p)
  BY Kinds, NobodyActs
<1>2. CASE Quiet(p)
  BY <1>2, QuietIsQuiet
<1>3. CASE Loud(p) /\ ~Finalize(p)
  BY <1>3
  DEF Loud, Freeze, Create, Reclaim, Diverge, LoseAnswer, Quit, BeginDispatch, Record,
      Drift, CompareFails, ReadFails, Inspect, MarkVerifying, BeginInspection, BeginFinal,
      execution
<1> QED
  BY <1>1, <1>2, <1>3

\* The completion mark is set for a generation that has converged, which has
\* the stock as it is then, and which Shopify has been at, slot by slot, since
\* it was frozen.
THEOREM EndsAreTrue == Spec => EndIsTrue
<1> DEFINE A == mark' # mark =>
        /\ status'[Latest] = "converged"
        /\ local = target[Latest]
        /\ reached = Slots
<1>1. Inv /\ [Next]_vars => [A]_vars
  <2> SUFFICES ASSUME Inv, Next, mark' # mark
               PROVE  /\ status'[Latest] = "converged"
                      /\ local = target[Latest]
                      /\ reached = Slots
    OBVIOUS
  <2>1. PICK p \in Requests : Finalize(p)
    BY OnlyFinalizeMarks
  <2>2. gen[p] \in Generations /\ gen[p] = Latest
    BY <2>1, AtWorkIsLatest DEF Finalize, Early
  <2>3. /\ at[p] = "verify" /\ Len(view[p]) = MaxSlots
        /\ TargetStands(p) /\ AllAtTarget(p) /\ Terminate(Latest, "converged")
    BY <2>1, <2>2 DEF Finalize, Collected
  <2>4. status'[Latest] = "converged"
    BY <2>2, <2>3 DEF Terminate, Inv, Control, TypeOK
  <2>5. \A s \in Slots : s \in reached
    BY <2>2, <2>3 DEF AllAtTarget, Slots, Inv, ViewsHold
  <2>6. reached = Slots
    BY <2>5 DEF Inv, Control, TypeOK
  <2> QED
    BY <2>2, <2>3, <2>4, <2>6 DEF TargetStands
<1> QED
  BY <1>1, InitInv, NextInv, PTL DEF Spec, EndIsTrue

=============================================================================
