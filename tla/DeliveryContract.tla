--------------------------- MODULE DeliveryContract ---------------------------
(***************************************************************************)
(* What the delivery of notifications promises those who plan one, with no *)
(* process, no claim and no clock in it.  A delivery is open until it is   *)
(* closed, once and for good, with an outcome that has happened.  While it *)
(* is open attempts are paid for in advance, one provider call is made for *)
(* an attempt that is paid for, and never two at a time; an attempt that   *)
(* is given back was paid for and not used.  A call may be lost, and with  *)
(* it its answer.  NotificationDelivery implements it.                     *)
(***************************************************************************)
EXTENDS Naturals

CONSTANTS
    Deliveries,
    Answers,        \* what a provider may answer; "accepted", "rejected" matter
    MaxAttempts

VARIABLES
    outcome,        \* "none" before it is planned, "open", or how it was closed
    paid,           \* attempts paid for
    made,           \* provider calls begun
    calling,        \* the deliveries a call is open for
    heard           \* the answers to its calls so far

vars == <<outcome, paid, made, calling, heard>>

Init ==
    /\ outcome = [d \in Deliveries |-> "none"]
    /\ paid = [d \in Deliveries |-> 0]
    /\ made = [d \in Deliveries |-> 0]
    /\ calling = {}
    /\ heard = [d \in Deliveries |-> {}]

Open(d) ==
    /\ outcome[d] = "none"
    /\ outcome' = [outcome EXCEPT ![d] = "open"]
    /\ UNCHANGED <<paid, made, calling, heard>>

\* Open, and nobody is calling for it.
AtRest(d) == outcome[d] = "open" /\ d \notin calling

Pay(d) ==
    /\ AtRest(d)
    /\ paid[d] < MaxAttempts
    /\ paid' = [paid EXCEPT ![d] = @ + 1]
    /\ UNCHANGED <<outcome, made, calling, heard>>

\* No call has been made for the attempt that is given back.
PayBack(d) ==
    /\ AtRest(d)
    /\ made[d] < paid[d]
    /\ paid' = [paid EXCEPT ![d] = @ - 1]
    /\ UNCHANGED <<outcome, made, calling, heard>>

Call(d) ==
    /\ AtRest(d)
    /\ made[d] < paid[d]
    /\ made' = [made EXCEPT ![d] = @ + 1]
    /\ calling' = calling \cup {d}
    /\ UNCHANGED <<outcome, paid, heard>>

Hear(d, r) ==
    /\ d \in calling
    /\ calling' = calling \ {d}
    /\ heard' = [heard EXCEPT ![d] = @ \cup {r}]
    /\ UNCHANGED <<outcome, paid, made>>

\* The process that made the call dies.
Lose(d) ==
    /\ d \in calling
    /\ calling' = calling \ {d}
    /\ UNCHANGED <<outcome, paid, made, heard>>

Close(d, s) ==
    /\ AtRest(d)
    /\ s = "sent" => "accepted" \in heard[d]
    /\ s = "failed" => "rejected" \in heard[d] \/ paid[d] = MaxAttempts
    /\ outcome' = [outcome EXCEPT ![d] = s]
    /\ UNCHANGED <<paid, made, calling, heard>>

Next ==
    \E d \in Deliveries :
        \/ Open(d) \/ Pay(d) \/ PayBack(d) \/ Call(d) \/ Lose(d)
        \/ \E r \in Answers : Hear(d, r)
        \/ \E s \in {"sent", "failed", "cancelled"} : Close(d, s)

Spec == Init /\ [][Next]_vars

=============================================================================
