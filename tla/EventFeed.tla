------------------------------ MODULE EventFeed ------------------------------
(***************************************************************************)
(* What the projection pipeline promises its consumers, with no worker, no *)
(* lock and no retry in it: a position over the domain event log that only *)
(* moves forward, one event at a time, in the order of the event ids.      *)
(* Every committed event directly ahead of the position is either          *)
(* projected or set aside as a recorded failure; ids that have no visible  *)
(* event may be passed over, but only up to an event that is there.        *)
(* ProjectionWorker implements it.                                         *)
(***************************************************************************)
EXTENDS Naturals, Sequences

VARIABLES
    log,        \* ids of the committed domain events
    position,   \* id of the last event dealt with
    projected,  \* ids whose projection took effect, in that order
    setAside    \* ids recorded as projection failures

vars == <<log, position, projected, setAside>>

Init ==
    /\ log = {}
    /\ position = 0
    /\ projected = <<>>
    /\ setAside = {}

\* A producer's transaction commits: its events join the log, wherever the
\* position is by now.
Publish ==
    /\ log \subseteq log'
    /\ log' \subseteq Nat \ {0}
    /\ UNCHANGED <<position, projected, setAside>>

\* The event directly ahead of the position takes effect.
Project ==
    /\ position + 1 \in log
    /\ position' = position + 1
    /\ projected' = Append(projected, position + 1)
    /\ UNCHANGED <<log, setAside>>

\* The event directly ahead of the position is recorded as a failure instead.
SetAside ==
    /\ position + 1 \in log
    /\ position' = position + 1
    /\ setAside' = setAside \cup {position + 1}
    /\ UNCHANGED <<log, projected>>

\* Ids below a committed event are passed over; the event itself is not.
PassOver ==
    /\ \E e \in log : \E n \in position + 1 .. e - 1 : position' = n
    /\ UNCHANGED <<log, projected, setAside>>

Next == Publish \/ Project \/ SetAside \/ PassOver

Spec == Init /\ [][Next]_vars

=============================================================================
