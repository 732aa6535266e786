---- MODULE MCPickBatches ----
EXTENDS PickBatches, TLC
CONSTANTS o1, o2
MCQty == (o1 :> 1) @@ (o2 :> 2)
MCSymmetry == Permutations(Batches) \cup Permutations(Operators) \cup Permutations(Releases)

\* Bound: a release starts while there is a batch it could make, ...
MCStart ==
    \A r \in Releases : release[r].step = "idle" /\ release'[r].step # "idle" =>
        \E b \in Batches : batch[b] = "none"

\* ... and a cancellation while the batch is pending: none becomes pending again,
\* so a later one is refused whatever it reads.
MCAsk == asked = NotAsked /\ asked' # NotAsked => batch[asked'.batch] = "pending"
====
