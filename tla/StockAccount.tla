----------------------------- MODULE StockAccount -----------------------------
(***************************************************************************)
(* What the warehouse promises of the stock of a variant at a location:    *)
(* three numbers, and for each order the units it holds and the units that *)
(* have gone for it.  Numbers and orders move together, or not at all.     *)
(* Nothing is held for an order twice, no more of it goes than was         *)
(* ordered, what has gone is never given back, and the one movement that   *)
(* no hold pays for is a fulfilment the warehouse learns of afterwards.    *)
(* There is no batch, no operator and no lock.  PickBatches implements it. *)
(***************************************************************************)
EXTENDS Integers, Functions

CONSTANTS
    Orders,
    Qty,        \* Qty[o]: units on the line of order o
    Stock       \* units at the location at first

VARIABLES
    onHand, reserved, available,
    held,       \* units held for an order
    gone        \* units that have left the location for it

vars == <<onHand, reserved, available, held, gone>>

Units(S) == SumFunctionOnSet(Qty, S)

Init ==
    /\ onHand = Stock /\ reserved = 0 /\ available = Stock
    /\ held = [o \in Orders |-> 0]
    /\ gone = [o \in Orders |-> 0]

Receive ==
    /\ onHand' = onHand + 1 /\ available' = available + 1
    /\ UNCHANGED <<reserved, held, gone>>

\* All units of the orders of S, or nothing.
Hold(S) ==
    /\ \A o \in S : held[o] = 0 /\ gone[o] = 0
    /\ Units(S) <= available
    /\ reserved' = reserved + Units(S)
    /\ available' = available - Units(S)
    /\ held' = [o \in Orders |-> IF o \in S THEN Qty[o] ELSE held[o]]
    /\ UNCHANGED <<onHand, gone>>

\* Only what is held in full, and of which nothing has gone, is given back.
Free(S) ==
    /\ \A o \in S : held[o] = Qty[o] /\ gone[o] = 0
    /\ reserved' = reserved - Units(S)
    /\ available' = available + Units(S)
    /\ held' = [o \in Orders |-> IF o \in S THEN 0 ELSE held[o]]
    /\ UNCHANGED <<onHand, gone>>

Leave(o, n) ==
    /\ gone[o] + n <= Qty[o]
    /\ onHand' = onHand - n
    /\ gone' = [gone EXCEPT ![o] = @ + n]

\* Held units leave the location.
Take(o, n) ==
    /\ n <= held[o]
    /\ Leave(o, n)
    /\ reserved' = reserved - n
    /\ held' = [held EXCEPT ![o] = @ - n]
    /\ UNCHANGED available

\* Units nobody held have left it; the available ones end at zero.
TakeUnheld(o, n) ==
    /\ Leave(o, n)
    /\ available' = IF available < n THEN 0 ELSE available - n
    /\ UNCHANGED <<reserved, held>>

Next ==
    \/ Receive
    \/ \E S \in SUBSET Orders : Hold(S) \/ Free(S)
    \/ \E o \in Orders : \E n \in 1 .. Qty[o] : Take(o, n) \/ TakeUnheld(o, n)

Spec == Init /\ [][Next]_vars

=============================================================================
