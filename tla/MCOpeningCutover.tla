------------------------- MODULE MCOpeningCutover -------------------------
(* Two slots and two quantities for OpeningCutover.  Which of the two       *)
(* quantities Shopify has in a slot at the start makes no difference, so    *)
(* one is taken, and the warehouse may have either.                         *)
EXTENDS OpeningCutover

Empty == {[s \in Slots |-> 0]}
============================================================================
