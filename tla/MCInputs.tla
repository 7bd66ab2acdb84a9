------------------------------ MODULE MCInputs ------------------------------
(* Model values and bounds for InputOrders. *)
EXTENDS InputOrders, TLC

CONSTANTS o1, o2, r1, r2

TwoOrders   == {o1, o2}
TwoRequests == {r1, r2}

\* Either fits the greatest count, both do not.
Sizes == (o1 :> 2) @@ (o2 :> 1)

Symmetry == Permutations(TwoRequests)
=============================================================================
