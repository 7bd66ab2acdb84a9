------------------------------ MODULE MCOrders ------------------------------
(* Model values and bounds for OrderLifecycle. *)
EXTENDS OrderLifecycle, TLC

CONSTANTS r1, r2

TwoRequests == {r1, r2}

\* Handlers are interchangeable.
Symmetry == Permutations(TwoRequests)
=============================================================================
