------------------------------ MODULE MCTokens ------------------------------
(* Model values and bounds for AuthTokens. *)
EXTENDS AuthTokens, TLC

CONSTANTS u1, u2, t1, t2, t3, t4, r1, r2, r3

TwoUsers      == {u1, u2}
FourTokens    == {t1, t2, t3, t4}
ThreeHandlers == {r1, r2, r3}

Symmetry == Permutations(TwoUsers) \cup Permutations(FourTokens) \cup Permutations(ThreeHandlers)
=============================================================================
