----------------------------- MODULE MCListings -----------------------------
(* Model values and bounds for Listings. *)
EXTENDS Listings, TLC

CONSTANTS l1, r1, r2

OneLead     == {l1}
TwoRequests == {r1, r2}

Symmetry == Permutations(TwoRequests)
=============================================================================
