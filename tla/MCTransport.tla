---------------------------- MODULE MCTransport ----------------------------
(* Model values and bounds for TransportRequests. *)
EXTENDS TransportRequests, TLC

CONSTANTS t1, p1, p2, r1, r2

OneRow       == {t1}
OneProvider  == {p1}
TwoProviders == {p1, p2}
OneRequest   == {r1}
TwoRequests  == {r1, r2}

\* Handlers are interchangeable, and so are providers.
Symmetry == Permutations(TwoRequests) \cup Permutations(TwoProviders)
=============================================================================
