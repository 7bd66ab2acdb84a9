------------------------------ MODULE MCPickup ------------------------------
(* Model values and bounds for PickupScheduling. *)
EXTENDS PickupScheduling, TLC

CONSTANTS s1, b1, b2, b3, t1, t2, r1, r2, r3

OneSchedule   == {s1}
TwoBookings   == {b1, b2}
ThreeBookings == {b1, b2, b3}
TwoBatches    == {t1, t2}
TwoRequests   == {r1, r2}
ThreeRequests == {r1, r2, r3}

\* Rows of one table, batches and handlers are interchangeable.
Symmetry == Permutations(ThreeBookings) \cup Permutations(TwoBatches) \cup Permutations(ThreeRequests)
=============================================================================
