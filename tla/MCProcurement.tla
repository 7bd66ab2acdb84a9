--------------------------- MODULE MCProcurement ---------------------------
(* Model values and bounds for Procurement. *)
EXTENDS Procurement, TLC

CONSTANTS a1, a2, f1, f2, b1, b2, r1, r2

TwoAnswers  == {a1, a2}
OneFarmer   == {f1}
TwoFarmers  == {f1, f2}
TwoBatches  == {b1, b2}
OneRequest  == {r1}
TwoRequests == {r1, r2}

\* Both batches are the first farmer's.
OwnerOfBoth == [b \in TwoBatches |-> f1]

\* Each farmer has a batch.
OwnerOfEach == (b1 :> f1) @@ (b2 :> f2)
=============================================================================
