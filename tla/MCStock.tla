------------------------------- MODULE MCStock -------------------------------
(* Model values and bounds for StockInventory. *)
EXTENDS StockInventory, TLC

CONSTANTS main, satellite, b1, i1, i2, t1, t2, r1, r2

BothCenters == {main, satellite}
MainOnly    == {main}
OneBatch    == {b1}
TwoItems    == {i1, i2}
TwoTransactions == {t1, t2}
TwoRequests == {r1, r2}

\* Rows of one table and handlers are interchangeable; the centres are not.
Symmetry == Permutations(TwoItems) \cup Permutations(TwoTransactions) \cup Permutations(TwoRequests)
=============================================================================
