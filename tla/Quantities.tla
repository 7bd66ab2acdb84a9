----------------------------- MODULE Quantities -----------------------------
(***************************************************************************)
(* Weights of sets of database rows.  Quantities in the schema are         *)
(* kilograms held in Float columns; here they are whole kilograms, at most *)
(* MaxQty for one row.  The weight of a set of rows is counted kilogram by *)
(* kilogram, which makes a sum the cardinality of a finite set: TLC        *)
(* evaluates it and the theorems about finite sets apply to it.            *)
(***************************************************************************)
EXTENDS Integers, FiniteSets

CONSTANT MaxQty

ASSUME MaxQtyAssumption == MaxQty \in Nat \ {0}

Quantity == 0 .. MaxQty

\* One pair for every kilogram of every row of S.
Kilos(S, qty) == {u \in S \X (1 .. MaxQty) : u[2] <= qty[u[1]]}

\* The sum of qty over the rows of S.
Load(S, qty) == Cardinality(Kilos(S, qty))
=============================================================================
