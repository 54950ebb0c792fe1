-------------------------- MODULE MCCursorContinue --------------------------
(* The calls that continue the lineage are interchangeable.                *)
EXTENDS CursorContinue, TLC

Symmetry == Permutations(Calls)
=============================================================================
