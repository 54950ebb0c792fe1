--------------------------- MODULE MCCursorRegistry ---------------------------
(* Three lineages, whose places are interchangeable; an arena of three     *)
(* places with a table of eight slots, in which the homes of the tokens    *)
(* meet at the end; sizes of twelve bits, up to their limits.              *)
EXTENDS CursorStore

Symmetry == Permutations(Lineages)

MCFigures == [1 .. 4 -> {0, 1, 8, 9, 2047, 2048, 4094, 4095}]
===============================================================================
