-------------------------- MODULE MCStdioConnection --------------------------
(***************************************************************************)
(* Small instances of StdioConnection for TLC.                             *)
(***************************************************************************)
EXTENDS StdioConnection

Symmetry == Permutations(Requests)
===============================================================================
