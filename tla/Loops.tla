-------------------------------- MODULE Loops --------------------------------
(***************************************************************************)
(* The loops of sequential code as recursive functions: the k-th round is  *)
(* given what the rounds before it have made of the start, and k.          *)
(***************************************************************************)
EXTENDS Naturals

Looped(Round(_, _), start, count) ==
  LET after[k \in 0 .. count] == IF k = 0 THEN start ELSE Round(after[k - 1], k)
  IN  after[count]
==============================================================================
