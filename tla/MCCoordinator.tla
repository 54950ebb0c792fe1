---------------------------- MODULE MCCoordinator ----------------------------
(***************************************************************************)
(* Small instances of Coordinator for TLC.  Request identifiers are        *)
(* interchangeable, which the safety run uses; the liveness run does not.  *)
(***************************************************************************)
EXTENDS Coordinator

Symmetry == Permutations(Requests)
===============================================================================
