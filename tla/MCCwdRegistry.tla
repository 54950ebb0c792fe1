---------------------------- MODULE MCCwdRegistry ----------------------------
(* Three set_cwd calls of two directories, of which the registry keeps one, *)
(* the user of an id, and two computations that borrow its lease.           *)
EXTENDS CwdRegistry

CONSTANTS s1, s2, s3, u1, b1, b2

\* The directories are interchangeable: the first call selects the first one.
MCInit == Init /\ asked[s1] = "d"

MCSpec == MCInit /\ [][Next]_cwdVars /\ Fairness
=============================================================================
