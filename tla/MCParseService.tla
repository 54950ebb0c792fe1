--------------------------- MODULE MCParseService ---------------------------
(* Calls, of which c1 computes a page that others may wait for; the cache  *)
(* holds the one file, until it is parsed the calls wait for the limiter.  *)
EXTENDS ParseService

CONSTANTS c1, c2, c3

MCFootprint == [f \in Files |-> 1]
=============================================================================
