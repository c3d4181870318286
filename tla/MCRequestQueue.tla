--------------------------- MODULE MCRequestQueue ---------------------------
(* Small instances of RequestQueue for TLC.  Threads and blocks are        *)
(* interchangeable, and no property names one of them.                     *)
EXTENDS RequestQueue, TLC

Symmetric == Permutations(Blocks) \cup Permutations(Threads)
=============================================================================
