--------------------------- MODULE MCQueryServer ----------------------------
(* Instances of QueryServer for TLC.                                       *)
EXTENDS QueryServer, TLC

CONSTANTS r1, r2, r3, r4

\* The calls with an ordinary query are interchangeable.
Symmetry == Permutations(Rpcs \ (BadQueries \cup Panicking))
=============================================================================
