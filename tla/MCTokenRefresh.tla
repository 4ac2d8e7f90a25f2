--------------------------- MODULE MCTokenRefresh ---------------------------
(* Instances of TokenRefresh for TLC.                                      *)
EXTENDS TokenRefreshInv, TLC

\* Sound: no definition tells requests apart.
Symmetry == Permutations(Requests) \cup Permutations(Slugs)

\* Bound: where a promise is already void, only those states are taken further in
\* which no token is lost and the attach file can be read.
Promised == Void = {} \/ (spoiled = {} /\ file.health = "ok")
=============================================================================
