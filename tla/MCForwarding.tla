---------------------------- MODULE MCForwarding ----------------------------
(* Instances of Forwarding for TLC.                                        *)
EXTENDS Forwarding, TLC

\* Sound: no definition tells requests apart.
Symmetry == Permutations(Requests)

\* Without Restart nothing reads the cache file, and the history is no property's.
Seeing == <<store, version, cache, cooldown, lock, pc, fetch, dirty, fw, seedless>>

\* Bounds: the accounts of one provider change, the other keeps its one; one request
\* at a time is in the registry (in the registry's own run there are two).
Changing == CHOOSE s \in Slugs : TRUE
Bounded ==
  /\ \A s \in Slugs \ {Changing} : minted[s] = 1 /\ seed[s] = 1 /\ account[s] = 1
  /\ Cardinality({f \in Requests : pc[f] # "idle"}) <= 1
=============================================================================
