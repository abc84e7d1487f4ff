------------------------------ MODULE MCProxy ------------------------------
(* Proxy with a method that is cached for one tick and one that is not.    *)
EXTENDS Proxy, TLC

CONSTANTS cached, uncached

MCTtl == (cached :> 1) @@ (uncached :> 0)

RequestSymmetry == Permutations(Requests)
=============================================================================
