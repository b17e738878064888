----------------------------- MODULE MCProxying -----------------------------
(* Instances of Proxying: any calls between a few threads. *)
EXTENDS Proxying, TLC

Symmetry == Permutations(Threads) \union Permutations(Calls)
=============================================================================
