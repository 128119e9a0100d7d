----------------------------- MODULE MCUserStores ------------------------------
(* UserStores on small instances; the constants are in the cfg files.         *)
EXTENDS UserStores, TLC

Symm == Permutations(Identity) \cup Permutations(Call)
=============================================================================
