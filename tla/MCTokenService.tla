---------------------------- MODULE MCTokenService -----------------------------
(* TokenService on small instances; the constants are in the cfg files.       *)
EXTENDS TokenService, TLC

Symm == Permutations(Hash \ Legacy) \cup Permutations(Family)
        \cup Permutations(Client) \cup Permutations(Admin)
=============================================================================
