--------------------------- MODULE MCValkeySessions ----------------------------
(* ValkeySessions on small instances; the constants are in the cfg files.     *)
EXTENDS ValkeySessions, TLC

Symm == Permutations(Hash \ Legacy) \cup Permutations(Family) \cup Permutations(User) \cup Permutations(Call)
=============================================================================
