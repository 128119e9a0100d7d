--------------------------- MODULE MCSqliteSessions ----------------------------
(* SqliteSessions on small instances; the constants are in the cfg files.     *)
EXTENDS SqliteSessions, TLC

Symm == Permutations(Hash \ Legacy) \cup Permutations(Family) \cup Permutations(Call)
=============================================================================
