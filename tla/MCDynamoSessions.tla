--------------------------- MODULE MCDynamoSessions ----------------------------
(* DynamoSessions on small instances; the constants are in the cfg files.     *)
EXTENDS DynamoSessions, TLC

Symm == Permutations(Hash \ Legacy) \cup Permutations(Family) \cup Permutations(Call)
=============================================================================
