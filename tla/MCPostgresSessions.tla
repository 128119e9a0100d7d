-------------------------- MODULE MCPostgresSessions ---------------------------
(* PostgresSessions on small instances; the constants are in the cfg files.   *)
EXTENDS PostgresSessions, TLC

Symm == Permutations(Hash \ Legacy) \cup Permutations(Family) \cup Permutations(Call)
=============================================================================
