------------------------------- MODULE MCSignIn --------------------------------
(* SignIn on small instances; the constants are in the cfg files.             *)
EXTENDS SignIn, TLC

SingleUseKeys == {"nonce", "assertion"} \X Assertion
Deployments ==
    [store : Store, mode : {"Open"}, enforce : {TRUE}]
    \cup [store : {"sqlite"}, mode : Mode, enforce : {FALSE}]
Claims ==
    [a \in Assertion |-> [azp |-> "this", many_aud |-> TRUE, signing_alg |-> "ES384", at_hash |-> "match"]]
Symm == Permutations(Request)
=============================================================================
