---------------------------- MODULE MCArgRuntime ----------------------------
(* Three args whose cells go through the cache and one too large for it.   *)
EXTENDS ArgRuntime

CONSTANTS a, b, c, d

MCWidth == a :> 20 @@ b :> 20 @@ d :> 20 @@ c :> 32
MCBlock == 1 .. 5
MCSymmetry == Permutations({a, b, d})
=============================================================================
