---------------------------- MODULE MCObjectMap -----------------------------
(* Instances of ObjectMap for TLC.  A free hash is taken when no variable   *)
(* and no bridged object has it: with two of each, a fourth hash is enough. *)
EXTENDS ObjectMap, TLC
Symmetric == Permutations(Addresses) \cup Permutations(Bodies)
=============================================================================
