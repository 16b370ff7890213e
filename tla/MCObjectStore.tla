---------------------------- MODULE MCObjectStore ----------------------------
(* An instance of ObjectStore for TLC. *)
EXTENDS ObjectStore, TLC

Puts == Permutations(Workers)
=============================================================================
