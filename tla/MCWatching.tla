----------------------------- MODULE MCWatching -----------------------------
EXTENDS Watching, TLC

CONSTANTS A, B          \* the values most ids are made of

(* A permutation of equals changes no behaviour.                           *)
Alike == Permutations(A) \cup Permutations(B)
=============================================================================
