----------------------------- MODULE MCLRUCache -----------------------------
(* Instances of LRUCache: the keys are interchangeable.                      *)
EXTENDS LRUCache, TLC

Symmetric == Permutations(Key)
=============================================================================
