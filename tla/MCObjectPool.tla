---------------------------- MODULE MCObjectPool ----------------------------
(* The object pool on a small instance.                                     *)
EXTENDS ObjectPool

(* Threads and objects are interchangeable.                                 *)
Symmetry == Permutations(Threads) \cup Permutations(Objects)
=============================================================================
