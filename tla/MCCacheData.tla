----------------------------- MODULE MCCacheData -----------------------------
(***************************************************************************)
(* Model-checking instance of CacheData: a table of two rows that changes   *)
(* to one with a duplicate cache key and a row outside the cache's         *)
(* criteria (one key goes, the other gets a new row), then to an empty one.*)
(***************************************************************************)
EXTENDS CacheData, TLC

Row(key, category, val) == [key |-> key, category |-> category, val |-> val]

MCTable ==
  [v \in 0..MaxVersion |->
     CASE v = 0 -> <<Row(1, "hardware", "a"), Row(2, "hardware", "b")>>
       [] v = 1 -> <<Row(2, "hardware", "c"), Row(2, "hardware", "d"),
                     Row(1, "tools", "e")>>
       [] v = 2 -> <<>>]

(* States that differ only in where the objects lie are the same: an object *)
(* is what it holds and who points to it.                                   *)
UpToAddresses ==
  <<version, pc, snapshot, rows, exists, mutex, answer, cache.keyVector,
    [t \in Threads |-> local[t].keyVector],
    {<<Pointers(o), heap[o]>> : o \in Objects}>>

Symmetry == Permutations(Threads) \cup Permutations(Handles)
=============================================================================
