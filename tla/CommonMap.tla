------------------------------ MODULE CommonMap ------------------------------
(***************************************************************************)
(* The container operations of CommonMap<Key, Data> (CommonMap.h) as       *)
(* functions of its two fields, the std::map and the "parallel vector of   *)
(* keys".  A std::map is a function whose domain is the set of its keys.   *)
(* Each operation is one critical section of the container's mutex; the    *)
(* modules that use them say which thread runs it and when.                *)
(***************************************************************************)
EXTENDS Subsequences, Functions

(* The keys of a map in std::map iteration order.                           *)
KeysInOrder(dataMap) == Ascending(DOMAIN dataMap)

EmptyDataMap == [k \in {} |-> 0]

EmptyCommonMap == [dataMap |-> EmptyDataMap, keyVector |-> <<>>]

Bind(dataMap, key, data) ==
  [k \in DOMAIN dataMap \cup {key} |-> IF k = key THEN data ELSE dataMap[k]]

Unbind(dataMap, key) == [k \in DOMAIN dataMap \ {key} |-> dataMap[k]]

(* addDataEntry(): std::map::insert() keeps an entry that is already there. *)
AddDataEntry(cm, key, data) ==
  IF key \in DOMAIN cm.dataMap
    THEN cm
    ELSE [dataMap |-> Bind(cm.dataMap, key, data),
          keyVector |-> Append(cm.keyVector, key)]

(* Mutant of RemoveDataEntry: std::remove() without the erase() of its tail.*)
MutantRemoveDataEntry(cm, key) ==
  [dataMap |-> Unbind(cm.dataMap, key), keyVector |-> cm.keyVector]

(* removeDataEntry(): every occurrence of the key leaves the vector.        *)
RemoveDataEntry(cm, key) ==
  [dataMap |-> Unbind(cm.dataMap, key),
   keyVector |-> Subsequence(cm.keyVector,
                   {i \in DOMAIN cm.keyVector : cm.keyVector[i] # key})]

(* Mutant of Reloaded: the vector is filled with the values.                *)
MutantReloaded(dataMap) ==
  [dataMap |-> dataMap,
   keyVector |-> [i \in DOMAIN KeysInOrder(dataMap) |->
                    dataMap[KeysInOrder(dataMap)[i]]]]

(* The container reload(other) leaves: other's map, keys in map order.      *)
Reloaded(dataMap) ==
  [dataMap |-> dataMap, keyVector |-> KeysInOrder(dataMap)]

(* "A parallel vector of keys" (CommonMap.h:24), "the keys currently in the *)
(* map" (:138): the vector lists each key of the map, and each only once.   *)
Parallel(cm) ==
  /\ Range(cm.keyVector) = DOMAIN cm.dataMap
  /\ Len(cm.keyVector) = Cardinality(DOMAIN cm.dataMap)
=============================================================================
