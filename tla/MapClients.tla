------------------------------ MODULE MapClients ------------------------------
(***************************************************************************)
(* Client code working on several CommonMap objects: it constructs, copies *)
(* and destroys them, adds and removes entries, clears and reloads them,   *)
(* in any order.  Each call is one critical section of the map it is made  *)
(* on.  reload(), operator= and the copy constructor read the other map    *)
(* without its mutex, so callers must not change that map meanwhile; the   *)
(* callers here do not, and every call is one step.                        *)
(***************************************************************************)
EXTENDS CommonMap

CONSTANTS
  Maps,   \* storage for CommonMap objects
  Keys,   \* keys, ordered as std::map orders them
  Data    \* values

ASSUME KeysAssumption == Keys \subseteq Int

VARIABLES
  constructed,   \* the storage that holds a CommonMap
  contents       \* _dataMap and _keyVector of each

vars == <<constructed, contents>>

Init ==
  /\ constructed = {}
  /\ contents = [m \in Maps |-> EmptyCommonMap]

Become(m, cm) ==
  /\ m \in constructed
  /\ contents' = [contents EXCEPT ![m] = cm]
  /\ UNCHANGED constructed

Construct(m) ==
  /\ m \notin constructed
  /\ constructed' = constructed \cup {m}
  /\ contents' = [contents EXCEPT ![m] = EmptyCommonMap]

(* The copy constructor copies both fields.                                 *)
CopyConstruct(m, n) ==
  /\ m \notin constructed
  /\ n \in constructed
  /\ constructed' = constructed \cup {m}
  /\ contents' = [contents EXCEPT ![m] = contents[n]]

Destroy(m) ==
  /\ m \in constructed
  /\ constructed' = constructed \ {m}
  /\ contents' = [contents EXCEPT ![m] = EmptyCommonMap]

AddEntry(m, k, d) == Become(m, AddDataEntry(contents[m], k, d))

RemoveEntry(m, k) == Become(m, RemoveDataEntry(contents[m], k))

ClearDataMap(m) == Become(m, EmptyCommonMap)

(* m = n copies both fields; nothing happens when m and n are one object.   *)
CopyAssign(m, n) ==
  /\ n \in constructed
  /\ m # n
  /\ Become(m, contents[n])

ReloadFrom(m, n) ==
  /\ n \in constructed
  /\ Become(m, Reloaded(contents[n].dataMap))

Next ==
  \/ \E m \in Maps : Construct(m)
  \/ \E m, n \in Maps : CopyConstruct(m, n)
  \/ \E m \in Maps : Destroy(m)
  \/ \E m \in Maps, k \in Keys, d \in Data : AddEntry(m, k, d)
  \/ \E m \in Maps, k \in Keys : RemoveEntry(m, k)
  \/ \E m \in Maps : ClearDataMap(m)
  \/ \E m, n \in Maps : CopyAssign(m, n)
  \/ \E m, n \in Maps : ReloadFrom(m, n)

Spec == Init /\ [][Next]_vars

-----------------------------------------------------------------------------
TypeOK ==
  /\ constructed \subseteq Maps
  /\ \A m \in Maps :
       /\ contents[m].keyVector \in Seq(Keys)
       /\ contents[m].dataMap \in [DOMAIN contents[m].dataMap -> Data]

(* Whatever sequence of inserts, removals, clears, copies and reloads ran,  *)
(* getKeyVector() is "the vector of keys currently in the map"              *)
(* (CommonMap.h:138): one occurrence of each key, none of any other.        *)
KeyVectorsAreParallel == \A m \in Maps : Parallel(contents[m])
=============================================================================
