--------------------------- MODULE MapClientsProofs ---------------------------
(***************************************************************************)
(* Any number of CommonMap objects, any set of integer keys and any        *)
(* values: their key vectors stay parallel to their maps.  The inductive   *)
(* invariant adds to the checked ones that a map has finitely many keys,   *)
(* which counting them needs.                                              *)
(***************************************************************************)
EXTENDS MapClients, CommonMapProofs

(* A std::map from keys to values, and a container made of one.             *)
FiniteMaps ==
  UNION {[D -> Data] : D \in {E \in SUBSET Keys : IsFiniteSet(E)}}

Containers == [dataMap : FiniteMaps, keyVector : Seq(Keys)]

IInv ==
  /\ constructed \subseteq Maps
  /\ contents \in [Maps -> Containers]
  /\ KeyVectorsAreParallel

-----------------------------------------------------------------------------
(* What a map is, spelled out.                                              *)
LEMMA FiniteMapIs ==
  ASSUME NEW f
  PROVE  f \in FiniteMaps <=>
           /\ f \in [DOMAIN f -> Data]
           /\ DOMAIN f \subseteq Keys
           /\ IsFiniteSet(DOMAIN f)
BY DEF FiniteMaps

LEMMA EmptyContainer ==
  EmptyCommonMap \in Containers /\ Parallel(EmptyCommonMap)
<1>1. EmptyDataMap \in FiniteMaps
  BY FS_EmptySet, FiniteMapIs DEF EmptyDataMap
<1>2. <<>> \in Seq(Keys)
  OBVIOUS
<1> QED
  BY <1>1, <1>2, EmptyIsParallel DEF EmptyCommonMap, Containers

(* addDataEntry() and removeDataEntry() return containers, and parallel     *)
(* ones when they get one.                                                  *)
LEMMA AddedContainer ==
  ASSUME NEW cm \in Containers, Parallel(cm), NEW k \in Keys, NEW d \in Data
  PROVE  AddDataEntry(cm, k, d) \in Containers /\ Parallel(AddDataEntry(cm, k, d))
<1>1. /\ cm.dataMap \in FiniteMaps /\ cm.keyVector \in Seq(Keys)
      /\ IsFiniteSet(DOMAIN cm.dataMap)
  BY FiniteMapIs DEF Containers
<1>2. Parallel(AddDataEntry(cm, k, d))
  BY <1>1, AddKeepsParallel
<1>3. Bind(cm.dataMap, k, d) \in FiniteMaps
  <2>1. IsFiniteSet(DOMAIN cm.dataMap \cup {k})
    BY <1>1, FS_AddElement
  <2> QED
    BY <1>1, <2>1, FiniteMapIs DEF Bind
<1>4. Append(cm.keyVector, k) \in Seq(Keys)
  BY <1>1
<1> QED
  BY <1>2, <1>3, <1>4 DEF AddDataEntry, Containers

LEMMA RemovedContainer ==
  ASSUME NEW cm \in Containers, Parallel(cm), NEW k \in Keys
  PROVE  RemoveDataEntry(cm, k) \in Containers /\ Parallel(RemoveDataEntry(cm, k))
<1>1. /\ cm.dataMap \in FiniteMaps /\ cm.keyVector \in Seq(Keys)
      /\ IsFiniteSet(DOMAIN cm.dataMap)
  BY FiniteMapIs DEF Containers
<1>2. Parallel(RemoveDataEntry(cm, k))
  BY <1>1, RemoveKeepsParallel
<1>3. Unbind(cm.dataMap, k) \in FiniteMaps
  <2>1. IsFiniteSet(DOMAIN cm.dataMap \ {k})
    BY <1>1, FS_RemoveElement
  <2> QED
    BY <1>1, <2>1, FiniteMapIs DEF Unbind
<1>4. PICK P : P = {i \in DOMAIN cm.keyVector : cm.keyVector[i] # k}
  OBVIOUS
<1>5. Subsequence(cm.keyVector, P) \in Seq(Keys)
  BY <1>1, <1>4, SubsequenceLists
<1> QED
  BY <1>2, <1>3, <1>4, <1>5 DEF RemoveDataEntry, Containers

(* reload() makes one of any map.                                           *)
LEMMA ReloadedContainer ==
  ASSUME NEW f \in FiniteMaps
  PROVE  Reloaded(f) \in Containers /\ Parallel(Reloaded(f))
<1>1. DOMAIN f \subseteq Keys /\ IsFiniteSet(DOMAIN f)
  BY FiniteMapIs
<1>2. DOMAIN f \in SUBSET Int
  BY <1>1, KeysAssumption
<1>3. Parallel(Reloaded(f)) /\ Reloaded(f).keyVector \in Seq(DOMAIN f)
  BY <1>1, <1>2, ReloadedIsParallel
<1>4. Reloaded(f).keyVector \in Seq(Keys)
  BY <1>1, <1>3, SeqMonotonic
<1> QED
  BY <1>3, <1>4 DEF Reloaded, Containers

(* Putting a parallel container where m is keeps the invariant.             *)
LEMMA ReplacedKeeps ==
  ASSUME IInv, NEW m \in Maps, NEW cm \in Containers, Parallel(cm),
         contents' = [contents EXCEPT ![m] = cm], constructed' \subseteq Maps
  PROVE  IInv'
BY DEF IInv, KeyVectorsAreParallel

-----------------------------------------------------------------------------
LEMMA InitEstablishes == Init => IInv
BY EmptyContainer DEF Init, IInv, KeyVectorsAreParallel

LEMMA StepPreserves == IInv /\ [Next]_vars => IInv'
<1> SUFFICES ASSUME IInv, [Next]_vars PROVE IInv'
  OBVIOUS
<1>0. /\ constructed \subseteq Maps
      /\ \A m \in Maps : contents[m] \in Containers /\ Parallel(contents[m])
  BY DEF IInv, KeyVectorsAreParallel
<1>1. ASSUME UNCHANGED vars PROVE IInv'
  BY <1>1 DEF IInv, KeyVectorsAreParallel, vars
<1>2. ASSUME NEW m \in Maps, Construct(m) PROVE IInv'
  BY <1>0, <1>2, EmptyContainer, ReplacedKeeps DEF Construct
<1>3. ASSUME NEW m \in Maps, NEW n \in Maps, CopyConstruct(m, n) PROVE IInv'
  BY <1>0, <1>3, ReplacedKeeps DEF CopyConstruct
<1>4. ASSUME NEW m \in Maps, Destroy(m) PROVE IInv'
  BY <1>0, <1>4, EmptyContainer, ReplacedKeeps DEF Destroy
<1>5. ASSUME NEW m \in Maps, NEW k \in Keys, NEW d \in Data, AddEntry(m, k, d)
      PROVE  IInv'
  BY <1>0, <1>5, AddedContainer, ReplacedKeeps DEF AddEntry, Become
<1>6. ASSUME NEW m \in Maps, NEW k \in Keys, RemoveEntry(m, k) PROVE IInv'
  BY <1>0, <1>6, RemovedContainer, ReplacedKeeps DEF RemoveEntry, Become
<1>7. ASSUME NEW m \in Maps, ClearDataMap(m) PROVE IInv'
  BY <1>0, <1>7, EmptyContainer, ReplacedKeeps DEF ClearDataMap, Become
<1>8. ASSUME NEW m \in Maps, NEW n \in Maps, CopyAssign(m, n) PROVE IInv'
  BY <1>0, <1>8, ReplacedKeeps DEF CopyAssign, Become
<1>9. ASSUME NEW m \in Maps, NEW n \in Maps, ReloadFrom(m, n) PROVE IInv'
  <2>1. contents[n].dataMap \in FiniteMaps
    BY <1>0 DEF Containers
  <2> QED
    BY <1>0, <1>9, <2>1, ReloadedContainer, ReplacedKeeps
       DEF ReloadFrom, Become
<1> QED
  BY <1>1, <1>2, <1>3, <1>4, <1>5, <1>6, <1>7, <1>8, <1>9 DEF Next

(* The containers are containers, with finitely many keys, and parallel to  *)
(* their key vectors, whatever calls their users have made in any order.    *)
THEOREM InductiveInvariant == Spec => []IInv
BY InitEstablishes, StepPreserves, PTL DEF Spec

(* The maps hold keys and values, and the vectors keys.                     *)
THEOREM MapsTypeCorrect == Spec => []TypeOK
<1>1. IInv => TypeOK
  <2> SUFFICES ASSUME IInv, NEW m \in Maps
               PROVE  /\ contents[m].keyVector \in Seq(Keys)
                      /\ contents[m].dataMap \in
                           [DOMAIN contents[m].dataMap -> Data]
    BY DEF IInv, TypeOK
  <2>1. contents[m] \in Containers
    BY DEF IInv
  <2> QED
    BY <2>1, FiniteMapIs DEF Containers
<1> QED
  BY <1>1, InductiveInvariant, PTL

(* getKeyVector() lists each key of the map, each once, and no other.       *)
THEOREM VectorsAreParallel == Spec => []KeyVectorsAreParallel
<1>1. IInv => KeyVectorsAreParallel
  BY DEF IInv
<1> QED
  BY <1>1, InductiveInvariant, PTL
=============================================================================
