--------------------------- MODULE CacheDataProofs ---------------------------
(***************************************************************************)
(* The snapshot cache, proved for any table, any number of threads and     *)
(* handles, and any storage: its reference counts are exact at every step  *)
(* of every reload, its key vector is parallel to its map, and it          *)
(* implements the atomic snapshots of SnapshotCache.                       *)
(*                                                                         *)
(* The argument follows the pointers: a step adds one to, drops one from,  *)
(* or moves the pointers of an object, and changes its count by as much.   *)
(* So a row that is still pointed to after a step is the row it was; a     *)
(* local container therefore holds, under each key, the first row of those *)
(* processed, and what a reload publishes is the result of its query.      *)
(***************************************************************************)
EXTENDS CacheData, CommonMapProofs

TableRows == UNION {Range(Table[v]) : v \in 0..MaxVersion}

(* The maps from keys to entries, and the containers made of one.           *)
EntryMaps ==
  UNION {[D -> Objects] : D \in {E \in SUBSET Int : IsFiniteSet(E)}}

Containers == [dataMap : EntryMaps, keyVector : Seq(Int)]

Heaps == [Objects -> [refCount : Nat, row : TableRows \cup {NoRow}]]

Typed ==
  /\ TypeOK
  /\ rows \in [Threads -> Seq(TableRows)]
  /\ local \in [Threads -> Containers]
  /\ cache \in Containers
  /\ dropping \in EntryMaps
  /\ heap \in Heaps

(* The count of an object is that of the pointers in a finite set, and the  *)
(* object exists exactly while there are any.                               *)
Fits(h, o, pointers) ==
  /\ IsFiniteSet(pointers)
  /\ h[o].refCount = Cardinality(pointers)
  /\ Live(h, o) <=> pointers # {}

(* CountsAreExact and LiveIffReferenced in one.                             *)
Accounted == \A o \in Objects : Fits(heap, o, Pointers(o))

(* Old entries wait to be destroyed only while a reload holds the mutex or  *)
(* the cache itself goes, and then nobody is inside it.                     *)
Lifetime ==
  /\ exists /\ mutex = NoThread => DOMAIN dropping = {}
  /\ ~exists => cache = EmptyCommonMap /\ \A t \in Threads : pc[t] = "idle"

(* How many rows of its result a reload has processed.                      *)
Done(t) == Len(Selected(snapshot[t])) - Len(rows[t])

(* The rows still to be processed are the last ones of the result.          *)
Remaining(t) ==
  /\ Done(t) >= 0
  /\ \A i \in 1..Len(rows[t]) :
       rows[t][i] = Selected(snapshot[t])[Done(t) + i]

(* What map holds under each key is the first of the first n rows of result *)
(* with that key.                                                           *)
HoldsFirstRows(map, result, n) ==
  /\ DOMAIN map = {result[i].key : i \in 1..n}
  /\ \A k \in DOMAIN map :
       \E i \in 1..n :
         /\ result[i].key = k
         /\ map[k] = result[i]
         /\ \A j \in 1..n : result[j].key = k => i <= j

(* The local container holds what has been processed; it is copied entry by *)
(* entry; and a thread that is not reloading has none.                      *)
ReloadOf(t) ==
  /\ pc[t] = "idle" => DOMAIN local[t].dataMap = {}
  /\ pc[t] = "processing" =>
       /\ Remaining(t)
       /\ HoldsFirstRows(RowsOf(local[t].dataMap), Selected(snapshot[t]), Done(t))
  /\ pc[t] = "assigning" =>
       \A k \in DOMAIN cache.dataMap :
         /\ k \in DOMAIN local[t].dataMap
         /\ cache.dataMap[k] = local[t].dataMap[k]

Reloading == \A t \in Threads : ReloadOf(t)

IInv ==
  /\ Typed
  /\ Accounted
  /\ Lifetime
  /\ Reloading
  /\ KeyVectorIsParallel

-----------------------------------------------------------------------------
(* What a query returns is a sequence of rows of the table, whose keys are  *)
(* numbers.                                                                 *)
LEMMA SelectedAreRows ==
  ASSUME NEW v \in 0..MaxVersion
  PROVE  Selected(v) \in Seq(TableRows)
<1> DEFINE s == Table[v]
           P == {i \in DOMAIN s : s[i].category \in Criteria}
<1>1. s \in Seq(Range(s))
  BY TableAssumption
<1>2. Range(s) \subseteq TableRows
  BY DEF TableRows
<1>3. s \in Seq(TableRows)
  <2> HIDE DEF s
  <2> QED
    BY <1>1, <1>2, SeqMonotonic
<1>4. P \in SUBSET DOMAIN s
  OBVIOUS
<1>5. Selected(v) = Subsequence(s, P)
  BY DEF Selected
<1> HIDE DEF s, P
<1> QED
  BY <1>3, <1>4, <1>5, SubsequenceLists

LEMMA RowsAreRows == \A r \in TableRows : r # NoRow /\ r.key \in Int
BY TableAssumption DEF TableRows

-----------------------------------------------------------------------------
(* One more reference to an object that is referenced already.              *)
LEMMA AddOne ==
  ASSUME NEW h \in Heaps, NEW p \in Objects, NEW S, NEW x, Fits(h, p, S),
         S # {}, x \notin S, NEW r, r = AddReference(h, p)
  PROVE  /\ r \in Heaps
         /\ Fits(r, p, S \cup {x})
         /\ r[p].row = h[p].row
         /\ \A o \in Objects : o # p => r[o] = h[o]
<1>1. r = [h EXCEPT ![p].refCount = h[p].refCount + 1]
  BY RefCountAssumption DEF AddReference
<1>2. /\ h[p] \in [refCount : Nat, row : TableRows \cup {NoRow}]
      /\ r \in Heaps
      /\ r[p].refCount = h[p].refCount + 1
      /\ r[p].row = h[p].row
      /\ \A o \in Objects : o # p => r[o] = h[o]
  BY <1>1 DEF Heaps
<1>3. /\ IsFiniteSet(S \cup {x})
      /\ Cardinality(S \cup {x}) = Cardinality(S) + 1
  BY FS_AddElement DEF Fits
<1> QED
  BY <1>2, <1>3 DEF Fits, Live

(* One reference less: without the last one the object is freed.            *)
LEMMA RemoveOne ==
  ASSUME NEW h \in Heaps, NEW p \in Objects, NEW S, NEW x \in S, Fits(h, p, S),
         NEW r, r = RemoveReference(h, p)
  PROVE  /\ r \in Heaps
         /\ Fits(r, p, S \ {x})
         /\ S # {x} => r[p].row = h[p].row
         /\ \A o \in Objects : o # p => r[o] = h[o]
<1>1. r = IF h[p].refCount - 1 = 0
            THEN [h EXCEPT ![p] = Freed]
            ELSE [h EXCEPT ![p].refCount = h[p].refCount - 1]
  BY RefCountAssumption DEF RemoveReference
<1>2. /\ IsFiniteSet(S \ {x})
      /\ Cardinality(S \ {x}) = Cardinality(S) - 1
      /\ Cardinality(S) \in Nat
      /\ Cardinality(S \ {x}) \in Nat
      /\ Cardinality(S \ {x}) = 0 <=> S \ {x} = {}
  BY FS_RemoveElement, FS_CardinalityType, FS_EmptySet DEF Fits
<1>3. h[p].refCount = Cardinality(S) /\ Live(h, p)
  BY DEF Fits
<1>4. h[p] \in [refCount : Nat, row : TableRows \cup {NoRow}]
  BY DEF Heaps
<1>5. CASE h[p].refCount - 1 = 0
  <2>1. r = [h EXCEPT ![p] = Freed]
    BY <1>1, <1>5
  <2>2. /\ r \in Heaps
        /\ r[p] = Freed
        /\ \A o \in Objects : o # p => r[o] = h[o]
    BY <2>1 DEF Heaps, Freed
  <2>3. S \ {x} = {} /\ S = {x}
    BY <1>2, <1>3, <1>5
  <2> QED
    BY <1>2, <1>3, <1>5, <2>2, <2>3 DEF Fits, Live, Freed
<1>6. CASE h[p].refCount - 1 # 0
  <2>1. r = [h EXCEPT ![p].refCount = h[p].refCount - 1]
    BY <1>1, <1>6
  <2>2. h[p].refCount - 1 \in Nat
    BY <1>2, <1>3, <1>6
  <2>3. /\ r \in Heaps
        /\ r[p].refCount = h[p].refCount - 1
        /\ r[p].row = h[p].row
        /\ \A o \in Objects : o # p => r[o] = h[o]
    BY <1>4, <2>1, <2>2 DEF Heaps
  <2>4. S \ {x} # {}
    BY <1>2, <1>3, <1>6
  <2> QED
    BY <1>2, <1>3, <2>3, <2>4 DEF Fits, Live
<1> QED
  BY <1>5, <1>6

-----------------------------------------------------------------------------
(* A pointer in a cache c, among the old entries d of an assignment, in a   *)
(* thread's local container or in a handle.                                 *)
PointsTo(x, c, d, l, h, o) ==
  \/ \E k \in DOMAIN c.dataMap :
       c.dataMap[k] = o /\ x = <<"cache", NoThread, k>>
  \/ \E k \in DOMAIN d : d[k] = o /\ x = <<"old", NoThread, k>>
  \/ \E t \in Threads : \E k \in DOMAIN l[t].dataMap :
       l[t].dataMap[k] = o /\ x = <<"local", t, k>>
  \/ \E k \in DOMAIN h : h[k] = o /\ x = <<"handle", NoThread, k>>

(* The pointers to o in one map or in the handles.                          *)
At(name, t, f, o) == {<<name, t, k>> : k \in {j \in DOMAIN f : f[j] = o}}

(* Pointers(o) is the set of all these, in every state and after every step.*)
LEMMA PointersAre ==
  ASSUME NEW o, NEW x
  PROVE  x \in Pointers(o) <=>
           PointsTo(x, cache, dropping, local, handle, o)
<1>1. Pointers(o) =
        At("cache", NoThread, cache.dataMap, o)
          \cup At("old", NoThread, dropping, o)
          \cup (UNION {At("local", t, local[t].dataMap, o) : t \in Threads})
          \cup At("handle", NoThread, handle, o)
  BY DEF Pointers, At
<1>2. x \in UNION {At("local", t, local[t].dataMap, o) : t \in Threads} <=>
        \E t \in Threads : x \in At("local", t, local[t].dataMap, o)
  OBVIOUS
<1>3. x \in At("cache", NoThread, cache.dataMap, o) <=>
        \E k \in DOMAIN cache.dataMap :
          cache.dataMap[k] = o /\ x = <<"cache", NoThread, k>>
  BY DEF At
<1>4. x \in At("old", NoThread, dropping, o) <=>
        \E k \in DOMAIN dropping :
          dropping[k] = o /\ x = <<"old", NoThread, k>>
  BY DEF At
<1>5. \A t \in Threads :
        x \in At("local", t, local[t].dataMap, o) <=>
          \E k \in DOMAIN local[t].dataMap :
            local[t].dataMap[k] = o /\ x = <<"local", t, k>>
  BY DEF At
<1>6. x \in At("handle", NoThread, handle, o) <=>
        \E k \in DOMAIN handle :
          handle[k] = o /\ x = <<"handle", NoThread, k>>
  BY DEF At
<1>7. x \in Pointers(o) <=>
        \/ x \in At("cache", NoThread, cache.dataMap, o)
        \/ x \in At("old", NoThread, dropping, o)
        \/ \E t \in Threads : x \in At("local", t, local[t].dataMap, o)
        \/ x \in At("handle", NoThread, handle, o)
  BY <1>1, <1>2
<1> QED
  BY <1>3, <1>4, <1>5, <1>6, <1>7 DEF PointsTo

LEMMA PointersAreNext ==
  ASSUME NEW o, NEW x
  PROVE  x \in Pointers(o)' <=>
           PointsTo(x, cache', dropping', local', handle', o)
<1>1. Pointers(o)' =
        At("cache", NoThread, cache'.dataMap, o)
          \cup At("old", NoThread, dropping', o)
          \cup (UNION {At("local", t, local'[t].dataMap, o) : t \in Threads})
          \cup At("handle", NoThread, handle', o)
  BY DEF Pointers, At
<1>2. x \in UNION {At("local", t, local'[t].dataMap, o) : t \in Threads} <=>
        \E t \in Threads : x \in At("local", t, local'[t].dataMap, o)
  OBVIOUS
<1>3. x \in At("cache", NoThread, cache'.dataMap, o) <=>
        \E k \in DOMAIN cache'.dataMap :
          cache'.dataMap[k] = o /\ x = <<"cache", NoThread, k>>
  BY DEF At
<1>4. x \in At("old", NoThread, dropping', o) <=>
        \E k \in DOMAIN dropping' :
          dropping'[k] = o /\ x = <<"old", NoThread, k>>
  BY DEF At
<1>5. \A t \in Threads :
        x \in At("local", t, local'[t].dataMap, o) <=>
          \E k \in DOMAIN local'[t].dataMap :
            local'[t].dataMap[k] = o /\ x = <<"local", t, k>>
  BY DEF At
<1>6. x \in At("handle", NoThread, handle', o) <=>
        \E k \in DOMAIN handle' :
          handle'[k] = o /\ x = <<"handle", NoThread, k>>
  BY DEF At
<1>7. x \in Pointers(o)' <=>
        \/ x \in At("cache", NoThread, cache'.dataMap, o)
        \/ x \in At("old", NoThread, dropping', o)
        \/ \E t \in Threads : x \in At("local", t, local'[t].dataMap, o)
        \/ x \in At("handle", NoThread, handle', o)
  BY <1>1, <1>2
<1> QED
  BY <1>3, <1>4, <1>5, <1>6, <1>7 DEF PointsTo

-----------------------------------------------------------------------------
(* While an object is pointed to it keeps its row.                          *)
RowsStay ==
  \A o \in Objects :
    Pointers(o) # {} /\ Pointers(o)' # {} => heap'[o].row = heap[o].row

(* What has to be shown of every step: the books are kept and rows stay.    *)
Balanced == heap' \in Heaps /\ Accounted' /\ RowsStay

(* A pointer to p goes, and p's count falls by one.                         *)
LEMMA PointerDropped ==
  ASSUME heap \in Heaps, Accounted, NEW p \in Objects, NEW x,
         x \in Pointers(p), heap' = RemoveReference(heap, p),
         \A o \in Objects : \A y :
           y \in Pointers(o)' <=> y \in Pointers(o) /\ (o = p => y # x)
  PROVE  Balanced
<1>1. Pointers(p)' = Pointers(p) \ {x}
  OBVIOUS
<1>2. \A o \in Objects : o # p => Pointers(o)' = Pointers(o)
  OBVIOUS
<1>3. Fits(heap, p, Pointers(p))
  BY DEF Accounted
<1>4. /\ heap' \in Heaps
      /\ Fits(heap', p, Pointers(p) \ {x})
      /\ Pointers(p) # {x} => heap'[p].row = heap[p].row
      /\ \A o \in Objects : o # p => heap'[o] = heap[o]
  BY <1>3, RemoveOne
<1>5. \A o \in Objects : o # p => Fits(heap', o, Pointers(o)')
  BY <1>2, <1>4 DEF Accounted, Fits, Live
<1>6. Accounted'
  BY <1>1, <1>4, <1>5 DEF Accounted
<1>7. RowsStay
  BY <1>1, <1>4 DEF RowsStay
<1> QED
  BY <1>4, <1>6, <1>7 DEF Balanced

(* A pointer to p, which has others, comes, and p's count rises by one.     *)
LEMMA PointerAdded ==
  ASSUME heap \in Heaps, Accounted, NEW p \in Objects, NEW x,
         Pointers(p) # {}, x \notin Pointers(p),
         heap' = AddReference(heap, p),
         \A o \in Objects : \A y :
           y \in Pointers(o)' <=> y \in Pointers(o) \/ (o = p /\ y = x)
  PROVE  Balanced
<1>1. Pointers(p)' = Pointers(p) \cup {x}
  OBVIOUS
<1>2. \A o \in Objects : o # p => Pointers(o)' = Pointers(o)
  OBVIOUS
<1>3. Fits(heap, p, Pointers(p))
  BY DEF Accounted
<1>4. /\ heap' \in Heaps
      /\ Fits(heap', p, Pointers(p) \cup {x})
      /\ heap'[p].row = heap[p].row
      /\ \A o \in Objects : o # p => heap'[o] = heap[o]
  BY <1>3, AddOne
<1>5. \A o \in Objects : o # p => Fits(heap', o, Pointers(o)')
  BY <1>2, <1>4 DEF Accounted, Fits, Live
<1>6. Accounted'
  BY <1>1, <1>4, <1>5 DEF Accounted
<1>7. RowsStay
  BY <1>4 DEF RowsStay
<1> QED
  BY <1>4, <1>6, <1>7 DEF Balanced

(* Neither the pointers nor the objects change.                             *)
LEMMA PointersUnchanged ==
  ASSUME heap \in Heaps, Accounted, heap' = heap,
         \A o \in Objects : \A y : y \in Pointers(o)' <=> y \in Pointers(o)
  PROVE  Balanced
<1>1. \A o \in Objects : Pointers(o)' = Pointers(o)
  OBVIOUS
<1>2. Accounted'
  BY <1>1 DEF Accounted
<1> QED
  BY <1>2 DEF Balanced, RowsStay

-----------------------------------------------------------------------------
(* An entry of a map that is torn down.                                     *)
LEMMA OldEntryDropped ==
  ASSUME Typed, Accounted, NEW k \in DOMAIN dropping,
         heap' = RemoveReference(heap, dropping[k]),
         dropping' = Unbind(dropping, k), UNCHANGED <<cache, local, handle>>
  PROVE  Balanced
<1> DEFINE x == <<"old", NoThread, k>>
<1>1. PICK p \in Objects : p = dropping[k]
  BY DEF Typed, EntryMaps
<1>2. x \in Pointers(p)
  BY <1>1, PointersAre DEF PointsTo
<1>3. /\ DOMAIN dropping' = DOMAIN dropping \ {k}
      /\ \A j \in DOMAIN dropping' : dropping'[j] = dropping[j]
  BY DEF Unbind
<1>4. ASSUME NEW o \in Objects, NEW y
      PROVE  y \in Pointers(o)' <=> y \in Pointers(o) /\ (o = p => y # x)
  <2>1. PointsTo(y, cache', dropping', local', handle', o) <=>
          PointsTo(y, cache, dropping, local, handle, o) /\ (o = p => y # x)
    BY <1>1, <1>3 DEF PointsTo
  <2> QED
    BY <2>1, PointersAre, PointersAreNext
<1>5. heap' = RemoveReference(heap, p)
  BY <1>1
<1>6. heap \in Heaps
  BY DEF Typed
<1> HIDE DEF x
<1> QED
  BY <1>2, <1>4, <1>5, <1>6, PointerDropped

(* An entry of a local container that is torn down.                         *)
LEMMA LocalEntryDropped ==
  ASSUME Typed, Accounted, NEW t \in Threads, NEW k \in DOMAIN local[t].dataMap,
         heap' = RemoveReference(heap, local[t].dataMap[k]),
         local' = [local EXCEPT ![t].dataMap = Unbind(local[t].dataMap, k)],
         UNCHANGED <<cache, dropping, handle>>
  PROVE  Balanced
<1> DEFINE x == <<"local", t, k>>
<1>1. PICK p \in Objects : p = local[t].dataMap[k]
  BY DEF Typed, Containers, EntryMaps
<1>2. x \in Pointers(p)
  BY <1>1, PointersAre DEF PointsTo
<1>3. /\ local'[t].dataMap = Unbind(local[t].dataMap, k)
      /\ \A u \in Threads : u # t => local'[u] = local[u]
  BY DEF Typed, Containers
<1>4. /\ DOMAIN local'[t].dataMap = DOMAIN local[t].dataMap \ {k}
      /\ \A j \in DOMAIN local'[t].dataMap :
           local'[t].dataMap[j] = local[t].dataMap[j]
  BY <1>3 DEF Unbind
<1>5. ASSUME NEW o \in Objects, NEW y
      PROVE  y \in Pointers(o)' <=> y \in Pointers(o) /\ (o = p => y # x)
  <2>1. PointsTo(y, cache', dropping', local', handle', o) <=>
          PointsTo(y, cache, dropping, local, handle, o) /\ (o = p => y # x)
    BY <1>1, <1>3, <1>4 DEF PointsTo
  <2> QED
    BY <2>1, PointersAre, PointersAreNext
<1>6. heap' = RemoveReference(heap, p)
  BY <1>1
<1>7. heap \in Heaps
  BY DEF Typed
<1> HIDE DEF x
<1> QED
  BY <1>2, <1>5, <1>6, <1>7, PointerDropped

(* An entry of the local container that is copied into the cache.           *)
LEMMA EntryCopied ==
  ASSUME Typed, Accounted, NEW t \in Threads,
         NEW k \in DOMAIN local[t].dataMap \ DOMAIN cache.dataMap,
         heap' = AddReference(heap, local[t].dataMap[k]),
         cache' = [cache EXCEPT !.dataMap =
                     Bind(cache.dataMap, k, local[t].dataMap[k])],
         UNCHANGED <<local, dropping, handle>>
  PROVE  Balanced
<1> DEFINE x == <<"cache", NoThread, k>>
<1>1. PICK p \in Objects : p = local[t].dataMap[k]
  BY DEF Typed, Containers, EntryMaps
<1>2. <<"local", t, k>> \in Pointers(p)
  BY <1>1, PointersAre DEF PointsTo
<1>3. x \notin Pointers(p)
  BY PointersAre DEF PointsTo
<1>4. cache'.dataMap = Bind(cache.dataMap, k, p)
  BY <1>1 DEF Typed, Containers
<1>5. /\ DOMAIN cache'.dataMap = DOMAIN cache.dataMap \cup {k}
      /\ cache'.dataMap[k] = p
      /\ \A j \in DOMAIN cache.dataMap : cache'.dataMap[j] = cache.dataMap[j]
  BY <1>4 DEF Bind
<1>6. ASSUME NEW o \in Objects, NEW y
      PROVE  y \in Pointers(o)' <=> y \in Pointers(o) \/ (o = p /\ y = x)
  <2>1. PointsTo(y, cache', dropping', local', handle', o) <=>
          PointsTo(y, cache, dropping, local, handle, o) \/ (o = p /\ y = x)
    BY <1>5 DEF PointsTo
  <2> QED
    BY <2>1, PointersAre, PointersAreNext
<1>7. heap' = AddReference(heap, p)
  BY <1>1
<1>8. heap \in Heaps
  BY DEF Typed
<1> HIDE DEF x
<1> QED
  BY <1>2, <1>3, <1>6, <1>7, <1>8, PointerAdded

-----------------------------------------------------------------------------
(* A handle that is made to point to q, which is null or pointed to already.*)
LEMMA HandleAssigned ==
  ASSUME Typed, Accounted, NEW h \in Handles, NEW q \in Objects \cup {Null},
         q \in Objects => Pointers(q) # {},
         handle' = [handle EXCEPT ![h] = q],
         heap' = Assign(heap, handle[h], q),
         UNCHANGED <<cache, dropping, local>>
  PROVE  Balanced
<1> DEFINE x == <<"handle", NoThread, h>>
<1>1. PICK p \in Objects \cup {Null} : p = handle[h]
  BY DEF Typed, TypeOK
<1>2. /\ DOMAIN handle = Handles /\ DOMAIN handle' = Handles
      /\ handle'[h] = q
      /\ \A g \in Handles : g # h => handle'[g] = handle[g]
  BY DEF Typed, TypeOK
<1>3. ASSUME NEW o \in Objects, NEW y
      PROVE  /\ y \in Pointers(o)' <=>
                  (y \in Pointers(o) /\ y # x) \/ (o = q /\ y = x)
             /\ x \in Pointers(o) <=> o = p
  <2>1. PointsTo(y, cache', dropping', local', handle', o) <=>
          \/ PointsTo(y, cache, dropping, local, handle, o) /\ y # x
          \/ o = q /\ y = x
    BY <1>2 DEF PointsTo
  <2>2. PointsTo(x, cache, dropping, local, handle, o) <=> o = p
    BY <1>1, <1>2 DEF PointsTo
  <2> QED
    BY <2>1, <2>2, PointersAre, PointersAreNext
<1>4. heap' = Assign(heap, p, q)
  BY <1>1
<1>5. heap \in Heaps /\ \A o \in Objects : Fits(heap, o, Pointers(o))
  BY DEF Typed, Accounted
<1> HIDE DEF x
<1>6. CASE p = q
  <2>1. heap' = heap
    BY <1>4, <1>6 DEF Assign
  <2>2. \A o \in Objects : \A y : y \in Pointers(o)' <=> y \in Pointers(o)
    BY <1>3, <1>6
  <2> QED
    BY <1>5, <2>1, <2>2, PointersUnchanged
<1>7. CASE p \in Objects /\ q = Null
  <2>1. heap' = RemoveReference(heap, p)
    BY <1>4, <1>7, RefCountAssumption DEF Assign, AddReference
  <2>2. x \in Pointers(p)
    BY <1>3, <1>7
  <2>3. \A o \in Objects : \A y :
          y \in Pointers(o)' <=> y \in Pointers(o) /\ (o = p => y # x)
    BY <1>3, <1>7, RefCountAssumption
  <2> QED
    BY <1>5, <1>7, <2>1, <2>2, <2>3, PointerDropped
<1>8. CASE p = Null /\ q \in Objects
  <2>1. heap' = AddReference(heap, q)
    BY <1>4, <1>8, RefCountAssumption DEF Assign, RemoveReference
  <2>2. x \notin Pointers(q)
    BY <1>3, <1>8, RefCountAssumption
  <2>3. \A o \in Objects : \A y :
          y \in Pointers(o)' <=> y \in Pointers(o) \/ (o = q /\ y = x)
    BY <1>3, <1>8, RefCountAssumption
  <2> QED
    BY <1>5, <1>8, <2>1, <2>2, <2>3, PointerAdded
<1>9. CASE p \in Objects /\ q \in Objects /\ p # q
  <2>1. x \in Pointers(p) /\ x \notin Pointers(q)
    BY <1>3, <1>9
  <2>0. PICK m : m = RemoveReference(heap, p)
    OBVIOUS
  <2>2. /\ m \in Heaps
        /\ Fits(m, p, Pointers(p) \ {x})
        /\ Pointers(p) # {x} => m[p].row = heap[p].row
        /\ \A o \in Objects : o # p => m[o] = heap[o]
    <3>1. p \in Objects /\ heap \in Heaps /\ Fits(heap, p, Pointers(p))
      BY <1>5, <1>9
    <3> QED
      BY <2>1, <2>0, <3>1, RemoveOne
  <2>3. heap' = AddReference(m, q)
    BY <1>4, <1>9, <2>0 DEF Assign
  <2>4. Fits(m, q, Pointers(q))
    BY <1>5, <1>9, <2>2 DEF Fits, Live
  <2>5. /\ heap' \in Heaps
        /\ Fits(heap', q, Pointers(q) \cup {x})
        /\ heap'[q].row = m[q].row
        /\ \A o \in Objects : o # q => heap'[o] = m[o]
    BY <1>9, <2>1, <2>2, <2>3, <2>4, AddOne
  <2>6. /\ Pointers(p)' = Pointers(p) \ {x}
        /\ Pointers(q)' = Pointers(q) \cup {x}
        /\ \A o \in Objects : o # p /\ o # q => Pointers(o)' = Pointers(o)
    <3>1. \A y : y \in Pointers(p)' <=> y \in Pointers(p) /\ y # x
      BY <1>3, <1>9
    <3>2. \A y : y \in Pointers(q)' <=> y \in Pointers(q) \/ y = x
      BY <1>3, <1>9
    <3>3. ASSUME NEW o \in Objects, o # p, o # q
          PROVE  \A y : y \in Pointers(o)' <=> y \in Pointers(o)
      BY <1>3, <3>3
    <3> QED
      BY <3>1, <3>2, <3>3
  <2>7. ASSUME NEW o \in Objects
        PROVE  /\ Fits(heap', o, Pointers(o)')
               /\ Pointers(o) # {} /\ Pointers(o)' # {} =>
                    heap'[o].row = heap[o].row
    <3>1. CASE o = p
      <4>1. heap'[o] = m[o]
        BY <1>9, <2>5, <3>1
      <4>2. Fits(heap', o, Pointers(o)')
        BY <2>2, <2>6, <3>1, <4>1 DEF Fits, Live
      <4> QED
        BY <2>2, <2>6, <3>1, <4>1, <4>2
    <3>2. CASE o = q
      BY <1>9, <2>2, <2>5, <2>6, <3>2
    <3>3. CASE o # p /\ o # q
      <4>1. heap'[o] = heap[o] /\ Pointers(o)' = Pointers(o)
        BY <2>2, <2>5, <2>6, <3>3
      <4> QED
        BY <1>5, <4>1 DEF Fits, Live
    <3> QED
      BY <3>1, <3>2, <3>3
  <2> QED
    BY <2>5, <2>7 DEF Balanced, Accounted, RowsStay
<1> QED
  BY <1>6, <1>7, <1>8, <1>9

-----------------------------------------------------------------------------
(* The entries of the cache become the old entries, one for one.            *)
LEMMA EntriesMoved ==
  ASSUME Typed, Accounted, DOMAIN dropping = {}, dropping' = cache.dataMap,
         cache'.dataMap = EmptyDataMap, UNCHANGED <<local, handle, heap>>
  PROVE  Balanced
<1>1. ASSUME NEW o \in Objects
      PROVE  Fits(heap', o, Pointers(o)')
  <2> DEFINE P == Pointers(o)
             Q == Pointers(o)'
             move(y) == IF y[1] = "cache" THEN <<"old", NoThread, y[3]>> ELSE y
             f == [y \in P |-> move(y)]
  <2>1. DOMAIN cache'.dataMap = {}
    BY DEF EmptyDataMap
  <2>2. ASSUME NEW y PROVE y \in P => move(y) \in Q
    <3>1. PointsTo(y, cache, dropping, local, handle, o) =>
            PointsTo(move(y), cache', dropping', local', handle', o)
      BY <2>1 DEF PointsTo
    <3> QED
      BY <3>1, PointersAre, PointersAreNext
  <2>3. ASSUME NEW z PROVE z \in Q => \E y \in P : move(y) = z
    <3> DEFINE y == IF z[1] = "old" THEN <<"cache", NoThread, z[3]>> ELSE z
    <3>1. PointsTo(z, cache', dropping', local', handle', o) =>
            PointsTo(y, cache, dropping, local, handle, o) /\ move(y) = z
      BY <2>1 DEF PointsTo
    <3> QED
      BY <3>1, PointersAre, PointersAreNext
  <2>4. ASSUME NEW y \in P, NEW z \in P, move(y) = move(z) PROVE y = z
    <3>1. /\ PointsTo(y, cache, dropping, local, handle, o)
          /\ PointsTo(z, cache, dropping, local, handle, o)
      BY PointersAre
    <3> QED
      BY <2>4, <3>1 DEF PointsTo
  <2> HIDE DEF move
  <2>5. f \in [P -> Q]
    BY <2>2
  <2>6. f \in Bijection(P, Q)
    BY <2>3, <2>4, <2>5 DEF Bijection, Injection, Surjection, IsInjective
  <2> HIDE DEF P, Q
  <2>7. ExistsBijection(P, Q)
    BY <2>6 DEF ExistsBijection
  <2>8. Fits(heap, o, P)
    BY DEF Accounted, P
  <2>9. IsFiniteSet(Q) /\ Cardinality(Q) = Cardinality(P)
    BY <2>7, <2>8, FS_Bijection DEF Fits
  <2>10. Q = {} <=> P = {}
    BY <2>3, <2>5
  <2> QED
    BY <2>8, <2>9, <2>10 DEF Fits, Q
<1> QED
  BY <1>1 DEF Balanced, Accounted, RowsStay, Typed

-----------------------------------------------------------------------------
(* What construction, the second reference and the end of the local handle  *)
(* make of an object that was free.                                         *)
LEMMA Wrapped ==
  ASSUME NEW h \in Heaps, NEW o \in Objects, NEW r \in TableRows,
         NEW w, w = AddReference(Construct(h, o, r), o)
  PROVE  /\ RemoveReference(AddReference(w, o), o) =
              [h EXCEPT ![o] = [refCount |-> 1, row |-> r]]
         /\ RemoveReference(w, o) = [h EXCEPT ![o] = Freed]
<1>1. o # Null
  BY RefCountAssumption
<1>2. w = [h EXCEPT ![o] = [refCount |-> 1, row |-> r]]
  <2>1. w = [Construct(h, o, r) EXCEPT ![o].refCount =
               Construct(h, o, r)[o].refCount + 1]
    BY <1>1 DEF AddReference
  <2> QED
    BY <2>1 DEF Construct, Heaps
<1>3. AddReference(w, o) = [h EXCEPT ![o] = [refCount |-> 2, row |-> r]]
  <2>1. AddReference(w, o) = [w EXCEPT ![o].refCount = w[o].refCount + 1]
    BY <1>1 DEF AddReference
  <2> QED
    BY <1>2, <2>1 DEF Heaps
<1>4. RemoveReference(AddReference(w, o), o) =
        [h EXCEPT ![o] = [refCount |-> 1, row |-> r]]
  <2>1. PICK s : s = AddReference(w, o)
    OBVIOUS
  <2>2. s[o] = [refCount |-> 2, row |-> r]
    BY <1>3, <2>1 DEF Heaps
  <2>3. RemoveReference(s, o) =
          [s EXCEPT ![o].refCount = s[o].refCount - 1]
    BY <1>1, <2>2 DEF RemoveReference
  <2> QED
    BY <1>3, <2>1, <2>2, <2>3 DEF Heaps
<1>5. RemoveReference(w, o) = [h EXCEPT ![o] = Freed]
  <2>1. w[o].refCount = 1
    BY <1>2 DEF Heaps
  <2>2. RemoveReference(w, o) = [w EXCEPT ![o] = Freed]
    BY <1>1, <2>1 DEF RemoveReference
  <2> QED
    BY <1>2, <2>2 DEF Heaps
<1> QED
  BY <1>4, <1>5

(* What ProcessRow does: the row's key is new, and an object that was free  *)
(* gets its row and one pointer; or nothing has changed in the end.         *)
LEMMA RowProcessed ==
  ASSUME Typed, Accounted, NEW t \in Threads, ProcessRow(t)
  PROVE  LET row == Head(rows[t])
             map == local[t].dataMap
         IN \/ /\ row.key \in DOMAIN map
               /\ UNCHANGED <<local, heap>>
            \/ /\ row.key \notin DOMAIN map
               /\ \E eh \in Objects :
                    /\ ~Live(heap, eh)
                    /\ heap' = [heap EXCEPT ![eh] = [refCount |-> 1, row |-> row]]
                    /\ local' = [local EXCEPT ![t] =
                         [dataMap |-> Bind(map, row.key, eh),
                          keyVector |-> Append(local[t].keyVector, row.key)]]
<1> DEFINE row == Head(rows[t])
           map == local[t].dataMap
           isNew == row.key \notin DOMAIN map
<1>1. row \in TableRows
  BY DEF Typed, ProcessRow
<1>2. PICK eh \in Objects :
        LET wrapped == AddReference(Construct(heap, eh, row), eh)
            stored == IF isNew THEN AddReference(wrapped, eh) ELSE wrapped
        IN /\ ~Live(heap, eh)
           /\ local' = [local EXCEPT ![t] = AddDataEntry(local[t], row.key, eh)]
           /\ heap' = RemoveReference(stored, eh)
  BY DEF ProcessRow
<1>3. heap \in Heaps
  BY DEF Typed
<1>4. local \in [Threads -> Containers]
  BY DEF Typed
<1> HIDE DEF row
<1>5. PICK w : w = AddReference(Construct(heap, eh, row), eh)
  OBVIOUS
<1>6. /\ RemoveReference(AddReference(w, eh), eh) =
           [heap EXCEPT ![eh] = [refCount |-> 1, row |-> row]]
      /\ RemoveReference(w, eh) = [heap EXCEPT ![eh] = Freed]
  BY <1>1, <1>3, <1>5, Wrapped
<1>7. CASE isNew
  <2>1. heap' = [heap EXCEPT ![eh] = [refCount |-> 1, row |-> row]]
    BY <1>2, <1>5, <1>6, <1>7
  <2>2. local' = [local EXCEPT ![t] =
                    [dataMap |-> Bind(map, row.key, eh),
                     keyVector |-> Append(local[t].keyVector, row.key)]]
    BY <1>2, <1>7 DEF AddDataEntry
  <2> QED
    BY <1>2, <1>7, <2>1, <2>2 DEF row
<1>8. CASE ~isNew
  <2>1. heap' = [heap EXCEPT ![eh] = Freed]
    BY <1>2, <1>5, <1>6, <1>8
  <2>2. heap[eh] = Freed
    <3>1. Fits(heap, eh, Pointers(eh))
      BY DEF Accounted
    <3>2. Pointers(eh) = {} /\ heap[eh].row = NoRow
      BY <1>2, <3>1 DEF Fits, Live
    <3>3. heap[eh].refCount = 0
      BY <3>1, <3>2, FS_EmptySet DEF Fits
    <3>4. heap[eh] \in [refCount : Nat, row : TableRows \cup {NoRow}]
      BY <1>3 DEF Heaps
    <3> QED
      BY <3>2, <3>3, <3>4 DEF Freed
  <2>3. heap' = heap
    BY <1>3, <2>1, <2>2 DEF Heaps
  <2>4. AddDataEntry(local[t], row.key, eh) = local[t]
    BY <1>8 DEF AddDataEntry
  <2>5. local' = local
    BY <1>2, <1>4, <2>4
  <2> QED
    BY <1>8, <2>3, <2>5 DEF row
<1> QED
  BY <1>7, <1>8

(* The new entry of a local container.                                      *)
LEMMA EntryInserted ==
  ASSUME Typed, Accounted, NEW t \in Threads, NEW k, NEW eh \in Objects,
         NEW r \in TableRows, k \notin DOMAIN local[t].dataMap,
         ~Live(heap, eh),
         heap' = [heap EXCEPT ![eh] = [refCount |-> 1, row |-> r]],
         NEW s, local' = [local EXCEPT ![t] =
                   [dataMap |-> Bind(local[t].dataMap, k, eh), keyVector |-> s]],
         UNCHANGED <<cache, dropping, handle>>
  PROVE  Balanced
<1> DEFINE x == <<"local", t, k>>
<1>1. Fits(heap, eh, Pointers(eh)) /\ Pointers(eh) = {}
  BY DEF Accounted, Fits
<1>2. /\ local'[t].dataMap = Bind(local[t].dataMap, k, eh)
      /\ \A u \in Threads : u # t => local'[u] = local[u]
  BY DEF Typed, Containers
<1>3. /\ DOMAIN local'[t].dataMap = DOMAIN local[t].dataMap \cup {k}
      /\ local'[t].dataMap[k] = eh
      /\ \A j \in DOMAIN local[t].dataMap :
           local'[t].dataMap[j] = local[t].dataMap[j]
  BY <1>2 DEF Bind
<1>4. ASSUME NEW o \in Objects, NEW y
      PROVE  y \in Pointers(o)' <=> y \in Pointers(o) \/ (o = eh /\ y = x)
  <2>1. PointsTo(y, cache', dropping', local', handle', o) <=>
          PointsTo(y, cache, dropping, local, handle, o) \/ (o = eh /\ y = x)
    BY <1>2, <1>3 DEF PointsTo
  <2> QED
    BY <2>1, PointersAre, PointersAreNext
<1> HIDE DEF x
<1>5. Pointers(eh)' = {x}
  BY <1>1, <1>4
<1>6. \A o \in Objects : o # eh => Pointers(o)' = Pointers(o)
  <2>1. \A o \in Objects : \A y :
          o # eh => (y \in Pointers(o)' <=> y \in Pointers(o))
    BY <1>4
  <2> QED
    BY <2>1
<1>7. /\ heap' \in Heaps
      /\ heap'[eh] = [refCount |-> 1, row |-> r]
      /\ \A o \in Objects : o # eh => heap'[o] = heap[o]
  BY DEF Typed, Heaps
<1>8. Fits(heap', eh, Pointers(eh)')
  <2>1. IsFiniteSet({x}) /\ Cardinality({x}) = 1
    BY FS_Singleton
  <2>2. heap'[eh].row # NoRow
    BY <1>7, RowsAreRows
  <2> QED
    BY <1>5, <1>7, <2>1, <2>2 DEF Fits, Live
<1>9. \A o \in Objects : o # eh => Fits(heap', o, Pointers(o)')
  BY <1>6, <1>7 DEF Accounted, Fits, Live
<1>10. Accounted'
  BY <1>8, <1>9 DEF Accounted
<1>11. RowsStay
  BY <1>1, <1>7 DEF RowsStay
<1> QED
  BY <1>7, <1>10, <1>11 DEF Balanced

-----------------------------------------------------------------------------
(* A step that leaves objects, handles, old entries and the entries of all  *)
(* containers alone.                                                        *)
LEMMA NothingMoved ==
  ASSUME Typed, Accounted, UNCHANGED <<heap, handle, dropping>>,
         cache'.dataMap = cache.dataMap,
         \A t \in Threads :
           \/ local'[t].dataMap = local[t].dataMap
           \/ DOMAIN local[t].dataMap = {} /\ DOMAIN local'[t].dataMap = {}
  PROVE  Balanced
<1>1. ASSUME NEW o \in Objects, NEW y
      PROVE  y \in Pointers(o)' <=> y \in Pointers(o)
  <2>1. PointsTo(y, cache', dropping', local', handle', o) <=>
          PointsTo(y, cache, dropping, local, handle, o)
    BY DEF PointsTo
  <2> QED
    BY <2>1, PointersAre, PointersAreNext
<1> QED
  BY <1>1, PointersUnchanged DEF Typed

(* Every object a pointer points to is pointed to.                          *)
AllPointedTo ==
  /\ \A k \in DOMAIN cache.dataMap :
       /\ cache.dataMap[k] \in Objects
       /\ Pointers(cache.dataMap[k]) # {}
  /\ \A t \in Threads : \A k \in DOMAIN local[t].dataMap :
       /\ local[t].dataMap[k] \in Objects
       /\ Pointers(local[t].dataMap[k]) # {}
  /\ \A h \in Handles : handle[h] \in Objects => Pointers(handle[h]) # {}

LEMMA PointedTo == Typed => AllPointedTo
<1> SUFFICES ASSUME Typed PROVE AllPointedTo
  OBVIOUS
<1>1. ASSUME NEW k \in DOMAIN cache.dataMap
      PROVE  cache.dataMap[k] \in Objects /\ Pointers(cache.dataMap[k]) # {}
  <2>1. <<"cache", NoThread, k>> \in Pointers(cache.dataMap[k])
    BY PointersAre DEF PointsTo
  <2> QED
    BY <2>1 DEF Typed, Containers, EntryMaps
<1>2. ASSUME NEW t \in Threads, NEW k \in DOMAIN local[t].dataMap
      PROVE  /\ local[t].dataMap[k] \in Objects
             /\ Pointers(local[t].dataMap[k]) # {}
  <2>1. <<"local", t, k>> \in Pointers(local[t].dataMap[k])
    BY PointersAre DEF PointsTo
  <2> QED
    BY <2>1 DEF Typed, Containers, EntryMaps
<1>3. ASSUME NEW h \in Handles PROVE Pointers(handle[h]) # {}
  <2>1. <<"handle", NoThread, h>> \in Pointers(handle[h])
    BY PointersAre DEF PointsTo, Typed, TypeOK
  <2> QED
    BY <2>1
<1> QED
  BY <1>1, <1>2, <1>3 DEF AllPointedTo

(* Every step keeps the books, and rows that stay in use stay as they are.  *)
LEMMA StepIsBalanced == IInv /\ [Next]_vars => Balanced
<1> SUFFICES ASSUME IInv, [Next]_vars PROVE Balanced
  OBVIOUS
<1> USE DEF IInv
<1>1. ASSUME UNCHANGED vars PROVE Balanced
  BY <1>1, NothingMoved DEF vars, reloadVars, cacheVars
<1>2. ASSUME UpdateTable PROVE Balanced
  BY <1>2, NothingMoved DEF UpdateTable, reloadVars, cacheVars
<1>3. ASSUME NEW t \in Threads, Query(t) PROVE Balanced
  BY <1>3, NothingMoved DEF Query, cacheVars
<1>4. ASSUME NEW t \in Threads, ProcessRow(t) PROVE Balanced
  <2>1. UNCHANGED <<cache, dropping, handle>> /\ rows[t] # <<>>
    BY <1>4 DEF ProcessRow, cacheVars
  <2>2. Head(rows[t]) \in TableRows
    BY <2>1 DEF Typed
  <2>3. CASE UNCHANGED <<local, heap>>
    BY <2>1, <2>3, NothingMoved
  <2>4. ASSUME NEW eh \in Objects, ~Live(heap, eh),
               Head(rows[t]).key \notin DOMAIN local[t].dataMap,
               heap' = [heap EXCEPT ![eh] =
                          [refCount |-> 1, row |-> Head(rows[t])]],
               local' = [local EXCEPT ![t] =
                 [dataMap |-> Bind(local[t].dataMap, Head(rows[t]).key, eh),
                  keyVector |->
                    Append(local[t].keyVector, Head(rows[t]).key)]]
        PROVE  Balanced
    BY <2>1, <2>2, <2>4, EntryInserted
  <2> QED
    BY <1>4, <2>3, <2>4, RowProcessed
<1>5. ASSUME NEW t \in Threads, RowThrows(t) PROVE Balanced
  BY <1>5, NothingMoved DEF RowThrows, cacheVars
<1>6. ASSUME NEW t \in Threads, LockCache(t) PROVE Balanced
  <2>1. exists
    BY <1>6 DEF LockCache, Lifetime
  <2>2. DOMAIN dropping = {}
    BY <1>6, <2>1 DEF LockCache, Lifetime
  <2>3. cache'.dataMap = EmptyDataMap
    BY <1>6 DEF LockCache, Typed, Containers
  <2> QED
    BY <1>6, <2>2, <2>3, EntriesMoved DEF LockCache
<1>7. ASSUME NEW t \in Threads, DestroyOldEntry(t) PROVE Balanced
  BY <1>7, OldEntryDropped DEF DestroyOldEntry, reloadVars
<1>8. ASSUME NEW t \in Threads, CopyNewEntry(t) PROVE Balanced
  <2>1. PICK k \in DOMAIN local[t].dataMap \ DOMAIN cache.dataMap :
          /\ heap' = AddReference(heap, local[t].dataMap[k])
          /\ cache' = [cache EXCEPT !.dataMap =
                         Bind(cache.dataMap, k, local[t].dataMap[k])]
    BY <1>8 DEF CopyNewEntry
  <2> QED
    BY <1>8, <2>1, EntryCopied DEF CopyNewEntry, reloadVars
<1>9. ASSUME NEW t \in Threads, UnlockCache(t) PROVE Balanced
  BY <1>9, NothingMoved DEF UnlockCache, Reloaded
<1>10. ASSUME NEW t \in Threads, DestroyLocalEntry(t) PROVE Balanced
  <2>1. PICK k \in DOMAIN local[t].dataMap :
          /\ heap' = RemoveReference(heap, local[t].dataMap[k])
          /\ local' = [local EXCEPT ![t].dataMap = Unbind(local[t].dataMap, k)]
    BY <1>10 DEF DestroyLocalEntry
  <2> QED
    BY <1>10, <2>1, LocalEntryDropped DEF DestroyLocalEntry, cacheVars
<1>11. ASSUME NEW t \in Threads, Return(t) PROVE Balanced
  <2>1. /\ local'[t].dataMap = EmptyDataMap
        /\ \A u \in Threads : u # t => local'[u] = local[u]
    BY <1>11 DEF Return, Typed, EmptyCommonMap
  <2>2. DOMAIN local[t].dataMap = {} /\ DOMAIN local'[t].dataMap = {}
    BY <1>11, <2>1 DEF Return, EmptyDataMap
  <2> QED
    BY <1>11, <2>1, <2>2, NothingMoved DEF Return, cacheVars
<1>12. ASSUME NEW h \in Handles, NEW k, LookupEntry(h, k) PROVE Balanced
  <2>1. UNCHANGED <<cache, dropping, local>>
    BY <1>12 DEF LookupEntry, cacheVars, reloadVars
  <2>2. CASE k \in DOMAIN cache.dataMap
    <3>1. PICK q \in Objects : q = cache.dataMap[k] /\ Pointers(q) # {}
      BY <2>2, PointedTo DEF AllPointedTo
    <3>2. /\ handle' = [handle EXCEPT ![h] = q]
          /\ heap' = Assign(heap, handle[h], q)
      BY <1>12, <2>2, <3>1 DEF LookupEntry
    <3> QED
      BY <2>1, <3>1, <3>2, HandleAssigned
  <2>3. CASE k \notin DOMAIN cache.dataMap
    BY <1>12, <2>1, <2>3, NothingMoved DEF LookupEntry
  <2> QED
    BY <2>2, <2>3
<1>13. ASSUME NEW g \in Handles, NEW h \in Handles, CopyHandle(g, h)
       PROVE  Balanced
  <2>1. PICK q \in Objects \cup {Null} : q = handle[g]
    BY DEF Typed, TypeOK
  <2>2. q \in Objects => Pointers(q) # {}
    BY <2>1, PointedTo DEF AllPointedTo
  <2> QED
    BY <1>13, <2>1, <2>2, HandleAssigned DEF CopyHandle, cacheVars, reloadVars
<1>14. ASSUME NEW h \in Handles, DropHandle(h) PROVE Balanced
  <2>1. RemoveReference(heap, handle[h]) = Assign(heap, handle[h], Null)
    BY DEF Assign, AddReference, RemoveReference
  <2> QED
    BY <1>14, <2>1, RefCountAssumption, HandleAssigned
       DEF DropHandle, cacheVars, reloadVars
<1>15. ASSUME Destroy PROVE Balanced
  <2>1. mutex = NoThread
    BY <1>15 DEF Destroy, Typed, TypeOK
  <2>2. DOMAIN dropping = {}
    BY <1>15, <2>1 DEF Destroy, Lifetime
  <2> QED
    BY <1>15, <2>2, EntriesMoved DEF Destroy, EmptyCommonMap, reloadVars
<1>16. ASSUME DestroyCachedEntry PROVE Balanced
  BY <1>16, OldEntryDropped DEF DestroyCachedEntry, reloadVars
<1>17. ASSUME Rebuild PROVE Balanced
  BY <1>17, NothingMoved DEF Rebuild, reloadVars
<1> QED
  BY <1>1, <1>2, <1>3, <1>4, <1>5, <1>6, <1>7, <1>8, <1>9, <1>10, <1>11,
     <1>12, <1>13, <1>14, <1>15, <1>16, <1>17 DEF Next, ReloadStep

-----------------------------------------------------------------------------
(* The operations on maps yield maps.                                       *)
LEMMA MapOperations ==
  /\ EmptyDataMap \in EntryMaps /\ DOMAIN EmptyDataMap = {}
  /\ EmptyCommonMap \in Containers
  /\ \A f \in EntryMaps, k \in Int, o \in Objects : Bind(f, k, o) \in EntryMaps
  /\ \A f \in EntryMaps : \A k : Unbind(f, k) \in EntryMaps
  /\ \A f \in EntryMaps : Reloaded(f) \in Containers
<1>1. EmptyDataMap \in EntryMaps /\ DOMAIN EmptyDataMap = {}
  <2>1. EmptyDataMap \in [{} -> Objects]
    BY DEF EmptyDataMap
  <2>2. {} \in {E \in SUBSET Int : IsFiniteSet(E)}
    BY FS_EmptySet
  <2> QED
    BY <2>1, <2>2 DEF EntryMaps
<1>2. EmptyCommonMap \in Containers
  BY <1>1 DEF EmptyCommonMap, Containers
<1>3. ASSUME NEW f \in EntryMaps, NEW k \in Int, NEW o \in Objects
      PROVE  Bind(f, k, o) \in EntryMaps
  <2>1. PICK D \in {E \in SUBSET Int : IsFiniteSet(E)} : f \in [D -> Objects]
    BY DEF EntryMaps
  <2>2. D \cup {k} \in {E \in SUBSET Int : IsFiniteSet(E)}
    BY <2>1, FS_AddElement
  <2>3. Bind(f, k, o) \in [D \cup {k} -> Objects]
    BY <2>1 DEF Bind
  <2> QED
    BY <2>2, <2>3 DEF EntryMaps
<1>4. ASSUME NEW f \in EntryMaps, NEW k PROVE Unbind(f, k) \in EntryMaps
  <2>1. PICK D \in {E \in SUBSET Int : IsFiniteSet(E)} : f \in [D -> Objects]
    BY DEF EntryMaps
  <2>2. D \ {k} \in {E \in SUBSET Int : IsFiniteSet(E)}
    BY <2>1, FS_RemoveElement
  <2>3. Unbind(f, k) \in [D \ {k} -> Objects]
    BY <2>1 DEF Unbind
  <2> QED
    BY <2>2, <2>3 DEF EntryMaps
<1>5. ASSUME NEW f \in EntryMaps PROVE Reloaded(f) \in Containers
  <2>1. DOMAIN f \in SUBSET Int /\ IsFiniteSet(DOMAIN f)
    BY DEF EntryMaps
  <2>2. Reloaded(f).keyVector \in Seq(DOMAIN f)
    BY <2>1, ReloadedIsParallel
  <2>3. Reloaded(f).keyVector \in Seq(Int)
    BY <2>1, <2>2, SeqMonotonic
  <2> QED
    BY <2>3 DEF Reloaded, Containers
<1> QED
  BY <1>1, <1>2, <1>3, <1>4, <1>5

(* Type correctness, but for the objects (StepIsBalanced).                  *)
LEMMA StepIsTyped == IInv /\ [Next]_vars => Typed'
<1> SUFFICES ASSUME IInv, [Next]_vars PROVE Typed'
  OBVIOUS
<1>0. Typed /\ heap' \in Heaps
  BY StepIsBalanced DEF IInv, Balanced
<1>h. \A o \in Objects : heap'[o].refCount \in Nat
  BY <1>0 DEF Heaps
<1>m. \A k : cache' \in Containers /\ k \in DOMAIN cache'.dataMap =>
        cache'.dataMap[k] \in Objects
  BY DEF Containers, EntryMaps
<1> USE DEF Typed, TypeOK
<1>1. ASSUME UNCHANGED vars PROVE Typed'
  BY <1>0, <1>1 DEF vars, reloadVars, cacheVars
<1>2. ASSUME UpdateTable PROVE Typed'
  BY <1>0, <1>2, CacheAssumption DEF UpdateTable, reloadVars, cacheVars
<1>3. ASSUME NEW t \in Threads, Query(t) PROVE Typed'
  <2>1. Selected(version) \in Seq(TableRows)
    BY <1>0, SelectedAreRows
  <2> QED
    BY <1>0, <1>3, <2>1, CacheAssumption DEF Query, cacheVars
<1>4. ASSUME NEW t \in Threads, ProcessRow(t) PROVE Typed'
  <2>1. /\ rows[t] \in Seq(TableRows) /\ rows[t] # <<>>
        /\ Tail(rows[t]) \in Seq(TableRows) /\ Head(rows[t]) \in TableRows
    BY <1>0, <1>4 DEF ProcessRow
  <2>2. Head(rows[t]).key \in Int
    BY <2>1, RowsAreRows
  <2>3. PICK eh \in Objects :
          local' = [local EXCEPT ![t] =
                      AddDataEntry(local[t], Head(rows[t]).key, eh)]
    BY <1>4 DEF ProcessRow
  <2>4. AddDataEntry(local[t], Head(rows[t]).key, eh) \in Containers
    BY <1>0, <2>2, MapOperations DEF AddDataEntry, Containers
  <2>5. local' \in [Threads -> Containers]
    BY <1>0, <2>3, <2>4
  <2>6. rows' \in [Threads -> Seq(TableRows)]
    BY <1>0, <1>4, <2>1 DEF ProcessRow
  <2> QED
    BY <1>0, <1>h, <1>4, <2>5, <2>6 DEF ProcessRow, cacheVars
<1>5. ASSUME NEW t \in Threads, RowThrows(t) PROVE Typed'
  BY <1>0, <1>5, CacheAssumption DEF RowThrows, cacheVars
<1>6. ASSUME NEW t \in Threads, LockCache(t) PROVE Typed'
  <2>1. cache' \in Containers /\ dropping' \in EntryMaps
    BY <1>0, <1>6, MapOperations DEF LockCache, Containers
  <2> QED
    BY <1>0, <1>6, <1>h, <1>m, <2>1, CacheAssumption DEF LockCache
<1>7. ASSUME NEW t \in Threads, DestroyOldEntry(t) PROVE Typed'
  <2>1. dropping' \in EntryMaps
    BY <1>0, <1>7, MapOperations DEF DestroyOldEntry
  <2> QED
    BY <1>0, <1>h, <1>7, <2>1 DEF DestroyOldEntry, reloadVars
<1>8. ASSUME NEW t \in Threads, CopyNewEntry(t) PROVE Typed'
  <2>1. PICK k \in DOMAIN local[t].dataMap :
          cache' = [cache EXCEPT !.dataMap =
                      Bind(cache.dataMap, k, local[t].dataMap[k])]
    BY <1>8 DEF CopyNewEntry
  <2>2. local[t].dataMap \in EntryMaps
    BY <1>0 DEF Containers
  <2>3. k \in Int /\ local[t].dataMap[k] \in Objects
    BY <2>1, <2>2 DEF EntryMaps
  <2>4. cache' \in Containers
    BY <1>0, <2>1, <2>3, MapOperations DEF Containers
  <2> QED
    BY <1>0, <1>h, <1>m, <1>8, <2>4 DEF CopyNewEntry, reloadVars
<1>9. ASSUME NEW t \in Threads, UnlockCache(t) PROVE Typed'
  <2>1. cache' \in Containers
    BY <1>0, <1>9, MapOperations DEF UnlockCache, Containers
  <2> QED
    BY <1>0, <1>h, <1>m, <1>9, <2>1, CacheAssumption DEF UnlockCache
<1>10. ASSUME NEW t \in Threads, DestroyLocalEntry(t) PROVE Typed'
  <2>1. PICK k \in DOMAIN local[t].dataMap :
          local' = [local EXCEPT ![t].dataMap = Unbind(local[t].dataMap, k)]
    BY <1>10 DEF DestroyLocalEntry
  <2>2. Unbind(local[t].dataMap, k) \in EntryMaps
    BY <1>0, MapOperations DEF Containers
  <2>3. local' \in [Threads -> Containers]
    BY <1>0, <2>1, <2>2 DEF Containers
  <2> QED
    BY <1>0, <1>h, <1>10, <2>3 DEF DestroyLocalEntry, cacheVars
<1>11. ASSUME NEW t \in Threads, Return(t) PROVE Typed'
  <2>1. local' \in [Threads -> Containers]
    BY <1>0, <1>11, MapOperations DEF Return
  <2> QED
    BY <1>0, <1>11, <2>1, CacheAssumption DEF Return, cacheVars
<1>12. ASSUME NEW h \in Handles, NEW k, LookupEntry(h, k) PROVE Typed'
  BY <1>0, <1>h, <1>12 DEF LookupEntry, cacheVars, reloadVars
<1>13. ASSUME NEW g \in Handles, NEW h \in Handles, CopyHandle(g, h)
       PROVE  Typed'
  BY <1>0, <1>h, <1>13 DEF CopyHandle, cacheVars, reloadVars
<1>14. ASSUME NEW h \in Handles, DropHandle(h) PROVE Typed'
  BY <1>0, <1>h, <1>14 DEF DropHandle, cacheVars, reloadVars
<1>15. ASSUME Destroy PROVE Typed'
  <2>1. cache' \in Containers /\ dropping' \in EntryMaps
    BY <1>0, <1>15, MapOperations DEF Destroy, Containers
  <2> QED
    BY <1>0, <1>h, <1>m, <1>15, <2>1 DEF Destroy, reloadVars
<1>16. ASSUME DestroyCachedEntry PROVE Typed'
  <2>1. dropping' \in EntryMaps
    BY <1>0, <1>16, MapOperations DEF DestroyCachedEntry
  <2> QED
    BY <1>0, <1>h, <1>16, <2>1 DEF DestroyCachedEntry, reloadVars
<1>17. ASSUME Rebuild PROVE Typed'
  BY <1>0, <1>17 DEF Rebuild, reloadVars
<1> QED
  BY <1>1, <1>2, <1>3, <1>4, <1>5, <1>6, <1>7, <1>8, <1>9, <1>10, <1>11,
     <1>12, <1>13, <1>14, <1>15, <1>16, <1>17 DEF Next, ReloadStep

(* Old entries are left over only where Lifetime says so.                   *)
LEMMA StepKeepsLifetime == IInv /\ [Next]_vars => Lifetime'
<1> SUFFICES ASSUME IInv, [Next]_vars PROVE Lifetime'
  OBVIOUS
<1>0. Typed /\ TypeOK /\ Lifetime
  BY DEF IInv, Typed
<1>f. ASSUME UNCHANGED <<exists, mutex, cache, dropping>>,
             \A t \in Threads : ~exists => pc'[t] = pc[t]
      PROVE  Lifetime'
  BY <1>0, <1>f DEF Lifetime
<1>1. ASSUME UNCHANGED vars PROVE Lifetime'
  BY <1>f, <1>1 DEF vars, reloadVars, cacheVars
<1>2. ASSUME UpdateTable PROVE Lifetime'
  BY <1>f, <1>2 DEF UpdateTable, reloadVars, cacheVars
<1>3. ASSUME NEW t \in Threads, Query(t) PROVE Lifetime'
  BY <1>f, <1>3 DEF Query, cacheVars
<1>4. ASSUME NEW t \in Threads, ProcessRow(t) PROVE Lifetime'
  BY <1>f, <1>4 DEF ProcessRow, cacheVars
<1>5. ASSUME NEW t \in Threads, RowThrows(t) PROVE Lifetime'
  BY <1>0, <1>f, <1>5 DEF RowThrows, cacheVars, Lifetime
<1>6. ASSUME NEW t \in Threads, LockCache(t) PROVE Lifetime'
  BY <1>0, <1>6, CacheAssumption DEF LockCache, Lifetime
<1>7. ASSUME NEW t \in Threads, DestroyOldEntry(t) PROVE Lifetime'
  BY <1>0, <1>7, CacheAssumption
     DEF DestroyOldEntry, Lifetime, reloadVars, TypeOK
<1>8. ASSUME NEW t \in Threads, CopyNewEntry(t) PROVE Lifetime'
  BY <1>0, <1>8, CacheAssumption DEF CopyNewEntry, Lifetime, reloadVars, TypeOK
<1>9. ASSUME NEW t \in Threads, UnlockCache(t) PROVE Lifetime'
  BY <1>0, <1>9 DEF UnlockCache, Lifetime
<1>10. ASSUME NEW t \in Threads, DestroyLocalEntry(t) PROVE Lifetime'
  BY <1>f, <1>10 DEF DestroyLocalEntry, cacheVars
<1>11. ASSUME NEW t \in Threads, Return(t) PROVE Lifetime'
  BY <1>0, <1>f, <1>11 DEF Return, cacheVars, Lifetime
<1>12. ASSUME NEW h \in Handles, NEW k, LookupEntry(h, k) PROVE Lifetime'
  BY <1>f, <1>12 DEF LookupEntry, cacheVars, reloadVars
<1>13. ASSUME NEW g \in Handles, NEW h \in Handles, CopyHandle(g, h)
       PROVE  Lifetime'
  BY <1>f, <1>13 DEF CopyHandle, cacheVars, reloadVars
<1>14. ASSUME NEW h \in Handles, DropHandle(h) PROVE Lifetime'
  BY <1>f, <1>14 DEF DropHandle, cacheVars, reloadVars
<1>15. ASSUME Destroy PROVE Lifetime'
  BY <1>0, <1>15 DEF Destroy, Lifetime, reloadVars
<1>16. ASSUME DestroyCachedEntry PROVE Lifetime'
  BY <1>0, <1>16 DEF DestroyCachedEntry, Lifetime, reloadVars
<1>17. ASSUME Rebuild PROVE Lifetime'
  BY <1>0, <1>17 DEF Rebuild, Lifetime, reloadVars
<1> QED
  BY <1>1, <1>2, <1>3, <1>4, <1>5, <1>6, <1>7, <1>8, <1>9, <1>10, <1>11,
     <1>12, <1>13, <1>14, <1>15, <1>16, <1>17 DEF Next, ReloadStep

(* The key vector is parallel to the map again before the mutex is released.*)
LEMMA StepKeepsKeyVector == IInv /\ [Next]_vars => KeyVectorIsParallel'
<1> SUFFICES ASSUME IInv, [Next]_vars PROVE KeyVectorIsParallel'
  OBVIOUS
<1>0. Typed /\ TypeOK /\ KeyVectorIsParallel
  BY DEF IInv, Typed
<1>f. ASSUME UNCHANGED <<mutex, cache>> PROVE KeyVectorIsParallel'
  BY <1>0, <1>f DEF KeyVectorIsParallel, Parallel
<1>1. ASSUME UNCHANGED vars PROVE KeyVectorIsParallel'
  BY <1>f, <1>1 DEF vars, cacheVars
<1>2. ASSUME UpdateTable PROVE KeyVectorIsParallel'
  BY <1>f, <1>2 DEF UpdateTable, cacheVars
<1>3. ASSUME NEW t \in Threads, Query(t) \/ ProcessRow(t) \/ RowThrows(t)
      PROVE  KeyVectorIsParallel'
  BY <1>f, <1>3 DEF Query, ProcessRow, RowThrows, cacheVars
<1>4. ASSUME NEW t \in Threads, LockCache(t) PROVE KeyVectorIsParallel'
  BY <1>4, CacheAssumption DEF LockCache, KeyVectorIsParallel
<1>5. ASSUME NEW t \in Threads, DestroyOldEntry(t) PROVE KeyVectorIsParallel'
  BY <1>f, <1>5 DEF DestroyOldEntry
<1>6. ASSUME NEW t \in Threads, CopyNewEntry(t) PROVE KeyVectorIsParallel'
  <2>1. mutex' = t
    BY <1>0, <1>6 DEF CopyNewEntry, TypeOK
  <2> QED
    BY <2>1, CacheAssumption DEF KeyVectorIsParallel
<1>7. ASSUME NEW t \in Threads, UnlockCache(t) PROVE KeyVectorIsParallel'
  <2>1. DOMAIN cache.dataMap \in SUBSET Int /\ IsFiniteSet(DOMAIN cache.dataMap)
    BY <1>0 DEF Typed, Containers, EntryMaps
  <2>2. Parallel(Reloaded(cache.dataMap))
    BY <2>1, ReloadedIsParallel
  <2>3. cache' = Reloaded(cache.dataMap)
    BY <1>7 DEF UnlockCache
  <2> QED
    BY <2>2, <2>3 DEF KeyVectorIsParallel, Parallel
<1>8. ASSUME NEW t \in Threads, DestroyLocalEntry(t) \/ Return(t)
      PROVE  KeyVectorIsParallel'
  BY <1>f, <1>8 DEF DestroyLocalEntry, Return, cacheVars
<1>9. ASSUME NEW h \in Handles, NEW k, LookupEntry(h, k)
      PROVE  KeyVectorIsParallel'
  BY <1>f, <1>9 DEF LookupEntry, cacheVars
<1>10. ASSUME NEW g \in Handles, NEW h \in Handles,
              CopyHandle(g, h) \/ DropHandle(h)
       PROVE  KeyVectorIsParallel'
  BY <1>f, <1>10 DEF CopyHandle, DropHandle, cacheVars
<1>11. ASSUME Destroy PROVE KeyVectorIsParallel'
  <2>1. cache' = EmptyCommonMap
    BY <1>11 DEF Destroy
  <2> QED
    BY <2>1, EmptyIsParallel DEF KeyVectorIsParallel, Parallel
<1>12. ASSUME DestroyCachedEntry \/ Rebuild PROVE KeyVectorIsParallel'
  BY <1>f, <1>12 DEF DestroyCachedEntry, Rebuild
<1> QED
  BY <1>1, <1>2, <1>3, <1>4, <1>5, <1>6, <1>7, <1>8, <1>9, <1>10, <1>11,
     <1>12 DEF Next, ReloadStep

-----------------------------------------------------------------------------
(* One more row processed: it is the first with its key, or it changes      *)
(* nothing.                                                                 *)
LEMMA FirstRowsGrow ==
  ASSUME NEW map, NEW result, NEW n \in Nat, HoldsFirstRows(map, result, n),
         NEW next, NEW key, key = result[n + 1].key,
         \/ key \in DOMAIN map /\ next = map
         \/ /\ key \notin DOMAIN map
            /\ DOMAIN next = DOMAIN map \cup {key}
            /\ next[key] = result[n + 1]
            /\ \A k \in DOMAIN map : next[k] = map[k]
  PROVE  HoldsFirstRows(next, result, n + 1)
<1>1. 1..n + 1 = (1..n) \cup {n + 1}
  OBVIOUS
<1>2. DOMAIN map = {result[i].key : i \in 1..n}
  BY DEF HoldsFirstRows
<1>3. DOMAIN next = DOMAIN map \cup {key}
  OBVIOUS
<1>4. DOMAIN next = {result[i].key : i \in 1..n + 1}
  BY <1>1, <1>2, <1>3
<1>5. ASSUME NEW k \in DOMAIN map
      PROVE  \E i \in 1..n + 1 :
               /\ result[i].key = k
               /\ next[k] = result[i]
               /\ \A j \in 1..n + 1 : result[j].key = k => i <= j
  <2>1. PICK i \in 1..n :
          /\ result[i].key = k
          /\ map[k] = result[i]
          /\ \A j \in 1..n : result[j].key = k => i <= j
    BY DEF HoldsFirstRows
  <2>2. next[k] = result[i]
    BY <2>1
  <2>3. ASSUME NEW j \in 1..n + 1, result[j].key = k PROVE i <= j
    BY <2>1, <2>3
  <2> QED
    BY <1>1, <2>1, <2>2, <2>3
<1>6. ASSUME key \notin DOMAIN map
      PROVE  \E i \in 1..n + 1 :
               /\ result[i].key = key
               /\ next[key] = result[i]
               /\ \A j \in 1..n + 1 : result[j].key = key => i <= j
  <2>1. \A j \in 1..n + 1 : result[j].key = key => n + 1 <= j
    BY <1>1, <1>2, <1>6
  <2> QED
    BY <1>6, <2>1
<1> QED
  BY <1>3, <1>4, <1>5, <1>6 DEF HoldsFirstRows

(* Maps that a step does not change show the same rows after it.            *)
LEMMA LocalRowsStay ==
  ASSUME Typed, Typed', Balanced, NEW t \in Threads,
         NEW k \in DOMAIN local[t].dataMap, k \in DOMAIN local'[t].dataMap,
         local'[t].dataMap[k] = local[t].dataMap[k]
  PROVE  RowOf(local[t].dataMap[k])' = RowOf(local[t].dataMap[k])
<1>1. PICK o \in Objects : o = local[t].dataMap[k] /\ Pointers(o) # {}
  BY PointedTo DEF AllPointedTo
<1>2. Pointers(o)' # {}
  <2>1. <<"local", t, k>> \in Pointers(o)'
    BY <1>1, PointersAreNext DEF PointsTo
  <2> QED
    BY <2>1
<1>3. heap'[o].row = heap[o].row
  BY <1>1, <1>2 DEF Balanced, RowsStay
<1> QED
  BY <1>1, <1>3 DEF RowOf

LEMMA CachedRowsStay ==
  ASSUME Typed, Typed', Balanced,
         NEW k \in DOMAIN cache.dataMap, k \in DOMAIN cache'.dataMap,
         cache'.dataMap[k] = cache.dataMap[k]
  PROVE  RowOf(cache.dataMap[k])' = RowOf(cache.dataMap[k])
<1>1. PICK o \in Objects : o = cache.dataMap[k] /\ Pointers(o) # {}
  BY PointedTo DEF AllPointedTo
<1>2. Pointers(o)' # {}
  <2>1. <<"cache", NoThread, k>> \in Pointers(o)'
    BY <1>1, PointersAreNext DEF PointsTo
  <2> QED
    BY <2>1
<1>3. heap'[o].row = heap[o].row
  BY <1>1, <1>2 DEF Balanced, RowsStay
<1> QED
  BY <1>1, <1>3 DEF RowOf

LEMMA HeldRowsStay ==
  ASSUME Typed, Typed', Balanced, NEW h \in Handles, handle'[h] = handle[h]
  PROVE  RowOf(handle[h])' = RowOf(handle[h])
<1>1. CASE handle[h] = Null
  BY <1>1 DEF RowOf
<1>2. CASE handle[h] # Null
  <2>1. PICK o \in Objects : o = handle[h] /\ Pointers(o) # {}
    BY <1>2, PointedTo DEF AllPointedTo, Typed, TypeOK
  <2>2. <<"handle", NoThread, h>> \in Pointers(o)'
    BY <2>1, PointersAreNext DEF PointsTo, Typed, TypeOK
  <2>3. heap'[o].row = heap[o].row
    BY <2>1, <2>2 DEF Balanced, RowsStay
  <2> QED
    BY <2>1, <2>3 DEF RowOf
<1> QED
  BY <1>1, <1>2

(* A thread that does not step keeps what ReloadOf says of it.              *)
LEMMA OthersKeepReload ==
  ASSUME Typed, Typed', Balanced, NEW u \in Threads, ReloadOf(u),
         pc'[u] = pc[u], snapshot'[u] = snapshot[u], rows'[u] = rows[u],
         local'[u] = local[u], pc[u] = "assigning" => cache' = cache
  PROVE  ReloadOf(u)'
<1>1. RowsOf(local[u].dataMap)' = RowsOf(local[u].dataMap)
  <2>1. \A k \in DOMAIN local[u].dataMap :
          RowOf(local[u].dataMap[k])' = RowOf(local[u].dataMap[k])
    BY LocalRowsStay
  <2> QED
    BY <2>1 DEF RowsOf, RowOf
<1>2. Remaining(u)' <=> Remaining(u)
  BY DEF Remaining, Done
<1>3. Done(u)' = Done(u) /\ Selected(snapshot[u])' = Selected(snapshot[u])
  BY DEF Done, Selected
<1> QED
  BY <1>1, <1>2, <1>3 DEF ReloadOf, HoldsFirstRows

(* The step of a reload that processes one more row.                        *)
LEMMA ProcessRowKeepsReload ==
  ASSUME Typed, Typed', Accounted, Balanced, NEW t \in Threads, ReloadOf(t),
         ProcessRow(t)
  PROVE  ReloadOf(t)'
<1> DEFINE S == Selected(snapshot[t])
           n == Done(t)
           map == local[t].dataMap
           next == local'[t].dataMap
<1>1. /\ pc[t] = "processing" /\ rows[t] # <<>>
      /\ pc' = pc /\ snapshot' = snapshot
      /\ rows'[t] = Tail(rows[t])
      /\ rows[t] \in Seq(TableRows)
  BY DEF ProcessRow, Typed
<1>2. S \in Seq(TableRows)
  BY SelectedAreRows DEF Typed, TypeOK
<1>3. PICK len \in Nat : len = Len(S)
  BY <1>2
<1>4. /\ Len(rows[t]) \in Nat /\ Len(rows[t]) > 0
      /\ Len(Tail(rows[t])) = Len(rows[t]) - 1
      /\ Head(rows[t]) = rows[t][1]
      /\ \A i \in 1..Len(rows[t]) - 1 : Tail(rows[t])[i] = rows[t][i + 1]
  BY <1>1
<1>5. /\ Remaining(t)
      /\ HoldsFirstRows(RowsOf(map), S, n)
  BY <1>1 DEF ReloadOf
<1>6. n \in Nat /\ n = len - Len(rows[t])
  BY <1>3, <1>4, <1>5 DEF Remaining, Done
<1>7. Selected(snapshot[t])' = S /\ Selected(snapshot'[t]) = S
  BY <1>1
<1>8. Done(t)' = n + 1
  <2>1. Done(t)' = len - Len(rows'[t])
    BY <1>3, <1>7 DEF Done
  <2> QED
    BY <1>1, <1>4, <1>6, <2>1
<1>9. \A i \in 1..Len(rows[t]) : rows[t][i] = S[n + i]
  BY <1>5 DEF Remaining
<1>10. Head(rows[t]) = S[n + 1]
  BY <1>4, <1>9
<1> HIDE DEF n, S
<1>11. Remaining(t)'
  <2>1. ASSUME NEW i \in 1..Len(rows'[t]) PROVE rows'[t][i] = S[(n + 1) + i]
    <3>1. i + 1 \in 1..Len(rows[t]) /\ i \in 1..Len(rows[t]) - 1
      BY <1>1, <1>4
    <3>2. n + (i + 1) = (n + 1) + i
      BY <1>6
    <3>3. rows'[t][i] = rows[t][i + 1]
      BY <1>1, <1>4, <3>1
    <3>4. rows[t][i + 1] = S[n + (i + 1)]
      BY <1>9, <3>1
    <3> QED
      BY <3>2, <3>3, <3>4
  <2>2. Done(t)' >= 0
    BY <1>6, <1>8
  <2> QED
    BY <1>7, <1>8, <2>1, <2>2 DEF Remaining
<1>12. /\ DOMAIN RowsOf(map) = DOMAIN map
       /\ \A k \in DOMAIN map : RowsOf(map)[k] = RowOf(map[k])
  BY DEF RowsOf
<1>13. PICK new : new = RowsOf(local[t].dataMap)'
  OBVIOUS
<1>14. /\ DOMAIN new = DOMAIN next
       /\ \A k \in DOMAIN next : new[k] = RowOf(local[t].dataMap[k])'
  BY <1>13 DEF RowsOf
<1>15. ASSUME NEW k \in DOMAIN map, k \in DOMAIN next, next[k] = map[k]
       PROVE  new[k] = RowsOf(map)[k]
  <2>1. RowOf(local[t].dataMap[k])' = RowOf(local[t].dataMap[k])
    BY <1>15, LocalRowsStay
  <2> QED
    BY <1>12, <1>14, <1>15, <2>1
<1>16. HoldsFirstRows(new, S, n + 1)
  <2>1. PICK key : key = Head(rows[t]).key /\ key = S[n + 1].key
    BY <1>10
  <2>2. CASE key \in DOMAIN map /\ UNCHANGED <<local, heap>>
    <3>1. RowsOf(local[t].dataMap)' = RowsOf(local[t].dataMap)
      BY <2>2 DEF RowsOf, RowOf
    <3>2. new = RowsOf(map)
      BY <1>13, <3>1
    <3> QED
      BY <1>5, <1>6, <1>12, <2>1, <2>2, <3>2, FirstRowsGrow
  <2>3. ASSUME NEW eh \in Objects, key \notin DOMAIN map,
               heap' = [heap EXCEPT ![eh] =
                          [refCount |-> 1, row |-> Head(rows[t])]],
               next = Bind(map, key, eh)
        PROVE  HoldsFirstRows(new, S, n + 1)
    <3>1. /\ DOMAIN next = DOMAIN map \cup {key}
          /\ next[key] = eh
          /\ \A k \in DOMAIN map : next[k] = map[k]
      BY <2>3 DEF Bind
    <3>2. new[key] = S[n + 1]
      <4>1. heap'[eh].row = Head(rows[t])
        BY <2>3 DEF Typed, Heaps
      <4>2. RowOf(local[t].dataMap[key])' = heap'[eh].row
        BY <3>1, RefCountAssumption DEF RowOf
      <4> QED
        BY <1>10, <1>14, <3>1, <4>1, <4>2
    <3>3. \A k \in DOMAIN map : new[k] = RowsOf(map)[k]
      BY <1>15, <3>1
    <3>4. key \notin DOMAIN RowsOf(map)
          /\ DOMAIN new = DOMAIN RowsOf(map) \cup {key}
      BY <1>12, <1>14, <2>3, <3>1
    <3> QED
      BY <1>5, <1>6, <1>12, <2>1, <3>2, <3>3, <3>4, FirstRowsGrow
  <2>4. \/ key \in DOMAIN map /\ UNCHANGED <<local, heap>>
        \/ \E eh \in Objects :
             /\ key \notin DOMAIN map
             /\ heap' = [heap EXCEPT ![eh] =
                           [refCount |-> 1, row |-> Head(rows[t])]]
             /\ next = Bind(map, key, eh)
    <3>1. \A eh : local' = [local EXCEPT ![t] =
                         [dataMap |-> Bind(map, key, eh),
                          keyVector |-> Append(local[t].keyVector, key)]]
                   => next = Bind(map, key, eh)
      BY DEF Typed
    <3> QED
      BY <2>1, <3>1, RowProcessed
  <2> QED
    BY <2>2, <2>3, <2>4
<1> QED
  BY <1>1, <1>7, <1>8, <1>11, <1>13, <1>16 DEF ReloadOf

LEMMA StepKeepsReloading == IInv /\ [Next]_vars => Reloading'
<1> SUFFICES ASSUME IInv, [Next]_vars, NEW u \in Threads PROVE ReloadOf(u)'
  BY DEF Reloading
<1>0. Typed /\ TypeOK /\ Accounted /\ Typed' /\ Balanced /\ ReloadOf(u)
  BY StepIsTyped, StepIsBalanced DEF IInv, Typed, Reloading
<1>f. ASSUME UNCHANGED <<pc, snapshot, rows, local, cache>> PROVE ReloadOf(u)'
  BY <1>0, <1>f, OthersKeepReload
<1>1. ASSUME UNCHANGED vars PROVE ReloadOf(u)'
  BY <1>f, <1>1 DEF vars, reloadVars, cacheVars
<1>2. ASSUME UpdateTable PROVE ReloadOf(u)'
  BY <1>f, <1>2 DEF UpdateTable, reloadVars, cacheVars
<1>3. ASSUME NEW t \in Threads, Query(t) PROVE ReloadOf(u)'
  <2>1. CASE u # t
    BY <1>0, <1>3, <2>1, OthersKeepReload DEF Query, cacheVars, Typed, TypeOK
  <2>2. CASE u = t
    <3>1. /\ pc'[u] = "processing" /\ rows'[u] = Selected(snapshot'[u])
          /\ DOMAIN local'[u].dataMap = {}
      BY <1>0, <1>3, <2>2 DEF Query, Typed, TypeOK, ReloadOf
    <3>2. Selected(snapshot'[u]) \in Seq(TableRows)
      BY <1>0, SelectedAreRows DEF Typed, TypeOK
    <3>3. Done(u)' = 0
      BY <3>1, <3>2 DEF Done
    <3>4. Remaining(u)'
      <4>1. \A i \in 1..Len(rows'[u]) : 0 + i = i
        OBVIOUS
      <4> QED
        BY <3>1, <3>3, <4>1 DEF Remaining
    <3>5. HoldsFirstRows(RowsOf(local[u].dataMap)', Selected(snapshot[u])', 0)
      BY <3>1 DEF HoldsFirstRows, RowsOf
    <3> QED
      BY <3>1, <3>3, <3>4, <3>5 DEF ReloadOf
  <2> QED
    BY <2>1, <2>2
<1>4. ASSUME NEW t \in Threads, ProcessRow(t) PROVE ReloadOf(u)'
  <2>1. CASE u # t
    <3>1. local'[u] = local[u]
      BY <1>0, <1>4, <2>1 DEF ProcessRow, Typed
    <3> QED
      BY <1>0, <1>4, <2>1, <3>1, OthersKeepReload
         DEF ProcessRow, cacheVars, Typed
  <2>2. CASE u = t
    BY <1>0, <1>4, <2>2, ProcessRowKeepsReload
  <2> QED
    BY <2>1, <2>2
<1>5. ASSUME NEW t \in Threads, RowThrows(t) PROVE ReloadOf(u)'
  <2>1. CASE u # t
    BY <1>0, <1>5, <2>1, OthersKeepReload
       DEF RowThrows, cacheVars, Typed, TypeOK
  <2>2. CASE u = t
    BY <1>0, <1>5, <2>2 DEF RowThrows, ReloadOf, TypeOK
  <2> QED
    BY <2>1, <2>2
<1>6. ASSUME NEW t \in Threads, LockCache(t) PROVE ReloadOf(u)'
  <2>1. CASE u # t
    <3>1. pc[u] # "assigning"
      BY <1>0, <1>6, CacheAssumption DEF LockCache, TypeOK
    <3> QED
      BY <1>0, <1>6, <2>1, <3>1, OthersKeepReload DEF LockCache, TypeOK
  <2>2. CASE u = t
    <3>1. DOMAIN cache'.dataMap = {}
      BY <1>0, <1>6, MapOperations DEF LockCache, Typed, Containers
    <3> QED
      BY <1>0, <1>6, <2>2, <3>1 DEF LockCache, ReloadOf, TypeOK
  <2> QED
    BY <2>1, <2>2
<1>7. ASSUME NEW t \in Threads, DestroyOldEntry(t) PROVE ReloadOf(u)'
  BY <1>f, <1>7 DEF DestroyOldEntry, reloadVars
<1>8. ASSUME NEW t \in Threads, CopyNewEntry(t) PROVE ReloadOf(u)'
  <2>1. CASE u # t
    <3>1. pc[u] # "assigning"
      BY <1>0, <1>8, <2>1 DEF CopyNewEntry, TypeOK
    <3> QED
      BY <1>0, <1>8, <3>1, OthersKeepReload DEF CopyNewEntry, reloadVars
  <2>2. CASE u = t
    <3>1. PICK k \in DOMAIN local[t].dataMap :
            cache' = [cache EXCEPT !.dataMap =
                        Bind(cache.dataMap, k, local[t].dataMap[k])]
      BY <1>8 DEF CopyNewEntry
    <3>2. /\ DOMAIN cache'.dataMap = DOMAIN cache.dataMap \cup {k}
          /\ cache'.dataMap[k] = local[t].dataMap[k]
          /\ \A j \in DOMAIN cache.dataMap :
               j # k => cache'.dataMap[j] = cache.dataMap[j]
      BY <1>0, <3>1 DEF Bind, Typed, Containers
    <3> QED
      BY <1>0, <1>8, <2>2, <3>2 DEF CopyNewEntry, ReloadOf, reloadVars
  <2> QED
    BY <2>1, <2>2
<1>9. ASSUME NEW t \in Threads, UnlockCache(t) PROVE ReloadOf(u)'
  <2>1. CASE u # t
    <3>1. pc[u] # "assigning"
      BY <1>0, <1>9, <2>1 DEF UnlockCache, TypeOK
    <3> QED
      BY <1>0, <1>9, <2>1, <3>1, OthersKeepReload DEF UnlockCache, TypeOK
  <2>2. CASE u = t
    BY <1>0, <1>9, <2>2 DEF UnlockCache, ReloadOf, TypeOK
  <2> QED
    BY <2>1, <2>2
<1>10. ASSUME NEW t \in Threads, DestroyLocalEntry(t) PROVE ReloadOf(u)'
  <2>1. CASE u # t
    <3>1. local'[u] = local[u]
      BY <1>0, <1>10, <2>1 DEF DestroyLocalEntry, Typed
    <3> QED
      BY <1>0, <1>10, <3>1, OthersKeepReload DEF DestroyLocalEntry, cacheVars
  <2>2. CASE u = t
    BY <1>0, <1>10, <2>2 DEF DestroyLocalEntry, ReloadOf
  <2> QED
    BY <2>1, <2>2
<1>11. ASSUME NEW t \in Threads, Return(t) PROVE ReloadOf(u)'
  <2>1. CASE u # t
    BY <1>0, <1>11, <2>1, OthersKeepReload DEF Return, cacheVars, Typed, TypeOK
  <2>2. CASE u = t
    <3>1. local'[u] = EmptyCommonMap /\ pc'[u] = "idle"
      BY <1>0, <1>11, <2>2 DEF Return, Typed, TypeOK
    <3> QED
      BY <3>1 DEF ReloadOf, EmptyCommonMap, EmptyDataMap
  <2> QED
    BY <2>1, <2>2
<1>12. ASSUME NEW h \in Handles, NEW k, LookupEntry(h, k) PROVE ReloadOf(u)'
  BY <1>f, <1>12 DEF LookupEntry, cacheVars, reloadVars
<1>13. ASSUME NEW g \in Handles, NEW h \in Handles,
              CopyHandle(g, h) \/ DropHandle(h)
       PROVE  ReloadOf(u)'
  BY <1>f, <1>13 DEF CopyHandle, DropHandle, cacheVars, reloadVars
<1>14. ASSUME Destroy PROVE ReloadOf(u)'
  BY <1>0, <1>14, OthersKeepReload DEF Destroy, reloadVars
<1>15. ASSUME DestroyCachedEntry \/ Rebuild PROVE ReloadOf(u)'
  BY <1>f, <1>15 DEF DestroyCachedEntry, Rebuild, reloadVars
<1> QED
  BY <1>1, <1>2, <1>3, <1>4, <1>5, <1>6, <1>7, <1>8, <1>9, <1>10, <1>11,
     <1>12, <1>13, <1>14, <1>15 DEF Next, ReloadStep

-----------------------------------------------------------------------------
LEMMA InitEstablishes == Init => IInv
<1> SUFFICES ASSUME Init PROVE IInv
  OBVIOUS
<1>1. DOMAIN EmptyDataMap = {}
  BY MapOperations
<1>2. heap \in Heaps
  BY DEF Init, Heaps, EmptyHeap, Freed
<1>3. Typed
  BY <1>1, <1>2, MapOperations, CacheAssumption
     DEF Init, Typed, TypeOK, EmptyCommonMap, Heaps
<1>4. ASSUME NEW o \in Objects PROVE Fits(heap, o, Pointers(o))
  <2>1. \A y : ~PointsTo(y, cache, dropping, local, handle, o)
    BY <1>1, RefCountAssumption DEF Init, PointsTo, EmptyCommonMap
  <2>2. Pointers(o) = {}
    BY <2>1, PointersAre
  <2> QED
    BY <2>2, FS_EmptySet DEF Init, EmptyHeap, Freed, Fits, Live
<1>5. Lifetime
  BY <1>1 DEF Init, Lifetime
<1>6. Reloading
  BY <1>1 DEF Init, Reloading, ReloadOf, EmptyCommonMap
<1>7. KeyVectorIsParallel
  BY EmptyIsParallel DEF Init, KeyVectorIsParallel
<1> QED
  BY <1>3, <1>4, <1>5, <1>6, <1>7 DEF IInv, Accounted

LEMMA StepPreserves == IInv /\ [Next]_vars => IInv'
BY StepIsTyped, StepIsBalanced, StepKeepsLifetime, StepKeepsReloading,
   StepKeepsKeyVector DEF IInv, Balanced

(* The inductive invariant: whatever reloads, lookups and handles do.       *)
THEOREM InductiveInvariant == Spec => []IInv
BY InitEstablishes, StepPreserves, PTL DEF Spec

(* Every variable keeps to its type, the mutex is held by exactly the       *)
(* thread that assigns the map, and no count falls below zero.              *)
THEOREM CacheTypeCorrect == Spec => []TypeOK
<1>1. IInv => TypeOK
  BY DEF IInv, Typed
<1> QED
  BY <1>1, InductiveInvariant, PTL

(* Each entry's reference count is the number of RCPtr that point to it,    *)
(* wherever they are, at every step of every reload.                        *)
THEOREM CacheCountsAreExact == Spec => []CountsAreExact
<1>1. IInv => CountsAreExact
  BY DEF IInv, Accounted, Fits, CountsAreExact
<1> QED
  BY <1>1, InductiveInvariant, PTL

(* No pointer dangles and no entry outlives its last one, failed reloads,   *)
(* duplicate keys and a destroyed cache included.                           *)
THEOREM EntriesLiveWhileReferenced == Spec => []LiveIffReferenced
<1>1. IInv => LiveIffReferenced
  BY DEF IInv, Accounted, Fits, LiveIffReferenced
<1> QED
  BY <1>1, InductiveInvariant, PTL

(* getKeyVector() lists the keys of the cache, each once, whenever no       *)
(* reload holds the mutex.                                                  *)
THEOREM CacheKeysAreParallel == Spec => []KeyVectorIsParallel
<1>1. IInv => KeyVectorIsParallel
  BY DEF IInv
<1> QED
  BY <1>1, InductiveInvariant, PTL

-----------------------------------------------------------------------------
(* The refinement: what the abstract cache's reloads and handles are here.  *)
InFlight ==
  [t \in Threads |-> IF pc[t] = "processing" THEN {snapshot[t]} ELSE {}]

Shown == [h \in Handles |-> RowOf(handle[h])]

(* A step the abstract cache does not see.                                  *)
Quiet ==
  /\ UNCHANGED <<version, answer>>
  /\ InFlight' = InFlight
  /\ Visible' = Visible
  /\ Shown' = Shown

(* Under each key, the first of the rows of s at the positions in P.        *)
FirstRows(s, P) ==
  [k \in {s[i].key : i \in P} |->
     s[CHOOSE i \in P :
         /\ s[i].key = k
         /\ \A j \in P : s[j].key = k => i <= j]]

(* The first rows of the part of a result that stands at some positions are *)
(* the rows at the first of those positions.                                *)
LEMMA FirstRowsOfSubsequence ==
  ASSUME NEW T, NEW s \in Seq(T), NEW P \in SUBSET DOMAIN s,
         NEW map, map = [k \in DOMAIN map |-> map[k]],
         HoldsFirstRows(map, Subsequence(s, P), Len(Subsequence(s, P)))
  PROVE  map = FirstRows(s, P)
<1>1. PICK a : a = Ascending(P)
  OBVIOUS
<1>2. PICK result : result = Subsequence(s, P)
  OBVIOUS
<1>3. PICK n : n = Cardinality(P)
  OBVIOUS
<1>4. IsFiniteSet(P) /\ Len(result) = n
  BY <1>2, <1>3, SubsequenceLists
<1>5. P \in SUBSET Int
  <2>1. DOMAIN s \in SUBSET Int
    OBVIOUS
  <2> QED
    BY <2>1
<1>6. /\ a \in [1..n -> P] /\ n \in Nat
      /\ \A l, m \in 1..n : l < m => a[l] < a[m]
      /\ \A i \in P : \E m \in 1..n : a[m] = i
  BY <1>1, <1>3, <1>4, <1>5, AscendingLists
<1>7. \A m \in 1..n : result[m] = s[a[m]]
  BY <1>1, <1>2, <1>3 DEF Subsequence
<1>8. DOMAIN map = {s[i].key : i \in P}
  <2>1. DOMAIN map = {result[m].key : m \in 1..n}
    BY <1>2, <1>4 DEF HoldsFirstRows
  <2>2. {result[m].key : m \in 1..n} = {s[i].key : i \in P}
    BY <1>6, <1>7
  <2> QED
    BY <2>1, <2>2
<1>9. ASSUME NEW k \in DOMAIN map
      PROVE  map[k] = s[CHOOSE i \in P :
                          /\ s[i].key = k
                          /\ \A j \in P : s[j].key = k => i <= j]
  <2> DEFINE First(i) == s[i].key = k /\ \A j \in P : s[j].key = k => i <= j
  <2>1. PICK m \in 1..n :
          /\ result[m].key = k
          /\ map[k] = result[m]
          /\ \A l \in 1..n : result[l].key = k => m <= l
    BY <1>2, <1>4 DEF HoldsFirstRows
  <2>2. ASSUME NEW j \in P, s[j].key = k PROVE a[m] <= j
    <3>1. PICK l \in 1..n : a[l] = j
      BY <1>6
    <3>2. m <= l
      BY <1>7, <2>1, <2>2, <3>1
    <3>3. CASE m = l
      BY <1>5, <1>6, <3>1, <3>3
    <3>4. CASE m < l
      <4>1. a[m] < j /\ a[m] \in Int /\ j \in Int
        BY <1>5, <1>6, <3>1, <3>4
      <4> QED
        BY <4>1
    <3> QED
      BY <1>6, <3>2, <3>3, <3>4
  <2>3. a[m] \in P /\ First(a[m]) /\ map[k] = s[a[m]]
    BY <1>6, <1>7, <2>1, <2>2
  <2>4. PICK c \in P : First(c) /\ c = CHOOSE i \in P : First(i)
    BY <2>3
  <2>5. a[m] <= c /\ c <= a[m]
    BY <2>3, <2>4
  <2>6. a[m] \in Int /\ c \in Int
    BY <1>5, <2>3
  <2>7. a[m] = c
    BY <2>5, <2>6
  <2> QED
    BY <2>3, <2>4, <2>7
<1> QED
  BY <1>8, <1>9 DEF FirstRows

(* So the first rows of a query's whole result are the contents the         *)
(* abstract cache has for the version it read.                              *)
LEMMA FirstRowsAreContents ==
  ASSUME NEW v \in 0..MaxVersion,
         NEW map, map = [k \in DOMAIN map |-> map[k]],
         HoldsFirstRows(map, Selected(v), Len(Selected(v)))
  PROVE  map = Abstract!Contents(v)
<1>1. PICK s : s = Table[v]
  OBVIOUS
<1>2. PICK P : P = Abstract!Meeting(v)
  OBVIOUS
<1>3. P = {i \in DOMAIN s : s[i].category \in Criteria}
  BY <1>1, <1>2 DEF Abstract!Meeting
<1>4. s \in Seq(Range(s)) /\ P \in SUBSET DOMAIN s
  BY <1>1, <1>3, TableAssumption
<1>5. Selected(v) = Subsequence(s, P)
  BY <1>1, <1>3 DEF Selected
<1>6. map = FirstRows(s, P)
  BY <1>4, <1>5, FirstRowsOfSubsequence
<1>7. FirstRows(s, P) = Abstract!Contents(v)
  BY <1>1, <1>2 DEF FirstRows, Abstract!Contents
<1> QED
  BY <1>6, <1>7

(* A map with no entries holds nothing.                                     *)
LEMMA NothingIsContents ==
  ASSUME NEW f, DOMAIN f = {}
  PROVE  RowsOf(f) = Abstract!Nothing
BY DEF RowsOf, Abstract!Nothing

(* What lookups can see does not change while mutex and map stay.           *)
LEMMA VisibleStays ==
  ASSUME Typed, Typed', Balanced, mutex' = mutex,
         mutex = NoThread => cache'.dataMap = cache.dataMap,
         mutex \in Threads => local'[mutex].dataMap = local[mutex].dataMap
  PROVE  Visible' = Visible
<1>1. CASE mutex = NoThread
  <2>1. \A k \in DOMAIN cache.dataMap :
          RowOf(cache.dataMap[k])' = RowOf(cache.dataMap[k])
    BY <1>1, CachedRowsStay
  <2>2. RowsOf(cache.dataMap)' = RowsOf(cache.dataMap)
    BY <1>1, <2>1 DEF RowsOf
  <2>3. Visible = RowsOf(cache.dataMap) /\ Visible' = RowsOf(cache.dataMap)'
    BY <1>1 DEF Visible, RowsOf
  <2> QED
    BY <2>2, <2>3
<1>2. CASE mutex \in Threads
  <2>1. PICK t \in Threads : t = mutex
    BY <1>2
  <2>2. \A k \in DOMAIN local[t].dataMap :
          RowOf(local[t].dataMap[k])' = RowOf(local[t].dataMap[k])
    BY <2>1, LocalRowsStay
  <2>3. RowsOf(local[t].dataMap)' = RowsOf(local[t].dataMap)
    BY <2>1, <2>2 DEF RowsOf
  <2>4. /\ Visible = RowsOf(local[t].dataMap)
        /\ Visible' = RowsOf(local[t].dataMap)'
    BY <1>2, <2>1, CacheAssumption DEF Visible, RowsOf
  <2> QED
    BY <2>3, <2>4
<1> QED
  BY <1>1, <1>2 DEF Typed, TypeOK

(* Nor do the rows handles show while the handles stay.                     *)
LEMMA ShownStays ==
  ASSUME Typed, Typed', Balanced, handle' = handle
  PROVE  Shown' = Shown
<1>1. \A h \in Handles : RowOf(handle[h])' = RowOf(handle[h])
  BY HeldRowsStay
<1> QED
  BY <1>1 DEF Shown

(* What is published with the mutex taken is the result of the query.       *)
LEMMA LockPublishes ==
  ASSUME Typed, Typed', Balanced, Reloading, NEW t \in Threads, LockCache(t)
  PROVE  Visible' = Abstract!Contents(snapshot[t])
<1> DEFINE S == Selected(snapshot[t])
<1>1. S \in Seq(TableRows)
  BY SelectedAreRows DEF Typed, TypeOK
<1>2. /\ pc[t] = "processing" /\ rows[t] = <<>> /\ mutex' = t
      /\ local' = local
  BY DEF LockCache
<1>3. Done(t) = Len(S)
  BY <1>1, <1>2 DEF Done
<1>4. HoldsFirstRows(RowsOf(local[t].dataMap), S, Len(S))
  BY <1>2, <1>3 DEF Reloading, ReloadOf
<1>5. PICK map : map = RowsOf(local[t].dataMap)
  OBVIOUS
<1>6. map = [k \in DOMAIN map |-> map[k]]
  BY <1>5 DEF RowsOf
<1>7. map = Abstract!Contents(snapshot[t])
  <2>1. PICK v \in 0..MaxVersion : v = snapshot[t]
    BY DEF Typed, TypeOK
  <2>2. HoldsFirstRows(map, Selected(v), Len(Selected(v)))
    BY <1>4, <1>5, <2>1
  <2>3. map = Abstract!Contents(v)
    BY <1>6, <2>2, FirstRowsAreContents
  <2> QED
    BY <2>1, <2>3
<1>8. RowsOf(local[t].dataMap)' = RowsOf(local[t].dataMap)
  <2>1. \A k \in DOMAIN local[t].dataMap :
          RowOf(local[t].dataMap[k])' = RowOf(local[t].dataMap[k])
    BY <1>2, LocalRowsStay
  <2> QED
    BY <1>2, <2>1 DEF RowsOf
<1>9. Visible' = RowsOf(local[t].dataMap)'
  BY <1>2, CacheAssumption DEF Visible, RowsOf
<1> QED
  BY <1>5, <1>7, <1>8, <1>9

(* Each step of the reloads, the lookups and the handles is a step of the   *)
(* abstract cache, or one it does not see.                                  *)
LEMMA StepSimulates ==
  IInv /\ IInv' /\ [Next]_vars => [Abstract!Next]_(Abstract!vars)
<1> SUFFICES ASSUME IInv, IInv', [Next]_vars
             PROVE  Abstract!Next \/ Quiet
  BY DEF Quiet, Abstract!vars, InFlight, Shown
<1>0. /\ Typed /\ TypeOK /\ Lifetime /\ Reloading
      /\ Typed' /\ TypeOK' /\ Lifetime'
      /\ Balanced
  BY StepIsBalanced DEF IInv, Typed
<1>1. ASSUME UNCHANGED vars PROVE Quiet
  BY <1>0, <1>1, VisibleStays, ShownStays
     DEF Quiet, InFlight, vars, reloadVars, cacheVars
<1>2. ASSUME UpdateTable PROVE Abstract!UpdateTable
  <2>1. Visible' = Visible /\ Shown' = Shown /\ InFlight' = InFlight
    BY <1>0, <1>2, VisibleStays, ShownStays
       DEF UpdateTable, InFlight, reloadVars, cacheVars
  <2> QED
    BY <1>2, <2>1 DEF UpdateTable, Abstract!UpdateTable, InFlight, Shown
<1>3. ASSUME NEW t \in Threads, Query(t) PROVE Abstract!TakeSnapshot(t)
  <2>1. Visible' = Visible /\ Shown' = Shown
    BY <1>0, <1>3, VisibleStays, ShownStays DEF Query, cacheVars
  <2>2. InFlight[t] = {} /\ InFlight' = [InFlight EXCEPT ![t] = {version}]
    BY <1>0, <1>3 DEF Query, InFlight, TypeOK
  <2> QED
    BY <1>3, <2>1, <2>2 DEF Query, Abstract!TakeSnapshot, InFlight, Shown
<1>4. ASSUME NEW t \in Threads, ProcessRow(t) PROVE Quiet
  <2>1. mutex # t /\ mutex' = mutex /\ cache' = cache
    BY <1>0, <1>4 DEF ProcessRow, TypeOK, cacheVars
  <2>2. \A u \in Threads : u # t => local'[u] = local[u]
    BY <1>0, <1>4 DEF ProcessRow, Typed
  <2>3. Visible' = Visible
    BY <1>0, <2>1, <2>2, VisibleStays
  <2> QED
    BY <1>0, <1>4, <2>3, ShownStays DEF Quiet, ProcessRow, InFlight
<1>5. ASSUME NEW t \in Threads, RowThrows(t) PROVE Abstract!Abandon(t)
  <2>1. Visible' = Visible /\ Shown' = Shown
    BY <1>0, <1>5, VisibleStays, ShownStays DEF RowThrows, cacheVars
  <2>2. InFlight[t] # {} /\ InFlight' = [InFlight EXCEPT ![t] = {}]
    BY <1>0, <1>5 DEF RowThrows, InFlight, TypeOK
  <2> QED
    BY <1>5, <2>1, <2>2
       DEF RowThrows, Abstract!Abandon, InFlight, Shown, cacheVars
<1>6. ASSUME NEW t \in Threads, LockCache(t) PROVE Abstract!Publish(t)
  <2>1. Visible' = Abstract!Contents(snapshot[t])
    BY <1>0, <1>6, LockPublishes
  <2>2. Shown' = Shown
    BY <1>0, <1>6, ShownStays DEF LockCache
  <2>3. /\ InFlight[t] = {snapshot[t]}
        /\ InFlight' = [InFlight EXCEPT ![t] = {}]
    BY <1>0, <1>6 DEF LockCache, InFlight, TypeOK
  <2> QED
    BY <1>6, <2>1, <2>2, <2>3
       DEF LockCache, Abstract!Publish, InFlight, Shown
<1>7. ASSUME NEW t \in Threads, DestroyOldEntry(t) PROVE Quiet
  BY <1>0, <1>7, VisibleStays, ShownStays
     DEF Quiet, DestroyOldEntry, InFlight, reloadVars
<1>8. ASSUME NEW t \in Threads, CopyNewEntry(t) PROVE Quiet
  <2>1. mutex = t /\ mutex # NoThread
    BY <1>0, <1>8, CacheAssumption DEF CopyNewEntry, TypeOK
  <2> QED
    BY <1>0, <1>8, <2>1, VisibleStays, ShownStays
       DEF Quiet, CopyNewEntry, InFlight, reloadVars
<1>9. ASSUME NEW t \in Threads, UnlockCache(t) PROVE Quiet
  <2>1. /\ mutex = t /\ mutex # NoThread /\ mutex' = NoThread
        /\ cache'.dataMap = cache.dataMap
        /\ local' = local /\ heap' = heap
    BY <1>0, <1>9, CacheAssumption DEF UnlockCache, TypeOK, Reloaded
  <2>2. cache.dataMap = local[t].dataMap
    <3>1. /\ DOMAIN cache.dataMap = DOMAIN local[t].dataMap
          /\ \A k \in DOMAIN cache.dataMap :
               cache.dataMap[k] = local[t].dataMap[k]
      BY <1>0, <1>9 DEF UnlockCache, Reloading, ReloadOf
    <3>2. cache.dataMap \in EntryMaps /\ local[t].dataMap \in EntryMaps
      BY <1>0 DEF Typed, Containers
    <3>3. \A f \in EntryMaps : f \in [DOMAIN f -> Objects]
      BY DEF EntryMaps
    <3> QED
      BY <3>1, <3>2, <3>3
  <2>3. Visible' = Visible
    BY <2>1, <2>2 DEF Visible, RowsOf, RowOf
  <2>4. InFlight' = InFlight
    BY <1>0, <1>9 DEF UnlockCache, InFlight, TypeOK
  <2> QED
    BY <1>0, <1>9, <2>3, <2>4, ShownStays DEF Quiet, UnlockCache
<1>10. ASSUME NEW t \in Threads, DestroyLocalEntry(t) PROVE Quiet
  <2>1. mutex # t /\ mutex' = mutex /\ cache' = cache
    BY <1>0, <1>10 DEF DestroyLocalEntry, TypeOK, cacheVars
  <2>2. \A u \in Threads : u # t => local'[u] = local[u]
    BY <1>0, <1>10 DEF DestroyLocalEntry, Typed
  <2>3. Visible' = Visible
    BY <1>0, <2>1, <2>2, VisibleStays
  <2> QED
    BY <1>0, <1>10, <2>3, ShownStays
       DEF Quiet, DestroyLocalEntry, InFlight, cacheVars
<1>11. ASSUME NEW t \in Threads, Return(t) PROVE Quiet
  <2>1. mutex # t /\ mutex' = mutex /\ cache' = cache
    BY <1>0, <1>11 DEF Return, TypeOK, cacheVars
  <2>2. \A u \in Threads : u # t => local'[u] = local[u]
    BY <1>0, <1>11 DEF Return, Typed
  <2>3. Visible' = Visible
    BY <1>0, <2>1, <2>2, VisibleStays
  <2>4. InFlight' = InFlight
    BY <1>0, <1>11 DEF Return, InFlight, TypeOK
  <2> QED
    BY <1>0, <1>11, <2>3, <2>4, ShownStays DEF Quiet, Return, cacheVars
<1>12. ASSUME NEW h \in Handles, NEW k \in Keys, LookupEntry(h, k)
       PROVE  Abstract!Lookup(h, k)
  <2>1. mutex = NoThread
    BY <1>12 DEF LookupEntry
  <2>2. Visible' = Visible
    BY <1>0, <1>12, VisibleStays DEF LookupEntry, cacheVars, reloadVars
  <2>3. Visible = [j \in DOMAIN cache.dataMap |-> RowOf(cache.dataMap[j])]
    BY <2>1 DEF Visible, RowsOf
  <2>4. answer' = {[key |-> k, found |-> k \in DOMAIN Visible]}
    BY <1>12, <2>3 DEF LookupEntry
  <2>5. Shown' = IF k \in DOMAIN Visible
                   THEN [Shown EXCEPT ![h] = Visible[k]]
                   ELSE Shown
    <3>1. CASE k \in DOMAIN cache.dataMap
      <4>1. handle' = [handle EXCEPT ![h] = cache.dataMap[k]]
        BY <1>12, <3>1 DEF LookupEntry
      <4>2. RowOf(handle[h])' = RowOf(cache.dataMap[k])
        <5>1. cache' = cache
          BY <1>12 DEF LookupEntry, cacheVars
        <5>2. RowOf(cache.dataMap[k])' = RowOf(cache.dataMap[k])
          BY <1>0, <3>1, <5>1, CachedRowsStay
        <5>3. handle'[h] = cache'.dataMap[k]
          BY <1>0, <4>1, <5>1 DEF TypeOK
        <5> QED
          BY <5>1, <5>2, <5>3 DEF RowOf
      <4>3. \A g \in Handles : g # h => RowOf(handle[g])' = RowOf(handle[g])
        BY <1>0, <4>1, HeldRowsStay DEF TypeOK
      <4>4. Shown' = [Shown EXCEPT ![h] = Visible[k]]
        BY <2>3, <3>1, <4>2, <4>3 DEF Shown
      <4> QED
        BY <2>3, <3>1, <4>4
    <3>2. CASE k \notin DOMAIN cache.dataMap
      BY <1>0, <1>12, <2>3, <3>2, ShownStays DEF LookupEntry
    <3> QED
      BY <3>1, <3>2
  <2>6. version' = version /\ InFlight' = InFlight
    BY <1>12 DEF LookupEntry, InFlight, reloadVars
  <2> QED
    BY <2>2, <2>4, <2>5, <2>6 DEF Abstract!Lookup, InFlight, Shown
<1>13. ASSUME NEW g \in Handles, NEW h \in Handles, CopyHandle(g, h)
       PROVE  Abstract!Copy(g, h)
  <2>1. Visible' = Visible /\ InFlight' = InFlight
    BY <1>0, <1>13, VisibleStays DEF CopyHandle, InFlight, cacheVars, reloadVars
  <2>2. handle' = [handle EXCEPT ![h] = handle[g]]
    BY <1>13 DEF CopyHandle
  <2>3. RowOf(handle[g])' = RowOf(handle[g])
    BY <1>0, <2>2, HeldRowsStay DEF TypeOK
  <2>4. RowOf(handle[h])' = RowOf(handle[g])
    <3>1. handle'[h] = handle'[g]
      BY <1>0, <2>2 DEF TypeOK
    <3> QED
      BY <2>3, <3>1 DEF RowOf
  <2>5. \A f \in Handles : f # h => RowOf(handle[f])' = RowOf(handle[f])
    BY <1>0, <2>2, HeldRowsStay DEF TypeOK
  <2>6. Shown' = [Shown EXCEPT ![h] = Shown[g]]
    BY <2>4, <2>5 DEF Shown
  <2> QED
    BY <1>13, <2>1, <2>6
       DEF CopyHandle, Abstract!Copy, InFlight, Shown, reloadVars
<1>14. ASSUME NEW h \in Handles, DropHandle(h) PROVE Abstract!Forget(h)
  <2>1. Visible' = Visible /\ InFlight' = InFlight
    BY <1>0, <1>14, VisibleStays DEF DropHandle, InFlight, cacheVars, reloadVars
  <2>2. handle' = [handle EXCEPT ![h] = Null]
    BY <1>14 DEF DropHandle
  <2>3. RowOf(handle[h])' = NoRow
    BY <1>0, <2>2 DEF RowOf, TypeOK
  <2>4. \A f \in Handles : f # h => RowOf(handle[f])' = RowOf(handle[f])
    BY <1>0, <2>2, HeldRowsStay DEF TypeOK
  <2>5. Shown' = [Shown EXCEPT ![h] = NoRow]
    BY <2>3, <2>4 DEF Shown
  <2> QED
    BY <1>14, <2>1, <2>5
       DEF DropHandle, Abstract!Forget, InFlight, Shown, reloadVars
<1>15. ASSUME Destroy PROVE Abstract!Discard
  <2>1. mutex' = NoThread /\ DOMAIN cache'.dataMap = {}
    BY <1>0, <1>15 DEF Destroy, TypeOK, EmptyCommonMap, EmptyDataMap
  <2>2. RowsOf(cache.dataMap)' = Abstract!Nothing
    BY <2>1 DEF RowsOf, Abstract!Nothing
  <2>3. Visible' = Abstract!Nothing
    BY <2>1, <2>2 DEF Visible, RowsOf
  <2>4. InFlight' = InFlight /\ \A t \in Threads : InFlight[t] = {}
    BY <1>15 DEF Destroy, InFlight, reloadVars
  <2>5. Shown' = Shown
    BY <1>0, <1>15, ShownStays DEF Destroy
  <2> QED
    BY <1>15, <2>3, <2>4, <2>5 DEF Destroy, Abstract!Discard, InFlight, Shown
<1>16. ASSUME DestroyCachedEntry PROVE Quiet
  BY <1>0, <1>16, VisibleStays, ShownStays
     DEF Quiet, DestroyCachedEntry, InFlight, reloadVars
<1>17. ASSUME Rebuild PROVE Quiet
  BY <1>0, <1>17, VisibleStays, ShownStays
     DEF Quiet, Rebuild, InFlight, reloadVars
<1>18. Keys = Abstract!Keys
  BY DEF Keys, Abstract!Keys
<1> QED
  BY <1>1, <1>2, <1>3, <1>4, <1>5, <1>6, <1>7, <1>8, <1>9, <1>10, <1>11,
     <1>12, <1>13, <1>14, <1>15, <1>16, <1>17, <1>18
     DEF Next, ReloadStep, Abstract!Next

LEMMA InitSimulates == Init => Abstract!Init
<1> SUFFICES ASSUME Init PROVE Abstract!Init
  OBVIOUS
<1>1. Visible = Abstract!Nothing
  BY MapOperations, NothingIsContents DEF Init, Visible, EmptyCommonMap
<1>2. Shown = [h \in Handles |-> NoRow]
  BY DEF Init, Shown, RowOf
<1>3. InFlight = [t \in Threads |-> {}]
  BY DEF Init, InFlight
<1> QED
  BY <1>1, <1>2, <1>3 DEF Init, Abstract!Init, InFlight, Shown

(* The snapshot cache is what its users are promised: lookups see the whole *)
(* result of one query, from one complete reload to the next, and a row     *)
(* looked up stays what it was for as long as its handle is kept, however   *)
(* reloads race each other, fail half way or meet duplicate keys.           *)
THEOREM SnapshotsImplemented == Spec => AbstractSpec
<1>1. Spec => []IInv
  BY InductiveInvariant
<1>2. IInv /\ IInv' /\ [Next]_vars => [Abstract!Next]_(Abstract!vars)
  BY StepSimulates
<1>3. Init => Abstract!Init
  BY InitSimulates
<1> QED
  BY <1>1, <1>2, <1>3, PTL DEF Spec, AbstractSpec, Abstract!Spec
=============================================================================
