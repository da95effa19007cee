------------------------------ MODULE CacheData ------------------------------
(***************************************************************************)
(* Unconstrained/ConstrainedSingleVersionSnapshotCacheData (CacheData.h):  *)
(* threads reload one cache from a table that changes meanwhile, others    *)
(* look entries up and keep reference-counted handles to them.             *)
(*                                                                         *)
(* A reload queries the table, wraps each row in a new CacheEntry inside a *)
(* private container, then locks the cache's mutex and assigns the         *)
(* container's map over the cache's.  That assignment is a sequence of     *)
(* steps here, one per entry destroyed or copied, in any order (a std::map *)
(* assignment destroys old nodes while it builds new ones); meanwhile the  *)
(* other threads query, process rows and drop handles without the mutex.   *)
(* The unconstrained cache is the case where Criteria is every category.   *)
(***************************************************************************)
EXTENDS RefCount, CommonMap

CONSTANTS
  Threads,      \* threads that call reload()
  NoThread,     \* nobody holds the cache's mutex
  Handles,      \* RCPtr variables of the callers of lookupEntry()
  MaxVersion,   \* bound: how often the table changes
  Table,        \* the rows of the table at each version, in query order
  Criteria      \* the categories the cache is constrained to

ASSUME CacheAssumption ==
  /\ NoThread \notin Threads
  /\ MaxVersion \in Nat
  /\ DOMAIN Table = 0..MaxVersion

(* A query returns a sequence of rows; the keys are ordered as std::map     *)
(* orders them.                                                             *)
ASSUME TableAssumption ==
  \A v \in 0..MaxVersion :
    /\ Table[v] \in Seq(Range(Table[v]))
    /\ \A r \in Range(Table[v]) : r # NoRow /\ r.key \in Int

VARIABLES
  version,    \* the version of the table in the database
  pc,         \* where each thread is in reload()
  snapshot,   \* the version its query read
  rows,       \* the rows of its result set still to be processed
  local,      \* its localContainer
  exists,     \* the cache is constructed and nobody is destroying it
  mutex,      \* the thread in AssociativeContainer::reload()'s critical section
  cache,      \* the container the cache is
  dropping,   \* entries of an old map still to be destroyed
  handle,     \* what each handle points to
  heap,       \* the CacheEntry objects
  answer      \* history: key and return value of the last lookupEntry()

dbVars == <<version>>
reloadVars == <<pc, snapshot, rows, local>>
cacheVars == <<exists, mutex, cache, dropping>>
vars == <<version, reloadVars, cacheVars, handle, heap, answer>>

Selected(v) ==
  Subsequence(Table[v],
              {i \in DOMAIN Table[v] : Table[v][i].category \in Criteria})

Init ==
  /\ version = 0
  /\ pc = [t \in Threads |-> "idle"]
  /\ snapshot = [t \in Threads |-> 0]
  /\ rows = [t \in Threads |-> <<>>]
  /\ local = [t \in Threads |-> EmptyCommonMap]
  /\ exists = TRUE
  /\ mutex = NoThread
  /\ cache = EmptyCommonMap
  /\ dropping = EmptyDataMap
  /\ handle = [h \in Handles |-> Null]
  /\ heap = EmptyHeap
  /\ answer = {}

-----------------------------------------------------------------------------
(* Someone modifies the table in the database.                              *)
UpdateTable ==
  /\ version < MaxVersion
  /\ version' = version + 1
  /\ UNCHANGED <<reloadVars, cacheVars, handle, heap, answer>>

(* reload() runs the query: mysql_store_result() has copied the result to   *)
(* the client before the first row is processed.  When connecting or the    *)
(* query throws instead, reload() ends here and nothing has changed.        *)
Query(t) ==
  /\ exists
  /\ pc[t] = "idle"
  /\ pc' = [pc EXCEPT ![t] = "processing"]
  /\ snapshot' = [snapshot EXCEPT ![t] = version]
  /\ rows' = [rows EXCEPT ![t] = Selected(version)]
  /\ UNCHANGED <<version, local, cacheVars, handle, heap, answer>>

(* process(entry), for the next row: wrap it in an object the local handle  *)
(* eh counts, insert a second handle unless the key is taken, drop eh.      *)
ProcessRow(t) ==
  /\ pc[t] = "processing"
  /\ rows[t] # <<>>
  /\ \E eh \in Objects :
       LET row == Head(rows[t])
           isNew == row.key \notin DOMAIN local[t].dataMap
           wrapped == AddReference(Construct(heap, eh, row), eh)
           stored == IF isNew THEN AddReference(wrapped, eh) ELSE wrapped
       IN /\ ~Live(heap, eh)
          /\ local' = [local EXCEPT ![t] = AddDataEntry(@, row.key, eh)]
          /\ heap' = RemoveReference(stored, eh)
  /\ rows' = [rows EXCEPT ![t] = Tail(@)]
  /\ UNCHANGED <<version, pc, snapshot, cacheVars, handle, answer>>

(* mapRow() or process() throws: the result set is freed and the stack      *)
(* unwinds, destroying the local container.                                 *)
RowThrows(t) ==
  /\ pc[t] = "processing"
  /\ rows[t] # <<>>
  /\ pc' = [pc EXCEPT ![t] = "failed"]
  /\ rows' = [rows EXCEPT ![t] = <<>>]
  /\ UNCHANGED <<version, snapshot, local, cacheVars, handle, heap, answer>>

-----------------------------------------------------------------------------
(* AssociativeContainer::reload(localContainer): take the mutex and start   *)
(* assigning the map.                                                       *)
LockCache(t) ==
  /\ pc[t] = "processing"
  /\ rows[t] = <<>>
  /\ mutex = NoThread
  /\ mutex' = t
  /\ pc' = [pc EXCEPT ![t] = "assigning"]
  /\ dropping' = cache.dataMap
  /\ cache' = [cache EXCEPT !.dataMap = EmptyDataMap]
  /\ UNCHANGED <<version, snapshot, rows, local, exists, handle, heap, answer>>

(* The assignment destroys one entry of the old map.                        *)
DestroyOldEntry(t) ==
  /\ pc[t] = "assigning"
  /\ \E k \in DOMAIN dropping :
       /\ heap' = RemoveReference(heap, dropping[k])
       /\ dropping' = Unbind(dropping, k)
  /\ UNCHANGED <<version, reloadVars, exists, mutex, cache, handle, answer>>

(* The assignment copies one entry of the local container.                  *)
CopyNewEntry(t) ==
  /\ pc[t] = "assigning"
  /\ \E k \in DOMAIN local[t].dataMap \ DOMAIN cache.dataMap :
       /\ heap' = AddReference(heap, local[t].dataMap[k])
       /\ cache' = [cache EXCEPT !.dataMap = Bind(@, k, local[t].dataMap[k])]
  /\ UNCHANGED <<version, reloadVars, exists, mutex, dropping, handle, answer>>

(* Mutant of UnlockCache: the mutex stays locked.                           *)
MutantUnlockCache(t) ==
  /\ pc[t] = "assigning"
  /\ DOMAIN dropping = {}
  /\ DOMAIN cache.dataMap = DOMAIN local[t].dataMap
  /\ cache' = Reloaded(cache.dataMap)
  /\ pc' = [pc EXCEPT ![t] = "published"]
  /\ UNCHANGED <<version, snapshot, rows, local, exists, mutex, dropping, handle,
                 heap, answer>>

(* Mutant of UnlockCache: the keys are appended, the vector is not cleared. *)
MutantUnlockCacheKeys(t) ==
  /\ pc[t] = "assigning"
  /\ DOMAIN dropping = {}
  /\ DOMAIN cache.dataMap = DOMAIN local[t].dataMap
  /\ cache' = [cache EXCEPT !.keyVector = @ \o KeysInOrder(cache.dataMap)]
  /\ mutex' = NoThread
  /\ pc' = [pc EXCEPT ![t] = "published"]
  /\ UNCHANGED <<version, snapshot, rows, local, exists, dropping, handle, heap,
                 answer>>

(* Both maps are done: rebuild the key vector and release the mutex.        *)
UnlockCache(t) ==
  /\ pc[t] = "assigning"
  /\ DOMAIN dropping = {}
  /\ DOMAIN cache.dataMap = DOMAIN local[t].dataMap
  /\ cache' = Reloaded(cache.dataMap)
  /\ mutex' = NoThread
  /\ pc' = [pc EXCEPT ![t] = "published"]
  /\ UNCHANGED <<version, snapshot, rows, local, exists, dropping, handle, heap,
                 answer>>

(* localContainer's destructor drops one of its entries.                    *)
DestroyLocalEntry(t) ==
  /\ pc[t] \in {"published", "failed"}
  /\ \E k \in DOMAIN local[t].dataMap :
       /\ heap' = RemoveReference(heap, local[t].dataMap[k])
       /\ local' = [local EXCEPT ![t].dataMap = Unbind(@, k)]
  /\ UNCHANGED <<version, pc, snapshot, rows, cacheVars, handle, answer>>

(* reload() returns, or its exception leaves it.                            *)
Return(t) ==
  /\ pc[t] \in {"published", "failed"}
  /\ DOMAIN local[t].dataMap = {}
  /\ pc' = [pc EXCEPT ![t] = "idle"]
  /\ snapshot' = [snapshot EXCEPT ![t] = 0]
  /\ local' = [local EXCEPT ![t] = EmptyCommonMap]
  /\ UNCHANGED <<version, rows, cacheVars, handle, heap, answer>>

-----------------------------------------------------------------------------
(* Mutant of LookupEntry: the lookup does not take the mutex.               *)
MutantLookupEntry(h, k) ==
  /\ exists
  /\ answer' = {[key |-> k, found |-> k \in DOMAIN cache.dataMap]}
  /\ IF k \in DOMAIN cache.dataMap
       THEN /\ handle' = [handle EXCEPT ![h] = cache.dataMap[k]]
            /\ heap' = Assign(heap, handle[h], cache.dataMap[k])
       ELSE UNCHANGED <<handle, heap>>
  /\ UNCHANGED <<version, reloadVars, cacheVars>>

(* lookupEntry(k, h): one critical section of the cache's mutex.  It        *)
(* assigns the handle when the key is found and leaves it alone otherwise.  *)
LookupEntry(h, k) ==
  /\ exists
  /\ mutex = NoThread
  /\ answer' = {[key |-> k, found |-> k \in DOMAIN cache.dataMap]}
  /\ IF k \in DOMAIN cache.dataMap
       THEN /\ handle' = [handle EXCEPT ![h] = cache.dataMap[k]]
            /\ heap' = Assign(heap, handle[h], cache.dataMap[k])
       ELSE UNCHANGED <<handle, heap>>
  /\ UNCHANGED <<version, reloadVars, cacheVars>>

(* A caller copies a handle it holds, h = g, or clears or destroys one.     *)
CopyHandle(g, h) ==
  /\ handle' = [handle EXCEPT ![h] = handle[g]]
  /\ heap' = Assign(heap, handle[h], handle[g])
  /\ UNCHANGED <<version, reloadVars, cacheVars, answer>>

DropHandle(h) ==
  /\ handle' = [handle EXCEPT ![h] = Null]
  /\ heap' = RemoveReference(heap, handle[h])
  /\ UNCHANGED <<version, reloadVars, cacheVars, answer>>

-----------------------------------------------------------------------------
(* The destructor, which the owner runs while nobody is inside the cache    *)
(* (handles to its entries may stay behind): the map goes entry by entry.   *)
Destroy ==
  /\ exists
  /\ \A t \in Threads : pc[t] = "idle"
  /\ exists' = FALSE
  /\ dropping' = cache.dataMap
  /\ cache' = EmptyCommonMap
  /\ UNCHANGED <<version, reloadVars, mutex, handle, heap, answer>>

DestroyCachedEntry ==
  /\ ~exists
  /\ \E k \in DOMAIN dropping :
       /\ heap' = RemoveReference(heap, dropping[k])
       /\ dropping' = Unbind(dropping, k)
  /\ UNCHANGED <<version, reloadVars, exists, mutex, cache, handle, answer>>

(* A new cache, which is empty.                                             *)
Rebuild ==
  /\ ~exists
  /\ DOMAIN dropping = {}
  /\ exists' = TRUE
  /\ UNCHANGED <<version, reloadVars, mutex, cache, dropping, handle, heap,
                 answer>>

-----------------------------------------------------------------------------
ReloadStep(t) ==
  \/ ProcessRow(t) \/ RowThrows(t)
  \/ LockCache(t) \/ DestroyOldEntry(t) \/ CopyNewEntry(t) \/ UnlockCache(t)
  \/ DestroyLocalEntry(t) \/ Return(t)

Keys == UNION {{Table[v][i].key : i \in DOMAIN Table[v]} : v \in DOMAIN Table}

Next ==
  \/ UpdateTable
  \/ \E t \in Threads : Query(t) \/ ReloadStep(t)
  \/ \E h \in Handles, k \in Keys : LookupEntry(h, k)
  \/ \E g, h \in Handles : CopyHandle(g, h)
  \/ \E h \in Handles : DropHandle(h)
  \/ Destroy \/ DestroyCachedEntry \/ Rebuild

Spec == Init /\ [][Next]_vars

-----------------------------------------------------------------------------
(* Every RCPtr in existence, by where it is, that points to o.              *)
Pointers(o) ==
  LET In(name, t, dataMap) ==
        {<<name, t, k>> : k \in {j \in DOMAIN dataMap : dataMap[j] = o}}
  IN In("cache", NoThread, cache.dataMap)
       \cup In("old", NoThread, dropping)
       \cup (UNION {In("local", t, local[t].dataMap) : t \in Threads})
       \cup In("handle", NoThread, handle)

RowOf(p) == IF p = Null THEN NoRow ELSE heap[p].row

RowsOf(dataMap) == [k \in DOMAIN dataMap |-> RowOf(dataMap[k])]

(* What lookups can see: they wait while a reload holds the mutex, and      *)
(* return from then on what its local container holds.                      *)
Visible ==
  RowsOf(IF mutex = NoThread THEN cache.dataMap ELSE local[mutex].dataMap)

TypeOK ==
  /\ version \in 0..MaxVersion
  /\ pc \in [Threads -> {"idle", "processing", "assigning", "published",
                         "failed"}]
  /\ snapshot \in [Threads -> 0..MaxVersion]
  /\ exists \in BOOLEAN
  /\ mutex \in Threads \cup {NoThread}
  /\ \A t \in Threads : mutex = t <=> pc[t] = "assigning"
  /\ handle \in [Handles -> Objects \cup {Null}]
  /\ \A k \in DOMAIN cache.dataMap : cache.dataMap[k] \in Objects
  /\ \A o \in Objects : heap[o].refCount \in Nat

(* The count of each entry is the number of RCPtrs to it, wherever they     *)
(* are, at every step of every reload that is running: so an entry is       *)
(* deleted exactly when its last pointer goes, by whichever thread drops it.*)
CountsAreExact ==
  \A o \in Objects : heap[o].refCount = Cardinality(Pointers(o))

(* No pointer, in a handle, the cache or a container being filled or torn   *)
(* down, dangles; and no entry outlives its last pointer, failed reloads    *)
(* and duplicate keys included.                                             *)
LiveIffReferenced ==
  \A o \in Objects : Live(heap, o) <=> Pointers(o) # {}

(* The key vector of the cache ("the keys currently in the map",            *)
(* CommonMap.h:138) lists its keys, each once, whenever no reload holds the *)
(* mutex.                                                                   *)
KeyVectorIsParallel == mutex = NoThread => Parallel(cache)

(* Reloads that race each other, fail half way or meet duplicate keys       *)
(* implement a cache that changes in one step from one complete query       *)
(* result to another, and whose looked-up rows never change under a caller. *)
Abstract == INSTANCE SnapshotCache WITH
  inFlight <- [t \in Threads |->
                 IF pc[t] = "processing" THEN {snapshot[t]} ELSE {}],
  published <- Visible,
  shown <- [h \in Handles |-> RowOf(handle[h])]

AbstractSpec == Abstract!Spec

(* What test_CacheData.cpp:218-221 says of reload(): once the underlying    *)
(* data has changed, a reload() reflects the new data; so when one returns  *)
(* successfully the cache is no older than what that reload has read.       *)
ReloadReflectsLatestData ==
  [][\A t \in Threads : pc[t] = "published" /\ pc'[t] = "idle" =>
       \E v \in snapshot[t]..version :
         Visible = Abstract!Contents(v)]_vars
=============================================================================
