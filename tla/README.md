# A verification development for MyTemplate

MyTemplate is a small header-only C++14 library (with four `.cpp` files): typed
access to a MySQL database over one shared connection, snapshot caches of query
results, reference-counted handles, an object pool, composite keys, and a
registry that dumps the live containers for diagnosis. These TLA+ modules model
its stateful parts, TLC checks them on small instances, and TLAPS proves the
results that matter most for every instance. Line numbers below and in
`PROJECT.json` refer to the repository's `src/`.

## 1. The system

| Component | State it keeps | Operations | Shared with |
|---|---|---|---|
| `MySqlConnection` (`MySqlConnection.h`, `.cpp`) | the static `_instance`, its `_count`, `_destroyWhenIdle`, `_transactionActive`, the `MYSQL*`, `_queryMutex` | `getCurrentInstance`, `releaseInstance`, `disconnect`, `start/commit/rollbackTransaction`, `processError` | every `DataFactory` of the process |
| `DataFactory` (`DataFactory.h`) | `_connection`; static default parameters | construction, `connect`, moves, destruction, `executeQuery`, `executeModificationSql`, nullable column helpers | the connection |
| `RefCount` (`RefCount.h`) | an atomic count in each object | `RCPtr` construction, copy, assignment, destruction | caches and their callers, the pool |
| `CommonMap` (`CommonMap.h`) | a `std::map` and a parallel vector of its keys; a recursive mutex | insert, remove, clear, copy, assign, `reload`, `dump` | caches, the dump registry |
| `CacheData` (`CacheData.h`) | a `CommonMap` of `RCPtr<CacheEntry>`, `_tableName`, a static `_instance` | `reload`, `lookupEntry`, `setInstance`, `getInstance`, `dump` | reloading and looking-up threads, the registry |
| `CommonKey`, `BasicTypes` (`CommonKey.h`) | 1 to 6 components | setters, assignment, six comparisons | `std::map` |
| `ObjectPool` (`ObjectPool.h`) | a free list of handles, its mutex | `acquire` with growth, `release`, `getInstance` | threads that pool objects |
| `DiagnosticDumpRegistry` (`Dump.h`, `Dump.cpp`) | the singleton, a multimap from names to objects, a mutex | `getInstance`, `registerObject`, `deregisterObject`, `dump` | every map and cache |
| `Data` (`Data.h`) | the processors' results | `runQuery`, Find / Count / Delete / Copy processors | tables and caches |
| `WidgetTable` (`WidgetTable.h`, `.cpp`) | rows in the server | insert, update, remove, find, query | `DataFactory`, caches |
| `DataError`, `Stringable` | none | exception classes, text rendering | |

How they interact. A `DataFactory` joins the connection singleton and
serialises its statements on the connection's `_queryMutex`. A cache's
`reload()` runs a query through `runQuery()`, wraps each row in a counted
object inside a private container and assigns that container over its own under
the map's mutex; callers look entries up and keep handles. Maps and caches
register with the dump registry in their constructors and deregister in their
destructors, and the registry's `dump()` calls back into them with its own
mutex held.

What is hard, and what makes each part correct:

* *The shared connection's life.* Constructions, second `connect()`s, failed
  connects, moves, `disconnect()` and the last release, in any order: the count
  must be exact, nobody may hold a deleted connection, sessions must not leak.
* *What goes over it.* Statements of several threads share one `MYSQL*`, whose
  error number and affected rows are read after the fact; transaction calls do
  not take the mutex at all; the connection may break at any point. Each caller
  must be told the result of its own statement, and work done in a transaction
  must become durable only by a commit.
* *Tables.* A query works on a stored result while other clients change the
  table, and a delete query sends one statement per row. Empty texts and SQL
  NULL, changed rows and matched rows, are different things on the two sides. A
  query that ends normally must have dealt with all its caller asked for.
* *Caches.* Reloads race each other and lookups; rows may fail half way or
  repeat a key; the cache may go before its handles. Lookups must see complete
  query results only; an entry must be deleted exactly when its last handle, in
  whichever thread, has gone.
* *Pooling.* `release()` resets the object before it takes the mutex, and
  handles outlive release and pool. No object may have two owners, and however
  long objects are lost, kept and grown anew, their number must stay bounded.
* *The registry.* A `dump()` runs while other threads build and destroy the
  dumped objects, with up to three mutexes held, while callers may hold a map's
  mutex and call back into the library; the singleton is double-checked on a plain
  pointer.
* *Keys.* Six hand-written nests of comparisons must each be a strict order
  that agrees with `==`, or `std::map` loses entries and the key vector drifts.

`PROJECT.json` lists each of these hazards at the line where it bites.

## 2. The modules

    MySqlConnection ── DataFactory ─┬─ MCDataFactory
                                    └─ DataFactoryProofs
                       (DataFactory refines ConnectionLease)
    WidgetSql ── Session ── WidgetTable ─┬─ MCWidgetTable
                                         └─ WidgetTableProofs
    RefCount ──────────────────┬── CacheData ─┬─ MCCacheData
    Subsequences ── CommonMap ─┤              └─ CacheDataProofs
                               │  (CacheData refines SnapshotCache)
                               ├── MapClients ── MapClientsProofs
                               └── CommonMapProofs, extended by both
    RefCount ───── ObjectPool ─┬─ MCObjectPool
                               └─ ObjectPoolProofs
    CommonKey ──── KeyOrder ── KeyOrderProofs
    DumpRegistry ─┬─ MCDumpRegistry
                  └─ DumpRegistryProofs

**MySqlConnection / DataFactory.** Each operator of `MySqlConnection` is the
body of a member function, which is one critical section of `_instanceMutex`.
`DataFactory` says who calls them. `connection[d]` is an object's `_connection`;
`handle[c]` tells an unused, an open and a deleted connection object apart, so
that a dangling pointer is visible; `lostRefs` is history: the references whose
pointer a second `connect()` overwrote (DataFactory.h:71). Moves, failed
constructors and failed connects are actions of their own.

**ConnectionLease.** The abstract specification of the same thing, without
pointers and counters: a session, its users, and whether its end has been asked
for. It opens with the first user and closes in the very step in which, its end
being wanted, nobody is left. `DataFactory` implements it: `session` is
`OpenSession`, `users` the objects that point to the connection, `closing` and
`pinned` the flag and a lost reference of the open connection. `pinned` is what
the code does and the abstract specification would rather not have: a user who
joins twice keeps the session open for good. A session the server has dropped is
no different here; what the lease adds is that a request to close it is never
lost, whatever is constructed or moved between the request and the last release.

**WidgetSql.** The data of the widget table: how entries become statements and
rows become entries (an empty text is written as NULL, which no comparison
selects and the NOT NULL columns refuse), and, as external, what the server
makes of a statement: its refusals, the rows after it, the rows it counts.
`name` and `category` are treated alike by the code, so one column stands for
both; `quantity` needs no conversion. The key of a row some other table may
refer to is in `Referenced`, and whether it does is open at each statement.

**Session.** What clients do over one connection. A statement call is
`SendStatement`, `ReceiveAnswer`, `StoreResult` (queries) and `EndStatement`; a
transaction call is two or three commands with the assignment to
`_transactionActive` between them. The server and libmysqlclient are external:
a command is executed when sent, `reply` is what the handle holds of the last
answer, and `LoseConnection` may happen at any time and rolls back what is not
durable. `answer`, `seen` and `mixed` are history. Two commands on the wire at
once are undefined in libmysqlclient: `Arriving` then admits the right answer,
the other command's, or a protocol error. `CallersSerialize` says whether
callers keep transaction calls apart from all other calls, as every test of the
repository does; the code does not enforce it.

**WidgetTable.** The calls of the tables: each modification is one statement.
A query is `Query` (the statement), `FetchResult` and then `runQuery()`'s loop
over the stored rows, in which the mutex is free again: `ProcessRow` for a find
or a copy, `RemoveRow` and `RowRemoved` for a delete, which sends a statement of
its own for every row and ends with the first exception. `query[c]` is where a
client is in that; `expected` and `done` are history: what the caller wanted
when the server executed the SELECT, and what has been done about it.

**CommonMap / MapClients.** The container as a record of the map and the key
vector, and clients that apply its operations to several maps in any order.
`Subsequences` has the two operators behind the key vector, numbers in ascending
order and the part of a sequence at some of its positions. They say what
`SetToSortSeq` and `SelectSeq` of the libraries say, by counting ranks; those are
recursive underneath, and nothing could be proved about them.

**CacheData.** `reload()` in the steps other threads can see: `Query`,
`ProcessRow` (or `RowThrows`), `LockCache`, then one step per old entry
destroyed and per new one copied in any order, `UnlockCache`, the destruction of
the local container, `Return`. `Destroy` and `DestroyCachedEntry` are the cache's
destructor, which leaves callers their handles. `RefCount` gives the effect of each `RCPtr`
operation on the heap. Lookups take the mutex; copying and dropping a handle
does not.

**SnapshotCache.** The abstract specification: a cache that switches in one step
from the rows one query found to those of another, where under each key the
table's first row that meets the criteria counts, and handles whose row never
changes under their holder. `CacheData`
implements it under the mapping `Abstract`: while a reload is assigning, what
lookups will see is already its local container. Destroying the cache empties it
and changes no handle.

**ObjectPool.** The free list, each thread's handle and its role: owner,
releasing, or holder of a copy. `BeginRelease` is the reset outside the mutex,
`EndRelease` the push under it; `Acquire` contains `growLocked()`. Three
obligations stay with the callers, as in the code: one `release()` for each
`acquire()`, no use of the object once its release has begun, no call of the pool
while it is destroyed. A step of 0 would make `acquire()` take the front of an
empty list; `StepAssumption` excludes it, the constructor does not.

**DumpRegistry.** `stage[o]` is how much of an object exists, from the base
constructor to the base destructor, and so which `dump()` a virtual call
reaches. `FindRegistry`, `CreateRegistry` and `ConstructRegistry` are the
double-checked `getInstance()`; that another thread sees the pointer before the
object is built is one of `CreateRegistry`'s outcomes. `HoldMutex` stands for
`getMutex()` and for the critical section of `clearDataMap()`. Whoever holds it
may do everything else meanwhile: dump that map or any other object or the whole
registry, construct, copy and destroy objects, ask for the caches' instance; the
maps' mutexes are recursive (`MapMutexFree`), `_instanceMutex` is not. Two limits
are left: a thread holds one map's mutex at a time, and nobody destroys an object
whose mutex somebody holds or which somebody dumps directly, which the code leaves
to its callers. `Rank` is where a registration stands in the multimap, whose order
both the walk of a `dump()` and `deregisterObject()` follow: `NamedBefore` are the
caches whose table name sorts before `"CommonMap<>"`, which decides which of its
two registrations a cache loses first.

**CommonKey / KeyOrder.** The comparisons of the six key classes as nested
conditions, and two keys that setters and assignment change component by
component.

## 3. The runs

| Run | Instance | What it shows |
|---|---|---|
| `shared_connection` | 3 factories, 3 connection objects, 2 parameter sets, counts to 4 | the count is exact, nobody holds a deleted connection, one session at a time, closed only on request, under nobody, and not forgotten unless a reference was overwritten; the whole implements `ConnectionLease` |
| `session` | 2 clients that modify, one of which also queries, 2 rows, serialised callers, fairness | every statement ends as the server answered it; exchanges do not mix; the server's mode follows `_transactionActive`; work becomes durable only by a commit; a query that ends normally is complete; the query mutex is always released |
| `map_clients` | 2 maps, 3 keys, 2 values | the key vector lists the map's keys, each once |
| `snapshot_cache` | 2 reloading threads, 2 handles, 3 versions of the table, destruction and rebuilding | exact counts, nothing dangles or leaks, and the abstract specification |
| `object_pool` | 3 threads, 6 objects, 1 at first, growth by 3 | exact counts beyond the pool's own end, one owner, what is available has been reset, objects bounded by those in use and one growth |
| `dump_registry` | 3 threads, 2 maps, 2 caches, one named on either side of the base name | one registry, found built; registrations match lifetimes; dumps find their maps; every circle of waiting threads goes through a map's mutex that a caller took and called back in with |
| `key_order` | all pairs of keys over 2 values, 6 classes | a strict lexicographic order that agrees with `==` and `>` |

Five runs end in a violation, each of a sentence the repository states
(`PROJECT.json`, "findings"):

* `forgotten_disconnect`: after a second `connect()` on one object the marked
  connection is never torn down (DataFactory.h:71).
* `stale_reload`: a reload that queried first publishes last, over newer data
  (CacheData.h:138).
* `session_silent_failure`: a transaction call between a statement's failure and
  `processError()` wipes the error number, and the failed statement returns as if
  it had succeeded (MySqlConnection.cpp:135).
* `update_unchanged`: an update of a row to what it already holds changes no row
  and throws `EntryNotFound` (DataFactory.h:131).
* `dump_half_built`: a dump reaches a cache before `_tableName` is built, or
  after it is destroyed (CacheData.h:120).

Divergences that reading the code suffices for, and no run states:
`getCurrentInstance()` joins an open connection whatever parameters it is given
(MySqlConnection.cpp:62, against DataFactory.h:33-34); the transaction calls
ignore the results of the MySQL calls, so a commit over a broken connection
returns normally (MySqlConnection.cpp:109, against DataError.h:14-15); storing
through the non-const `getDataMap()` leaves the key vector behind (CommonMap.h:103,
against 138). Worth knowing, though no text says otherwise: a delete query removes
rows by key, also those that have left its category meanwhile (Data.h:144); a
query for the empty category finds nothing and an entry with an empty text is
refused as `ServiceUnavailable` (DataFactory.h:178).

And deadlocks that the code leaves to its callers, reachable in `dump_registry`
(which therefore does not check deadlock: all its threads may be stuck). The
library takes the registry's mutex, then a cache's `_instanceMutex`, then the map's.
Whoever holds a map's mutex from `getMutex()` (CommonMap.h:157) and waits for one of
the others takes them the other way round: `cache.dump()` under `cache.getMutex()`
against another thread's `cache.dump()` (CacheData.h:152), the registry's `dump()`,
or the construction or destruction of any map or cache (a `reload()` does both),
against a registry dump that has got to the held map (Dump.cpp:38), two maps dumped
crosswise, each under the other's mutex, and `clearDataMap()` of a map of maps
(CommonMap.h:117). No text of the repository promises that these calls may be
nested, so no run calls it wrong. `StuckOnlyByCallers` says that this is all there is:
every circle contains such a caller and a dump of the map it holds.

**Bounds.** `MaxCount` caps a 32-bit counter; three factories and one overwritten
reference reach 4. Three connection objects allow one deleted, one leaked and one
current; the run stops when they are used up, which is why that configuration
does not check deadlock (as does `forgotten_disconnect`). `MaxVersion` bounds how
often the table changes: the three
versions remove, replace, duplicate and empty rows, so a reload meets each kind
of difference, and two reloads may overlap in every order. Nine heap cells hold
all entries two reloads and two handles can keep. Two clients suffice in
`session` because each of its properties speaks of one client and whoever
interferes with it; `Modifiers` and `Queriers` say who makes which calls. Two rows
of one category, one of which may move to another, be removed or be referred to,
let a delete query succeed, meet a row already gone and be refused half way; one
entry with an empty text is refused and one query asks for the empty category. The
theorems of section 4 hold without these bounds. Three threads in `DumpRegistry`
make a circle through all three kinds of mutex, two maps and two caches let each of
them hold one and dump another's. The pool's threads reach five objects, the bound
for three threads and a growth of three, after the pool has run dry, grown, lost
objects to owners who never release and been constructed anew; the sixth is there
for a pool that exceeds it.

**Symmetry and view.** Symmetric sets are only compared for equality. In
`dump_registry` a cache's place in `NamedBefore` matters, so caches are not
permuted. `UpToAddresses` identifies states of the cache that differ in which
cell an object lies in; no action depends on that. Neither is used with a
liveness property.

**Fairness.** Only `WidgetTable` has a liveness property. `FairSpec` has weak
fairness of `Step(c)` per client: a thread inside a call or a query keeps running,
and the server answers or the connection breaks, which the blocking MySQL calls
report. No client has to begin a call, and nothing is assumed about who gets the
mutex: the property needs only that its holder goes on. Elsewhere nothing must
eventually happen beyond a thread's own next statement; what can keep threads
waiting for ever is a circle, and which there can be is an invariant
(`StuckOnlyByCallers`).

**Mutants.** Every property of every passing run is violated by at least one
mutated definition, which stands before the original in its module.

## 4. The proofs

`DataFactoryProofs` proves, for any finite set of factories and any connections,
parameters and count limit, each invariant `shared_connection` checks and its
action property. The inductive invariant is

    IInv == TypeOK /\ CountMatchesHolders /\ NoDanglingConnection
                   /\ OneOpenConnection /\ MarkedIsCounted

`CountMatchesHolders` alone is not inductive: a release must know that the
connection it decrements is open and counts its caller, which
`NoDanglingConnection` gives; deletion keeps the others' pointers good only
because a count of zero means no holder. `MarkedIsCounted` (a marked open
connection has a positive count) is what the code maintains directly, and
`TornDownWhenReleased` follows from it and the accounting. The work is in
`HeldByUpdate`: redirecting one pointer changes the cardinality of each holder
set by what it leaves and what it joins. `AcquireStep`, `ReleaseStep` and
`HeldByTransfer` state it for the three kinds of operation, and `StepPreserves`
has one step per action. Assumed are only `ConnectionAssumption` and
`DataFactoriesAssumption`.

Its second part proves that `DataFactory` implements `ConnectionLease`,
step by step, under `LInv`: `IInv`, and that unused connection objects carry no
count or flag (`UnusedAreClean`) and open ones the parameters they were opened
with (`OpenHasParams`). The lease closes when the set of users becomes empty, the
code when a counter does: `LastReference` shows, from `CountMatchesHolders`, that
without a lost reference these are the same step. `AcquireMaps` and `ReleaseMaps`
map the two operations, `StepMaps` has one step per action.

`WidgetTableProofs` proves, for any clients, keys, texts, calls and foreign keys,
what the `session` run checks except liveness; type correctness, and that the
mutex keeps statement calls apart (`StatementsExclude`), whatever the callers do,
the rest under `CallersSerialize`. `WireExclusive` is not among the theorems: for
statement calls it is `StatementsExclude`, and for transaction calls it is what
`CallersSerialize` assumes (`session_silent_failure` shows what happens without).
The inductive invariant `SInv` adds to the type
invariant:

* `TablesAreFinite`, without which affected rows could not be counted;
* `Places`: `_queryMutex` is held exactly by a client inside a statement call, a
  client inside a transaction call is alone, hence no exchange mixes;
* `ModeKnown`: the mode and the flag inside a transaction call, where
  `AutocommitFollowsFlag` says nothing;
* `AnswersKept`: between the arrival of an answer and the end of the call the
  handle still holds that answer. This is where a transaction call would do its
  damage, and where the proof uses that nobody makes one.

`QueriesAreComplete` needs more: the rows have no NULL and each key once
(`TablesWellFormed`, kept by the server's refusals), and each phase of a query
relates what is done, what is still to do and what was wanted (`Progress`). A
SELECT finds what the caller wants only because no stored text is NULL
(`FoundIsWanted`), and a delete's own statement counts for its row only because
keys are unique (`OneRemoved`). Assumed are `WidgetAssumption`,
`SessionAssumption` and `WidgetTableAssumption`.

`KeyOrderProofs` proves the four properties of `key_order` for components from
any set of integers: nested comparisons are reduced to the lexicographic order by
case analysis, class by class.

`CommonMapProofs` has no theorem of its own but the lemmas the next two modules
need: what `AddDataEntry`, `RemoveDataEntry` and `Reloaded` make of a container
whose key vector is parallel to its map. No induction over the data is needed,
because ranks are counted: the numbers of a finite set have different ranks
(`RanksIncrease`), there are as many ranks as numbers, so each is taken
(`EveryRankIsTaken`), and `Ascending` lists every number once (`AscendingLists`).
A vector of as many keys as it lists different ones lists each once
(`ListsEachOnce`), which is why one `erase(remove(...))` shortens it by exactly
one. `MapClientsProofs` proves both properties of `map_clients` from these, for any
number of maps and any integer keys; its invariant adds that maps are finite. The
keys are integers for the sake of their order alone (`KeysAssumption`).

`CacheDataProofs` proves all that `snapshot_cache` checks, the refinement of
`SnapshotCache` included, for any table, criteria, threads and handles. Its
inductive invariant is

    IInv == Typed /\ Accounted /\ Lifetime /\ Reloading /\ KeyVectorIsParallel

* `Accounted`: the count of each object is the number of pointers to it, of which
  there are finitely many, and it exists while there are any. Each step adds a
  pointer, drops one or moves some; the lemmas on `Fits` say what that does to the
  count, and those on `Pointers` which of the four kinds of place a step changes.
* `Lifetime`: old entries wait to be destroyed only under the mutex or in the
  destructor, and a cache that has gone holds nothing.
* `Reloading`: a thread that processes rows has still to process the last ones of
  the result its query returned, and its local container holds under each key the
  first of those processed; during the assignment the cache's map is part of the
  local one.

The counts are what makes the refinement work: a row does not change under a
handle because an object that is pointed to before and after a step is not
constructed anew in it (`HeldRowsStay`, `CachedRowsStay`, `LocalRowsStay`, all from
`StepIsBalanced`). `LockPublishes` is the step in which the abstract cache
switches: with no row left, `Reloading` says the local container holds the first
rows of the whole result, and `FirstRowsOfSubsequence` that these are the first
rows of the table that meet the criteria. `StepSimulates` has one step per action.
Assumed are `CacheAssumption`, `RefCountAssumption` and `TableAssumption` (a query
returns a sequence of rows, and their keys are ordered as integers are).

`ObjectPoolProofs` proves, for any finite numbers of threads and objects and any
sizes, each property `object_pool` checks. `CountsAreExact` and `OneOwner` support
each other: a handle's drop may delete an object only if the free list has no
place for it, and that an object has one place there at most is part of
`OneOwner`. The invariant adds `ReleasingIsReset`: what `release()` has reset stays
so until it takes the mutex, because nobody else owns the object.

`PoolStaysBounded` needs no more than that invariant. By `GrowthStep` objects come
into being only in the constructor and in an `acquire()` that finds the free list
empty; then, by the counts, every object in existence is in the hands of a thread
(`AllInHands`), in an `acquire()` of one of the others, and a thread's handle refers
to one object, so that the step leaves at most those and one batch (`GrownBy`).
Every other step only removes objects or leaves them. Assumed are the
module's own assumptions: finite sets, a positive growth step (see section 2), and
names for contents that differ from the one for no object.

`DumpRegistryProofs` proves all that `dump_registry` checks, for any threads, maps
and caches and any order of their names. `RegisteredWhileItExists` is far from
inductive: which registration `deregisterObject()` removes depends on the names,
so `Registrations` says under which names exactly an object is registered at each
stage, and `ObjectStages` ties the stages to where the threads are. `DumpFindsMap`
needs `Walks`: what a dump has still to visit stays registered, since the
registry's mutex keeps deregistrations out. `StuckOnlyByCallers` follows
from `MutexHolders`. Suppose each of a group waits for one of it, and nobody in it
dumps a map that another of the group holds. Then nobody in it is at a map at all,
so nobody in it holds `_instanceMutex`, which is held only there; hence all of them
wait for the registry's mutex, and its holder, one of them, would wait for itself.
The theorem says so of groups of any size, TLC of three threads.

Only model-checked: `QueryMutexReleased`, the one liveness property, `WireExclusive`
(see above), and the five violated sentences, which are counterexamples. Outside the prover's reach
altogether: liveness under fairness and `ENABLED`, induction over data with the
library's induction theorems, and anything that needs a RECURSIVE operator; no
module uses one.

## 5. What is not modelled

* The nullable helpers for integers (no column of the table uses them) and
  `dump()` of a table, which is a query whose processor prints.
* `RCPtr::operator=` with an operand inside the object it drops: no object of this
  code holds a handle to another. `markUnshareable()` sets a flag nothing reads.
* The pointer behind `setInstance()`/`getInstance()` of the caches: its lifetime is
  the callers'; the two appear in `DumpRegistry` as holders of their mutex.
* Unlocked reads (`size()`, `getKeyVector()`, `getNumberOfRegisteredObjects()`):
  data races of the caller's making; the library does not call them concurrently.
* The order in which statements reach a server shared with other processes: their
  effect on the table is that of the clients' own statements, on foreign keys
  the choice of `protected`.
* Text rendering (`Stringable`, `getString()`) has no state.

## 6. Plan

Done, in order of importance: the shared connection with its lease; the cache with
its abstract specification; keys; sessions and tables; the registry; the pool; and
the proofs of the safety properties the passing runs check. Left:

1. The caches' instance pointer over construction and destruction.
2. An abstract specification of the pool (who owns what, and nothing of counts and
   lists), implemented by `ObjectPool`.
