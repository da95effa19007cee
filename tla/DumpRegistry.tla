---------------------------- MODULE DumpRegistry ----------------------------
(***************************************************************************)
(* DiagnosticDumpRegistry (Dump.h/.cpp) and the objects that register with *)
(* it while they are constructed and destroyed: plain CommonMaps and the   *)
(* caches derived from them (CacheData.h).  Threads build, copy, destroy   *)
(* and dump them, and hold their mutexes.                                  *)
(*                                                                         *)
(* Three kinds of mutex meet here: the registry's, held through a whole    *)
(* dump(); the caches' static _instanceMutex, which CacheData's dump()     *)
(* holds while it dumps the map; and each map's own.                       *)
(***************************************************************************)
EXTENDS Naturals, FiniteSets

CONSTANTS
  Threads,         \* the threads of the process
  NoThread,        \* a mutex nobody holds
  Maps,            \* storage for CommonMap objects (reused)
  Caches,          \* storage for cache objects (reused)
  NoObject,        \* the null pointer
  MapName,         \* "CommonMap<>", which every map registers under
  CacheName,       \* the table name caches register under as well
  NamedBefore      \* the caches whose table name sorts before MapName

ASSUME RegistryAssumption ==
  /\ NoThread \notin Threads
  /\ Maps \cap Caches = {}
  /\ NoObject \notin Maps \cup Caches
  /\ MapName # CacheName
  /\ NamedBefore \subseteq Caches

Objects == Maps \cup Caches
Names == {MapName, CacheName}

(* Where a registration <<name, object>> comes in the multimap: before those *)
(* under MapName, among them or after them.                                 *)
Rank(e) == IF e[1] = MapName THEN 1 ELSE IF e[2] \in NamedBefore THEN 0 ELSE 2

VARIABLES
  registry,       \* the singleton: none, published (unbuilt) or ready
  created,        \* history: how many registries were ever allocated
  entries,        \* _dMap: the <<name, object>> pairs registered
  regMutex,       \* who holds DiagnosticDumpRegistry::_mutex
  instanceMutex,  \* who holds the caches' _instanceMutex
  held,           \* the map whose mutex a thread holds on purpose
  stage,          \* how much of each object exists
  copies,         \* the objects that are copies, which never register
  pc,             \* where each thread is
  goal,           \* what it wants of the registry
  obj,            \* the object it works on
  todo            \* the registrations its dump() has yet to visit

registryVars == <<registry, created, entries>>
mutexVars == <<regMutex, instanceMutex, held>>
objectVars == <<stage, copies>>
threadVars == <<pc, goal, obj, todo>>
vars == <<registryVars, mutexVars, objectVars, threadVars>>

Init ==
  /\ registry = "none"
  /\ created = 0
  /\ entries = {}
  /\ regMutex = NoThread
  /\ instanceMutex = NoThread
  /\ held = [t \in Threads |-> NoObject]
  /\ stage = [o \in Objects |-> "none"]
  /\ copies = {}
  /\ pc = [t \in Threads |-> "idle"]
  /\ goal = [t \in Threads |-> "none"]
  /\ obj = [t \in Threads |-> NoObject]
  /\ todo = [t \in Threads |-> {}]

(* A thread may begin something new, whether or not it holds a map's mutex: *)
(* whoever has it from getMutex() may call anything meanwhile.              *)
Free(t) == pc[t] = "idle"

(* Somebody uses o directly; its owner does not destroy it meanwhile.       *)
InUse(o) ==
  \E t \in Threads :
    \/ held[t] = o
    \/ obj[t] = o /\ goal[t] = "direct"

Go(t, where) == pc' = [pc EXCEPT ![t] = where]

Finish(t) ==
  /\ Go(t, "idle")
  /\ goal' = [goal EXCEPT ![t] = "none"]
  /\ obj' = [obj EXCEPT ![t] = NoObject]

-----------------------------------------------------------------------------
(* DiagnosticDumpRegistry::getInstance(): look at the pointer without the   *)
(* mutex.                                                                   *)
FindRegistry(t) ==
  /\ pc[t] = "find"
  /\ Go(t, IF registry = "none" THEN "create" ELSE "ready")
  /\ UNCHANGED <<registryVars, mutexVars, objectVars, goal, obj, todo>>

(* Mutant of CreateRegistry: no second look once the mutex is held.         *)
MutantCreateRegistry(t) ==
  /\ pc[t] = "create"
  /\ regMutex = NoThread
  /\ registry' = "ready"
  /\ created' = created + 1
  /\ Go(t, "ready")
  /\ UNCHANGED <<entries, mutexVars, objectVars, goal, obj, todo>>

(* Mutant of CreateRegistry: the mutex is released before the object is     *)
(* built.                                                                   *)
MutantCreateUnlocked(t) ==
  /\ pc[t] = "create"
  /\ regMutex = NoThread
  /\ registry' = IF registry = "none" THEN "published" ELSE registry
  /\ created' = IF registry = "none" THEN created + 1 ELSE created
  /\ Go(t, IF registry = "none" THEN "constructing" ELSE "ready")
  /\ UNCHANGED <<entries, mutexVars, objectVars, goal, obj, todo>>

(* With the mutex, look again and create the registry if need be.  Nothing  *)
(* orders the store of the pointer after those of the constructor, so other *)
(* threads may see it first.                                                *)
CreateRegistry(t) ==
  /\ pc[t] = "create"
  /\ regMutex = NoThread
  /\ \/ /\ registry # "none"
        /\ Go(t, "ready")
        /\ UNCHANGED <<registry, created, regMutex>>
     \/ /\ registry = "none"
        /\ registry' = "ready"
        /\ created' = created + 1
        /\ Go(t, "ready")
        /\ UNCHANGED regMutex
     \/ /\ registry = "none"
        /\ registry' = "published"
        /\ created' = created + 1
        /\ regMutex' = t
        /\ Go(t, "constructing")
  /\ UNCHANGED <<entries, instanceMutex, held, objectVars, goal, obj, todo>>

ConstructRegistry(t) ==
  /\ pc[t] = "constructing"
  /\ registry' = "ready"
  /\ regMutex' = NoThread
  /\ Go(t, "ready")
  /\ UNCHANGED <<created, entries, instanceMutex, held, objectVars, goal, obj,
                 todo>>

-----------------------------------------------------------------------------
(* CommonMap() has built its members and goes to register, and so has, once *)
(* its base is there, the constructor of a cache.                           *)
Construct(t, o) ==
  /\ Free(t)
  /\ stage[o] = "none"
  /\ stage' = [stage EXCEPT ![o] = "building"]
  /\ Go(t, "find")
  /\ goal' = [goal EXCEPT ![t] = "register"]
  /\ obj' = [obj EXCEPT ![t] = o]
  /\ UNCHANGED <<registryVars, mutexVars, copies, todo>>

(* registerObject(): one critical section.                                  *)
Register(t) ==
  LET o == obj[t]
      isBase == stage[o] = "building"
  IN /\ pc[t] = "ready"
     /\ goal[t] = "register"
     /\ regMutex = NoThread
     /\ entries' = entries \cup {<<IF isBase THEN MapName ELSE CacheName, o>>}
     /\ stage' = [stage EXCEPT ![o] =
                    IF isBase /\ o \in Caches THEN "base" ELSE "live"]
     /\ IF isBase /\ o \in Caches
          THEN Go(t, "deriving") /\ UNCHANGED <<goal, obj>>
          ELSE Finish(t)
     /\ UNCHANGED <<registry, created, mutexVars, copies, todo>>

(* The cache's constructor makes the object a cache: from here dump() is    *)
(* the cache's own, and _tableName is not built yet.                        *)
EnterDerived(t) ==
  /\ pc[t] = "deriving"
  /\ stage' = [stage EXCEPT ![obj[t]] = "unnamed"]
  /\ Go(t, "naming")
  /\ UNCHANGED <<registryVars, mutexVars, copies, goal, obj, todo>>

BuildName(t) ==
  /\ pc[t] = "naming"
  /\ stage' = [stage EXCEPT ![obj[t]] = "named"]
  /\ Go(t, "find")
  /\ UNCHANGED <<registryVars, mutexVars, copies, goal, obj, todo>>

(* CommonMap's copy constructor does not register.                          *)
CopyConstruct(t, o, p) ==
  /\ Free(t)
  /\ stage[o] = "none"
  /\ stage[p] = "live"
  /\ stage' = [stage EXCEPT ![o] = "live"]
  /\ copies' = copies \cup {o}
  /\ UNCHANGED <<registryVars, mutexVars, threadVars>>

-----------------------------------------------------------------------------
(* The destructor, of a map or of a cache, goes to deregister.              *)
Destroy(t, o) ==
  /\ Free(t)
  /\ stage[o] = "live"
  /\ ~InUse(o)
  /\ stage' = [stage EXCEPT ![o] = "closing"]
  /\ Go(t, "find")
  /\ goal' = [goal EXCEPT ![t] = "deregister"]
  /\ obj' = [obj EXCEPT ![t] = o]
  /\ UNCHANGED <<registryVars, mutexVars, copies, todo>>

(* The registrations of o, and the one that comes first in the multimap.    *)
RegistrationsOf(o) == {e \in entries : e[2] = o}

FirstRegistration(o) ==
  {e \in RegistrationsOf(o) : \A f \in RegistrationsOf(o) : Rank(e) <= Rank(f)}

(* After the deregistration a map is gone; of a cache the derived part is.  *)
Deregistered(t, o) ==
  /\ IF o \in Caches /\ stage[o] = "closing"
       THEN /\ stage' = [stage EXCEPT ![o] = "stripped"]
            /\ Go(t, "stripping")
            /\ UNCHANGED <<goal, obj>>
       ELSE /\ stage' = [stage EXCEPT ![o] = "none"]
            /\ Finish(t)
  /\ copies' = copies \ {o}

(* Mutant of Deregister: it does not wait for the registry's mutex.         *)
MutantDeregister(t) ==
  LET o == obj[t] IN
  /\ pc[t] = "ready"
  /\ goal[t] = "deregister"
  /\ entries' = entries \ FirstRegistration(o)
  /\ Deregistered(t, o)
  /\ UNCHANGED <<registry, created, mutexVars, todo>>

(* Mutant of Deregister: it removes every registration of the object.       *)
MutantDeregisterAll(t) ==
  LET o == obj[t] IN
  /\ pc[t] = "ready"
  /\ goal[t] = "deregister"
  /\ regMutex = NoThread
  /\ entries' = entries \ RegistrationsOf(o)
  /\ Deregistered(t, o)
  /\ UNCHANGED <<registry, created, mutexVars, todo>>

(* deregisterObject(): remove the first registration of the object, if any. *)
Deregister(t) ==
  LET o == obj[t] IN
  /\ pc[t] = "ready"
  /\ goal[t] = "deregister"
  /\ regMutex = NoThread
  /\ entries' = entries \ FirstRegistration(o)
  /\ Deregistered(t, o)
  /\ UNCHANGED <<registry, created, mutexVars, todo>>

(* _tableName is destroyed; then the object is a map again, whose           *)
(* destructor deregisters in its turn.                                      *)
BecomeBase(t) ==
  /\ pc[t] = "stripping"
  /\ stage' = [stage EXCEPT ![obj[t]] = "closingBase"]
  /\ Go(t, "find")
  /\ UNCHANGED <<registryVars, mutexVars, copies, goal, obj, todo>>

-----------------------------------------------------------------------------
RequestDump(t) ==
  /\ Free(t)
  /\ Go(t, "find")
  /\ goal' = [goal EXCEPT ![t] = "dump"]
  /\ UNCHANGED <<registryVars, mutexVars, objectVars, obj, todo>>

(* dump() or dump(name): take the registry's mutex for the whole walk, of   *)
(* all the registrations or of those under one name.                        *)
StartDump(t) ==
  /\ pc[t] = "ready"
  /\ goal[t] = "dump"
  /\ regMutex = NoThread
  /\ regMutex' = t
  /\ \E ranks \in {0..2, {0}, {1}, {2}} :
       todo' = [todo EXCEPT ![t] = {e \in entries : Rank(e) \in ranks}]
  /\ Go(t, "dumping")
  /\ UNCHANGED <<registryVars, instanceMutex, held, objectVars, goal, obj>>

(* What a virtual call of o's dump() reaches at this moment.                *)
DumpOf(o) ==
  IF o \in Caches
       /\ stage[o] \in {"unnamed", "named", "live", "closing", "stripped"}
    THEN "dumpCache" ELSE "dumpMap"

(* The walk goes on in the order of the names.                              *)
DumpNext(t) ==
  /\ pc[t] = "dumping"
  /\ \E e \in todo[t] :
       /\ \A f \in todo[t] : Rank(e) <= Rank(f)
       /\ todo' = [todo EXCEPT ![t] = @ \ {e}]
       /\ obj' = [obj EXCEPT ![t] = e[2]]
       /\ Go(t, DumpOf(e[2]))
  /\ UNCHANGED <<registryVars, mutexVars, objectVars, goal>>

(* Mutant of EndDump: the registry's mutex is not released.                 *)
MutantEndDump(t) ==
  /\ pc[t] = "dumping"
  /\ todo[t] = {}
  /\ Finish(t)
  /\ UNCHANGED <<registryVars, mutexVars, objectVars, todo>>

EndDump(t) ==
  /\ pc[t] = "dumping"
  /\ todo[t] = {}
  /\ regMutex' = NoThread
  /\ Finish(t)
  /\ UNCHANGED <<registryVars, instanceMutex, held, objectVars, todo>>

(* A caller dumps one object it has.                                        *)
DirectDump(t, o) ==
  /\ Free(t)
  /\ stage[o] = "live"
  /\ goal' = [goal EXCEPT ![t] = "direct"]
  /\ obj' = [obj EXCEPT ![t] = o]
  /\ Go(t, DumpOf(o))
  /\ UNCHANGED <<registryVars, mutexVars, objectVars, todo>>

(* CacheData's dump() takes _instanceMutex first.                           *)
LockInstance(t) ==
  /\ pc[t] = "dumpCache"
  /\ instanceMutex = NoThread
  /\ instanceMutex' = t
  /\ Go(t, "dumpMap")
  /\ UNCHANGED <<registryVars, regMutex, held, objectVars, goal, obj, todo>>

MapMutexFree(t, o) == \A u \in Threads \ {t} : held[u] # o

AfterObject(t) ==
  IF goal[t] = "dump"
    THEN /\ Go(t, "dumping")
         /\ obj' = [obj EXCEPT ![t] = NoObject]
         /\ UNCHANGED goal
    ELSE Finish(t)

(* Mutant of DumpMap: _instanceMutex is not released.                       *)
MutantDumpMap(t) ==
  /\ pc[t] = "dumpMap"
  /\ MapMutexFree(t, obj[t])
  /\ AfterObject(t)
  /\ UNCHANGED <<registryVars, mutexVars, objectVars, todo>>

(* The map's dump(), within its (recursive) mutex; then a cache's dump()    *)
(* releases _instanceMutex.                                                 *)
DumpMap(t) ==
  /\ pc[t] = "dumpMap"
  /\ MapMutexFree(t, obj[t])
  /\ instanceMutex' = IF instanceMutex = t THEN NoThread ELSE instanceMutex
  /\ AfterObject(t)
  /\ UNCHANGED <<registryVars, regMutex, held, objectVars, todo>>

-----------------------------------------------------------------------------
(* A thread holds a map's mutex for a while: through getMutex(), or inside  *)
(* clearDataMap(), which deletes the map's data, maps perhaps, under it.    *)
(* It holds one map's mutex at a time.                                      *)
HoldMutex(t, o) ==
  /\ Free(t)
  /\ held[t] = NoObject
  /\ stage[o] = "live"
  /\ MapMutexFree(t, o)
  /\ held' = [held EXCEPT ![t] = o]
  /\ UNCHANGED <<registryVars, regMutex, instanceMutex, objectVars, threadVars>>

ReleaseMutex(t) ==
  /\ Free(t)
  /\ held[t] # NoObject
  /\ held' = [held EXCEPT ![t] = NoObject]
  /\ UNCHANGED <<registryVars, regMutex, instanceMutex, objectVars, threadVars>>

(* The caches' setInstance() or getInstance(): one critical section of      *)
(* _instanceMutex.                                                          *)
CallInstance(t) ==
  /\ Free(t)
  /\ Go(t, "instance")
  /\ UNCHANGED <<registryVars, mutexVars, objectVars, goal, obj, todo>>

ReturnInstance(t) ==
  /\ pc[t] = "instance"
  /\ instanceMutex = NoThread
  /\ Go(t, "idle")
  /\ UNCHANGED <<registryVars, mutexVars, objectVars, goal, obj, todo>>

-----------------------------------------------------------------------------
Next ==
  \E t \in Threads :
    \/ FindRegistry(t) \/ CreateRegistry(t) \/ ConstructRegistry(t)
    \/ Register(t) \/ EnterDerived(t) \/ BuildName(t)
    \/ Deregister(t) \/ BecomeBase(t)
    \/ RequestDump(t) \/ StartDump(t) \/ DumpNext(t) \/ EndDump(t)
    \/ LockInstance(t) \/ DumpMap(t)
    \/ ReleaseMutex(t) \/ CallInstance(t) \/ ReturnInstance(t)
    \/ \E o \in Objects :
         Construct(t, o) \/ Destroy(t, o) \/ DirectDump(t, o) \/ HoldMutex(t, o)
    \/ \E o, p \in Maps : CopyConstruct(t, o, p)

Spec == Init /\ [][Next]_vars

-----------------------------------------------------------------------------
TypeOK ==
  /\ registry \in {"none", "published", "ready"}
  /\ created \in Nat
  /\ entries \subseteq Names \X Objects
  /\ regMutex \in Threads \cup {NoThread}
  /\ instanceMutex \in Threads \cup {NoThread}
  /\ held \in [Threads -> Objects \cup {NoObject}]
  /\ stage \in [Objects -> {"none", "building", "base", "unnamed", "named",
                            "live", "closing", "stripped", "closingBase"}]
  /\ copies \subseteq Objects
  /\ pc \in [Threads -> {"idle", "find", "create", "constructing", "ready",
                         "deriving", "naming", "stripping", "dumping",
                         "dumpCache", "dumpMap", "instance"}]
  /\ goal \in [Threads -> {"none", "register", "deregister", "dump", "direct"}]
  /\ obj \in [Threads -> Objects \cup {NoObject}]
  /\ todo \in [Threads -> SUBSET (Names \X Objects)]
  /\ \A t \in Threads : t \in {regMutex, instanceMutex} => pc[t] # "idle"

(* The double-checked getInstance() creates one registry, and whoever gets  *)
(* the registry's mutex finds it built, even if its address was visible     *)
(* before.                                                                  *)
OneReadyRegistry ==
  /\ created <= 1
  /\ regMutex = NoThread => registry \in {"none", "ready"}

(* Every object that was not copied is in the registry from the moment its  *)
(* base constructor has registered until its base destructor has            *)
(* deregistered, through all the registrations and deregistrations of the   *)
(* cache on top, in any order of names; and no registration outlives it.    *)
RegisteredWhileItExists ==
  \A o \in Objects :
    RegistrationsOf(o) # {} <=>
      stage[o] \notin {"none", "building"} /\ o \notin copies

(* A dump that runs while objects come and go never reaches a map that is   *)
(* not there: its members are built before it registers, and its destructor *)
(* waits for the dump to end.                                               *)
DumpFindsMap ==
  \A t \in Threads :
    pc[t] \in {"dumpCache", "dumpMap"} => stage[obj[t]] \notin {"none", "building"}

(* t waits for a mutex that u holds.  (instanceMutex is not recursive.)     *)
WaitsFor(t, u) ==
  \/ /\ pc[t] = "create" \/ (pc[t] = "ready" /\ goal[t] # "direct")
     /\ regMutex = u
     /\ u # t
  \/ pc[t] \in {"dumpCache", "instance"} /\ instanceMutex = u
  \/ pc[t] = "dumpMap" /\ held[u] = obj[t] /\ u # t

(* A group of threads is stuck if each waits for one of the group.          *)
Stuck(S) == S # {} /\ \A t \in S : \E u \in S : WaitsFor(t, u)

(* The registry's mutex, _instanceMutex and the maps' are taken in that     *)
(* order, so the library never gets stuck by itself: in every stuck group   *)
(* somebody dumps a map whose mutex another of the group took from          *)
(* getMutex() (CommonMap.h:157), and called back into the library with.     *)
StuckOnlyByCallers ==
  \A S \in SUBSET Threads : Stuck(S) =>
    \E t, u \in S : t # u /\ pc[t] = "dumpMap" /\ held[u] = obj[t]

-----------------------------------------------------------------------------
(* Dump.h:28 calls the registry thread-safe.  So its dump(), run while      *)
(* another thread builds or destroys a cache, would not read that cache's   *)
(* _tableName before it exists or after it has gone.                        *)
DumpFindsWholeCache ==
  \A t \in Threads :
    pc[t] = "dumpMap" /\ instanceMutex = t =>
      stage[obj[t]] \notin {"unnamed", "stripped"}
=============================================================================
