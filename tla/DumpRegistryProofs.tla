-------------------------- MODULE DumpRegistryProofs --------------------------
(***************************************************************************)
(* Proofs about the diagnostic dump registry, for any sets of threads,     *)
(* maps and caches and any order of their names.                           *)
(*                                                                         *)
(* The checked invariants follow from one that says who holds each mutex   *)
(* in terms of where the threads are, which stage of its life the object a *)
(* thread works on has reached, and, stage by stage, under which names     *)
(* exactly an object is registered.  Nothing weaker than the exact names   *)
(* would do: whether a destroyed cache is still registered for its base    *)
(* destructor depends on which of its two names was removed first.         *)
(***************************************************************************)
EXTENDS DumpRegistry, TLAPS

(* Where a thread is while it finds or creates the registry, and during a   *)
(* dump().                                                                  *)
Asking == {"find", "create", "constructing", "ready"}
Walking == {"dumping", "dumpCache", "dumpMap"}

(* What a thread wants goes with where it is and what it works on.          *)
ThreadShape ==
  \A t \in Threads :
    /\ goal[t] = "none" => pc[t] \in {"idle", "instance"} /\ obj[t] = NoObject
    /\ goal[t] = "register" =>
         pc[t] \in Asking \cup {"deriving", "naming"} /\ obj[t] \in Objects
    /\ goal[t] = "deregister" =>
         pc[t] \in Asking \cup {"stripping"} /\ obj[t] \in Objects
    /\ goal[t] = "dump" =>
         /\ pc[t] \in Asking \cup Walking
         /\ pc[t] \in {"dumpCache", "dumpMap"} => obj[t] \in Objects
    /\ goal[t] = "direct" =>
         pc[t] \in {"dumpCache", "dumpMap"} /\ obj[t] \in Objects

(* The registry's mutex is held by whoever builds the registry or dumps,    *)
(* _instanceMutex at most by a thread that dumps a map.                     *)
MutexHolders ==
  \A t \in Threads :
    /\ regMutex = t <=>
         pc[t] = "constructing" \/ (goal[t] = "dump" /\ pc[t] \in Walking)
    /\ instanceMutex = t => pc[t] = "dumpMap"

(* A registry is allocated once, and published unbuilt only by a thread     *)
(* that is building it under the mutex.                                     *)
RegistryBuilt ==
  /\ created = IF registry = "none" THEN 0 ELSE 1
  /\ registry = "published" <=> \E t \in Threads : pc[t] = "constructing"

(* t constructs or destroys an object.                                      *)
Changing(t) == goal[t] \in {"register", "deregister"}

(* Each object is constructed or destroyed by one thread, whose place tells *)
(* how much of it exists; it is not destroyed while somebody else uses it.  *)
ObjectStages ==
  /\ \A t \in Threads :
       /\ goal[t] = "register" =>
            \/ stage[obj[t]] = "building" /\ pc[t] \in Asking
            \/ /\ obj[t] \in Caches
               /\ \/ stage[obj[t]] = "base" /\ pc[t] = "deriving"
                  \/ stage[obj[t]] = "unnamed" /\ pc[t] = "naming"
                  \/ stage[obj[t]] = "named" /\ pc[t] \in Asking
       /\ goal[t] = "deregister" =>
            \/ stage[obj[t]] = "closing" /\ pc[t] \in Asking
            \/ /\ obj[t] \in Caches
               /\ \/ stage[obj[t]] = "stripped" /\ pc[t] = "stripping"
                  \/ stage[obj[t]] = "closingBase" /\ pc[t] \in Asking
       /\ goal[t] = "direct" => stage[obj[t]] = "live"
       /\ held[t] # NoObject => stage[held[t]] = "live"
  /\ \A t, u \in Threads :
       Changing(t) /\ Changing(u) /\ obj[t] = obj[u] => t = u
  /\ \A o \in copies : o \in Maps /\ stage[o] \in {"live", "closing"}

(* The names o is registered under at its stage.                            *)
NamesOf(o) ==
  IF o \in copies \/ stage[o] \in {"none", "building"} THEN {}
  ELSE IF o \in Maps \/ stage[o] \in {"base", "unnamed", "named"} THEN {MapName}
  ELSE IF stage[o] \in {"live", "closing"} THEN {MapName, CacheName}
  ELSE IF o \in NamedBefore THEN {MapName} ELSE {CacheName}

(* Those are the registrations.                                             *)
Registrations ==
  \A o \in Objects, n \in Names : <<n, o>> \in entries <=> n \in NamesOf(o)

(* While a dump() runs, what it still has to visit and what it visits       *)
(* remains registered.                                                      *)
Walks ==
  \A t \in Threads :
    goal[t] = "dump" /\ pc[t] \in Walking =>
      /\ todo[t] \subseteq entries
      /\ pc[t] # "dumping" => \E n \in Names : <<n, obj[t]>> \in entries

IInv ==
  /\ TypeOK
  /\ ThreadShape
  /\ MutexHolders
  /\ RegistryBuilt
  /\ ObjectStages
  /\ Registrations
  /\ Walks

-----------------------------------------------------------------------------
(* Where the threads go, with the types of the state.                       *)
LEMMA ThreadsStep ==
  ASSUME IInv, Next
  PROVE  TypeOK' /\ ThreadShape'
<1> USE DEF IInv, TypeOK, ThreadShape, Asking, Walking
<1>1. ASSUME NEW t \in Threads, FindRegistry(t)
      PROVE  TypeOK' /\ ThreadShape'
  BY <1>1 DEF FindRegistry, Go, registryVars, mutexVars, objectVars
<1>2. ASSUME NEW t \in Threads, CreateRegistry(t)
      PROVE  TypeOK' /\ ThreadShape'
  BY <1>2 DEF CreateRegistry, Go, objectVars
<1>3. ASSUME NEW t \in Threads, ConstructRegistry(t)
      PROVE  TypeOK' /\ ThreadShape'
  BY <1>3, RegistryAssumption DEF ConstructRegistry, Go, objectVars
<1>4. ASSUME NEW t \in Threads, NEW o \in Objects, Construct(t, o)
      PROVE  TypeOK' /\ ThreadShape'
  BY <1>4 DEF Construct, Go, Free, registryVars, mutexVars
<1>5. ASSUME NEW t \in Threads, Register(t)
      PROVE  TypeOK' /\ ThreadShape'
  <2>1. /\ obj[t] \in Objects /\ pc[t] = "ready" /\ regMutex = NoThread
        /\ instanceMutex # t
    BY <1>5 DEF Register, MutexHolders
  <2>2. entries' \subseteq Names \X Objects
    BY <1>5, <2>1 DEF Register, Names
  <2>3. /\ pc' \in [Threads -> {"idle", "find", "create", "constructing", "ready",
                                "deriving", "naming", "stripping", "dumping",
                                "dumpCache", "dumpMap", "instance"}]
        /\ goal' \in [Threads -> {"none", "register", "deregister", "dump",
                                  "direct"}]
        /\ obj' \in [Threads -> Objects \cup {NoObject}]
        /\ stage' \in [Objects -> {"none", "building", "base", "unnamed", "named",
                                   "live", "closing", "stripped",
                                   "closingBase"}]
    BY <1>5, <2>1 DEF Register, Go, Finish
  <2>4. \A u \in Threads : u \in {regMutex, instanceMutex} => pc'[u] # "idle"
    BY <1>5, <2>1, RegistryAssumption DEF Register, Go, Finish
  <2>5. TypeOK'
    BY <1>5, <2>2, <2>3, <2>4 DEF Register, mutexVars
  <2>6. ThreadShape'
    BY <1>5, <2>1 DEF Register, Go, Finish, mutexVars
  <2> QED
    BY <2>5, <2>6
<1>6. ASSUME NEW t \in Threads, EnterDerived(t)
      PROVE  TypeOK' /\ ThreadShape'
  BY <1>6 DEF EnterDerived, Go, registryVars, mutexVars
<1>7. ASSUME NEW t \in Threads, BuildName(t)
      PROVE  TypeOK' /\ ThreadShape'
  BY <1>7 DEF BuildName, Go, registryVars, mutexVars
<1>8. ASSUME NEW t \in Threads, NEW o \in Maps, NEW p \in Maps,
             CopyConstruct(t, o, p)
      PROVE  TypeOK' /\ ThreadShape'
  BY <1>8 DEF CopyConstruct, Free, registryVars, mutexVars, threadVars,
     Objects
<1>9. ASSUME NEW t \in Threads, NEW o \in Objects, Destroy(t, o)
      PROVE  TypeOK' /\ ThreadShape'
  BY <1>9 DEF Destroy, Go, Free, InUse, registryVars, mutexVars
<1>10. ASSUME NEW t \in Threads, Deregister(t)
      PROVE  TypeOK' /\ ThreadShape'
  <2>1. /\ obj[t] \in Objects /\ pc[t] = "ready" /\ regMutex = NoThread
        /\ instanceMutex # t
    BY <1>10 DEF Deregister, MutexHolders
  <2>2. entries' \subseteq Names \X Objects
    BY <1>10, <2>1 DEF Deregister
  <2>3. /\ pc' \in [Threads -> {"idle", "find", "create", "constructing", "ready",
                                "deriving", "naming", "stripping", "dumping",
                                "dumpCache", "dumpMap", "instance"}]
        /\ goal' \in [Threads -> {"none", "register", "deregister", "dump",
                                  "direct"}]
        /\ obj' \in [Threads -> Objects \cup {NoObject}]
        /\ stage' \in [Objects -> {"none", "building", "base", "unnamed", "named",
                                   "live", "closing", "stripped",
                                   "closingBase"}]
        /\ copies' \subseteq Objects
    BY <1>10, <2>1 DEF Deregister, Deregistered, Go, Finish
  <2>4. \A u \in Threads : u \in {regMutex, instanceMutex} => pc'[u] # "idle"
    BY <1>10, <2>1, RegistryAssumption DEF Deregister, Deregistered, Go, Finish,
                                           mutexVars
  <2>5. TypeOK'
    BY <1>10, <2>2, <2>3, <2>4 DEF Deregister, mutexVars
  <2>6. ThreadShape'
    BY <1>10, <2>1 DEF Deregister, Deregistered, Go, Finish, mutexVars
  <2> QED
    BY <2>5, <2>6
<1>11. ASSUME NEW t \in Threads, BecomeBase(t)
      PROVE  TypeOK' /\ ThreadShape'
  BY <1>11 DEF BecomeBase, Go, registryVars, mutexVars
<1>12. ASSUME NEW t \in Threads, RequestDump(t)
      PROVE  TypeOK' /\ ThreadShape'
  BY <1>12 DEF RequestDump, Go, Free, registryVars, mutexVars, objectVars
<1>13. ASSUME NEW t \in Threads, StartDump(t)
      PROVE  TypeOK' /\ ThreadShape'
  BY <1>13 DEF StartDump, Go, registryVars, objectVars
<1>14. ASSUME NEW t \in Threads, DumpNext(t)
      PROVE  TypeOK' /\ ThreadShape'
  BY <1>14 DEF DumpNext, Go, DumpOf, registryVars, mutexVars, objectVars
<1>15. ASSUME NEW t \in Threads, EndDump(t)
      PROVE  TypeOK' /\ ThreadShape'
  BY <1>15, RegistryAssumption DEF EndDump, Finish, registryVars, objectVars,
     Go, MutexHolders
<1>16. ASSUME NEW t \in Threads, NEW o \in Objects, DirectDump(t, o)
      PROVE  TypeOK' /\ ThreadShape'
  BY <1>16 DEF DirectDump, Go, Free, DumpOf, registryVars, mutexVars,
     objectVars
<1>17. ASSUME NEW t \in Threads, LockInstance(t)
      PROVE  TypeOK' /\ ThreadShape'
  BY <1>17 DEF LockInstance, Go, registryVars, objectVars
<1>18. ASSUME NEW t \in Threads, DumpMap(t)
      PROVE  TypeOK' /\ ThreadShape'
  BY <1>18, RegistryAssumption DEF DumpMap, AfterObject, MapMutexFree,
     registryVars, objectVars, Go, Finish, MutexHolders
<1>19. ASSUME NEW t \in Threads, NEW o \in Objects, HoldMutex(t, o)
      PROVE  TypeOK' /\ ThreadShape'
  BY <1>19 DEF HoldMutex, MapMutexFree, registryVars, objectVars, threadVars
<1>20. ASSUME NEW t \in Threads, ReleaseMutex(t)
      PROVE  TypeOK' /\ ThreadShape'
  BY <1>20 DEF ReleaseMutex, registryVars, objectVars, threadVars
<1>21. ASSUME NEW t \in Threads, CallInstance(t)
      PROVE  TypeOK' /\ ThreadShape'
  BY <1>21 DEF CallInstance, Go, Free, registryVars, mutexVars, objectVars
<1>22. ASSUME NEW t \in Threads, ReturnInstance(t)
      PROVE  TypeOK' /\ ThreadShape'
  BY <1>22 DEF ReturnInstance, Go, registryVars, mutexVars, objectVars,
     MutexHolders
<1> QED
  BY <1>1, <1>2, <1>3, <1>4, <1>5, <1>6, <1>7, <1>8, <1>9, <1>10,
     <1>11, <1>12, <1>13, <1>14, <1>15, <1>16, <1>17, <1>18, <1>19, <1>20,
     <1>21, <1>22 DEF Next

(* How the mutexes pass from thread to thread.                              *)
LEMMA MutexesStep ==
  ASSUME IInv, Next
  PROVE  MutexHolders' /\ RegistryBuilt'
<1> USE DEF IInv, TypeOK, MutexHolders, RegistryBuilt, Walking
<1>1. ASSUME NEW t \in Threads, FindRegistry(t)
      PROVE  MutexHolders' /\ RegistryBuilt'
  BY <1>1 DEF FindRegistry, Go, registryVars, mutexVars, objectVars
<1>2. ASSUME NEW t \in Threads, CreateRegistry(t)
      PROVE  MutexHolders' /\ RegistryBuilt'
  BY <1>2, RegistryAssumption DEF CreateRegistry, Go, objectVars
<1>3. ASSUME NEW t \in Threads, ConstructRegistry(t)
      PROVE  MutexHolders' /\ RegistryBuilt'
  BY <1>3, RegistryAssumption DEF ConstructRegistry, Go, objectVars
<1>4. ASSUME NEW t \in Threads, NEW o \in Objects, Construct(t, o)
      PROVE  MutexHolders' /\ RegistryBuilt'
  BY <1>4 DEF Construct, Go, Free, registryVars, mutexVars
<1>5. ASSUME NEW t \in Threads, Register(t)
      PROVE  MutexHolders' /\ RegistryBuilt'
  BY <1>5 DEF Register, Go, Finish, mutexVars
<1>6. ASSUME NEW t \in Threads, EnterDerived(t)
      PROVE  MutexHolders' /\ RegistryBuilt'
  BY <1>6 DEF EnterDerived, Go, registryVars, mutexVars
<1>7. ASSUME NEW t \in Threads, BuildName(t)
      PROVE  MutexHolders' /\ RegistryBuilt'
  BY <1>7 DEF BuildName, Go, registryVars, mutexVars
<1>8. ASSUME NEW t \in Threads, NEW o \in Maps, NEW p \in Maps,
             CopyConstruct(t, o, p)
      PROVE  MutexHolders' /\ RegistryBuilt'
  BY <1>8 DEF CopyConstruct, Free, registryVars, mutexVars, threadVars
<1>9. ASSUME NEW t \in Threads, NEW o \in Objects, Destroy(t, o)
      PROVE  MutexHolders' /\ RegistryBuilt'
  BY <1>9 DEF Destroy, Go, Free, InUse, registryVars, mutexVars
<1>10. ASSUME NEW t \in Threads, Deregister(t)
      PROVE  MutexHolders' /\ RegistryBuilt'
  BY <1>10 DEF Deregister, Deregistered, FirstRegistration, mutexVars,
     RegistrationsOf, Go, Finish
<1>11. ASSUME NEW t \in Threads, BecomeBase(t)
      PROVE  MutexHolders' /\ RegistryBuilt'
  BY <1>11 DEF BecomeBase, Go, registryVars, mutexVars
<1>12. ASSUME NEW t \in Threads, RequestDump(t)
      PROVE  MutexHolders' /\ RegistryBuilt'
  BY <1>12 DEF RequestDump, Go, Free, registryVars, mutexVars, objectVars
<1>13. ASSUME NEW t \in Threads, StartDump(t)
      PROVE  MutexHolders' /\ RegistryBuilt'
  BY <1>13, RegistryAssumption DEF StartDump, Go, registryVars, objectVars
<1>14. ASSUME NEW t \in Threads, DumpNext(t)
      PROVE  MutexHolders' /\ RegistryBuilt'
  BY <1>14 DEF DumpNext, Go, DumpOf, registryVars, mutexVars, objectVars
<1>15. ASSUME NEW t \in Threads, EndDump(t)
      PROVE  MutexHolders' /\ RegistryBuilt'
  BY <1>15, RegistryAssumption DEF EndDump, Finish, registryVars, objectVars,
     Go, ThreadShape, Asking
<1>16. ASSUME NEW t \in Threads, NEW o \in Objects, DirectDump(t, o)
      PROVE  MutexHolders' /\ RegistryBuilt'
  BY <1>16 DEF DirectDump, Go, Free, DumpOf, registryVars, mutexVars,
     objectVars, ThreadShape, Asking
<1>17. ASSUME NEW t \in Threads, LockInstance(t)
      PROVE  MutexHolders' /\ RegistryBuilt'
  BY <1>17 DEF LockInstance, Go, registryVars, objectVars
<1>18. ASSUME NEW t \in Threads, DumpMap(t)
      PROVE  MutexHolders' /\ RegistryBuilt'
  BY <1>18, RegistryAssumption DEF DumpMap, AfterObject, MapMutexFree,
     registryVars, objectVars, Go, Finish
<1>19. ASSUME NEW t \in Threads, NEW o \in Objects, HoldMutex(t, o)
      PROVE  MutexHolders' /\ RegistryBuilt'
  BY <1>19 DEF HoldMutex, MapMutexFree, registryVars, objectVars, threadVars
<1>20. ASSUME NEW t \in Threads, ReleaseMutex(t)
      PROVE  MutexHolders' /\ RegistryBuilt'
  BY <1>20 DEF ReleaseMutex, registryVars, objectVars, threadVars
<1>21. ASSUME NEW t \in Threads, CallInstance(t)
      PROVE  MutexHolders' /\ RegistryBuilt'
  BY <1>21 DEF CallInstance, Go, Free, registryVars, mutexVars, objectVars
<1>22. ASSUME NEW t \in Threads, ReturnInstance(t)
      PROVE  MutexHolders' /\ RegistryBuilt'
  BY <1>22 DEF ReturnInstance, Go, registryVars, mutexVars, objectVars
<1> QED
  BY <1>1, <1>2, <1>3, <1>4, <1>5, <1>6, <1>7, <1>8, <1>9, <1>10,
     <1>11, <1>12, <1>13, <1>14, <1>15, <1>16, <1>17, <1>18, <1>19, <1>20,
     <1>21, <1>22 DEF Next

(* The stages objects go through.                                           *)
LEMMA StagesStep ==
  ASSUME IInv, Next
  PROVE  ObjectStages'
<1> USE DEF IInv, TypeOK, ObjectStages, Asking, Changing
<1>1. ASSUME NEW t \in Threads, FindRegistry(t)
      PROVE  ObjectStages'
  BY <1>1 DEF FindRegistry, Go, registryVars, mutexVars, objectVars
<1>2. ASSUME NEW t \in Threads, CreateRegistry(t)
      PROVE  ObjectStages'
  BY <1>2 DEF CreateRegistry, Go, objectVars
<1>3. ASSUME NEW t \in Threads, ConstructRegistry(t)
      PROVE  ObjectStages'
  BY <1>3 DEF ConstructRegistry, Go, objectVars
<1>4. ASSUME NEW t \in Threads, NEW o \in Objects, Construct(t, o)
      PROVE  ObjectStages'
  BY <1>4 DEF Construct, Go, Free, registryVars, mutexVars
<1>5. ASSUME NEW t \in Threads, Register(t)
      PROVE  ObjectStages'
  BY <1>5, RegistryAssumption DEF Register, Go, Finish, mutexVars, IInv
<1>6. ASSUME NEW t \in Threads, EnterDerived(t)
      PROVE  ObjectStages'
  BY <1>6 DEF EnterDerived, Go, registryVars, mutexVars, ThreadShape, Walking
<1>7. ASSUME NEW t \in Threads, BuildName(t)
      PROVE  ObjectStages'
  BY <1>7 DEF BuildName, Go, registryVars, mutexVars, ThreadShape, Walking
<1>8. ASSUME NEW t \in Threads, NEW o \in Maps, NEW p \in Maps,
             CopyConstruct(t, o, p)
      PROVE  ObjectStages'
  BY <1>8 DEF CopyConstruct, Free, registryVars, mutexVars, threadVars,
     Objects
<1>9. ASSUME NEW t \in Threads, NEW o \in Objects, Destroy(t, o)
      PROVE  ObjectStages'
  BY <1>9 DEF Destroy, Go, Free, InUse, registryVars, mutexVars
<1>10. ASSUME NEW t \in Threads, Deregister(t)
      PROVE  ObjectStages'
  BY <1>10 DEF Deregister, Deregistered, FirstRegistration, mutexVars,
     RegistrationsOf, Go, Finish, ThreadShape
<1>11. ASSUME NEW t \in Threads, BecomeBase(t)
      PROVE  ObjectStages'
  BY <1>11 DEF BecomeBase, Go, registryVars, mutexVars, ThreadShape, Walking
<1>12. ASSUME NEW t \in Threads, RequestDump(t)
      PROVE  ObjectStages'
  BY <1>12 DEF RequestDump, Go, Free, registryVars, mutexVars, objectVars
<1>13. ASSUME NEW t \in Threads, StartDump(t)
      PROVE  ObjectStages'
  BY <1>13 DEF StartDump, Go, registryVars, objectVars
<1>14. ASSUME NEW t \in Threads, DumpNext(t)
      PROVE  ObjectStages'
  BY <1>14 DEF DumpNext, Go, DumpOf, registryVars, mutexVars, objectVars,
     ThreadShape
<1>15. ASSUME NEW t \in Threads, EndDump(t)
      PROVE  ObjectStages'
  BY <1>15 DEF EndDump, Finish, registryVars, objectVars, Go, ThreadShape
<1>16. ASSUME NEW t \in Threads, NEW o \in Objects, DirectDump(t, o)
      PROVE  ObjectStages'
  BY <1>16 DEF DirectDump, Go, Free, DumpOf, registryVars, mutexVars,
     objectVars
<1>17. ASSUME NEW t \in Threads, LockInstance(t)
      PROVE  ObjectStages'
  BY <1>17 DEF LockInstance, Go, registryVars, objectVars
<1>18. ASSUME NEW t \in Threads, DumpMap(t)
      PROVE  ObjectStages'
  BY <1>18 DEF DumpMap, AfterObject, MapMutexFree, registryVars, objectVars,
     Go, Finish
<1>19. ASSUME NEW t \in Threads, NEW o \in Objects, HoldMutex(t, o)
      PROVE  ObjectStages'
  BY <1>19 DEF HoldMutex, MapMutexFree, registryVars, objectVars, threadVars
<1>20. ASSUME NEW t \in Threads, ReleaseMutex(t)
      PROVE  ObjectStages'
  BY <1>20 DEF ReleaseMutex, registryVars, objectVars, threadVars
<1>21. ASSUME NEW t \in Threads, CallInstance(t)
      PROVE  ObjectStages'
  BY <1>21 DEF CallInstance, Go, Free, registryVars, mutexVars, objectVars
<1>22. ASSUME NEW t \in Threads, ReturnInstance(t)
      PROVE  ObjectStages'
  BY <1>22 DEF ReturnInstance, Go, registryVars, mutexVars, objectVars
<1> QED
  BY <1>1, <1>2, <1>3, <1>4, <1>5, <1>6, <1>7, <1>8, <1>9, <1>10,
     <1>11, <1>12, <1>13, <1>14, <1>15, <1>16, <1>17, <1>18, <1>19, <1>20,
     <1>21, <1>22 DEF Next

(* A step that concerns one object need only look at that object's names.   *)
LEMMA OneObjectStep ==
  ASSUME IInv, NEW p \in Objects,
         \A o \in Objects \ {p} :
           /\ stage'[o] = stage[o]
           /\ o \in copies' <=> o \in copies
           /\ \A n \in Names : <<n, o>> \in entries' <=> <<n, o>> \in entries,
         \A n \in Names : <<n, p>> \in entries' <=> n \in NamesOf(p)'
  PROVE  Registrations'
<1> SUFFICES ASSUME NEW o \in Objects, NEW n \in Names
             PROVE  <<n, o>> \in entries' <=> n \in NamesOf(o)'
  BY DEF Registrations
<1>1. CASE o = p
  BY <1>1
<1>2. CASE o # p
  <2>1. NamesOf(o)' = NamesOf(o)
    BY <1>2 DEF NamesOf
  <2>2. <<n, o>> \in entries <=> n \in NamesOf(o)
    BY DEF IInv, Registrations
  <2> QED
    BY <1>2, <2>1, <2>2
<1> QED
  BY <1>1, <1>2

(* From one stage to another with the same names.                           *)
LEMMA StageMoves ==
  ASSUME IInv, NEW p \in Objects, NEW s,
         stage' = [stage EXCEPT ![p] = s], UNCHANGED <<entries, copies>>,
         NamesOf(p)' = NamesOf(p)
  PROVE  Registrations'
<1>1. \A o \in Objects \ {p} : stage'[o] = stage[o]
  BY DEF IInv, TypeOK
<1>2. \A n \in Names : <<n, p>> \in entries' <=> n \in NamesOf(p)'
  BY DEF IInv, Registrations
<1> QED
  BY <1>1, <1>2, OneObjectStep

(* registerObject() and deregisterObject() (Dump.h) move an object from the *)
(* names of one stage to those of the next.                                 *)
LEMMA RegistrationsStep ==
  ASSUME IInv, Next
  PROVE  Registrations'
<1> USE DEF registryVars, mutexVars, objectVars, threadVars
<1>1. ASSUME UNCHANGED <<entries, stage, copies>>
      PROVE  Registrations'
  <2>1. \A o \in Objects : NamesOf(o)' = NamesOf(o)
    BY <1>1 DEF NamesOf
  <2> QED
    BY <1>1, <2>1 DEF IInv, Registrations
<1>2. ASSUME NEW t \in Threads,
             \/ FindRegistry(t) \/ CreateRegistry(t) \/ ConstructRegistry(t)
             \/ RequestDump(t) \/ StartDump(t) \/ DumpNext(t) \/ EndDump(t)
             \/ LockInstance(t) \/ DumpMap(t) \/ ReleaseMutex(t)
             \/ CallInstance(t) \/ ReturnInstance(t)
      PROVE  UNCHANGED <<entries, stage, copies>>
  BY <1>2 DEF FindRegistry, CreateRegistry, ConstructRegistry, RequestDump,
     StartDump, DumpNext, EndDump, LockInstance, DumpMap, ReleaseMutex,
     CallInstance, ReturnInstance
<1>3. ASSUME NEW t \in Threads, NEW o \in Objects,
             DirectDump(t, o) \/ HoldMutex(t, o)
      PROVE  UNCHANGED <<entries, stage, copies>>
  BY <1>3 DEF DirectDump, HoldMutex
<1>4. ASSUME NEW t \in Threads, NEW o \in Objects, Construct(t, o)
      PROVE  Registrations'
  <2>1. /\ stage[o] = "none" /\ stage' = [stage EXCEPT ![o] = "building"]
        /\ UNCHANGED <<entries, copies>>
    BY <1>4 DEF Construct
  <2>2. stage'[o] = "building"
    BY <2>1 DEF IInv, TypeOK
  <2>3. NamesOf(o)' = NamesOf(o)
    BY <2>1, <2>2 DEF NamesOf
  <2> QED
    BY <2>1, <2>3, StageMoves
<1>5. ASSUME NEW t \in Threads, NEW o \in Objects, Destroy(t, o)
      PROVE  Registrations'
  <2>1. /\ stage[o] = "live" /\ stage' = [stage EXCEPT ![o] = "closing"]
        /\ UNCHANGED <<entries, copies>>
    BY <1>5 DEF Destroy
  <2>2. stage'[o] = "closing"
    BY <2>1 DEF IInv, TypeOK
  <2>3. NamesOf(o)' = NamesOf(o)
    BY <2>1, <2>2 DEF NamesOf
  <2> QED
    BY <2>1, <2>3, StageMoves
<1>6. ASSUME NEW t \in Threads, EnterDerived(t) \/ BuildName(t) \/ BecomeBase(t)
      PROVE  Registrations'
  <2>1. /\ obj[t] \in Caches /\ obj[t] \notin Maps
        /\ \/ stage[obj[t]] = "base" /\ stage' = [stage EXCEPT ![obj[t]] = "unnamed"]
           \/ stage[obj[t]] = "unnamed" /\ stage' = [stage EXCEPT ![obj[t]] = "named"]
           \/ /\ stage[obj[t]] = "stripped"
              /\ stage' = [stage EXCEPT ![obj[t]] = "closingBase"]
        /\ UNCHANGED <<entries, copies>>
    BY <1>6, RegistryAssumption
       DEF EnterDerived, BuildName, BecomeBase, IInv, TypeOK, ThreadShape,
           ObjectStages, Asking, Walking
  <2>2. PICK p \in Objects : p = obj[t]
    BY <2>1 DEF Objects
  <2>3. \/ stage[p] = "base" /\ stage'[p] = "unnamed"
        \/ stage[p] = "unnamed" /\ stage'[p] = "named"
        \/ stage[p] = "stripped" /\ stage'[p] = "closingBase"
    BY <2>1, <2>2 DEF IInv, TypeOK
  <2>4. NamesOf(p)' = NamesOf(p)
    BY <2>1, <2>2, <2>3 DEF NamesOf
  <2> QED
    BY <2>1, <2>2, <2>4, StageMoves
<1>7. ASSUME NEW t \in Threads, NEW o \in Maps, NEW p \in Maps,
             CopyConstruct(t, o, p)
      PROVE  Registrations'
  <2>1. /\ stage[o] = "none" /\ stage' = [stage EXCEPT ![o] = "live"]
        /\ copies' = copies \cup {o} /\ entries' = entries
    BY <1>7 DEF CopyConstruct
  <2>2. o \in Objects
    BY DEF Objects
  <2>3. NamesOf(o) = {} /\ NamesOf(o)' = {}
    BY <2>1 DEF NamesOf
  <2>4. \A n \in Names : <<n, o>> \in entries' <=> n \in NamesOf(o)'
    BY <2>1, <2>2, <2>3 DEF IInv, Registrations
  <2> QED
    BY <2>1, <2>2, <2>4, OneObjectStep DEF IInv, TypeOK
<1>8. ASSUME NEW t \in Threads, Register(t)
      PROVE  Registrations'
  <2>0. PICK o \in Objects : o = obj[t]
    BY <1>8 DEF Register, IInv, ThreadShape
  <2> DEFINE isBase == stage[o] = "building"
             name == IF isBase THEN MapName ELSE CacheName
  <2>1. /\ goal[t] = "register" /\ pc[t] = "ready"
        /\ entries' = entries \cup {<<name, o>>}
        /\ stage' = [stage EXCEPT ![o] =
                       IF isBase /\ o \in Caches THEN "base" ELSE "live"]
        /\ copies' = copies
    BY <1>8, <2>0 DEF Register
  <2>2. o \notin copies
    BY <2>0, <2>1 DEF IInv, ObjectStages
  <2>3. \/ isBase
        \/ ~isBase /\ o \in Caches /\ o \notin Maps /\ stage[o] = "named"
    BY <2>0, <2>1, RegistryAssumption DEF IInv, ObjectStages
  <2>4. stage'[o] = IF isBase /\ o \in Caches THEN "base" ELSE "live"
    BY <2>1, <2>2 DEF IInv, TypeOK
  <2>5. \A n \in Names : <<n, o>> \in entries <=> n \in NamesOf(o)
    BY <2>2 DEF IInv, Registrations
  <2>6. NamesOf(o) = IF isBase THEN {} ELSE {MapName}
    BY <2>2, <2>3 DEF NamesOf
  <2>7. NamesOf(o)' = NamesOf(o) \cup {name}
    <3>1. CASE isBase /\ o \in Caches
      BY <2>1, <2>2, <2>4, <2>6, <3>1 DEF NamesOf
    <3>2. CASE isBase /\ o \notin Caches
      BY <2>1, <2>2, <2>4, <2>6, <3>2 DEF NamesOf, Objects
    <3>3. CASE ~isBase
      BY <2>1, <2>2, <2>3, <2>4, <2>6, <3>3 DEF NamesOf
    <3> QED
      BY <3>1, <3>2, <3>3
  <2>8. \A n \in Names : <<n, o>> \in entries' <=> n \in NamesOf(o)'
    BY <2>1, <2>5, <2>7
  <2>9. \A p \in Objects \ {o} :
          /\ stage'[p] = stage[p]
          /\ \A n \in Names : <<n, p>> \in entries' <=> <<n, p>> \in entries
    BY <2>1 DEF IInv, TypeOK
  <2> QED
    BY <2>1, <2>8, <2>9, OneObjectStep
<1>9. ASSUME NEW t \in Threads, Deregister(t)
      PROVE  Registrations'
  <2>0. PICK o \in Objects : o = obj[t]
    BY <1>9 DEF Deregister, IInv, ThreadShape
  <2>1. /\ goal[t] = "deregister" /\ pc[t] = "ready"
        /\ entries' = entries \ FirstRegistration(o)
        /\ copies' = copies \ {o}
        /\ stage' = [stage EXCEPT ![o] =
                       IF o \in Caches /\ stage[o] = "closing" THEN "stripped"
                                                               ELSE "none"]
    BY <1>9, <2>0 DEF Deregister, Deregistered
  <2>2. /\ o \in copies => o \in Maps
        /\ \/ stage[o] = "closing"
           \/ o \in Caches /\ stage[o] = "closingBase"
    BY <2>0, <2>1 DEF IInv, ObjectStages
  <2>3. stage'[o] = IF o \in Caches /\ stage[o] = "closing" THEN "stripped"
                                                            ELSE "none"
    BY <2>1, <2>2 DEF IInv, TypeOK
  <2>4. \A n \in Names : <<n, o>> \in entries <=> n \in NamesOf(o)
    BY <2>2 DEF IInv, Registrations
  <2>5. entries \subseteq Names \X Objects
    BY DEF IInv, TypeOK
  <2>6. \A n \in Names :
          <<n, o>> \in FirstRegistration(o) <=>
            /\ n \in NamesOf(o)
            /\ \A m \in NamesOf(o) \cap Names : m # n =>
                 (o \in NamedBefore <=> n = CacheName)
    <3>1. \A n \in Names : <<n, o>> \in RegistrationsOf(o) <=> n \in NamesOf(o)
      BY <2>4 DEF RegistrationsOf
    <3>2. ASSUME NEW e \in RegistrationsOf(o)
          PROVE  e[1] \in Names /\ e = <<e[1], o>>
      BY <2>5 DEF RegistrationsOf
    <3>3. ASSUME NEW n \in Names
          PROVE  <<n, o>> \in FirstRegistration(o) <=>
                   /\ <<n, o>> \in RegistrationsOf(o)
                   /\ \A f \in RegistrationsOf(o) : Rank(<<n, o>>) <= Rank(f)
      BY DEF FirstRegistration
    <3>4. ASSUME NEW n \in Names
          PROVE  (\A f \in RegistrationsOf(o) : Rank(<<n, o>>) <= Rank(f))
                 <=> (\A m \in NamesOf(o) \cap Names : m # n =>
                        (o \in NamedBefore <=> n = CacheName))
      <4>1. ASSUME NEW m \in Names
            PROVE  Rank(<<n, o>>) <= Rank(<<m, o>>) <=>
                     (m # n => (o \in NamedBefore <=> n = CacheName))
        BY RegistryAssumption DEF Rank, Names
      <4>2. ASSUME NEW f \in RegistrationsOf(o)
            PROVE  f = <<f[1], o>> /\ f[1] \in NamesOf(o) \cap Names
        BY <3>1, <3>2
      <4>3. ASSUME NEW m \in NamesOf(o) \cap Names
            PROVE  <<m, o>> \in RegistrationsOf(o)
        BY <3>1
      <4> QED
        BY <4>1, <4>2, <4>3
    <3> QED
      BY <3>1, <3>3, <3>4
  <2>7. \A p \in Objects \ {o}, n \in Names : <<n, p>> \notin FirstRegistration(o)
    BY DEF FirstRegistration, RegistrationsOf
  <2>8. \A n \in Names : <<n, o>> \in entries' <=> n \in NamesOf(o)'
    <3>1. CASE o \in Caches /\ stage[o] = "closing"
      <4>1. NamesOf(o) = {MapName, CacheName}
        BY <2>2, <3>1, RegistryAssumption DEF NamesOf
      <4>2. NamesOf(o)' = IF o \in NamedBefore THEN {MapName} ELSE {CacheName}
        BY <2>1, <2>2, <2>3, <3>1, RegistryAssumption DEF NamesOf
      <4> QED
        BY <2>1, <2>4, <2>6, <4>1, <4>2, RegistryAssumption DEF Names
    <3>2. CASE ~(o \in Caches /\ stage[o] = "closing")
      <4>1. NamesOf(o)' = {}
        BY <2>3, <3>2 DEF NamesOf
      <4>2. \A m, n \in NamesOf(o) : m = n
        BY <2>2, <3>2, RegistryAssumption DEF NamesOf, Objects
      <4> QED
        BY <2>1, <2>4, <2>6, <4>1, <4>2
    <3> QED
      BY <3>1, <3>2
  <2>9. \A p \in Objects \ {o} :
          /\ stage'[p] = stage[p]
          /\ p \in copies' <=> p \in copies
          /\ \A n \in Names : <<n, p>> \in entries' <=> <<n, p>> \in entries
    BY <2>1, <2>7 DEF IInv, TypeOK
  <2> QED
    BY <2>8, <2>9, OneObjectStep
<1> QED
  BY <1>1, <1>2, <1>3, <1>4, <1>5, <1>6, <1>7, <1>8, <1>9 DEF Next

(* A dump() goes on over registrations nobody can remove meanwhile.         *)
LEMMA WalksStep ==
  ASSUME IInv, Next
  PROVE  Walks'
<1> USE DEF IInv, TypeOK, Walks, Walking, Names
<1>1. ASSUME NEW t \in Threads, FindRegistry(t)
      PROVE  Walks'
  BY <1>1 DEF FindRegistry, Go, registryVars, mutexVars, objectVars
<1>2. ASSUME NEW t \in Threads, CreateRegistry(t)
      PROVE  Walks'
  BY <1>2 DEF CreateRegistry, Go, objectVars
<1>3. ASSUME NEW t \in Threads, ConstructRegistry(t)
      PROVE  Walks'
  BY <1>3 DEF ConstructRegistry, Go, objectVars
<1>4. ASSUME NEW t \in Threads, NEW o \in Objects, Construct(t, o)
      PROVE  Walks'
  BY <1>4 DEF Construct, Go, Free, registryVars, mutexVars
<1>5. ASSUME NEW t \in Threads, Register(t)
      PROVE  Walks'
  BY <1>5 DEF Register, Go, Finish, mutexVars, Objects
<1>6. ASSUME NEW t \in Threads, EnterDerived(t)
      PROVE  Walks'
  BY <1>6 DEF EnterDerived, Go, registryVars, mutexVars
<1>7. ASSUME NEW t \in Threads, BuildName(t)
      PROVE  Walks'
  BY <1>7 DEF BuildName, Go, registryVars, mutexVars
<1>8. ASSUME NEW t \in Threads, NEW o \in Maps, NEW p \in Maps,
             CopyConstruct(t, o, p)
      PROVE  Walks'
  BY <1>8 DEF CopyConstruct, Free, registryVars, mutexVars, threadVars
<1>9. ASSUME NEW t \in Threads, NEW o \in Objects, Destroy(t, o)
      PROVE  Walks'
  BY <1>9 DEF Destroy, Go, Free, InUse, registryVars, mutexVars
<1>10. ASSUME NEW t \in Threads, Deregister(t)
      PROVE  Walks'
  BY <1>10, RegistryAssumption DEF Deregister, Deregistered,
     FirstRegistration, mutexVars, RegistrationsOf, Go, Finish, MutexHolders
<1>11. ASSUME NEW t \in Threads, BecomeBase(t)
      PROVE  Walks'
  BY <1>11 DEF BecomeBase, Go, registryVars, mutexVars
<1>12. ASSUME NEW t \in Threads, RequestDump(t)
      PROVE  Walks'
  BY <1>12 DEF RequestDump, Go, Free, registryVars, mutexVars, objectVars
<1>13. ASSUME NEW t \in Threads, StartDump(t)
      PROVE  Walks'
  BY <1>13 DEF StartDump, Go, registryVars, objectVars
<1>14. ASSUME NEW t \in Threads, DumpNext(t)
      PROVE  Walks'
  BY <1>14 DEF DumpNext, Go, DumpOf, registryVars, mutexVars, objectVars
<1>15. ASSUME NEW t \in Threads, EndDump(t)
      PROVE  Walks'
  BY <1>15 DEF EndDump, Finish, registryVars, objectVars, Go
<1>16. ASSUME NEW t \in Threads, NEW o \in Objects, DirectDump(t, o)
      PROVE  Walks'
  BY <1>16 DEF DirectDump, Go, Free, DumpOf, registryVars, mutexVars,
     objectVars, ThreadShape, Asking
<1>17. ASSUME NEW t \in Threads, LockInstance(t)
      PROVE  Walks'
  BY <1>17 DEF LockInstance, Go, registryVars, objectVars
<1>18. ASSUME NEW t \in Threads, DumpMap(t)
      PROVE  Walks'
  BY <1>18, RegistryAssumption DEF DumpMap, AfterObject, MapMutexFree,
     registryVars, objectVars, Go, Finish, IInv
<1>19. ASSUME NEW t \in Threads, NEW o \in Objects, HoldMutex(t, o)
      PROVE  Walks'
  BY <1>19 DEF HoldMutex, MapMutexFree, registryVars, objectVars, threadVars
<1>20. ASSUME NEW t \in Threads, ReleaseMutex(t)
      PROVE  Walks'
  BY <1>20 DEF ReleaseMutex, registryVars, objectVars, threadVars
<1>21. ASSUME NEW t \in Threads, CallInstance(t)
      PROVE  Walks'
  BY <1>21 DEF CallInstance, Go, Free, registryVars, mutexVars, objectVars
<1>22. ASSUME NEW t \in Threads, ReturnInstance(t)
      PROVE  Walks'
  BY <1>22 DEF ReturnInstance, Go, registryVars, mutexVars, objectVars
<1> QED
  BY <1>1, <1>2, <1>3, <1>4, <1>5, <1>6, <1>7, <1>8, <1>9, <1>10,
     <1>11, <1>12, <1>13, <1>14, <1>15, <1>16, <1>17, <1>18, <1>19, <1>20,
     <1>21, <1>22 DEF Next

-----------------------------------------------------------------------------
(* The invariant holds before any object or registry exists.                *)
LEMMA InitHolds ==
  Init => IInv
<1> SUFFICES ASSUME Init PROVE IInv
  OBVIOUS
<1>1. TypeOK
  BY RegistryAssumption DEF Init, TypeOK
<1>2. ThreadShape /\ MutexHolders /\ RegistryBuilt
  BY RegistryAssumption
     DEF Init, ThreadShape, MutexHolders, RegistryBuilt
<1>3. ObjectStages /\ Walks
  BY DEF Init, ObjectStages, Walks, Changing
<1>4. Registrations
  BY DEF Init, Registrations, NamesOf
<1> QED
  BY <1>1, <1>2, <1>3, <1>4 DEF IInv

(* Every step of any thread keeps the invariant.                            *)
LEMMA IInvIsInductive ==
  IInv /\ [Next]_vars => IInv'
<1> SUFFICES ASSUME IInv, [Next]_vars PROVE IInv'
  OBVIOUS
<1>1. CASE Next
  <2>1. TypeOK' /\ ThreadShape' /\ MutexHolders' /\ RegistryBuilt'
    BY <1>1, ThreadsStep, MutexesStep
  <2>2. ObjectStages' /\ Registrations' /\ Walks'
    BY <1>1, StagesStep, RegistrationsStep, WalksStep
  <2> QED
    BY <2>1, <2>2 DEF IInv
<1>2. CASE UNCHANGED vars
  <2> USE DEF vars, registryVars, mutexVars, objectVars, threadVars
  <2>1. TypeOK' /\ ThreadShape' /\ MutexHolders' /\ RegistryBuilt'
    BY <1>2 DEF IInv, TypeOK, ThreadShape, MutexHolders, RegistryBuilt
  <2>2. ObjectStages' /\ Walks'
    BY <1>2 DEF IInv, ObjectStages, Changing, Walks
  <2>3. Registrations'
    BY <1>2 DEF IInv, Registrations, NamesOf
  <2> QED
    BY <2>1, <2>2, <2>3 DEF IInv
<1> QED
  BY <1>1, <1>2

(* The inductive invariant holds throughout.                                *)
THEOREM InductiveInvariant == Spec => []IInv
<1>1. Init => IInv
  BY InitHolds
<1>2. IInv /\ [Next]_vars => IInv'
  BY IInvIsInductive
<1> QED
  BY <1>1, <1>2, PTL DEF Spec

(* The types of the state.                                                  *)
THEOREM RegistryTypeCorrect == Spec => []TypeOK
<1>1. IInv => TypeOK
  BY DEF IInv
<1> QED
  BY <1>1, InductiveInvariant, PTL

(* The double-checked getInstance() (Dump.cpp) creates one registry, and    *)
(* whoever takes its mutex finds it built.                                  *)
THEOREM RegistryIsOneAndReady == Spec => []OneReadyRegistry
<1>1. IInv => OneReadyRegistry
  <2> SUFFICES ASSUME IInv PROVE OneReadyRegistry
    OBVIOUS
  <2>1. created <= 1
    BY DEF IInv, RegistryBuilt
  <2>2. ASSUME regMutex = NoThread
        PROVE  registry # "published"
    BY <2>2, RegistryAssumption DEF IInv, RegistryBuilt, MutexHolders
  <2> QED
    BY <2>1, <2>2 DEF IInv, TypeOK, OneReadyRegistry
<1> QED
  BY <1>1, InductiveInvariant, PTL

(* An object that was not copied is registered, under some name, from its   *)
(* base constructor's registration to its base destructor's deregistration, *)
(* and no longer.                                                           *)
THEOREM ObjectsStayRegistered == Spec => []RegisteredWhileItExists
<1>1. IInv => RegisteredWhileItExists
  <2> SUFFICES ASSUME IInv, NEW o \in Objects
               PROVE  RegistrationsOf(o) # {} <=>
                        stage[o] \notin {"none", "building"} /\ o \notin copies
    BY DEF RegisteredWhileItExists
  <2>1. RegistrationsOf(o) # {} <=> \E n \in Names : <<n, o>> \in entries
    <3>1. ASSUME NEW e \in RegistrationsOf(o)
          PROVE  e[1] \in Names /\ <<e[1], o>> \in entries
      BY DEF RegistrationsOf, IInv, TypeOK
    <3>2. ASSUME NEW n \in Names, <<n, o>> \in entries
          PROVE  <<n, o>> \in RegistrationsOf(o)
      BY <3>2 DEF RegistrationsOf
    <3> QED
      BY <3>1, <3>2
  <2>2. (\E n \in Names : <<n, o>> \in entries) <=> \E n \in Names : n \in NamesOf(o)
    BY DEF IInv, Registrations
  <2>3. (\E n \in Names : n \in NamesOf(o)) <=>
          stage[o] \notin {"none", "building"} /\ o \notin copies
    BY DEF NamesOf, Names
  <2> QED
    BY <2>1, <2>2, <2>3
<1> QED
  BY <1>1, InductiveInvariant, PTL

(* A dump(), of the whole registry or of one object, never reaches a map    *)
(* that does not exist.                                                     *)
THEOREM DumpsFindTheirMaps == Spec => []DumpFindsMap
<1>1. IInv => DumpFindsMap
  <2> SUFFICES ASSUME IInv, NEW t \in Threads, pc[t] \in {"dumpCache", "dumpMap"}
               PROVE  stage[obj[t]] \notin {"none", "building"}
    BY DEF DumpFindsMap
  <2>1. goal[t] \in {"dump", "direct"} /\ obj[t] \in Objects
    BY DEF IInv, TypeOK, ThreadShape, Asking, Walking
  <2>2. CASE goal[t] = "dump"
    <3>1. PICK n \in Names : <<n, obj[t]>> \in entries
      BY <2>2 DEF IInv, Walks, Walking
    <3>2. n \in NamesOf(obj[t])
      BY <2>1, <3>1 DEF IInv, Registrations
    <3> QED
      BY <3>2 DEF NamesOf
  <2>3. CASE goal[t] = "direct"
    BY <2>3 DEF IInv, ObjectStages
  <2> QED
    BY <2>1, <2>2, <2>3
<1> QED
  BY <1>1, InductiveInvariant, PTL

(* The library takes the registry's mutex, _instanceMutex and the maps' in  *)
(* this order: where nobody dumps a map that another of the group holds by  *)
(* getMutex(), whoever holds the last mutex anybody there holds waits for   *)
(* nobody there.                                                            *)
THEOREM RegistryStuckOnlyByCallers == Spec => []StuckOnlyByCallers
<1>1. IInv => StuckOnlyByCallers
  <2> SUFFICES ASSUME IInv, NEW S \in SUBSET Threads, Stuck(S),
                      \A t, u \in S : t # u /\ pc[t] = "dumpMap" =>
                                         held[u] # obj[t]
               PROVE  FALSE
    BY DEF StuckOnlyByCallers
  <2>1. \A t \in S : pc[t] # "dumpMap"
    BY DEF Stuck, WaitsFor
  <2>2. \A t \in S : instanceMutex # t
    BY <2>1 DEF IInv, MutexHolders
  <2>3. \A t \in S : regMutex \in S /\ regMutex # t
    BY <2>1, <2>2 DEF Stuck, WaitsFor
  <2> QED
    BY <2>3 DEF Stuck
<1> QED
  BY <1>1, InductiveInvariant, PTL
=============================================================================
