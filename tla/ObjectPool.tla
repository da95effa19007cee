------------------------------ MODULE ObjectPool ------------------------------
(***************************************************************************)
(* A pool of reusable objects (ObjectPool.h) shared by several threads.    *)
(*                                                                         *)
(* Handles are RCPtrs, so copies of one may live on after release() and    *)
(* after the pool itself.  A thread holds at most one handle: as the owner *)
(* of the object, who has acquired it and will release() it, or as a mere  *)
(* holder of a copy.  The pool's operations are atomic under _mutex,       *)
(* except release(), which resets the object before it takes the mutex.    *)
(*                                                                         *)
(* Left to the callers, as the code does: an object is released once for   *)
(* each acquire(), nobody writes to it once its release() has begun, and   *)
(* the pool is destroyed while no call of it is under way.                 *)
(***************************************************************************)
EXTENDS RefCount, FiniteSets, SequencesExt

CONSTANTS
  Threads,
  InitialSize,    \* the constructor's initialSize
  IncrementStep,  \* _incrementStep
  Fresh, Used     \* what an object holds after reset() and after use

(* With a step of zero acquire() would take the front of an empty list.     *)
ASSUME StepAssumption == InitialSize \in Nat /\ IncrementStep \in Nat \ {0}

ASSUME FiniteAssumption == IsFiniteSet(Threads) /\ IsFiniteSet(Objects)
ASSUME ContentsAssumption == NoRow \notin {Fresh, Used}

VARIABLES
  heap,    \* the pooled objects and their reference counts
  exists,  \* whether the pool is constructed
  pool,    \* _pool, the free list
  handle,  \* the object each thread's handle refers to
  role     \* what each thread may do with it

vars == <<heap, exists, pool, handle, role>>

Roles == {"none", "owner", "releasing", "holder"}

TypeOK ==
  /\ heap \in [Objects -> [refCount : 0..(Cardinality(Threads) + 1),
                           row : {Fresh, Used, NoRow}]]
  /\ exists \in BOOLEAN
  /\ pool \in BoundedSeq(Objects, Cardinality(Objects))
  /\ handle \in [Threads -> Objects \cup {Null}]
  /\ role \in [Threads -> Roles]
  /\ ~exists => pool = <<>>
  /\ \A t \in Threads : role[t] = "none" <=> handle[t] = Null

Init ==
  /\ heap = EmptyHeap
  /\ exists = FALSE
  /\ pool = <<>>
  /\ handle = [t \in Threads |-> Null]
  /\ role = [t \in Threads |-> "none"]

(* Handle(new T()), pushed back: the objects of a batch, each counted once. *)
Allocate(h, batch) ==
  [o \in Objects |-> IF o \in Range(batch) THEN [refCount |-> 1, row |-> Fresh]
                                           ELSE h[o]]

(* n objects of storage not in use, in any order the allocator picks.       *)
Batches(h, n) ==
  {s \in [1..n -> {o \in Objects : ~Live(h, o)}] : IsInjective(s)}

ConstructPool ==
  /\ ~exists
  /\ \E batch \in Batches(heap, InitialSize) :
       /\ heap' = Allocate(heap, batch)
       /\ pool' = batch
  /\ exists' = TRUE
  /\ UNCHANGED <<handle, role>>

(* Mutant: destroying the pool deletes what it has handed out as well.      *)
MutantDestroyPool ==
  /\ exists
  /\ \A t \in Threads : role[t] # "releasing"
  /\ heap' = EmptyHeap
  /\ pool' = <<>>
  /\ exists' = FALSE
  /\ UNCHANGED <<handle, role>>

(* ~ObjectPool(): the free list's references go away.  Objects of which     *)
(* somebody kept a handle survive it.                                       *)
DestroyPool ==
  /\ exists
  /\ \A t \in Threads : role[t] # "releasing"
  /\ heap' = [o \in Objects |->
                IF Contains(pool, o) THEN RemoveReference(heap, o)[o] ELSE heap[o]]
  /\ pool' = <<>>
  /\ exists' = FALSE
  /\ UNCHANGED <<handle, role>>

(* Mutant: every acquire() grows the pool.                                  *)
MutantGrowLocked == Batches(heap, IncrementStep)

(* growLocked(), only when there is nothing left: the batches acquire() may *)
(* take the object from.                                                    *)
GrowLocked == IF pool = <<>> THEN Batches(heap, IncrementStep) ELSE {<<>>}

(* Mutant: the object is handed out and stays in the free list.             *)
MutantAcquire(t) ==
  /\ exists /\ role[t] = "none"
  /\ \E batch \in GrowLocked :
       LET free == pool \o batch IN
       /\ handle' = [handle EXCEPT ![t] = Head(free)]
       /\ pool' = free
       /\ heap' = AddReference(Allocate(heap, batch), Head(free))
  /\ role' = [role EXCEPT ![t] = "owner"]
  /\ UNCHANGED exists

(* acquire(): a copy of the front, which is then popped, so that its count  *)
(* goes up and down again.                                                  *)
Acquire(t) ==
  /\ exists /\ role[t] = "none"
  /\ \E batch \in GrowLocked :
       LET free == pool \o batch
           obj  == Head(free)
       IN  /\ handle' = [handle EXCEPT ![t] = obj]
           /\ pool' = Tail(free)
           /\ heap' = RemoveReference(AddReference(Allocate(heap, batch), obj), obj)
  /\ role' = [role EXCEPT ![t] = "owner"]
  /\ UNCHANGED exists

(* The object has an owner, who has not begun to give it back.              *)
InUse(o) == \E t \in Threads : handle[t] = o /\ role[t] = "owner"

(* Whoever has a handle may use the object while it is checked out.         *)
Write(t) ==
  /\ handle[t] # Null /\ InUse(handle[t])
  /\ heap' = [heap EXCEPT ![handle[t]].row = Used]
  /\ UNCHANGED <<exists, pool, handle, role>>

(* A copy of u's handle for t.                                              *)
Copy(t, u) ==
  /\ role[t] = "none" /\ handle[u] # Null
  /\ handle' = [handle EXCEPT ![t] = handle[u]]
  /\ role' = [role EXCEPT ![t] = "holder"]
  /\ heap' = AddReference(heap, handle[u])
  /\ UNCHANGED <<exists, pool>>

(* Mutant: the object is not reset.                                         *)
MutantBeginRelease(t) ==
  /\ exists /\ role[t] = "owner"
  /\ role' = [role EXCEPT ![t] = "releasing"]
  /\ UNCHANGED <<heap, exists, pool, handle>>

(* release(), outside the mutex: reset().  A null handle is returned from   *)
(* at once and changes nothing.                                             *)
BeginRelease(t) ==
  /\ exists /\ role[t] = "owner"
  /\ heap' = [heap EXCEPT ![handle[t]].row = Fresh]
  /\ role' = [role EXCEPT ![t] = "releasing"]
  /\ UNCHANGED <<exists, pool, handle>>

(* release(), under the mutex: the free list gets a reference of its own    *)
(* and the caller keeps the handle it passed.                               *)
EndRelease(t) ==
  /\ role[t] = "releasing"
  /\ pool' = Append(pool, handle[t])
  /\ heap' = AddReference(heap, handle[t])
  /\ role' = [role EXCEPT ![t] = "holder"]
  /\ UNCHANGED <<exists, handle>>

(* Mutant: the handle is let go of and still points to the object.          *)
MutantDropHandle(t) ==
  /\ role[t] \in {"owner", "holder"}
  /\ heap' = RemoveReference(heap, handle[t])
  /\ role' = [role EXCEPT ![t] = "none"]
  /\ UNCHANGED <<exists, pool, handle>>

(* A handle goes away: a holder's at any time, an owner's without release() *)
(* - after which the object never comes back.                               *)
DropHandle(t) ==
  /\ role[t] \in {"owner", "holder"}
  /\ heap' = RemoveReference(heap, handle[t])
  /\ handle' = [handle EXCEPT ![t] = Null]
  /\ role' = [role EXCEPT ![t] = "none"]
  /\ UNCHANGED <<exists, pool>>

Next ==
  \/ ConstructPool \/ DestroyPool
  \/ \E t \in Threads :
       \/ Acquire(t) \/ Write(t) \/ BeginRelease(t) \/ EndRelease(t) \/ DropHandle(t)
       \/ \E u \in Threads : Copy(t, u)

Spec == Init /\ [][Next]_vars

-----------------------------------------------------------------------------
(* Every object's count is the number of RCPtrs to it, in the free list and *)
(* in the threads' hands, and it exists exactly while there is one - through *)
(* growth, releases that race each other and the end of the pool.           *)
CountsAreExact ==
  \A o \in Objects :
    /\ heap[o].refCount = Cardinality({i \in DOMAIN pool : pool[i] = o})
                          + Cardinality({t \in Threads : handle[t] = o})
    /\ Live(heap, o) <=> heap[o].refCount > 0

(* acquire() never hands one object to two threads: an object is in the     *)
(* free list at most once, and neither there nor with a second owner while  *)
(* somebody owns it or is giving it back, whatever copies remain.           *)
OneOwner ==
  /\ IsInjective(pool)
  /\ \A t \in Threads : role[t] \in {"owner", "releasing"} =>
       /\ ~Contains(pool, handle[t])
       /\ \A u \in Threads \ {t} :
            handle[u] = handle[t] => role[u] = "holder"

(* What is made available again has been reset(): the free list holds fresh *)
(* objects only, although the reset happens before the mutex is taken and   *)
(* others still hold handles.                                               *)
AvailableIsReset == \A i \in DOMAIN pool : heap[pool[i]].row = Fresh

(* The objects in existence, in the free list or only in somebody's hands.  *)
LiveObjects == {o \in Objects : Live(heap, o)}

(* However often objects are acquired, released, copied, lost without       *)
(* release() and left over from earlier pools, there are never more of them *)
(* than one growth (ObjectPool.h:61) on top of what the other threads hold, *)
(* or one construction on top of what all of them do.                       *)
PoolStaysBounded ==
  \/ Cardinality(LiveObjects) <= Cardinality(Threads) - 1 + IncrementStep
  \/ Cardinality(LiveObjects) <= Cardinality(Threads) + InitialSize
=============================================================================
