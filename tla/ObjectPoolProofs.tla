-------------------------- MODULE ObjectPoolProofs --------------------------
(***************************************************************************)
(* Proofs about the object pool, for any finite numbers of threads and     *)
(* objects and any sizes.                                                  *)
(*                                                                         *)
(* The inductive invariant adds ReleasingIsReset to the checked ones: an   *)
(* object between its reset() and its return to the free list stays reset, *)
(* because OneOwner leaves nobody else who may write to it.  The reference *)
(* counts are stated with the free list's share as 0 or 1, which is what   *)
(* OneOwner makes of it.                                                   *)
(***************************************************************************)
EXTENDS ObjectPool, FiniteSetTheorems, TLAPS

Rows == {Fresh, Used, NoRow}
Heaps == [Objects -> [refCount : Nat, row : Rows]]
Pointers == Objects \cup {Null}

(* The threads whose handle, in f, points to o; f after t's was assigned p. *)
HoldersIn(f, o) == {t \in Threads : f[t] = o}
Redirect(f, t, p) == [f EXCEPT ![t] = p]
(* The references that one pointer, and that a free list, has to o.         *)
PointsTo(p, o) == IF p = o THEN 1 ELSE 0
Times(s, o) == IF Contains(s, o) THEN 1 ELSE 0

(* TypeOK but for the bounds, which follow from the counts.                 *)
Typed ==
  /\ heap \in Heaps
  /\ exists \in BOOLEAN
  /\ pool \in Seq(Objects)
  /\ handle \in [Threads -> Pointers]
  /\ role \in [Threads -> Roles]
  /\ ~exists => pool = <<>>
  /\ \A t \in Threads : role[t] = "none" <=> handle[t] = Null

CountsInPoolAndHands ==
  \A o \in Objects :
    /\ heap[o].refCount = Times(pool, o) + Cardinality(HoldersIn(handle, o))
    /\ Live(heap, o) <=> heap[o].refCount > 0

(* What a release() has reset and not yet put back is still reset, and the  *)
(* pool is still there.                                                     *)
ReleasingIsReset ==
  \A t \in Threads : role[t] = "releasing" =>
    exists /\ heap[handle[t]].row = Fresh

IInv ==
  /\ Typed
  /\ CountsInPoolAndHands
  /\ OneOwner
  /\ AvailableIsReset
  /\ ReleasingIsReset

-----------------------------------------------------------------------------
(* Finitely many threads hold an object, none when nobody's handle is it.   *)
LEMMA HoldersFinite ==
  ASSUME NEW f, NEW o
  PROVE  /\ IsFiniteSet(HoldersIn(f, o))
         /\ Cardinality(HoldersIn(f, o)) \in 0..Cardinality(Threads)
         /\ Cardinality(HoldersIn(f, o)) = 0 <=> \A t \in Threads : f[t] # o
<1>1. HoldersIn(f, o) \in SUBSET Threads
  BY DEF HoldersIn
<1>2. /\ IsFiniteSet(HoldersIn(f, o))
      /\ Cardinality(HoldersIn(f, o)) <= Cardinality(Threads)
  BY <1>1, FS_Subset, FiniteAssumption
<1>3. /\ Cardinality(Threads) \in Nat
      /\ Cardinality(HoldersIn(f, o)) \in Nat
  BY <1>2, FS_CardinalityType, FiniteAssumption
<1>4. Cardinality(HoldersIn(f, o)) = 0 <=> HoldersIn(f, o) = {}
  BY <1>2, FS_EmptySet
<1> QED
  BY <1>2, <1>3, <1>4 DEF HoldersIn

(* Redirecting one handle changes the number of holders by what it leaves   *)
(* and what it joins.                                                       *)
LEMMA HoldersUpdate ==
  ASSUME NEW f \in [Threads -> Pointers], NEW t \in Threads,
         NEW p \in Pointers, NEW o \in Objects
  PROVE  Cardinality(HoldersIn(Redirect(f, t, p), o)) =
           Cardinality(HoldersIn(f, o)) - PointsTo(f[t], o) + PointsTo(p, o)
<1> DEFINE others == HoldersIn(f, o) \ {t}
<1>1. IsFiniteSet(HoldersIn(f, o)) /\ Cardinality(HoldersIn(f, o)) \in Nat
  BY HoldersFinite
<1>2. t \in HoldersIn(f, o) <=> f[t] = o
  BY DEF HoldersIn
<1>3. /\ IsFiniteSet(others)
      /\ Cardinality(others) = Cardinality(HoldersIn(f, o)) - PointsTo(f[t], o)
  BY <1>1, <1>2, FS_RemoveElement DEF PointsTo
<1>4. HoldersIn(Redirect(f, t, p), o) = IF p = o THEN others \cup {t} ELSE others
  BY DEF HoldersIn, Redirect
<1>5. Cardinality(others \cup {t}) = Cardinality(others) + 1
  BY <1>3, FS_AddElement
<1>6. Cardinality(others) \in Nat
  BY <1>3, FS_CardinalityType
<1> QED
  BY <1>1, <1>3, <1>4, <1>5, <1>6 DEF PointsTo

(* An object has one place in a free list without duplicates, or none.      *)
LEMMA PlacesInPool ==
  ASSUME NEW s \in Seq(Objects), IsInjective(s), NEW o \in Objects
  PROVE  Cardinality({i \in DOMAIN s : s[i] = o}) = Times(s, o)
<1> DEFINE Places == {i \in DOMAIN s : s[i] = o}
<1>1. CASE Contains(s, o)
  <2>1. PICK i \in 1..Len(s) : s[i] = o
    BY <1>1 DEF Contains
  <2>2. Places = {i}
    BY <2>1 DEF IsInjective
  <2> QED
    BY <1>1, <2>2, FS_Singleton DEF Times
<1>2. CASE ~Contains(s, o)
  <2>1. Places = {}
    BY <1>2 DEF Contains
  <2> QED
    BY <1>2, <2>1, FS_EmptySet DEF Times
<1> QED
  BY <1>1, <1>2

(* What is left of a free list when its first object has been taken.        *)
LEMMA TailOfInjective ==
  ASSUME NEW s \in Seq(Objects), s # <<>>, IsInjective(s)
  PROVE  /\ Head(s) \in Objects
         /\ Tail(s) \in Seq(Objects) /\ IsInjective(Tail(s))
         /\ Contains(s, Head(s)) /\ ~Contains(Tail(s), Head(s))
         /\ \A o \in Objects :
              o # Head(s) => (Contains(Tail(s), o) <=> Contains(s, o))
<1>1. /\ Len(s) \in Nat /\ Len(s) >= 1 /\ DOMAIN s = 1..Len(s)
      /\ Head(s) = s[1] /\ Head(s) \in Objects
      /\ Tail(s) \in Seq(Objects) /\ Len(Tail(s)) = Len(s) - 1
      /\ DOMAIN Tail(s) = 1..(Len(s) - 1)
      /\ \A i \in 1..(Len(s) - 1) : Tail(s)[i] = s[i + 1]
  OBVIOUS
<1>2. IsInjective(Tail(s))
  BY <1>1 DEF IsInjective
<1>3. Contains(s, Head(s)) /\ ~Contains(Tail(s), Head(s))
  BY <1>1 DEF IsInjective, Contains
<1>4. ASSUME NEW o \in Objects, o # Head(s)
      PROVE  Contains(Tail(s), o) <=> Contains(s, o)
  <2>1. ASSUME NEW i \in 1..Len(s), s[i] = o
        PROVE  i - 1 \in 1..Len(Tail(s)) /\ Tail(s)[i - 1] = o
    BY <1>1, <1>4, <2>1
  <2>2. ASSUME NEW i \in 1..Len(Tail(s)), Tail(s)[i] = o
        PROVE  i + 1 \in 1..Len(s) /\ s[i + 1] = o
    BY <1>1, <2>2
  <2> QED
    BY <2>1, <2>2 DEF Contains
<1> QED
  BY <1>1, <1>2, <1>3, <1>4

(* What the reference counting of RefCount.h does to one object, and that   *)
(* it leaves the others alone.                                              *)
LEMMA AddingReference ==
  ASSUME NEW h \in Heaps, NEW p \in Objects
  PROVE  /\ AddReference(h, p) \in Heaps
         /\ \A o \in Objects :
              /\ AddReference(h, p)[o].refCount = h[o].refCount + PointsTo(p, o)
              /\ AddReference(h, p)[o].row = h[o].row
  BY RefCountAssumption DEF AddReference, Heaps, PointsTo

(* The same for a reference that goes away: the last one frees the object.  *)
LEMMA RemovingReference ==
  ASSUME NEW h \in Heaps, NEW p \in Objects, h[p].refCount > 0
  PROVE  /\ RemoveReference(h, p) \in Heaps
         /\ \A o \in Objects :
              /\ RemoveReference(h, p)[o].refCount = h[o].refCount - PointsTo(p, o)
              /\ RemoveReference(h, p)[o].row =
                   IF p = o /\ h[o].refCount = 1 THEN NoRow ELSE h[o].row
  BY RefCountAssumption DEF RemoveReference, Heaps, PointsTo, Freed, Rows

(* A reference that comes and goes changes nothing.                         *)
LEMMA AddThenRemove ==
  ASSUME NEW h \in Heaps, NEW p \in Objects, h[p].refCount > 0
  PROVE  RemoveReference(AddReference(h, p), p) = h
<1> DEFINE more == [h EXCEPT ![p].refCount = h[p].refCount + 1]
<1>1. h[p] \in [refCount : Nat, row : Rows]
  BY DEF Heaps
<1>2. /\ AddReference(h, p) = more
      /\ more[p].refCount = h[p].refCount + 1
  BY <1>1, RefCountAssumption DEF AddReference, Heaps
<1>3. RemoveReference(more, p) =
        [more EXCEPT ![p].refCount = h[p].refCount + 1 - 1]
  BY <1>1, <1>2, RefCountAssumption DEF RemoveReference
<1>4. [more EXCEPT ![p].refCount = h[p].refCount] = h
  BY <1>1 DEF Heaps
<1> QED
  BY <1>1, <1>2, <1>3, <1>4

(* The objects of a batch are distinct, were not in use, and are afterwards,*)
(* each counted once and reset.                                             *)
LEMMA BatchOf ==
  ASSUME heap \in Heaps, NEW n \in Nat, NEW b \in Batches(heap, n)
  PROVE  /\ b \in Seq(Objects) /\ Len(b) = n
         /\ IsInjective(b)
         /\ \A i \in DOMAIN b : ~Live(heap, b[i])
         /\ Allocate(heap, b) \in Heaps
         /\ \A o \in Objects :
              Allocate(heap, b)[o] = IF Contains(b, o)
                                       THEN [refCount |-> 1, row |-> Fresh]
                                       ELSE heap[o]
<1>1. /\ b \in [1..n -> {o \in Objects : ~Live(heap, o)}]
      /\ IsInjective(b)
  BY DEF Batches
<1>2. b \in Seq(Objects) /\ Len(b) = n /\ DOMAIN b = 1..n
  BY <1>1
<1>3. \A o \in Objects : o \in Range(b) <=> Contains(b, o)
  BY <1>2 DEF Range, Contains
<1> QED
  BY <1>1, <1>2, <1>3 DEF Allocate, Heaps, Rows

-----------------------------------------------------------------------------
(* The invariant holds before the pool exists.                              *)
LEMMA InitHolds ==
  Init => IInv
<1> SUFFICES ASSUME Init PROVE IInv
  OBVIOUS
<1>1. /\ heap \in Heaps
      /\ \A o \in Objects : heap[o].refCount = 0 /\ heap[o].row = NoRow
  BY DEF Init, Heaps, Rows, EmptyHeap, Freed
<1>2. pool \in Seq(Objects) /\ \A o \in Objects : ~Contains(pool, o)
  BY DEF Init, Contains
<1>3. Typed
  BY <1>1, <1>2 DEF Init, Typed, Pointers, Roles
<1>4. \A o \in Objects : Cardinality(HoldersIn(handle, o)) = 0
  BY HoldersFinite, RefCountAssumption DEF Init
<1>5. CountsInPoolAndHands
  <2> SUFFICES ASSUME NEW o \in Objects
               PROVE  /\ heap[o].refCount = Times(pool, o)
                                            + Cardinality(HoldersIn(handle, o))
                      /\ Live(heap, o) <=> heap[o].refCount > 0
    BY DEF CountsInPoolAndHands
  <2>1. Times(pool, o) = 0 /\ Cardinality(HoldersIn(handle, o)) = 0
    BY <1>2, <1>4 DEF Times
  <2>2. heap[o].refCount = 0 /\ heap[o].row = NoRow
    BY <1>1
  <2> QED
    BY <2>1, <2>2 DEF Live
<1>6. OneOwner /\ AvailableIsReset /\ ReleasingIsReset
  BY DEF Init, OneOwner, AvailableIsReset, ReleasingIsReset, IsInjective
<1> QED
  BY <1>3, <1>5, <1>6 DEF IInv

(* The constructor's objects are distinct, fresh and in nobody's hands.     *)
LEMMA ConstructPoolStep ==
  ASSUME IInv, ConstructPool
  PROVE  IInv'
<1>1. PICK batch \in Batches(heap, InitialSize) :
        heap' = Allocate(heap, batch) /\ pool' = batch
  BY DEF ConstructPool
<1>2. /\ batch \in Seq(Objects)
      /\ IsInjective(batch)
      /\ \A i \in DOMAIN batch : ~Live(heap, batch[i])
      /\ heap' \in Heaps
      /\ \A o \in Objects :
           heap'[o] = IF Contains(batch, o) THEN [refCount |-> 1, row |-> Fresh]
                                            ELSE heap[o]
  BY <1>1, BatchOf, StepAssumption DEF IInv, Typed
<1>3. pool = <<>> /\ exists' /\ UNCHANGED <<handle, role>>
  BY DEF ConstructPool, IInv, Typed
<1>4. Typed'
  BY <1>1, <1>2, <1>3 DEF IInv, Typed
<1>5. \A o \in Objects : Cardinality(HoldersIn(handle, o)) \in Nat
  BY HoldersFinite
<1>6. \A o \in Objects : Contains(batch, o) =>
        Cardinality(HoldersIn(handle, o)) = 0
  BY <1>2, <1>3, <1>5
     DEF IInv, CountsInPoolAndHands, Contains, Times, Typed, Heaps
<1>7. CountsInPoolAndHands'
  BY <1>1, <1>2, <1>3, <1>5, <1>6, ContentsAssumption
     DEF IInv, CountsInPoolAndHands, Times, Live, Contains
<1>8. \A t \in Threads : handle[t] # Null => ~Contains(batch, handle[t])
  BY <1>6, HoldersFinite DEF IInv, Typed, Pointers
<1>9. OneOwner'
  BY <1>1, <1>2, <1>3, <1>8 DEF IInv, Typed, OneOwner
<1>10. AvailableIsReset'
  BY <1>1, <1>2 DEF AvailableIsReset, Contains
<1>11. ReleasingIsReset'
  BY <1>2, <1>3, <1>8 DEF IInv, ReleasingIsReset, Typed, Pointers
<1> QED
  BY <1>4, <1>7, <1>9, <1>10, <1>11 DEF IInv

(* Destroying the pool takes away the free list's references only.          *)
LEMMA DestroyPoolStep ==
  ASSUME IInv, DestroyPool
  PROVE  IInv'
<1>1. /\ pool' = <<>> /\ exists' = FALSE /\ handle' = handle /\ role' = role
      /\ \A t \in Threads : role[t] # "releasing"
  BY DEF DestroyPool
<1>2. ASSUME NEW o \in Objects, ~Contains(pool, o)
      PROVE  heap'[o] = heap[o]
  BY <1>2 DEF DestroyPool
<1>3. ASSUME NEW o \in Objects, Contains(pool, o)
      PROVE  /\ heap[o].refCount > 0
             /\ heap'[o] \in [refCount : Nat, row : Rows]
             /\ heap'[o].refCount = heap[o].refCount - 1
             /\ heap'[o].row = IF heap[o].refCount = 1 THEN NoRow
                                                      ELSE heap[o].row
  <2>1. Cardinality(HoldersIn(handle, o)) \in Nat /\ Times(pool, o) = 1
    BY <1>3, HoldersFinite DEF Times
  <2>2. heap[o].refCount > 0
    BY <2>1 DEF IInv, CountsInPoolAndHands
  <2>3. heap'[o] = RemoveReference(heap, o)[o]
    BY <1>3 DEF DestroyPool
  <2>4. /\ RemoveReference(heap, o) \in Heaps
        /\ RemoveReference(heap, o)[o].refCount = heap[o].refCount - PointsTo(o, o)
        /\ RemoveReference(heap, o)[o].row =
             IF o = o /\ heap[o].refCount = 1 THEN NoRow ELSE heap[o].row
    BY <2>2, RemovingReference DEF IInv, Typed
  <2>5. RemoveReference(heap, o)[o] \in [refCount : Nat, row : Rows]
    BY <2>4 DEF Heaps
  <2> QED
    BY <2>2, <2>3, <2>4, <2>5 DEF PointsTo
<1>4. pool' \in Seq(Objects) /\ \A o \in Objects : ~Contains(pool', o)
  BY <1>1 DEF Contains
<1>5. Typed'
  <2>1. heap' = [o \in Objects |-> heap'[o]]
    BY DEF DestroyPool
  <2>2. \A o \in Objects : heap'[o] \in [refCount : Nat, row : Rows]
    BY <1>2, <1>3 DEF IInv, Typed, Heaps
  <2>3. heap' \in Heaps
    BY <2>1, <2>2 DEF Heaps
  <2> QED
    BY <1>1, <1>4, <2>3 DEF IInv, Typed
<1>6. CountsInPoolAndHands'
  <2> SUFFICES ASSUME NEW o \in Objects
               PROVE  /\ heap'[o].refCount = Times(pool', o)
                                            + Cardinality(HoldersIn(handle', o))
                      /\ Live(heap', o) <=> heap'[o].refCount > 0
    BY DEF CountsInPoolAndHands
  <2>1. Cardinality(HoldersIn(handle, o)) \in Nat /\ handle' = handle
    BY <1>1, HoldersFinite
  <2>2. Times(pool', o) = 0
    BY <1>4 DEF Times
  <2>3. CASE Contains(pool, o)
    BY <1>3, <2>1, <2>2, <2>3 DEF IInv, CountsInPoolAndHands, Times, Live
  <2>4. CASE ~Contains(pool, o)
    BY <1>2, <2>1, <2>2, <2>4 DEF IInv, CountsInPoolAndHands, Times, Live
  <2> QED
    BY <2>3, <2>4
<1>7. AvailableIsReset' /\ ReleasingIsReset'
  BY <1>1 DEF AvailableIsReset, ReleasingIsReset
<1>8. OneOwner'
  <2>1. IsInjective(pool') /\ \A p : ~Contains(pool', p)
    BY <1>1 DEF IsInjective, Contains
  <2> QED
    BY <1>1, <2>1 DEF IInv, OneOwner
<1> QED
  BY <1>5, <1>6, <1>7, <1>8 DEF IInv

(* The free list acquire() takes the object from, and the heap with it.     *)
LEMMA FreeList ==
  ASSUME IInv, NEW batch \in GrowLocked
  PROVE  LET free == pool \o batch
             h == Allocate(heap, batch)
         IN /\ free \in Seq(Objects) /\ free # <<>> /\ IsInjective(free)
            /\ h \in Heaps
            /\ \A o \in Objects :
                 /\ h[o].refCount = Times(free, o)
                                    + Cardinality(HoldersIn(handle, o))
                 /\ h[o].row # NoRow <=> h[o].refCount > 0
                 /\ Contains(free, o) => h[o].row = Fresh
                 /\ ~Contains(free, o) => h[o] = heap[o]
                 /\ Contains(free, o) =>
                      \A t \in Threads :
                        handle[t] = o => role[t] \notin {"owner", "releasing"}
<1>1. \A o \in Objects : Cardinality(HoldersIn(handle, o)) \in Nat
  BY HoldersFinite
<1>2. CASE pool # <<>>
  <2>1. batch = <<>>
    BY <1>2 DEF GrowLocked
  <2>2. pool \o batch = pool
    BY <2>1 DEF IInv, Typed
  <2>3. Allocate(heap, batch) = heap
    BY <2>1 DEF Allocate, Range, IInv, Typed, Heaps
  <2>4. \A o \in Objects : Contains(pool, o) => heap[o].row = Fresh
    BY DEF IInv, AvailableIsReset, Contains, Typed
  <2> QED
    BY <1>2, <2>2, <2>3, <2>4
       DEF IInv, Typed, CountsInPoolAndHands, OneOwner, Live
<1>3. CASE pool = <<>>
  <2>1. batch \in Batches(heap, IncrementStep)
    BY <1>3 DEF GrowLocked
  <2>2. /\ batch \in Seq(Objects) /\ Len(batch) = IncrementStep
        /\ IsInjective(batch)
        /\ \A i \in DOMAIN batch : ~Live(heap, batch[i])
        /\ Allocate(heap, batch) \in Heaps
        /\ \A o \in Objects :
             Allocate(heap, batch)[o] = IF Contains(batch, o)
                                          THEN [refCount |-> 1, row |-> Fresh]
                                          ELSE heap[o]
    BY <2>1, BatchOf, StepAssumption DEF IInv, Typed
  <2>3. pool \o batch = batch /\ batch # <<>>
    BY <1>3, <2>2, StepAssumption
  <2>4. \A o \in Objects : ~Contains(pool, o)
    BY <1>3 DEF Contains
  <2>5. ASSUME NEW o \in Objects, Contains(batch, o)
        PROVE  Cardinality(HoldersIn(handle, o)) = 0
    <3>1. ~Live(heap, o)
      BY <2>2, <2>5 DEF Contains
    <3>2. heap[o].refCount \in Nat /\ ~(heap[o].refCount > 0)
      BY <3>1 DEF IInv, CountsInPoolAndHands, Typed, Heaps
    <3>3. Times(pool, o) = 0
      BY <2>4 DEF Times
    <3> QED
      BY <1>1, <3>2, <3>3 DEF IInv, CountsInPoolAndHands
  <2>6. \A o \in Objects, t \in Threads :
          Contains(batch, o) => handle[t] # o
    BY <2>5, HoldersFinite
  <2> QED
    BY <1>1, <2>2, <2>3, <2>4, <2>5, <2>6, ContentsAssumption
       DEF IInv, CountsInPoolAndHands, Live, Times
<1> QED
  BY <1>2, <1>3

(* The object acquire() hands out had no owner, and is out of the free list. *)
LEMMA AcquireStep ==
  ASSUME IInv, NEW t \in Threads, Acquire(t)
  PROVE  IInv'
<1>1. PICK batch \in GrowLocked :
        LET free == pool \o batch
            obj  == Head(free)
        IN /\ handle' = [handle EXCEPT ![t] = obj]
           /\ pool' = Tail(free)
           /\ heap' = RemoveReference(AddReference(Allocate(heap, batch), obj), obj)
  BY DEF Acquire
<1> DEFINE free == pool \o batch
           obj == Head(free)
           h == Allocate(heap, batch)
<1>2. /\ free \in Seq(Objects) /\ free # <<>> /\ IsInjective(free)
      /\ h \in Heaps
      /\ \A o \in Objects :
           /\ h[o].refCount = Times(free, o) + Cardinality(HoldersIn(handle, o))
           /\ h[o].row # NoRow <=> h[o].refCount > 0
           /\ Contains(free, o) => h[o].row = Fresh
           /\ ~Contains(free, o) => h[o] = heap[o]
           /\ Contains(free, o) =>
                \A u \in Threads :
                  handle[u] = o => role[u] \notin {"owner", "releasing"}
  BY FreeList
<1>3. /\ exists /\ exists' = exists /\ role[t] = "none" /\ handle[t] = Null
      /\ role' = [role EXCEPT ![t] = "owner"]
  BY DEF Acquire, IInv, Typed
<1>4. /\ handle' = Redirect(handle, t, obj)
      /\ pool' = Tail(free)
      /\ heap' = RemoveReference(AddReference(h, obj), obj)
  BY <1>1 DEF Redirect
<1> HIDE DEF free, h
<1>5. /\ obj \in Objects /\ obj # Null
      /\ Tail(free) \in Seq(Objects) /\ IsInjective(Tail(free))
      /\ Contains(free, obj) /\ ~Contains(Tail(free), obj)
      /\ \A o \in Objects : o # obj => (Contains(Tail(free), o) <=> Contains(free, o))
  BY <1>2, TailOfInjective, RefCountAssumption
<1> HIDE DEF obj
<1>6. \A o \in Objects : Cardinality(HoldersIn(handle, o)) \in Nat
  BY HoldersFinite
<1>7. heap' = h
  <2>1. h[obj].refCount > 0
    BY <1>2, <1>5, <1>6 DEF Times
  <2> QED
    BY <1>2, <1>4, <1>5, <2>1, AddThenRemove
<1>8. Typed'
  BY <1>2, <1>3, <1>4, <1>5, <1>7
     DEF IInv, Typed, Redirect, Pointers, Roles
<1>9. CountsInPoolAndHands'
  <2> SUFFICES ASSUME NEW o \in Objects
               PROVE  h[o].refCount = Times(pool', o)
                                      + Cardinality(HoldersIn(handle', o))
    BY <1>2, <1>7 DEF CountsInPoolAndHands, Live
  <2>1. h[o].refCount = Times(free, o) + Cardinality(HoldersIn(handle, o))
    BY <1>2
  <2>2. Cardinality(HoldersIn(handle', o)) =
          Cardinality(HoldersIn(handle, o)) + PointsTo(obj, o)
    <3>1. handle \in [Threads -> Pointers] /\ obj \in Pointers
      BY <1>5 DEF IInv, Typed, Pointers
    <3>2. PointsTo(handle[t], o) = 0 /\ PointsTo(obj, o) \in {0, 1}
      BY <1>3, RefCountAssumption DEF PointsTo
    <3>3. Cardinality(HoldersIn(Redirect(handle, t, obj), o)) =
            Cardinality(HoldersIn(handle, o)) - PointsTo(handle[t], o)
                                              + PointsTo(obj, o)
      BY <3>1, HoldersUpdate
    <3> QED
      BY <1>4, <1>6, <3>2, <3>3
  <2>3. Times(free, o) = Times(pool', o) + PointsTo(obj, o)
    BY <1>4, <1>5 DEF Times, PointsTo
  <2> QED
    BY <1>6, <2>1, <2>2, <2>3 DEF Times, PointsTo
<1>10. OneOwner'
  <2>1. \A u \in Threads : handle[u] = obj => role[u] \notin {"owner", "releasing"}
    BY <1>2, <1>5
  <2>2. ASSUME NEW u \in Threads \ {t}, role[u] \in {"owner", "releasing"}
        PROVE  /\ ~Contains(pool', handle[u])
               /\ handle[u] # obj
               /\ handle[u] \in Objects
    <3>1. handle[u] \in Objects
      BY <2>2 DEF IInv, Typed, Pointers
    <3>2. ~Contains(free, handle[u])
      BY <1>2, <2>2, <3>1
    <3> QED
      BY <1>4, <1>5, <2>1, <2>2, <3>1, <3>2
  <2>3. \A u \in Threads \ {t} :
          handle[u] = obj => role[u] = "holder"
    BY <1>5, <2>1 DEF IInv, Typed, Roles
  <2> QED
    BY <1>3, <1>4, <1>5, <2>2, <2>3 DEF IInv, Typed, OneOwner, Redirect
<1>11. AvailableIsReset'
  <2>1. \A i \in DOMAIN pool' :
          /\ Contains(free, pool'[i])
          /\ pool'[i] \in Objects
    BY <1>2, <1>4 DEF Contains
  <2> QED
    BY <1>2, <1>7, <2>1 DEF AvailableIsReset
<1>12. ReleasingIsReset'
  <2> SUFFICES ASSUME NEW u \in Threads, role[u] = "releasing", u # t
               PROVE  exists /\ h[handle[u]].row = Fresh
    BY <1>3, <1>4, <1>7 DEF ReleasingIsReset, IInv, Typed, Redirect
  <2>1. handle[u] \in Objects /\ heap[handle[u]].row = Fresh
    BY DEF IInv, Typed, Pointers, ReleasingIsReset
  <2>2. ~Contains(free, handle[u])
    BY <1>2, <2>1
  <2> QED
    BY <1>2, <1>3, <2>1, <2>2
<1> QED
  BY <1>8, <1>9, <1>10, <1>11, <1>12 DEF IInv

(* A thread that has a handle keeps its object in existence.                *)
LEMMA HandleIsLive ==
  ASSUME IInv, NEW t \in Threads, handle[t] # Null
  PROVE  /\ handle[t] \in Objects
         /\ heap[handle[t]].refCount > Times(pool, handle[t])
         /\ Times(pool, handle[t]) \in {0, 1}
         /\ Live(heap, handle[t])
<1>1. handle[t] \in Objects
  BY DEF IInv, Typed, Pointers
<1>2. /\ Cardinality(HoldersIn(handle, handle[t])) \in Nat
      /\ Cardinality(HoldersIn(handle, handle[t])) # 0
  BY HoldersFinite
<1>3. Times(pool, handle[t]) \in {0, 1}
  BY DEF Times
<1> QED
  BY <1>1, <1>2, <1>3 DEF IInv, CountsInPoolAndHands

(* An assignment to an object's row, to other contents than freed storage.  *)
LEMMA RowUpdate ==
  ASSUME IInv, NEW p \in Objects, Live(heap, p), NEW r \in {Fresh, Used},
         heap' = [heap EXCEPT ![p].row = r], UNCHANGED <<pool, handle>>
  PROVE  /\ heap' \in Heaps
         /\ \A o \in Objects : heap'[o].row = IF o = p THEN r ELSE heap[o].row
         /\ CountsInPoolAndHands'
<1>1. /\ heap' \in Heaps
      /\ \A o \in Objects :
           /\ heap'[o].refCount = heap[o].refCount
           /\ heap'[o].row = IF o = p THEN r ELSE heap[o].row
  BY DEF IInv, Typed, Heaps, Rows
<1>2. r # NoRow
  BY ContentsAssumption
<1> QED
  BY <1>1, <1>2 DEF IInv, CountsInPoolAndHands, Live

(* A write touches no object that is available or being released.           *)
LEMMA WriteStep ==
  ASSUME IInv, NEW t \in Threads, Write(t)
  PROVE  IInv'
<1>1. /\ UNCHANGED <<exists, pool, handle, role>>
      /\ handle[t] # Null
      /\ heap' = [heap EXCEPT ![handle[t]].row = Used]
  BY DEF Write
<1>2. PICK u \in Threads : handle[u] = handle[t] /\ role[u] = "owner"
  BY DEF Write, InUse
<1>3. handle[t] \in Objects /\ Live(heap, handle[t])
  BY <1>1, HandleIsLive
<1>4. /\ heap' \in Heaps
      /\ \A o \in Objects :
           heap'[o].row = IF o = handle[t] THEN Used ELSE heap[o].row
      /\ CountsInPoolAndHands'
  BY <1>1, <1>3, RowUpdate
<1>5. Typed'
  <2>1. heap' \in Heaps
    BY <1>4
  <2> QED
    BY <1>1, <2>1 DEF IInv, Typed
<1>6. OneOwner'
  BY <1>1 DEF IInv, OneOwner
<1>7. AvailableIsReset'
  <2>1. ~Contains(pool, handle[t])
    BY <1>2 DEF IInv, OneOwner
  <2>2. \A i \in DOMAIN pool : pool[i] \in Objects /\ pool[i] # handle[t]
    BY <2>1 DEF Contains, IInv, Typed
  <2> QED
    BY <1>1, <1>4, <2>2 DEF IInv, AvailableIsReset
<1>8. ReleasingIsReset'
  <2>1. ASSUME NEW v \in Threads, role[v] = "releasing"
        PROVE  handle[v] # handle[t] /\ handle[v] \in Objects
    BY <1>2, <2>1 DEF IInv, OneOwner, Typed, Pointers
  <2> QED
    BY <1>1, <1>4, <2>1 DEF IInv, ReleasingIsReset
<1> QED
  BY <1>4, <1>5, <1>6, <1>7, <1>8 DEF IInv

(* A copy of a handle makes a holder, not an owner.                         *)
LEMMA CopyStep ==
  ASSUME IInv, NEW t \in Threads, NEW u \in Threads, Copy(t, u)
  PROVE  IInv'
<1>1. /\ role[t] = "none" /\ handle[u] # Null
      /\ handle' = Redirect(handle, t, handle[u])
      /\ role' = [role EXCEPT ![t] = "holder"]
      /\ exists' = exists /\ pool' = pool
      /\ heap' = AddReference(heap, handle[u])
  BY DEF Copy, Redirect
<1>2. /\ handle[u] \in Objects /\ Live(heap, handle[u]) /\ handle[t] = Null
      /\ heap \in Heaps
      /\ role[u] # "none"
  BY <1>1, HandleIsLive DEF IInv, Typed
<1>3. /\ heap' \in Heaps
      /\ \A o \in Objects :
           /\ heap'[o].refCount = heap[o].refCount + PointsTo(handle[u], o)
           /\ heap'[o].row = heap[o].row
  BY <1>1, <1>2, AddingReference
<1>4. Typed'
  <2>1. handle' \in [Threads -> Pointers] /\ role' \in [Threads -> Roles]
    BY <1>1, <1>2 DEF IInv, Typed, Redirect, Pointers, Roles
  <2>2. \A v \in Threads : role'[v] = "none" <=> handle'[v] = Null
    BY <1>1, <1>2 DEF IInv, Typed, Redirect
  <2> QED
    BY <1>1, <1>3, <2>1, <2>2 DEF IInv, Typed
<1>5. CountsInPoolAndHands'
  <2> SUFFICES ASSUME NEW o \in Objects
               PROVE  /\ heap'[o].refCount = Times(pool', o)
                                            + Cardinality(HoldersIn(handle', o))
                      /\ Live(heap', o) <=> heap'[o].refCount > 0
    BY DEF CountsInPoolAndHands
  <2>1. Cardinality(HoldersIn(handle, o)) \in Nat
    BY HoldersFinite
  <2>2. Cardinality(HoldersIn(handle', o)) =
          Cardinality(HoldersIn(handle, o)) + PointsTo(handle[u], o)
    BY <1>1, <1>2, <2>1, HoldersUpdate, RefCountAssumption
       DEF IInv, Typed, Pointers, PointsTo
  <2>3. Times(pool', o) = Times(pool, o) /\ Times(pool, o) \in {0, 1}
    BY <1>1 DEF Times
  <2>4. PointsTo(handle[u], o) \in {0, 1}
        /\ (PointsTo(handle[u], o) = 1 => Live(heap, o))
    BY <1>2 DEF PointsTo
  <2>5. Live(heap', o) <=> Live(heap, o)
    BY <1>3 DEF Live
  <2> QED
    BY <1>3, <2>1, <2>2, <2>3, <2>4, <2>5 DEF IInv, CountsInPoolAndHands
<1>6. OneOwner'
  BY <1>1, <1>2 DEF IInv, Typed, OneOwner, Redirect
<1>7. AvailableIsReset'
  BY <1>1, <1>3 DEF IInv, Typed, AvailableIsReset
<1>8. ReleasingIsReset'
  <2>1. ASSUME NEW v \in Threads, role'[v] = "releasing"
        PROVE  role[v] = "releasing" /\ handle'[v] = handle[v]
               /\ handle[v] \in Objects
    BY <1>1, <2>1 DEF IInv, Typed, Redirect, Pointers
  <2> QED
    BY <1>1, <1>3, <2>1 DEF IInv, ReleasingIsReset
<1> QED
  BY <1>4, <1>5, <1>6, <1>7, <1>8 DEF IInv

(* The reset: the owner's object is fresh and no longer writable.           *)
LEMMA BeginReleaseStep ==
  ASSUME IInv, NEW t \in Threads, BeginRelease(t)
  PROVE  IInv'
<1>1. /\ exists /\ role[t] = "owner"
      /\ heap' = [heap EXCEPT ![handle[t]].row = Fresh]
      /\ role' = [role EXCEPT ![t] = "releasing"]
      /\ exists' = exists /\ pool' = pool /\ handle' = handle
  BY DEF BeginRelease
<1>2. handle[t] \in Objects /\ Live(heap, handle[t])
  BY <1>1, HandleIsLive DEF IInv, Typed
<1>3. /\ heap' \in Heaps
      /\ \A o \in Objects :
           heap'[o].row = IF o = handle[t] THEN Fresh ELSE heap[o].row
      /\ CountsInPoolAndHands'
  BY <1>1, <1>2, RowUpdate
<1>4. Typed'
  <2>1. heap' \in Heaps
    BY <1>3
  <2> QED
    BY <1>1, <2>1 DEF IInv, Typed, Roles
<1>5. OneOwner'
  BY <1>1 DEF IInv, Typed, OneOwner
<1>6. AvailableIsReset'
  BY <1>1, <1>3 DEF IInv, Typed, AvailableIsReset
<1>7. ReleasingIsReset'
  <2>1. ASSUME NEW v \in Threads, v # t, role'[v] = "releasing"
        PROVE  role[v] = "releasing" /\ handle[v] \in Objects
    BY <1>1, <2>1 DEF IInv, Typed, Pointers
  <2> QED
    BY <1>1, <1>2, <1>3, <2>1 DEF IInv, ReleasingIsReset
<1> QED
  BY <1>3, <1>4, <1>5, <1>6, <1>7 DEF IInv

(* The object goes back, fresh, and only copies of its handle remain.       *)
LEMMA EndReleaseStep ==
  ASSUME IInv, NEW t \in Threads, EndRelease(t)
  PROVE  IInv'
<1>1. /\ role[t] = "releasing"
      /\ pool' = Append(pool, handle[t])
      /\ heap' = AddReference(heap, handle[t])
      /\ role' = [role EXCEPT ![t] = "holder"]
      /\ exists' = exists /\ handle' = handle
  BY DEF EndRelease
<1>2. /\ handle[t] \in Objects /\ Live(heap, handle[t])
      /\ exists /\ heap[handle[t]].row = Fresh
      /\ ~Contains(pool, handle[t])
      /\ heap \in Heaps
      /\ pool \in Seq(Objects) /\ IsInjective(pool)
  BY <1>1, HandleIsLive DEF IInv, Typed, ReleasingIsReset, OneOwner
<1>3. /\ heap' \in Heaps
      /\ \A o \in Objects :
           /\ heap'[o].refCount = heap[o].refCount + PointsTo(handle[t], o)
           /\ heap'[o].row = heap[o].row
  BY <1>1, <1>2, AddingReference
<1>4. /\ pool' \in Seq(Objects) /\ IsInjective(pool')
      /\ \A o \in Objects :
           Contains(pool', o) <=> Contains(pool, o) \/ o = handle[t]
  <2> DEFINE p == handle[t]
  <2>1. p \in Objects
    BY <1>2
  <2>2. /\ pool' = Append(pool, p)
        /\ Len(pool') = Len(pool) + 1
        /\ DOMAIN pool' = 1..(Len(pool) + 1)
        /\ pool'[Len(pool) + 1] = p
        /\ \A i \in 1..Len(pool) : pool'[i] = pool[i]
        /\ pool' \in Seq(Objects)
    BY <1>1, <1>2
  <2>3. \A i \in 1..Len(pool) : pool[i] # p
    BY <1>2 DEF Contains
  <2> HIDE DEF p
  <2>4. IsInjective(pool')
    BY <1>2, <2>2, <2>3 DEF IsInjective
  <2>5. ASSUME NEW o \in Objects
        PROVE  Contains(pool', o) <=> Contains(pool, o) \/ o = p
    <3>1. CASE o = p
      BY <1>2, <2>2, <3>1 DEF Contains
    <3>2. CASE o # p
      BY <1>2, <2>2, <3>2 DEF Contains
    <3> QED
      BY <3>1, <3>2
  <2> QED
    BY <2>2, <2>4, <2>5 DEF p
<1>5. Typed'
  BY <1>1, <1>2, <1>3, <1>4 DEF IInv, Typed, Roles
<1>6. CountsInPoolAndHands'
  <2> SUFFICES ASSUME NEW o \in Objects
               PROVE  /\ heap'[o].refCount = Times(pool', o)
                                            + Cardinality(HoldersIn(handle', o))
                      /\ Live(heap', o) <=> heap'[o].refCount > 0
    BY DEF CountsInPoolAndHands
  <2>1. Cardinality(HoldersIn(handle, o)) \in Nat /\ handle' = handle
    BY <1>1, HoldersFinite
  <2>2. /\ Times(pool', o) = Times(pool, o) + PointsTo(handle[t], o)
        /\ Times(pool, o) \in {0, 1}
    BY <1>2, <1>4 DEF Times, PointsTo
  <2>3. /\ PointsTo(handle[t], o) \in {0, 1}
        /\ PointsTo(handle[t], o) = 1 => Live(heap, o)
    BY <1>2 DEF PointsTo
  <2>4. Live(heap', o) <=> Live(heap, o)
    BY <1>3 DEF Live
  <2> QED
    BY <1>3, <2>1, <2>2, <2>3, <2>4 DEF IInv, CountsInPoolAndHands
<1>7. OneOwner'
  <2>1. ASSUME NEW u \in Threads, role'[u] \in {"owner", "releasing"}
        PROVE  /\ u # t /\ role[u] = role'[u]
               /\ handle[u] \in Objects /\ handle[u] # handle[t]
    BY <1>1, <2>1 DEF IInv, Typed, OneOwner, Pointers
  <2> QED
    BY <1>1, <1>4, <2>1 DEF IInv, Typed, OneOwner
<1>8. AvailableIsReset'
  BY <1>1, <1>2, <1>3 DEF IInv, AvailableIsReset
<1>9. ReleasingIsReset'
  <2>1. ASSUME NEW v \in Threads, role'[v] = "releasing"
        PROVE  role[v] = "releasing" /\ handle[v] \in Objects
    BY <1>1, <2>1 DEF IInv, Typed, Pointers
  <2> QED
    BY <1>1, <1>3, <2>1 DEF IInv, ReleasingIsReset
<1> QED
  BY <1>5, <1>6, <1>7, <1>8, <1>9 DEF IInv

(* A handle that goes away frees its object only if it was the last pointer. *)
LEMMA DropHandleStep ==
  ASSUME IInv, NEW t \in Threads, DropHandle(t)
  PROVE  IInv'
<1> DEFINE p == handle[t]
<1>1. /\ role[t] \in {"owner", "holder"}
      /\ heap' = RemoveReference(heap, p)
      /\ handle' = Redirect(handle, t, Null)
      /\ role' = [role EXCEPT ![t] = "none"]
      /\ exists' = exists /\ pool' = pool
  BY DEF DropHandle, Redirect
<1>2. /\ p \in Objects /\ heap[p].refCount > Times(pool, p)
      /\ Times(pool, p) \in {0, 1} /\ heap \in Heaps
  BY <1>1, HandleIsLive DEF IInv, Typed
<1>3. heap[p].refCount > 0
  BY <1>2 DEF Heaps
<1>4. /\ heap' \in Heaps
      /\ \A o \in Objects :
           /\ heap'[o].refCount = heap[o].refCount - PointsTo(p, o)
           /\ heap'[o].row = IF p = o /\ heap[o].refCount = 1
                               THEN NoRow ELSE heap[o].row
  BY <1>1, <1>2, <1>3, RemovingReference
<1>5. Typed'
  <2>1. handle' \in [Threads -> Pointers] /\ role' \in [Threads -> Roles]
    BY <1>1 DEF IInv, Typed, Redirect, Pointers, Roles
  <2>2. \A v \in Threads : role'[v] = "none" <=> handle'[v] = Null
    BY <1>1 DEF IInv, Typed, Redirect
  <2> QED
    BY <1>1, <1>4, <2>1, <2>2 DEF IInv, Typed
<1>6. CountsInPoolAndHands'
  <2> SUFFICES ASSUME NEW o \in Objects
               PROVE  /\ heap'[o].refCount = Times(pool', o)
                                            + Cardinality(HoldersIn(handle', o))
                      /\ Live(heap', o) <=> heap'[o].refCount > 0
    BY DEF CountsInPoolAndHands
  <2>1. Cardinality(HoldersIn(handle, o)) \in Nat
    BY HoldersFinite
  <2>2. /\ handle \in [Threads -> Pointers] /\ Null \in Pointers
        /\ PointsTo(Null, o) = 0 /\ PointsTo(p, o) \in {0, 1}
    BY RefCountAssumption DEF IInv, Typed, Pointers, PointsTo
  <2>3. Cardinality(HoldersIn(Redirect(handle, t, Null), o)) =
          Cardinality(HoldersIn(handle, o)) - PointsTo(p, o) + PointsTo(Null, o)
    BY <2>2, HoldersUpdate
  <2>4. Times(pool', o) = Times(pool, o)
    BY <1>1
  <2>5. heap[o].refCount \in Nat /\ Times(pool, o) \in {0, 1}
    BY <1>2 DEF Heaps, Times
  <2>6. heap'[o].refCount = Times(pool', o) + Cardinality(HoldersIn(handle', o))
    BY <1>1, <1>4, <2>1, <2>2, <2>3, <2>4, <2>5 DEF IInv, CountsInPoolAndHands
  <2>7. Live(heap', o) <=> heap'[o].refCount > 0
    <3>1. CASE p = o
      BY <1>3, <1>4, <2>5, <3>1 DEF IInv, CountsInPoolAndHands, Live, PointsTo
    <3>2. CASE p # o
      BY <1>4, <2>5, <3>2 DEF IInv, CountsInPoolAndHands, Live, PointsTo
    <3> QED
      BY <3>1, <3>2
  <2> QED
    BY <2>6, <2>7
<1>7. OneOwner'
  BY <1>1 DEF IInv, Typed, OneOwner, Redirect
<1>8. AvailableIsReset'
  <2>1. ASSUME NEW i \in DOMAIN pool
        PROVE  /\ pool[i] \in Objects
               /\ p = pool[i] => heap[p].refCount # 1
    BY <1>2 DEF IInv, Typed, Contains, Times
  <2> QED
    BY <1>1, <1>4, <2>1 DEF IInv, AvailableIsReset
<1>9. ReleasingIsReset'
  <2>1. ASSUME NEW v \in Threads, role'[v] = "releasing"
        PROVE  /\ v # t /\ role[v] = "releasing" /\ handle'[v] = handle[v]
               /\ handle[v] \in Objects
    BY <1>1, <2>1 DEF IInv, Typed, Redirect, Pointers
  <2>2. ASSUME NEW v \in Threads, role'[v] = "releasing", handle[v] = p
        PROVE  heap[p].refCount # 1
    <3>1. v # t /\ v \in HoldersIn(handle, p) /\ t \in HoldersIn(handle, p)
      BY <2>1, <2>2 DEF HoldersIn
    <3>2. /\ IsFiniteSet(HoldersIn(handle, p))
          /\ Cardinality(HoldersIn(handle, p)) \in Nat
      BY HoldersFinite
    <3>3. Cardinality(HoldersIn(handle, p)) # 1
      BY <3>1, <3>2, FS_Singleton
    <3>4. Cardinality(HoldersIn(handle, p)) # 0
      BY <3>1, <3>2, FS_EmptySet
    <3> QED
      BY <1>2, <3>2, <3>3, <3>4 DEF IInv, CountsInPoolAndHands
  <2> QED
    BY <1>1, <1>4, <2>1, <2>2 DEF IInv, ReleasingIsReset
<1> QED
  BY <1>5, <1>6, <1>7, <1>8, <1>9 DEF IInv

-----------------------------------------------------------------------------
(* Every step of any thread, and of the pool's owner, keeps the invariant.  *)
LEMMA IInvIsInductive ==
  IInv /\ [Next]_vars => IInv'
<1> SUFFICES ASSUME IInv, [Next]_vars PROVE IInv'
  OBVIOUS
<1>1. CASE UNCHANGED vars
  BY <1>1 DEF vars, IInv, Typed, CountsInPoolAndHands, OneOwner,
              AvailableIsReset, ReleasingIsReset, Live
<1> QED
  BY <1>1, ConstructPoolStep, DestroyPoolStep, AcquireStep, WriteStep,
     BeginReleaseStep, EndReleaseStep, DropHandleStep, CopyStep DEF Next

(* The inductive invariant holds throughout.                                *)
THEOREM InductiveInvariant == Spec => []IInv
<1>1. Init => IInv
  BY InitHolds
<1>2. IInv /\ [Next]_vars => IInv'
  BY IInvIsInductive
<1> QED
  BY <1>1, <1>2, PTL DEF Spec

(* acquire() (ObjectPool.h:59) never hands one object to two threads.       *)
THEOREM PoolHasOneOwner == Spec => []OneOwner
<1>1. IInv => OneOwner
  BY DEF IInv
<1> QED
  BY <1>1, InductiveInvariant, PTL

(* The free list holds objects only that release() has reset.               *)
THEOREM PoolAvailableIsReset == Spec => []AvailableIsReset
<1>1. IInv => AvailableIsReset
  BY DEF IInv
<1> QED
  BY <1>1, InductiveInvariant, PTL

(* The counts as the run checks them.                                       *)
LEMMA CountsFollow == IInv => CountsAreExact
<1> SUFFICES ASSUME IInv, NEW o \in Objects
             PROVE  /\ heap[o].refCount =
                         Cardinality({i \in DOMAIN pool : pool[i] = o})
                           + Cardinality({t \in Threads : handle[t] = o})
                    /\ Live(heap, o) <=> heap[o].refCount > 0
  BY DEF CountsAreExact
<1>1. Cardinality({i \in DOMAIN pool : pool[i] = o}) = Times(pool, o)
  BY PlacesInPool DEF IInv, Typed, OneOwner
<1>2. {t \in Threads : handle[t] = o} = HoldersIn(handle, o)
  BY DEF HoldersIn
<1> QED
  BY <1>1, <1>2 DEF IInv, CountsInPoolAndHands

(* Reference counts are exact, and an object exists while it is referenced. *)
THEOREM PoolCountsAreExact == Spec => []CountsAreExact
<1>1. IInv => CountsAreExact
  BY CountsFollow
<1> QED
  BY <1>1, InductiveInvariant, PTL

(* No free list is longer than there are objects, no count higher than all  *)
(* threads and the free list together make it.                              *)
LEMMA TypesFollow == IInv => TypeOK
<1> SUFFICES ASSUME IInv PROVE TypeOK
  OBVIOUS
<1>1. heap \in [Objects -> [refCount : 0..(Cardinality(Threads) + 1),
                           row : {Fresh, Used, NoRow}]]
  <2>1. ASSUME NEW o \in Objects
        PROVE  heap[o].refCount \in 0..(Cardinality(Threads) + 1)
    <3>1. /\ Cardinality(HoldersIn(handle, o)) \in 0..Cardinality(Threads)
          /\ Cardinality(Threads) \in Nat
      BY HoldersFinite, FS_CardinalityType, FiniteAssumption
    <3>2. Times(pool, o) \in {0, 1}
      BY DEF Times
    <3>3. heap[o].refCount = Times(pool, o) + Cardinality(HoldersIn(handle, o))
      BY DEF IInv, CountsInPoolAndHands
    <3> QED
      BY <3>1, <3>2, <3>3
  <2> QED
    BY <2>1 DEF IInv, Typed, Heaps, Rows
<1>2. pool \in BoundedSeq(Objects, Cardinality(Objects))
  <2>1. /\ pool \in [1..Len(pool) -> Objects] /\ Len(pool) \in Nat
        /\ DOMAIN pool = 1..Len(pool)
    BY DEF IInv, Typed
  <2>2. pool \in Injection(1..Len(pool), Objects)
    BY <2>1 DEF IInv, OneOwner, IsInjective, Injection
  <2>3. Cardinality(1..Len(pool)) <= Cardinality(Objects)
    BY <2>2, FS_Injection, FiniteAssumption
  <2>4. Cardinality(1..Len(pool)) = Len(pool)
    <3>1. 1 \in Int /\ Len(pool) \in Int
      BY <2>1
    <3>2. Cardinality(1..Len(pool)) =
            IF 1 > Len(pool) THEN 0 ELSE Len(pool) - 1 + 1
      BY <3>1, FS_Interval
    <3> QED
      BY <2>1, <3>2
  <2>5. Cardinality(Objects) \in Nat
    BY FS_CardinalityType, FiniteAssumption
  <2>6. Len(pool) \in 0..Cardinality(Objects)
    BY <2>1, <2>3, <2>4, <2>5
  <2> QED
    BY <2>1, <2>6 DEF BoundedSeq, SeqOf
<1> QED
  BY <1>1, <1>2 DEF IInv, Typed, TypeOK, Pointers

(* The types and bounds of the pool's state.                                *)
THEOREM PoolTypeCorrect == Spec => []TypeOK
<1>1. IInv => TypeOK
  BY TypesFollow
<1> QED
  BY <1>1, InductiveInvariant, PTL

-----------------------------------------------------------------------------
(* The objects that some thread of U has a handle to, and those of a batch. *)
HeldBy(U) == {o \in Objects : \E t \in U : handle[t] = o}
InBatch(b) == {o \in Objects : Contains(b, o)}

(* A thread's handle refers to one object.                                  *)
LEMMA HeldByThreads ==
  ASSUME NEW U \in SUBSET Threads
  PROVE  Cardinality(HeldBy(U)) <= Cardinality(U)
<1> DEFINE V == {t \in U : handle[t] \in Objects}
           f == [t \in V |-> handle[t]]
<1>1. IsFiniteSet(U) /\ IsFiniteSet(V) /\ Cardinality(V) <= Cardinality(U)
  <2>1. IsFiniteSet(U)
    BY FS_Subset, FiniteAssumption
  <2>2. V \in SUBSET U
    OBVIOUS
  <2> QED
    BY <2>1, <2>2, FS_Subset
<1>2. f \in Surjection(V, HeldBy(U))
  BY DEF Surjection, HeldBy
<1>3. IsFiniteSet(HeldBy(U)) /\ Cardinality(HeldBy(U)) <= Cardinality(V)
  <2> HIDE DEF f
  <2> QED
    BY <1>1, <1>2, FS_Surjection
<1>4. /\ Cardinality(U) \in Nat /\ Cardinality(V) \in Nat
      /\ Cardinality(HeldBy(U)) \in Nat
  BY <1>1, <1>3, FS_CardinalityType
<1> QED
  BY <1>1, <1>3, <1>4

(* A batch of n has n objects.                                              *)
LEMMA BatchSize ==
  ASSUME heap \in Heaps, NEW n \in Nat, NEW b \in Batches(heap, n)
  PROVE  Cardinality(InBatch(b)) <= n
<1>1. /\ b \in Seq(Objects) /\ Len(b) = n
  BY BatchOf
<1>2. b \in Surjection(1..n, InBatch(b))
  BY <1>1 DEF Surjection, InBatch, Contains
<1>3. IsFiniteSet(1..n) /\ Cardinality(1..n) = n
  <2>1. 1 \in Int /\ n \in Int
    OBVIOUS
  <2>2. IsFiniteSet(1..n) /\ Cardinality(1..n) = IF 1 > n THEN 0 ELSE n - 1 + 1
    BY <2>1, FS_Interval
  <2> QED
    BY <2>2
<1> QED
  BY <1>2, <1>3, FS_Surjection

(* acquire() leaves the counts and contents of all objects alone but for    *)
(* those it grows the pool by.                                              *)
LEMMA AcquiredHeap ==
  ASSUME IInv, NEW t \in Threads, Acquire(t)
  PROVE  \E batch \in GrowLocked : heap' = Allocate(heap, batch)
<1>1. PICK batch \in GrowLocked :
        heap' = RemoveReference(AddReference(Allocate(heap, batch),
                                             Head(pool \o batch)),
                                Head(pool \o batch))
  BY DEF Acquire
<1>2. PICK free : free = pool \o batch
  OBVIOUS
<1>3. PICK h : h = Allocate(heap, batch)
  OBVIOUS
<1>4. /\ free \in Seq(Objects) /\ free # <<>> /\ IsInjective(free)
      /\ h \in Heaps
      /\ \A o \in Objects :
           h[o].refCount = Times(free, o) + Cardinality(HoldersIn(handle, o))
  BY <1>2, <1>3, FreeList
<1>5. Head(free) \in Objects /\ Times(free, Head(free)) = 1
  BY <1>4, TailOfInjective DEF Times
<1>6. h[Head(free)].refCount > 0
  <2>1. Cardinality(HoldersIn(handle, Head(free))) \in 0..Cardinality(Threads)
    BY HoldersFinite
  <2>2. Cardinality(Threads) \in Nat
    BY FS_CardinalityType, FiniteAssumption
  <2> QED
    BY <1>4, <1>5, <2>1, <2>2
<1> QED
  BY <1>1, <1>2, <1>3, <1>4, <1>5, <1>6, AddThenRemove

(* With nothing in the free list every object is in somebody's hands.       *)
LEMMA AllInHands ==
  ASSUME IInv, pool = <<>>
  PROVE  LiveObjects \subseteq HeldBy({t \in Threads : handle[t] # Null})
<1> SUFFICES ASSUME NEW o \in Objects, Live(heap, o)
             PROVE  \E t \in Threads : handle[t] = o
  BY RefCountAssumption DEF LiveObjects, HeldBy
<1>1. Times(pool, o) = 0
  BY DEF Times, Contains
<1>2. Cardinality(HoldersIn(handle, o)) # 0
  <2>1. /\ heap[o].refCount = Times(pool, o) + Cardinality(HoldersIn(handle, o))
        /\ heap[o].refCount > 0
    BY DEF IInv, CountsInPoolAndHands
  <2> QED
    BY <1>1, <2>1
<1> QED
  BY <1>2, HoldersFinite

(* What a batch of n adds to the objects in the hands of U.                 *)
LEMMA GrownBy ==
  ASSUME IInv, pool = <<>>, NEW U \in SUBSET Threads,
         {t \in Threads : handle[t] # Null} \subseteq U,
         NEW n \in Nat, NEW b \in Batches(heap, n), heap' = Allocate(heap, b)
  PROVE  Cardinality(LiveObjects') <= Cardinality(U) + n
<1>1. heap \in Heaps
  BY DEF IInv, Typed
<1>2. LiveObjects' \subseteq LiveObjects \cup InBatch(b)
  BY <1>1, BatchOf DEF LiveObjects, Live, InBatch
<1>3. LiveObjects \subseteq HeldBy(U)
  BY AllInHands DEF HeldBy
<1>4. Cardinality(HeldBy(U)) <= Cardinality(U) /\ Cardinality(InBatch(b)) <= n
  BY <1>1, HeldByThreads, BatchSize
<1>5. /\ HeldBy(U) \in SUBSET Objects /\ InBatch(b) \in SUBSET Objects
      /\ (HeldBy(U) \cup InBatch(b)) \in SUBSET Objects
      /\ LiveObjects' \in SUBSET (HeldBy(U) \cup InBatch(b))
  BY <1>2, <1>3 DEF HeldBy, InBatch
<1>6. /\ IsFiniteSet(HeldBy(U)) /\ IsFiniteSet(InBatch(b))
      /\ IsFiniteSet(HeldBy(U) \cup InBatch(b)) /\ IsFiniteSet(LiveObjects')
      /\ IsFiniteSet(HeldBy(U) \cap InBatch(b)) /\ IsFiniteSet(U)
  BY <1>5, FS_Subset, FS_Intersection, FiniteAssumption
<1>7. /\ Cardinality(HeldBy(U) \cup InBatch(b)) =
           Cardinality(HeldBy(U)) + Cardinality(InBatch(b))
             - Cardinality(HeldBy(U) \cap InBatch(b))
      /\ Cardinality(LiveObjects') <= Cardinality(HeldBy(U) \cup InBatch(b))
  BY <1>5, <1>6, FS_Union, FS_Subset
<1>8. /\ Cardinality(HeldBy(U)) \in Nat /\ Cardinality(InBatch(b)) \in Nat
      /\ Cardinality(HeldBy(U) \cap InBatch(b)) \in Nat
      /\ Cardinality(LiveObjects') \in Nat /\ Cardinality(U) \in Nat
  BY <1>6, FS_CardinalityType
<1> QED
  BY <1>4, <1>7, <1>8

(* Nothing else brings objects into being.                                  *)
LEMMA GrowthStep ==
  ASSUME IInv, Next, NEW o \in Objects, ~Live(heap, o), Live(heap, o)'
  PROVE  /\ pool = <<>>
         /\ ConstructPool \/ \E t \in Threads : Acquire(t)
<1>1. heap \in Heaps /\ heap[o].row = NoRow /\ heap'[o].row # NoRow
  BY DEF IInv, Typed, Live
<1>2. \A t \in Threads : handle[t] # o
  BY RefCountAssumption, HandleIsLive
<1>3. CASE ConstructPool
  BY <1>3 DEF ConstructPool, IInv, Typed
<1>4. CASE DestroyPool
  <2>1. ~Contains(pool, o)
    BY <1>1, ContentsAssumption DEF Contains, IInv, Typed, AvailableIsReset
  <2> QED
    BY <1>1, <1>4, <2>1 DEF DestroyPool
<1>5. ASSUME NEW t \in Threads, Acquire(t)
      PROVE  pool = <<>>
  <2> SUFFICES ASSUME pool # <<>> PROVE FALSE
    OBVIOUS
  <2>1. PICK batch \in GrowLocked :
          heap' = RemoveReference(AddReference(Allocate(heap, batch),
                                               Head(pool \o batch)),
                                  Head(pool \o batch))
    BY <1>5 DEF Acquire
  <2>2. batch = <<>>
    BY DEF GrowLocked
  <2>3. /\ pool \o batch = pool
        /\ Allocate(heap, batch) = heap
        /\ Head(pool) \in Objects
        /\ Contains(pool, Head(pool))
    BY <1>1, <2>2 DEF IInv, Typed, Allocate, Range, Heaps, Contains
  <2>4. Live(heap, Head(pool))
    BY <2>3, ContentsAssumption
       DEF IInv, Typed, AvailableIsReset, Contains, Live
  <2>5. heap[Head(pool)].refCount > 0
    BY <2>3, <2>4 DEF IInv, CountsInPoolAndHands
  <2>6. heap' = heap
    BY <1>1, <2>1, <2>3, <2>5, AddThenRemove
  <2> QED
    BY <1>1, <2>6
<1>6. ASSUME NEW t \in Threads, Write(t) \/ BeginRelease(t)
      PROVE  FALSE
  BY <1>1, <1>2, <1>6 DEF Write, BeginRelease, Heaps
<1>7. ASSUME NEW t \in Threads, EndRelease(t)
      PROVE  FALSE
  <2>1. handle[t] \in Objects /\ heap' = AddReference(heap, handle[t])
    BY <1>7, HandleIsLive DEF EndRelease, IInv, Typed
  <2> QED
    BY <1>1, <2>1, AddingReference
<1>8. ASSUME NEW t \in Threads, NEW u \in Threads, Copy(t, u)
      PROVE  FALSE
  <2>1. handle[u] \in Objects /\ heap' = AddReference(heap, handle[u])
    BY <1>8, HandleIsLive DEF Copy
  <2> QED
    BY <1>1, <2>1, AddingReference
<1>9. ASSUME NEW t \in Threads, DropHandle(t)
      PROVE  FALSE
  <2>1. /\ handle[t] \in Objects /\ handle[t] # o
        /\ heap' = RemoveReference(heap, handle[t])
    BY <1>2, <1>9, HandleIsLive DEF DropHandle, IInv, Typed
  <2> QED
    BY <1>1, <2>1, RefCountAssumption DEF RemoveReference, Heaps
<1> QED
  BY <1>3, <1>4, <1>5, <1>6, <1>7, <1>8, <1>9 DEF Next

(* No object comes into being otherwise, and each growth starts from what   *)
(* the other threads hold.                                                  *)
LEMMA BoundStep ==
  IInv /\ PoolStaysBounded /\ [Next]_vars => PoolStaysBounded'
<1> SUFFICES ASSUME IInv, PoolStaysBounded, [Next]_vars PROVE PoolStaysBounded'
  OBVIOUS
<1>1. /\ IsFiniteSet(Threads) /\ Cardinality(Threads) \in Nat
      /\ IsFiniteSet(LiveObjects) /\ Cardinality(LiveObjects) \in Nat
  BY FS_Subset, FS_CardinalityType, FiniteAssumption DEF LiveObjects
<1>2. CASE LiveObjects' \subseteq LiveObjects
  <2>1. LiveObjects' \in SUBSET LiveObjects
    BY <1>2
  <2>2. IsFiniteSet(LiveObjects') /\ Cardinality(LiveObjects') <= Cardinality(LiveObjects)
    BY <1>1, <2>1, FS_Subset
  <2>3. Cardinality(LiveObjects') \in Nat
    BY <2>2, FS_CardinalityType
  <2> QED
    BY <1>1, <2>2, <2>3, StepAssumption DEF PoolStaysBounded
<1>3. CASE ~(LiveObjects' \subseteq LiveObjects)
  <2>1. PICK o \in Objects : ~Live(heap, o) /\ Live(heap, o)'
    BY <1>3 DEF LiveObjects
  <2>2. Next
    BY <2>1 DEF vars, Live
  <2>3. pool = <<>> /\ (ConstructPool \/ \E t \in Threads : Acquire(t))
    BY <2>1, <2>2, GrowthStep
  <2>4. CASE ConstructPool
    <3>1. PICK b \in Batches(heap, InitialSize) : heap' = Allocate(heap, b)
      BY <2>4 DEF ConstructPool
    <3>2. InitialSize \in Nat /\ Threads \in SUBSET Threads
      BY StepAssumption
    <3>3. Cardinality(LiveObjects') <= Cardinality(Threads) + InitialSize
      BY <2>3, <3>1, <3>2, GrownBy
    <3> QED
      BY <3>3 DEF PoolStaysBounded
  <2>5. ASSUME NEW t \in Threads, Acquire(t)
        PROVE  PoolStaysBounded'
    <3>1. PICK b \in Batches(heap, IncrementStep) : heap' = Allocate(heap, b)
      BY <2>3, <2>5, AcquiredHeap DEF GrowLocked
    <3>2. handle[t] = Null
      BY <2>5 DEF Acquire, IInv, Typed
    <3>3. /\ (Threads \ {t}) \in SUBSET Threads
          /\ {u \in Threads : handle[u] # Null} \subseteq Threads \ {t}
      BY <3>2
    <3>4. Cardinality(LiveObjects') <= Cardinality(Threads \ {t}) + IncrementStep
      BY <2>3, <3>1, <3>3, GrownBy, StepAssumption
    <3>5. Cardinality(Threads \ {t}) = Cardinality(Threads) - 1
      BY <1>1, FS_RemoveElement
    <3> QED
      BY <3>4, <3>5 DEF PoolStaysBounded
  <2> QED
    BY <2>3, <2>4, <2>5
<1> QED
  BY <1>2, <1>3

(* The number of objects in existence is bounded by what is in use at one   *)
(* time and a single growth, in any execution.                              *)
THEOREM PoolIsBounded == Spec => []PoolStaysBounded
<1>1. Init => PoolStaysBounded
  <2> SUFFICES ASSUME Init PROVE PoolStaysBounded
    OBVIOUS
  <2>1. LiveObjects = {}
    BY DEF Init, LiveObjects, Live, EmptyHeap, Freed
  <2>2. Cardinality(LiveObjects) = 0 /\ Cardinality(Threads) \in Nat
    BY <2>1, FS_EmptySet, FS_CardinalityType, FiniteAssumption
  <2> QED
    BY <2>2, StepAssumption DEF PoolStaysBounded
<1> QED
  BY <1>1, BoundStep, InductiveInvariant, PTL DEF Spec
=============================================================================
