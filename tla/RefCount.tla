------------------------------- MODULE RefCount -------------------------------
(***************************************************************************)
(* Intrusive reference counting (RefCount.h): what the members of          *)
(* RCObject<TSRefCount> and RCPtr<> do to the heap.  The counter is a      *)
(* std::atomic<int>, so each increment, and each decrement with its test   *)
(* for zero, is one atomic step; the operators below say what such a step, *)
(* or a sequence of them that one thread takes, makes of the heap.         *)
(*                                                                         *)
(* A heap maps each object to its count and to the row it wraps.  Freed    *)
(* storage wraps nothing and may be allocated again.                       *)
(***************************************************************************)
EXTENDS Integers

CONSTANTS
  Objects,   \* storage for reference-counted objects
  Null,      \* the null RCPtr
  NoRow      \* what freed storage wraps

ASSUME RefCountAssumption == Null \notin Objects

Freed == [refCount |-> 0, row |-> NoRow]

EmptyHeap == [o \in Objects |-> Freed]

(* Storage in use: between construction and deletion.                       *)
Live(heap, o) == heap[o].row # NoRow

(* RCObject's constructor starts the count at zero.                         *)
Construct(heap, o, r) == [heap EXCEPT ![o] = [refCount |-> 0, row |-> r]]

(* RCPtr::init(): addReference() unless the pointer is null.                *)
AddReference(heap, p) ==
  IF p = Null THEN heap ELSE [heap EXCEPT ![p].refCount = @ + 1]

(* Mutant of RemoveReference: the object is deleted one release too early.  *)
MutantRemoveReference(heap, p) ==
  IF p = Null THEN heap
  ELSE IF heap[p].refCount - 1 <= 1
         THEN [heap EXCEPT ![p] = Freed]
         ELSE [heap EXCEPT ![p].refCount = @ - 1]

(* RCPtr's destructor and removeReference(): delete the object when the     *)
(* count reaches zero.                                                      *)
RemoveReference(heap, p) ==
  IF p = Null THEN heap
  ELSE IF heap[p].refCount - 1 = 0
         THEN [heap EXCEPT ![p] = Freed]
         ELSE [heap EXCEPT ![p].refCount = @ - 1]

(* Mutant of Assign: assignment forgets the reference it overwrites.        *)
MutantAssign(heap, p, q) ==
  IF p = q THEN heap ELSE AddReference(heap, q)

(* RCPtr::operator=: a pointer to p is overwritten by one to q.  Nothing    *)
(* happens when both point to the same object.                              *)
Assign(heap, p, q) ==
  IF p = q THEN heap ELSE AddReference(RemoveReference(heap, p), q)
=============================================================================
