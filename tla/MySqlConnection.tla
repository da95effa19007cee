--------------------------- MODULE MySqlConnection ---------------------------
(***************************************************************************)
(* The reference-counted singleton connection of MySqlConnection.h/.cpp.   *)
(* Each operator below is the body of one member function, which runs as   *)
(* one critical section of the static _instanceMutex; the module that      *)
(* EXTENDS this one (DataFactory) says who calls it and what the callers'  *)
(* own state does meanwhile.                                               *)
(*                                                                         *)
(* An element of Connections stands for one MySqlConnection object that    *)
(* operator new ever returned.  An object is never used for a second       *)
(* connection, so a pointer to a deleted one stays recognisable.           *)
(***************************************************************************)
EXTENDS Naturals

CONSTANTS
  Connections,    \* the MySqlConnection objects a run may allocate
  NoConnection,   \* the null pointer
  Params,         \* the MySqlConnectionParams values callers pass
  NoParams,       \* no parameters (never connected, or no default set)
  MaxCount        \* largest value of the u_int32 _count; increments stop there

ASSUME ConnectionAssumption ==
  /\ NoConnection \notin Connections
  /\ NoParams \notin Params
  /\ MaxCount \in Nat

VARIABLES
  instance,         \* static MySqlConnection* _instance
  count,            \* _count of each object
  destroyWhenIdle,  \* _destroyWhenIdle of each object
  handle,           \* its MYSQL*: not allocated, connected, or mysql_close()d
  openedWith        \* the parameters mysql_real_connect() was given

connVars == <<instance, count, destroyWhenIdle, handle, openedWith>>

ConnInit ==
  /\ instance = NoConnection
  /\ count = [c \in Connections |-> 0]
  /\ destroyWhenIdle = [c \in Connections |-> FALSE]
  /\ handle = [c \in Connections |-> "none"]
  /\ openedWith = [c \in Connections |-> NoParams]

ConnTypeOK ==
  /\ instance \in Connections \cup {NoConnection}
  /\ count \in [Connections -> 0..MaxCount]
  /\ destroyWhenIdle \in [Connections -> BOOLEAN]
  /\ handle \in [Connections -> {"none", "open", "closed"}]
  /\ openedWith \in [Connections -> Params \cup {NoParams}]

(* Mutant of Join: whoever joins a marked connection takes the mark off.    *)
MutantJoinUnmarks(c) ==
  /\ instance = c
  /\ count[c] < MaxCount
  /\ count' = [count EXCEPT ![c] = @ + 1]
  /\ destroyWhenIdle' = [destroyWhenIdle EXCEPT ![c] = FALSE]
  /\ UNCHANGED <<instance, handle, openedWith>>

(* Mutant of Join: a caller that joins is counted twice.                    *)
MutantJoin(c) ==
  /\ instance = c
  /\ count[c] < MaxCount
  /\ count' = [count EXCEPT ![c] = @ + 2]
  /\ UNCHANGED <<instance, destroyWhenIdle, handle, openedWith>>

(***************************************************************************)
(* getCurrentInstance(params), when a connection is open: join it,         *)
(* whatever it was opened with and whether or not it is marked.            *)
(***************************************************************************)
Join(c) ==
  /\ instance = c
  /\ count[c] < MaxCount
  /\ count' = [count EXCEPT ![c] = @ + 1]
  /\ UNCHANGED <<instance, destroyWhenIdle, handle, openedWith>>

(* getCurrentInstance(params), when none is open: construct one and count   *)
(* the caller.                                                              *)
Open(p, c) ==
  /\ instance = NoConnection
  /\ handle[c] = "none"
  /\ count[c] < MaxCount
  /\ instance' = c
  /\ handle' = [handle EXCEPT ![c] = "open"]
  /\ openedWith' = [openedWith EXCEPT ![c] = p]
  /\ count' = [count EXCEPT ![c] = @ + 1]
  /\ UNCHANGED destroyWhenIdle

GetCurrentInstance(p, c) == Join(c) \/ Open(p, c)

(* The constructor throws ServiceUnavailable: mysql_real_connect() failed,  *)
(* the handle is closed, and _instance has not been assigned.               *)
OpenFails(c) ==
  /\ instance = NoConnection
  /\ handle[c] = "none"
  /\ handle' = [handle EXCEPT ![c] = "closed"]
  /\ UNCHANGED <<instance, count, destroyWhenIdle, openedWith>>

(* Mutant of Delete: _instance keeps the address of the deleted object.     *)
MutantDelete(c) ==
  /\ handle' = [handle EXCEPT ![c] = "closed"]
  /\ UNCHANGED instance

(* `_instance = 0; delete`: the destructor closes the MYSQL handle.         *)
Delete(c) ==
  /\ instance' = NoConnection
  /\ handle' = [handle EXCEPT ![c] = "closed"]

(* Mutant of Disconnect: an idle connection is only marked.                 *)
MutantDisconnect ==
  /\ instance # NoConnection
  /\ destroyWhenIdle' = [destroyWhenIdle EXCEPT ![instance] = TRUE]
  /\ UNCHANGED <<instance, handle, count, openedWith>>

(* disconnect(): mark the open connection; delete it at once if nobody      *)
(* holds it.                                                                *)
Disconnect ==
  /\ instance # NoConnection
  /\ destroyWhenIdle' = [destroyWhenIdle EXCEPT ![instance] = TRUE]
  /\ IF count[instance] = 0
       THEN Delete(instance)
       ELSE UNCHANGED <<instance, handle>>
  /\ UNCHANGED <<count, openedWith>>

(* The unsigned counter wraps below zero.                                   *)
Decremented(n) == IF n = 0 THEN MaxCount ELSE n - 1

(* Mutant of ReleaseInstance: the last release closes an unmarked session.  *)
MutantReleaseInstance(c) ==
  /\ count' = [count EXCEPT ![c] = Decremented(@)]
  /\ IF Decremented(count[c]) = 0 /\ c = instance
       THEN Delete(c)
       ELSE UNCHANGED <<instance, handle>>
  /\ UNCHANGED <<destroyWhenIdle, openedWith>>

(* releaseInstance() on object c.                                           *)
ReleaseInstance(c) ==
  /\ count' = [count EXCEPT ![c] = Decremented(@)]
  /\ IF Decremented(count[c]) = 0 /\ destroyWhenIdle[c] /\ c = instance
       THEN Delete(c)
       ELSE UNCHANGED <<instance, handle>>
  /\ UNCHANGED <<destroyWhenIdle, openedWith>>
=============================================================================
