----------------------------- MODULE DataFactory -----------------------------
(***************************************************************************)
(* The DataFactory objects that share the singleton connection             *)
(* (DataFactory.h): construction with or without default parameters,       *)
(* connect(), the move operations and destruction.  Every operation below  *)
(* contains at most one critical section of _instanceMutex; what it does   *)
(* outside touches only its own object, so each is one atomic step and     *)
(* threads interleave between them.                                        *)
(***************************************************************************)
EXTENDS MySqlConnection, FiniteSets

CONSTANT DataFactories    \* storage for DataFactory objects (reused)

ASSUME DataFactoriesAssumption == IsFiniteSet(DataFactories)

VARIABLES
  alive,          \* the storage that holds a constructed object
  connection,     \* _connection of each object
  defaultParams,  \* defaultParams() when haveDefaultParams(), else NoParams
  lostRefs        \* history: references whose pointer connect() overwrote

dfVars == <<alive, connection, defaultParams, lostRefs>>
vars == <<connVars, dfVars>>

Init ==
  /\ ConnInit
  /\ alive = {}
  /\ connection = [d \in DataFactories |-> NoConnection]
  /\ defaultParams = NoParams
  /\ lostRefs = [c \in Connections |-> 0]

-----------------------------------------------------------------------------
SetDefaultConnectionParams(p) ==
  /\ defaultParams' = p
  /\ UNCHANGED <<connVars, alive, connection, lostRefs>>

ClearDefaultConnectionParams ==
  /\ defaultParams' = NoParams
  /\ UNCHANGED <<connVars, alive, connection, lostRefs>>

(* The constructor: with default parameters set it connects at once.        *)
Construct(d) ==
  /\ d \notin alive
  /\ alive' = alive \cup {d}
  /\ \/ /\ defaultParams = NoParams
        /\ connection' = [connection EXCEPT ![d] = NoConnection]
        /\ UNCHANGED connVars
     \/ /\ defaultParams # NoParams
        /\ \E c \in Connections :
             /\ GetCurrentInstance(defaultParams, c)
             /\ connection' = [connection EXCEPT ![d] = c]
  /\ UNCHANGED <<defaultParams, lostRefs>>

(* The constructor throws: there is no object, nothing is held.             *)
ConstructFails(d) ==
  /\ d \notin alive
  /\ defaultParams # NoParams
  /\ \E c \in Connections : OpenFails(c)
  /\ UNCHANGED dfVars

(* connect(params): _connection is overwritten, not released.               *)
Connect(d, p) ==
  /\ d \in alive
  /\ \E c \in Connections :
       /\ GetCurrentInstance(p, c)
       /\ connection' = [connection EXCEPT ![d] = c]
  /\ lostRefs' = IF connection[d] = NoConnection
                   THEN lostRefs
                   ELSE [lostRefs EXCEPT ![connection[d]] = @ + 1]
  /\ UNCHANGED <<alive, defaultParams>>

(* connect() throws ServiceUnavailable before assigning _connection.        *)
ConnectFails(d) ==
  /\ d \in alive
  /\ \E c \in Connections : OpenFails(c)
  /\ UNCHANGED dfVars

(* What the destructor and move assignment do with the old _connection.     *)
ReleaseHeld(d) ==
  IF connection[d] # NoConnection
    THEN ReleaseInstance(connection[d])
    ELSE UNCHANGED connVars

Destroy(d) ==
  /\ d \in alive
  /\ ReleaseHeld(d)
  /\ alive' = alive \ {d}
  /\ connection' = [connection EXCEPT ![d] = NoConnection]
  /\ UNCHANGED <<defaultParams, lostRefs>>

(* Mutant of MoveConstruct: the moved-from object keeps its pointer.        *)
MutantMoveConstruct(d, e) ==
  /\ d \notin alive
  /\ e \in alive
  /\ alive' = alive \cup {d}
  /\ connection' = [connection EXCEPT ![d] = connection[e]]
  /\ UNCHANGED <<connVars, defaultParams, lostRefs>>

(* DataFactory d(std::move(e)).                                             *)
MoveConstruct(d, e) ==
  /\ d \notin alive
  /\ e \in alive
  /\ alive' = alive \cup {d}
  /\ connection' = [connection EXCEPT ![d] = connection[e],
                                      ![e] = NoConnection]
  /\ UNCHANGED <<connVars, defaultParams, lostRefs>>

(* Mutant of MoveAssign: the target's own connection is not released.       *)
MutantMoveAssign(d, e) ==
  /\ {d, e} \subseteq alive
  /\ d # e
  /\ connection' = [connection EXCEPT ![d] = connection[e],
                                      ![e] = NoConnection]
  /\ UNCHANGED <<connVars, alive, defaultParams, lostRefs>>

(* d = std::move(e); moving an object into itself returns early.            *)
MoveAssign(d, e) ==
  /\ {d, e} \subseteq alive
  /\ d # e
  /\ ReleaseHeld(d)
  /\ connection' = [connection EXCEPT ![d] = connection[e],
                                      ![e] = NoConnection]
  /\ UNCHANGED <<alive, defaultParams, lostRefs>>

(* The static MySqlConnection::disconnect(), called by anyone.              *)
RequestDisconnect ==
  /\ Disconnect
  /\ UNCHANGED dfVars

Next ==
  \/ \E p \in Params : SetDefaultConnectionParams(p)
  \/ ClearDefaultConnectionParams
  \/ \E d \in DataFactories : Construct(d)
  \/ \E d \in DataFactories : ConstructFails(d)
  \/ \E d \in DataFactories, p \in Params : Connect(d, p)
  \/ \E d \in DataFactories : ConnectFails(d)
  \/ \E d \in DataFactories : Destroy(d)
  \/ \E d, e \in DataFactories : MoveConstruct(d, e)
  \/ \E d, e \in DataFactories : MoveAssign(d, e)
  \/ RequestDisconnect

Spec == Init /\ [][Next]_vars

-----------------------------------------------------------------------------
Holders(c) == {d \in DataFactories : connection[d] = c}

(* The type invariant of the connection and the objects that share it.      *)
TypeOK ==
  /\ ConnTypeOK
  /\ alive \subseteq DataFactories
  /\ connection \in [DataFactories -> Connections \cup {NoConnection}]
  /\ defaultParams \in Params \cup {NoParams}
  /\ lostRefs \in [Connections -> Nat]

(* Reference accounting: over every history of constructions, connects,     *)
(* moves and destructions, _count is the number of DataFactory objects that *)
(* point to the connection, plus the references a second connect() on the   *)
(* same object has overwritten.                                             *)
CountMatchesHolders ==
  \A c \in Connections : count[c] = Cardinality(Holders(c)) + lostRefs[c]

(* No DataFactory, however it got its pointer, holds a deleted connection,  *)
(* so executeQuery() and the destructor never touch freed memory; and only  *)
(* a constructed object holds one.                                          *)
NoDanglingConnection ==
  \A d \in DataFactories : connection[d] # NoConnection =>
    d \in alive /\ handle[connection[d]] = "open"

(* The singleton: the open MySQL sessions of the process are exactly the    *)
(* one _instance points to.  A failed connect leaks no session and leaves   *)
(* no half-built instance behind.                                           *)
OneOpenConnection ==
  \A c \in Connections : handle[c] = "open" <=> instance = c

(* disconnect() is not forgotten: a marked connection stays open only while *)
(* a DataFactory holds it or a reference to it has been overwritten.        *)
TornDownWhenReleased ==
  \A c \in Connections : handle[c] = "open" /\ destroyWhenIdle[c] =>
    Holders(c) # {} \/ lostRefs[c] > 0

(* A session is closed only after disconnect() asked for it, and never      *)
(* under a DataFactory that still holds it after the step.                  *)
ClosedOnlyOnRequest ==
  [][\A c \in Connections : handle[c] = "open" /\ handle'[c] = "closed" =>
       destroyWhenIdle'[c] /\ Holders(c)' = {}]_vars

-----------------------------------------------------------------------------
(* What the users see of all this: no objects, flags and counts, but one    *)
(* session, its users and whether it is to be closed.                       *)
OpenSession ==
  IF instance = NoConnection THEN NoParams ELSE openedWith[instance]
SessionUsers == {d \in DataFactories : connection[d] # NoConnection}
ToBeClosed == instance # NoConnection /\ destroyWhenIdle[instance]
ReferenceLost == instance # NoConnection /\ lostRefs[instance] > 0

Lease == INSTANCE ConnectionLease WITH
  Users <- DataFactories,
  session <- OpenSession,
  users <- SessionUsers,
  closing <- ToBeClosed,
  pinned <- ReferenceLost

(* The counted, marked and moved pointers implement the lease: whatever the *)
(* order of constructions, connects, moves, destructions and disconnect()   *)
(* calls, the session opens with the parameters of the first to connect,    *)
(* nobody after that gets another one, and a requested close happens with   *)
(* exactly the step by which the last user leaves.                          *)
ImplementsLease == Lease!Spec

-----------------------------------------------------------------------------
(* What test_DataFactory_Integration.cpp:200-201 says of disconnect(): it   *)
(* marks the connection for teardown once every DataFactory using it has    *)
(* released it.                                                             *)
TornDownOnceUnused ==
  \A c \in Connections : handle[c] = "open" /\ destroyWhenIdle[c] =>
    Holders(c) # {}
=============================================================================
