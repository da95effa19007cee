--------------------------- MODULE DataFactoryProofs ---------------------------
(***************************************************************************)
(* Proofs about the shared connection, for any number of connections,      *)
(* DataFactory objects and parameters: the invariants, and that it         *)
(* implements the lease of ConnectionLease.                                *)
(*                                                                         *)
(* The inductive invariant adds to the checked invariants one conjunct,    *)
(* MarkedIsCounted: it is what Disconnect and ReleaseInstance maintain     *)
(* directly, and TornDownWhenReleased follows from it by the accounting of *)
(* CountMatchesHolders.                                                    *)
(***************************************************************************)
EXTENDS DataFactory, FiniteSetTheorems, TLAPS

(* The objects that a pointer assignment f maps to c.                       *)
HeldBy(f, c) == {d \in DataFactories : f[d] = c}

(* f after the pointer of d has been assigned v.                            *)
Redirect(f, d, v) == [f EXCEPT ![d] = v]

MarkedIsCounted ==
  \A c \in Connections :
    handle[c] = "open" /\ destroyWhenIdle[c] => count[c] > 0

IInv ==
  /\ TypeOK
  /\ CountMatchesHolders
  /\ NoDanglingConnection
  /\ OneOpenConnection
  /\ MarkedIsCounted

Pointers == Connections \cup {NoConnection}

-----------------------------------------------------------------------------
(* Only finitely many objects point to a connection.                        *)
LEMMA HeldByFinite ==
  ASSUME NEW f, NEW c
  PROVE  IsFiniteSet(HeldBy(f, c)) /\ Cardinality(HeldBy(f, c)) \in Nat
<1>1. HeldBy(f, c) \subseteq DataFactories
  BY DEF HeldBy
<1>2. IsFiniteSet(HeldBy(f, c))
  BY <1>1, FS_Subset, DataFactoriesAssumption
<1> QED
  BY <1>2, FS_CardinalityType

(* Redirecting one pointer changes the number of holders by what it leaves  *)
(* and what it joins.                                                       *)
LEMMA HeldByUpdate ==
  ASSUME NEW f \in [DataFactories -> Pointers], NEW d \in DataFactories,
         NEW v \in Pointers, NEW c \in Pointers
  PROVE  Cardinality(HeldBy(Redirect(f, d, v), c)) =
           Cardinality(HeldBy(f, c)) - (IF f[d] = c THEN 1 ELSE 0)
                                     + (IF v = c THEN 1 ELSE 0)
<1> DEFINE g == Redirect(f, d, v)
           rest == HeldBy(f, c) \ {d}
<1>1. IsFiniteSet(HeldBy(f, c)) /\ Cardinality(HeldBy(f, c)) \in Nat
  BY HeldByFinite
<1>2. d \in HeldBy(f, c) <=> f[d] = c
  BY DEF HeldBy
<1>3. /\ IsFiniteSet(rest)
      /\ Cardinality(rest) =
           Cardinality(HeldBy(f, c)) - (IF f[d] = c THEN 1 ELSE 0)
  <2>1. CASE d \in HeldBy(f, c)
    <3>1. IsFiniteSet(rest) /\ Cardinality(rest) = Cardinality(HeldBy(f, c)) - 1
      BY <1>1, <2>1, FS_RemoveElement
    <3> QED
      BY <1>2, <2>1, <3>1
  <2>2. CASE d \notin HeldBy(f, c)
    <3>1. rest = HeldBy(f, c)
      BY <2>2
    <3> HIDE DEF rest
    <3> QED
      BY <1>1, <1>2, <2>2, <3>1
  <2> QED
    BY <2>1, <2>2
<1>4. CASE v = c
  <2>1. HeldBy(g, c) = rest \cup {d}
    BY <1>4 DEF HeldBy, Redirect
  <2>2. Cardinality(rest \cup {d}) = Cardinality(rest) + 1
    BY <1>3, FS_AddElement
  <2> HIDE DEF rest
  <2> QED
    BY <1>1, <1>3, <1>4, <2>1, <2>2
<1>5. CASE v # c
  <2>1. HeldBy(g, c) = rest
    BY <1>5 DEF HeldBy, Redirect
  <2> HIDE DEF rest
  <2> QED
    BY <1>1, <1>3, <1>5, <2>1
<1> QED
  BY <1>4, <1>5

(* An object that points to c is one of at least one.                       *)
LEMMA HeldByPositive ==
  ASSUME NEW f, NEW d \in DataFactories, NEW c, f[d] = c
  PROVE  Cardinality(HeldBy(f, c)) > 0
<1>1. IsFiniteSet(HeldBy(f, c)) /\ Cardinality(HeldBy(f, c)) \in Nat
  BY HeldByFinite
<1>2. d \in HeldBy(f, c)
  BY DEF HeldBy
<1>3. HeldBy(f, c) # {}
  BY <1>2
<1> QED
  BY <1>1, <1>3, FS_EmptySet

(* Two objects that point to c are at least two.                            *)
LEMMA HeldByTwo ==
  ASSUME NEW f \in [DataFactories -> Pointers], NEW c \in Pointers,
         NEW d \in DataFactories, NEW e \in DataFactories, d # e,
         f[d] = c, f[e] = c, NEW v \in Pointers, v # c
  PROVE  Cardinality(HeldBy(f, c)) > 1
<1> DEFINE g == Redirect(f, d, v)
<1>1. Cardinality(HeldBy(f, c)) \in Nat /\ Cardinality(HeldBy(g, c)) \in Nat
  BY HeldByFinite
<1>2. Cardinality(HeldBy(g, c)) = Cardinality(HeldBy(f, c)) - 1 + 0
  BY HeldByUpdate
<1>3. Cardinality(HeldBy(g, c)) > 0
  <2>1. g[e] = c
    BY DEF Redirect
  <2> HIDE DEF g
  <2> QED
    BY <2>1, HeldByPositive
<1> HIDE DEF g
<1> QED
  BY <1>1, <1>2, <1>3

-----------------------------------------------------------------------------
(* Whoever holds an open connection is counted; the last holder is alone.   *)
LEMMA HoldersAreCounted ==
  ASSUME IInv, NEW d \in DataFactories, connection[d] # NoConnection
  PROVE  /\ connection[d] \in Connections
         /\ d \in alive
         /\ handle[connection[d]] = "open"
         /\ instance = connection[d]
         /\ count[connection[d]] \in 1..MaxCount
         /\ count[connection[d]] = 1 =>
              \A e \in DataFactories \ {d} : connection[e] # connection[d]
<1> DEFINE c == connection[d]
<1>1. c \in Connections
  BY DEF IInv, TypeOK
<1>2. d \in alive /\ handle[c] = "open" /\ instance = c
  BY <1>1 DEF IInv, NoDanglingConnection, OneOpenConnection
<1>3. /\ count[c] = Cardinality(HeldBy(connection, c)) + lostRefs[c]
      /\ count[c] \in 0..MaxCount /\ lostRefs[c] \in Nat
      /\ connection \in [DataFactories -> Pointers]
  BY <1>1 DEF IInv, TypeOK, ConnTypeOK, CountMatchesHolders, Holders, HeldBy,
              Pointers
<1>4. Cardinality(HeldBy(connection, c)) \in Nat
  BY HeldByFinite
<1>5. Cardinality(HeldBy(connection, c)) > 0
  BY HeldByPositive
<1>6. ASSUME NEW e \in DataFactories \ {d}, connection[e] = c
      PROVE  Cardinality(HeldBy(connection, c)) > 1
  BY <1>1, <1>3, <1>6, HeldByTwo DEF Pointers
<1>7. MaxCount \in Nat
  BY ConnectionAssumption
<1> QED
  BY <1>1, <1>2, <1>3, <1>4, <1>5, <1>6, <1>7

(* getCurrentInstance() on behalf of d, from the constructor or connect().  *)
LEMMA AcquireStep ==
  ASSUME IInv, NEW d \in DataFactories, NEW p \in Params,
         NEW c \in Connections, GetCurrentInstance(p, c),
         connection' = [connection EXCEPT ![d] = c],
         alive' = alive \cup {d}, UNCHANGED defaultParams,
         lostRefs' = IF connection[d] = NoConnection
                       THEN lostRefs
                       ELSE [lostRefs EXCEPT ![connection[d]] = @ + 1]
  PROVE  IInv'
<1>1. TypeOK /\ MaxCount \in Nat /\ NoConnection \notin Connections
  BY ConnectionAssumption DEF IInv
<1>2. /\ count[c] \in Nat /\ count[c] + 1 \in 0..MaxCount
      /\ count' = [count EXCEPT ![c] = count[c] + 1]
      /\ instance' = c /\ instance \in {c, NoConnection}
      /\ handle'[c] = "open"
      /\ \A k \in Connections \ {c} : handle'[k] = handle[k]
      /\ destroyWhenIdle' = destroyWhenIdle
  BY <1>1 DEF GetCurrentInstance, Join, Open, TypeOK, ConnTypeOK, IInv,
              OneOpenConnection
<1>3. TypeOK'
  BY <1>1, <1>2 DEF TypeOK, ConnTypeOK, GetCurrentInstance, Join, Open
<1>4. CountMatchesHolders'
  <2> SUFFICES ASSUME NEW k \in Connections
               PROVE  count'[k] = Cardinality(HeldBy(connection', k))
                                    + lostRefs'[k]
    BY DEF CountMatchesHolders, Holders, HeldBy
  <2>1. /\ count[k] = Cardinality(HeldBy(connection, k)) + lostRefs[k]
        /\ lostRefs[k] \in Nat /\ count[k] \in Nat
        /\ connection \in [DataFactories -> Pointers]
    BY <1>1 DEF IInv, CountMatchesHolders, Holders, HeldBy, TypeOK, ConnTypeOK,
                Pointers
  <2>2. Cardinality(HeldBy(connection', k)) =
          Cardinality(HeldBy(connection, k))
            - (IF connection[d] = k THEN 1 ELSE 0) + (IF c = k THEN 1 ELSE 0)
    <3>1. connection' = Redirect(connection, d, c)
      BY DEF Redirect
    <3>2. d \in DataFactories /\ c \in Pointers /\ k \in Pointers
      BY DEF Pointers
    <3>3. Cardinality(HeldBy(Redirect(connection, d, c), k)) =
            Cardinality(HeldBy(connection, k))
              - (IF connection[d] = k THEN 1 ELSE 0) + (IF c = k THEN 1 ELSE 0)
      BY <2>1, <3>2, HeldByUpdate
    <3> QED
      BY <3>1, <3>3
  <2>3. Cardinality(HeldBy(connection, k)) \in Nat
    BY HeldByFinite
  <2>4. count'[k] = count[k] + (IF c = k THEN 1 ELSE 0)
    BY <1>1, <1>2, <2>1 DEF TypeOK, ConnTypeOK
  <2>5. lostRefs'[k] = lostRefs[k] + (IF connection[d] = k THEN 1 ELSE 0)
    BY <1>1, <2>1 DEF TypeOK
  <2> QED
    BY <2>1, <2>2, <2>3, <2>4, <2>5
<1>5. NoDanglingConnection' /\ OneOpenConnection'
  BY <1>1, <1>2 DEF IInv, NoDanglingConnection, OneOpenConnection, TypeOK,
                    ConnTypeOK
<1>6. MarkedIsCounted'
  BY <1>1, <1>2 DEF IInv, MarkedIsCounted, TypeOK, ConnTypeOK
<1> QED
  BY <1>3, <1>4, <1>5, <1>6 DEF IInv

(* Giving e's pointer to d takes one holder from what d held before.        *)
LEMMA HeldByTransfer ==
  ASSUME NEW f \in [DataFactories -> Pointers], NEW d \in DataFactories,
         NEW e \in DataFactories, d # e, NEW c \in Connections
  PROVE  Cardinality(HeldBy(Redirect(Redirect(f, d, f[e]), e, NoConnection), c))
           = Cardinality(HeldBy(f, c)) - (IF f[d] = c THEN 1 ELSE 0)
<1> DEFINE g == Redirect(f, d, f[e])
<1>1. /\ c \in Pointers /\ NoConnection \in Pointers /\ f[e] \in Pointers
      /\ c # NoConnection
  BY ConnectionAssumption DEF Pointers
<1>2. g \in [DataFactories -> Pointers] /\ g[e] = f[e]
  BY <1>1 DEF Redirect
<1>3. Cardinality(HeldBy(g, c)) =
        Cardinality(HeldBy(f, c)) - (IF f[d] = c THEN 1 ELSE 0)
                                  + (IF f[e] = c THEN 1 ELSE 0)
  BY <1>1, HeldByUpdate
<1>4. Cardinality(HeldBy(f, c)) \in Nat /\ Cardinality(HeldBy(g, c)) \in Nat
  BY HeldByFinite
<1> HIDE DEF g
<1>5. Cardinality(HeldBy(Redirect(g, e, NoConnection), c)) =
        Cardinality(HeldBy(g, c)) - (IF g[e] = c THEN 1 ELSE 0)
                                  + (IF NoConnection = c THEN 1 ELSE 0)
  BY <1>1, <1>2, HeldByUpdate
<1>6. Cardinality(HeldBy(Redirect(g, e, NoConnection), c)) =
        Cardinality(HeldBy(f, c)) - (IF f[d] = c THEN 1 ELSE 0)
  BY <1>1, <1>2, <1>3, <1>4, <1>5
<1> QED
  BY <1>6 DEF g

(* d gives its connection up, and the pointers left are those the other     *)
(* objects had: the destructor and both move operations.                    *)
LEMMA ReleaseStep ==
  ASSUME IInv, NEW d \in DataFactories, ReleaseHeld(d),
         connection' \in [DataFactories -> Pointers],
         \A c \in Connections :
           Cardinality(HeldBy(connection', c)) =
             Cardinality(HeldBy(connection, c))
               - (IF connection[d] = c THEN 1 ELSE 0),
         \A x \in DataFactories : connection'[x] # NoConnection =>
           /\ x \in alive'
           /\ \E y \in DataFactories \ {d} : connection'[x] = connection[y],
         alive' \subseteq DataFactories,
         UNCHANGED <<defaultParams, lostRefs>>
  PROVE  IInv'
<1>1. TypeOK /\ MaxCount \in Nat /\ NoConnection \notin Connections
  BY ConnectionAssumption DEF IInv
<1>2. \A c \in Connections :
        /\ count[c] = Cardinality(HeldBy(connection, c)) + lostRefs[c]
        /\ Cardinality(HeldBy(connection, c)) \in Nat
        /\ lostRefs[c] \in Nat
  <2>1. \A c \in Connections : Holders(c) = HeldBy(connection, c)
    BY DEF Holders, HeldBy
  <2> QED
    BY <2>1, HeldByFinite DEF IInv, CountMatchesHolders, TypeOK
<1>3. CASE connection[d] = NoConnection
  <2>1. UNCHANGED connVars
    BY <1>3 DEF ReleaseHeld
  <2>2. TypeOK'
    BY <1>1, <2>1 DEF TypeOK, ConnTypeOK, connVars, Pointers
  <2>3. CountMatchesHolders'
    <3> SUFFICES ASSUME NEW c \in Connections
                 PROVE  count'[c] = Cardinality(HeldBy(connection', c))
                                      + lostRefs'[c]
      BY DEF CountMatchesHolders, Holders, HeldBy
    <3> QED
      BY <1>1, <1>2, <1>3, <2>1 DEF connVars
  <2>4. NoDanglingConnection' /\ OneOpenConnection' /\ MarkedIsCounted'
    BY <2>1 DEF IInv, NoDanglingConnection, OneOpenConnection, MarkedIsCounted,
                connVars
  <2> QED
    BY <2>2, <2>3, <2>4 DEF IInv
<1>4. CASE connection[d] # NoConnection
  <2> DEFINE k == connection[d]
             gone == count[k] = 1 /\ destroyWhenIdle[k]
  <2>1. /\ k \in Connections /\ handle[k] = "open" /\ instance = k
        /\ count[k] \in 1..MaxCount
        /\ count[k] = 1 => \A e \in DataFactories \ {d} : connection[e] # k
    BY <1>4, HoldersAreCounted
  <2>2. Decremented(count[k]) = count[k] - 1
    BY <1>1, <2>1 DEF Decremented
  <2>3. /\ count' = [count EXCEPT ![k] = count[k] - 1]
        /\ destroyWhenIdle' = destroyWhenIdle /\ openedWith' = openedWith
        /\ gone => /\ instance' = NoConnection
                   /\ handle' = [handle EXCEPT ![k] = "closed"]
        /\ ~gone => instance' = instance /\ handle' = handle
    <3>1. ReleaseInstance(k)
      BY <1>4 DEF ReleaseHeld
    <3>2. Decremented(count[k]) = 0 <=> count[k] = 1
      BY <1>1, <2>1, <2>2
    <3> QED
      BY <1>1, <2>1, <2>2, <3>1, <3>2 DEF ReleaseInstance, Delete
  <2>4. count[k] - 1 \in 0..MaxCount
    BY <1>1, <2>1
  <2>5. TypeOK'
    BY <1>1, <2>1, <2>3, <2>4 DEF TypeOK, ConnTypeOK, Pointers
  <2>6. CountMatchesHolders'
    <3> SUFFICES ASSUME NEW c \in Connections
                 PROVE  count'[c] = Cardinality(HeldBy(connection', c))
                                      + lostRefs'[c]
      BY DEF CountMatchesHolders, Holders, HeldBy
    <3>1. count'[c] = count[c] - (IF k = c THEN 1 ELSE 0)
      BY <1>1, <2>1, <2>3 DEF TypeOK, ConnTypeOK
    <3> QED
      BY <1>2, <3>1
  <2>7. NoDanglingConnection'
    BY <1>1, <2>1, <2>3
       DEF IInv, NoDanglingConnection, TypeOK, ConnTypeOK, Pointers
  <2>8. OneOpenConnection'
    BY <1>1, <2>1, <2>3 DEF IInv, OneOpenConnection, TypeOK, ConnTypeOK
  <2>9. MarkedIsCounted'
    <3> SUFFICES ASSUME NEW c \in Connections, handle'[c] = "open",
                        destroyWhenIdle'[c]
                 PROVE  count'[c] > 0
      BY DEF MarkedIsCounted
    <3>1. CASE c = k
      BY <1>1, <2>1, <2>3, <3>1 DEF TypeOK, ConnTypeOK
    <3>2. CASE c # k
      BY <1>1, <2>1, <2>3, <3>2 DEF IInv, MarkedIsCounted, TypeOK, ConnTypeOK
    <3> QED
      BY <3>1, <3>2
  <2> QED
    BY <2>5, <2>6, <2>7, <2>8, <2>9 DEF IInv
<1> QED
  BY <1>3, <1>4

-----------------------------------------------------------------------------
LEMMA InitEstablishes == Init => IInv
<1> SUFFICES ASSUME Init PROVE IInv
  OBVIOUS
<1>1. TypeOK
  BY ConnectionAssumption DEF Init, ConnInit, TypeOK, ConnTypeOK
<1>2. CountMatchesHolders
  <2> SUFFICES ASSUME NEW c \in Connections
               PROVE  count[c] = Cardinality(Holders(c)) + lostRefs[c]
    BY DEF CountMatchesHolders
  <2>1. Holders(c) = {}
    BY ConnectionAssumption DEF Init, Holders
  <2>2. Cardinality(Holders(c)) = 0
    BY <2>1, FS_EmptySet
  <2>3. count[c] = 0 /\ lostRefs[c] = 0
    BY DEF Init, ConnInit
  <2> QED
    BY <2>2, <2>3
<1>3. NoDanglingConnection /\ OneOpenConnection /\ MarkedIsCounted
  BY ConnectionAssumption
     DEF Init, ConnInit, NoDanglingConnection, OneOpenConnection, MarkedIsCounted
<1> QED
  BY <1>1, <1>2, <1>3 DEF IInv

(* A step that leaves the objects, their pointers and the counts alone can  *)
(* only break what is said of the connection itself.                        *)
LEMMA PointersUnchanged ==
  ASSUME CountMatchesHolders, UNCHANGED <<count, connection, lostRefs>>
  PROVE  CountMatchesHolders'
BY DEF CountMatchesHolders, Holders

LEMMA StepPreserves == IInv /\ [Next]_vars => IInv'
<1> SUFFICES ASSUME IInv, [Next]_vars PROVE IInv'
  OBVIOUS
<1>0. /\ TypeOK /\ NoConnection \notin Connections
      /\ connection \in [DataFactories -> Pointers]
  BY ConnectionAssumption DEF IInv, TypeOK, Pointers
<1>1. ASSUME UNCHANGED connVars, UNCHANGED <<connection, lostRefs>>,
             alive \subseteq alive', alive' \subseteq DataFactories,
             defaultParams' \in Params \cup {NoParams}
      PROVE  IInv'
  <2>1. TypeOK'
    BY <1>0, <1>1 DEF TypeOK, ConnTypeOK, connVars
  <2>2. CountMatchesHolders'
    BY <1>1, PointersUnchanged DEF IInv, connVars
  <2>3. NoDanglingConnection' /\ OneOpenConnection' /\ MarkedIsCounted'
    BY <1>1 DEF IInv, NoDanglingConnection, OneOpenConnection, MarkedIsCounted,
                connVars
  <2> QED
    BY <2>1, <2>2, <2>3 DEF IInv
<1>2. ASSUME NEW p \in Params, SetDefaultConnectionParams(p)
      PROVE  IInv'
  <2>1. /\ UNCHANGED connVars /\ UNCHANGED <<connection, lostRefs>>
        /\ alive \subseteq alive' /\ alive' \subseteq DataFactories
        /\ defaultParams' \in Params \cup {NoParams}
    BY <1>0, <1>2 DEF SetDefaultConnectionParams, TypeOK
  <2> QED
    BY <1>1, <2>1
<1>3. CASE ClearDefaultConnectionParams
  <2>1. /\ UNCHANGED connVars /\ UNCHANGED <<connection, lostRefs>>
        /\ alive \subseteq alive' /\ alive' \subseteq DataFactories
        /\ defaultParams' \in Params \cup {NoParams}
    BY <1>0, <1>3 DEF ClearDefaultConnectionParams, TypeOK
  <2> QED
    BY <1>1, <2>1
<1>4. ASSUME NEW d \in DataFactories, Construct(d)
      PROVE  IInv'
  <2>1. d \notin alive /\ alive' = alive \cup {d}
        /\ UNCHANGED <<defaultParams, lostRefs>>
    BY <1>4 DEF Construct
  <2>2. connection[d] = NoConnection
    BY <2>1 DEF IInv, NoDanglingConnection
  <2>3. CASE /\ connection' = [connection EXCEPT ![d] = NoConnection]
             /\ UNCHANGED connVars
    <3>1. connection' = connection
      BY <1>0, <2>2, <2>3
    <3>2. /\ alive \subseteq alive' /\ alive' \subseteq DataFactories
          /\ defaultParams' \in Params \cup {NoParams}
      BY <1>0, <2>1 DEF TypeOK
    <3> QED
      BY <1>1, <2>1, <2>3, <3>1, <3>2
  <2>4. ASSUME NEW c \in Connections, defaultParams # NoParams,
               GetCurrentInstance(defaultParams, c),
               connection' = [connection EXCEPT ![d] = c]
        PROVE  IInv'
    <3>1. defaultParams \in Params
      BY <1>0, <2>4 DEF TypeOK
    <3> QED
      BY <2>1, <2>2, <2>4, <3>1, AcquireStep
  <2> QED
    BY <1>4, <2>3, <2>4 DEF Construct
<1>5. ASSUME NEW c \in Connections, OpenFails(c), UNCHANGED dfVars
      PROVE  IInv'
  <2>1. TypeOK'
    BY <1>0, <1>5 DEF TypeOK, ConnTypeOK, OpenFails, dfVars
  <2>2. CountMatchesHolders'
    BY <1>5, PointersUnchanged DEF IInv, OpenFails, dfVars
  <2>3. NoDanglingConnection' /\ OneOpenConnection' /\ MarkedIsCounted'
    BY <1>0, <1>5 DEF IInv, NoDanglingConnection, OneOpenConnection,
         MarkedIsCounted, OpenFails, dfVars, TypeOK, ConnTypeOK
  <2> QED
    BY <2>1, <2>2, <2>3 DEF IInv
<1>6. ASSUME NEW d \in DataFactories, ConstructFails(d) \/ ConnectFails(d)
      PROVE  IInv'
  BY <1>5, <1>6 DEF ConstructFails, ConnectFails
<1>7. ASSUME NEW d \in DataFactories, NEW p \in Params, Connect(d, p)
      PROVE  IInv'
  <2>1. alive' = alive \cup {d}
    BY <1>7 DEF Connect
  <2> QED
    BY <1>7, <2>1, AcquireStep DEF Connect
<1>8. ASSUME NEW d \in DataFactories, Destroy(d)
      PROVE  IInv'
  <2>1. /\ ReleaseHeld(d) /\ UNCHANGED <<defaultParams, lostRefs>>
        /\ alive' \subseteq DataFactories
        /\ connection' = Redirect(connection, d, NoConnection)
    BY <1>0, <1>8 DEF Destroy, TypeOK, Redirect
  <2>2. connection' \in [DataFactories -> Pointers]
    BY <1>0, <2>1 DEF Redirect, Pointers
  <2>3. \A c \in Connections :
          Cardinality(HeldBy(connection', c)) =
            Cardinality(HeldBy(connection, c))
              - (IF connection[d] = c THEN 1 ELSE 0)
    <3> SUFFICES ASSUME NEW c \in Connections
                 PROVE  Cardinality(HeldBy(connection', c)) =
                          Cardinality(HeldBy(connection, c))
                            - (IF connection[d] = c THEN 1 ELSE 0)
      OBVIOUS
    <3>1. c \in Pointers /\ NoConnection \in Pointers /\ c # NoConnection
      BY <1>0 DEF Pointers
    <3>2. Cardinality(HeldBy(Redirect(connection, d, NoConnection), c)) =
            Cardinality(HeldBy(connection, c))
              - (IF connection[d] = c THEN 1 ELSE 0)
              + (IF NoConnection = c THEN 1 ELSE 0)
      BY <1>0, <3>1, HeldByUpdate
    <3> QED
      BY <2>1, <3>1, <3>2, HeldByFinite
  <2>4. \A x \in DataFactories : connection'[x] # NoConnection =>
          /\ x \in alive'
          /\ \E y \in DataFactories \ {d} : connection'[x] = connection[y]
    BY <1>0, <1>8, <2>1, HoldersAreCounted DEF Destroy, Redirect
  <2> QED
    BY <2>1, <2>2, <2>3, <2>4, ReleaseStep
<1>9. ASSUME NEW d \in DataFactories, NEW e \in DataFactories, d # e,
             e \in alive, ReleaseHeld(d), d \in alive',
             alive \subseteq alive', alive' \subseteq DataFactories,
             connection' = [connection EXCEPT ![d] = connection[e],
                                              ![e] = NoConnection],
             UNCHANGED <<defaultParams, lostRefs>>
      PROVE  IInv'
  <2>1. connection' =
          Redirect(Redirect(connection, d, connection[e]), e, NoConnection)
    BY <1>0, <1>9 DEF Redirect
  <2>2. connection' \in [DataFactories -> Pointers]
    BY <1>0, <1>9 DEF Pointers
  <2>3. \A c \in Connections :
          Cardinality(HeldBy(connection', c)) =
            Cardinality(HeldBy(connection, c))
              - (IF connection[d] = c THEN 1 ELSE 0)
    <3>1. \A c \in Connections :
            Cardinality(HeldBy(Redirect(Redirect(connection, d, connection[e]),
                                        e, NoConnection), c))
              = Cardinality(HeldBy(connection, c))
                  - (IF connection[d] = c THEN 1 ELSE 0)
      BY <1>0, <1>9, HeldByTransfer
    <3> QED
      BY <2>1, <3>1
  <2>4. \A x \in DataFactories : connection'[x] # NoConnection =>
          /\ x \in alive'
          /\ \E y \in DataFactories \ {d} : connection'[x] = connection[y]
    BY <1>0, <1>9, HoldersAreCounted
  <2> QED
    BY <1>9, <2>2, <2>3, <2>4, ReleaseStep
<1>10. ASSUME NEW d \in DataFactories, NEW e \in DataFactories,
              MoveConstruct(d, e)
       PROVE  IInv'
  <2>1. /\ d \notin alive /\ d # e /\ e \in alive /\ alive' = alive \cup {d}
        /\ alive' \subseteq DataFactories /\ UNCHANGED connVars
    BY <1>0, <1>10 DEF MoveConstruct, TypeOK
  <2>2. ReleaseHeld(d)
    BY <2>1 DEF ReleaseHeld, IInv, NoDanglingConnection
  <2> QED
    BY <1>9, <1>10, <2>1, <2>2 DEF MoveConstruct
<1>11. ASSUME NEW d \in DataFactories, NEW e \in DataFactories,
              MoveAssign(d, e)
       PROVE  IInv'
  BY <1>0, <1>9, <1>11 DEF MoveAssign, TypeOK
<1>12. CASE RequestDisconnect
  <2> DEFINE c == instance
  <2>1. /\ c \in Connections /\ UNCHANGED <<count, openedWith>>
        /\ UNCHANGED dfVars
        /\ destroyWhenIdle' = [destroyWhenIdle EXCEPT ![c] = TRUE]
        /\ count[c] = 0 => /\ instance' = NoConnection
                           /\ handle' = [handle EXCEPT ![c] = "closed"]
        /\ count[c] # 0 => instance' = instance /\ handle' = handle
    BY <1>0, <1>12 DEF RequestDisconnect, Disconnect, Delete, TypeOK, ConnTypeOK
  <2>2. TypeOK'
    BY <1>0, <2>1 DEF TypeOK, ConnTypeOK, dfVars
  <2>3. CountMatchesHolders'
    BY <2>1, PointersUnchanged DEF IInv, dfVars
  <2>4. NoDanglingConnection'
    <3>1. \A d \in DataFactories :
            connection[d] # NoConnection => count[connection[d]] # 0
      BY HoldersAreCounted
    <3> QED
      BY <1>0, <2>1, <3>1
         DEF IInv, NoDanglingConnection, TypeOK, ConnTypeOK, Pointers, dfVars
  <2>5. OneOpenConnection'
    BY <1>0, <2>1 DEF IInv, OneOpenConnection, TypeOK, ConnTypeOK
  <2>6. MarkedIsCounted'
    BY <1>0, <2>1
       DEF IInv, MarkedIsCounted, OneOpenConnection, TypeOK, ConnTypeOK
  <2> QED
    BY <2>2, <2>3, <2>4, <2>5, <2>6 DEF IInv
<1>13. CASE UNCHANGED vars
  BY <1>0, <1>1, <1>13 DEF vars, dfVars, TypeOK
<1> QED
  BY <1>2, <1>3, <1>4, <1>6, <1>7, <1>8, <1>10, <1>11, <1>12, <1>13 DEF Next

-----------------------------------------------------------------------------
LEMMA Invariance == Spec => []IInv
BY InitEstablishes, StepPreserves, PTL DEF Spec

(* The type invariant, for every value of the constants.                    *)
THEOREM TypeCorrect == Spec => []TypeOK
<1>1. IInv => TypeOK
  BY DEF IInv
<1> QED
  BY <1>1, Invariance, PTL

(* _count is always the number of DataFactory objects that point to the     *)
(* connection plus the references connect() overwrote.                      *)
THEOREM CountsAreExact == Spec => []CountMatchesHolders
<1>1. IInv => CountMatchesHolders
  BY DEF IInv
<1> QED
  BY <1>1, Invariance, PTL

(* No interleaving of constructions, moves, destructions and disconnect()   *)
(* leaves a DataFactory with a pointer to a deleted connection.             *)
THEOREM NothingDangles == Spec => []NoDanglingConnection
<1>1. IInv => NoDanglingConnection
  BY DEF IInv
<1> QED
  BY <1>1, Invariance, PTL

(* At most one MySQL session is open, and _instance points to it.           *)
THEOREM SingletonIsSingle == Spec => []OneOpenConnection
<1>1. IInv => OneOpenConnection
  BY DEF IInv
<1> QED
  BY <1>1, Invariance, PTL

(* A connection marked by disconnect() is open only while it is referenced. *)
THEOREM MarkedIsTornDown == Spec => []TornDownWhenReleased
<1>1. IInv => TornDownWhenReleased
  <2> SUFFICES ASSUME IInv, NEW c \in Connections, handle[c] = "open",
                      destroyWhenIdle[c], Holders(c) = {}
               PROVE  lostRefs[c] > 0
    BY DEF TornDownWhenReleased
  <2>1. count[c] > 0 /\ lostRefs[c] \in Nat
    BY DEF IInv, MarkedIsCounted, TypeOK
  <2>2. count[c] = Cardinality({}) + lostRefs[c]
    BY DEF IInv, CountMatchesHolders
  <2>3. Cardinality({}) = 0
    BY FS_EmptySet
  <2> QED
    BY <2>1, <2>2, <2>3
<1> QED
  BY <1>1, Invariance, PTL

(* A session closes only on request and under nobody.                       *)
THEOREM ClosesOnlyWhenIdle == Spec => ClosedOnlyOnRequest
<1>1. IInv /\ IInv' /\ [Next]_vars =>
        [\A c \in Connections : handle[c] = "open" /\ handle'[c] = "closed" =>
           destroyWhenIdle'[c] /\ Holders(c)' = {}]_vars
  <2> SUFFICES ASSUME IInv, IInv', Next, NEW c \in Connections,
                      handle[c] = "open", handle'[c] = "closed"
               PROVE  destroyWhenIdle'[c] /\ Holders(c)' = {}
    OBVIOUS
  <2>1. Holders(c)' = {}
    <3>1. c # NoConnection
      BY ConnectionAssumption
    <3>2. \A d \in DataFactories : connection'[d] # c
      BY <3>1 DEF IInv, NoDanglingConnection
    <3> QED
      BY <3>2 DEF Holders
  <2>2. destroyWhenIdle'[c]
    <3> USE DEF IInv, TypeOK, ConnTypeOK, connVars
    <3>1. ASSUME NEW d \in DataFactories, ReleaseHeld(d)
          PROVE  destroyWhenIdle'[c]
      BY <3>1 DEF ReleaseHeld, ReleaseInstance, Delete
    <3>2. ASSUME NEW p, NEW k \in Connections, GetCurrentInstance(p, k)
          PROVE  FALSE
      BY <3>2 DEF GetCurrentInstance, Join, Open
    <3>3. ASSUME NEW k \in Connections, OpenFails(k)
          PROVE  FALSE
      BY <3>3 DEF OpenFails
    <3>4. CASE RequestDisconnect
      BY <3>4 DEF RequestDisconnect, Disconnect, Delete
    <3> QED
      BY <3>1, <3>2, <3>3, <3>4
         DEF Next, SetDefaultConnectionParams, ClearDefaultConnectionParams,
             Construct, ConstructFails, Connect, ConnectFails, Destroy,
             MoveConstruct, MoveAssign
  <2> QED
    BY <2>1, <2>2
<1> QED
  BY <1>1, Invariance, PTL DEF Spec, ClosedOnlyOnRequest

-----------------------------------------------------------------------------
(***************************************************************************)
(* The counted connection implements the lease.                            *)
(*                                                                         *)
(* Two facts join the inductive invariant above: an object that was never  *)
(* opened carries no mark and no lost reference, so a new session starts   *)
(* clean; and an open one has parameters, so an open session is not taken  *)
(* for none.  The heart is LastReference: the counter is at zero, or about *)
(* to be, exactly when the users are none.                                 *)
(***************************************************************************)
UnusedAreClean ==
  \A c \in Connections :
    handle[c] = "none" => ~destroyWhenIdle[c] /\ lostRefs[c] = 0

OpenHasParams ==
  \A c \in Connections : handle[c] = "open" => openedWith[c] \in Params

LInv == IInv /\ UnusedAreClean /\ OpenHasParams

-----------------------------------------------------------------------------
LEMMA LInvInit == Init => LInv
<1>1. Init => IInv
  BY InitEstablishes
<1>2. Init => UnusedAreClean /\ OpenHasParams
  BY DEF Init, ConnInit, UnusedAreClean, OpenHasParams
<1> QED
  BY <1>1, <1>2 DEF LInv

(* What the steps do to an object's handle, mark and parameters, and to the *)
(* references lost.                                                         *)
LEMMA LInvStep == LInv /\ [Next]_vars => LInv'
<1> SUFFICES ASSUME LInv, [Next]_vars PROVE LInv'
  OBVIOUS
<1>1. IInv'
  BY StepPreserves DEF LInv
<1>2. IInv /\ TypeOK /\ ConnTypeOK /\ NoConnection \notin Connections
  BY ConnectionAssumption DEF LInv, IInv, TypeOK
<1> SUFFICES UnusedAreClean' /\ OpenHasParams'
  BY <1>1 DEF LInv
<1>3. ASSUME UNCHANGED connVars, UNCHANGED lostRefs
      PROVE  UnusedAreClean' /\ OpenHasParams'
  BY <1>3 DEF LInv, UnusedAreClean, OpenHasParams, connVars
<1>4. ASSUME NEW c \in Connections, OpenFails(c), UNCHANGED lostRefs
      PROVE  UnusedAreClean' /\ OpenHasParams'
  BY <1>2, <1>4 DEF LInv, UnusedAreClean, OpenHasParams, OpenFails, ConnTypeOK
<1>5. ASSUME NEW p \in Params, NEW c \in Connections, GetCurrentInstance(p, c),
             NEW d \in DataFactories,
             lostRefs' = IF connection[d] = NoConnection
                           THEN lostRefs
                           ELSE [lostRefs EXCEPT ![connection[d]] = @ + 1]
      PROVE  UnusedAreClean' /\ OpenHasParams'
  <2>1. \A k \in Connections :
          /\ handle'[k] = "none" => handle[k] = "none"
          /\ handle'[k] = "open" /\ handle[k] # "open" => openedWith'[k] = p
          /\ handle[k] = "open" => openedWith'[k] = openedWith[k]
          /\ destroyWhenIdle'[k] = destroyWhenIdle[k]
    BY <1>2, <1>5 DEF GetCurrentInstance, Join, Open, ConnTypeOK
  <2>2. \A k \in Connections : handle[k] = "none" => lostRefs'[k] = lostRefs[k]
    BY <1>2, <1>5, HoldersAreCounted DEF TypeOK
  <2> QED
    BY <2>1, <2>2 DEF LInv, UnusedAreClean, OpenHasParams
<1>6. ASSUME NEW d \in DataFactories, ReleaseHeld(d), UNCHANGED lostRefs
      PROVE  UnusedAreClean' /\ OpenHasParams'
  <2>1. CASE connection[d] = NoConnection
    BY <1>3, <1>6, <2>1 DEF ReleaseHeld
  <2>2. CASE connection[d] # NoConnection
    <3>1. ReleaseInstance(connection[d])
      BY <1>6, <2>2 DEF ReleaseHeld
    <3> QED
      BY <1>2, <1>6, <3>1 DEF ReleaseInstance, Delete, LInv, UnusedAreClean,
                              OpenHasParams, ConnTypeOK
  <2> QED
    BY <2>1, <2>2
<1>7. ASSUME NEW d \in DataFactories, Construct(d)
      PROVE  UnusedAreClean' /\ OpenHasParams'
  <2>1. CASE UNCHANGED connVars
    BY <1>3, <1>7, <2>1 DEF Construct
  <2>2. ASSUME NEW c \in Connections, defaultParams # NoParams,
               GetCurrentInstance(defaultParams, c)
        PROVE  UnusedAreClean' /\ OpenHasParams'
    <3>1. defaultParams \in Params /\ connection[d] = NoConnection
      BY <1>2, <1>7, <2>2 DEF TypeOK, IInv, NoDanglingConnection, Construct
    <3>2. UNCHANGED lostRefs
      BY <1>7 DEF Construct
    <3> QED
      BY <1>5, <2>2, <3>1, <3>2
  <2> QED
    BY <1>7, <2>1, <2>2 DEF Construct
<1>8. ASSUME NEW d \in DataFactories, NEW e \in DataFactories,
             MoveConstruct(d, e) \/ MoveAssign(d, e) \/ Destroy(d)
      PROVE  UnusedAreClean' /\ OpenHasParams'
  BY <1>3, <1>6, <1>8 DEF MoveConstruct, MoveAssign, Destroy
<1>9. CASE RequestDisconnect
  BY <1>2, <1>9 DEF RequestDisconnect, Disconnect, Delete, dfVars, LInv, IInv,
                    OneOpenConnection, UnusedAreClean, OpenHasParams, ConnTypeOK
<1>10. CASE UNCHANGED vars
  BY <1>3, <1>10 DEF vars, dfVars
<1> QED
  BY <1>3, <1>4, <1>5, <1>7, <1>8, <1>9, <1>10
     DEF Next, SetDefaultConnectionParams, ClearDefaultConnectionParams,
         ConstructFails, ConnectFails, Connect, dfVars

-----------------------------------------------------------------------------
(* The users of the session are the holders of the instance, and there are  *)
(* none, and no reference was lost, exactly when the counter is at zero.    *)
LEMMA LastReference ==
  ASSUME LInv, instance # NoConnection
  PROVE  /\ instance \in Connections
         /\ handle[instance] = "open"
         /\ OpenSession # NoParams
         /\ SessionUsers = HeldBy(connection, instance)
         /\ count[instance] = Cardinality(SessionUsers) + lostRefs[instance]
         /\ count[instance] = 0 <=> SessionUsers = {} /\ ~ReferenceLost
<1>1. instance \in Connections /\ handle[instance] = "open"
  BY DEF LInv, IInv, TypeOK, ConnTypeOK, OneOpenConnection
<1>2. OpenSession # NoParams
  BY <1>1, ConnectionAssumption DEF LInv, OpenHasParams, OpenSession
<1>3. SessionUsers = HeldBy(connection, instance)
  BY HoldersAreCounted DEF LInv, SessionUsers, HeldBy
<1>4. count[instance] = Cardinality(SessionUsers) + lostRefs[instance]
  BY <1>1, <1>3 DEF LInv, IInv, CountMatchesHolders, Holders, HeldBy
<1>5. IsFiniteSet(SessionUsers) /\ Cardinality(SessionUsers) \in Nat
  BY <1>3, HeldByFinite
<1>6. Cardinality(SessionUsers) = 0 <=> SessionUsers = {}
  BY <1>5, FS_EmptySet
<1>7. lostRefs[instance] \in Nat
  BY <1>1 DEF LInv, IInv, TypeOK
<1> QED
  BY <1>1, <1>2, <1>3, <1>4, <1>5, <1>6, <1>7 DEF ReferenceLost

(* Nobody uses a session that is not there.                                 *)
LEMMA NoSession ==
  ASSUME LInv, instance = NoConnection
  PROVE  /\ SessionUsers = {}
         /\ OpenSession = NoParams
         /\ ToBeClosed = FALSE
         /\ ReferenceLost = FALSE
         /\ \A d \in DataFactories : connection[d] = NoConnection
<1>1. \A d \in DataFactories : connection[d] = NoConnection
  BY HoldersAreCounted DEF LInv
<1> QED
  BY <1>1 DEF SessionUsers, OpenSession, ToBeClosed, ReferenceLost

(* getCurrentInstance() on behalf of d opens the lease or joins it.         *)
LEMMA AcquireMaps ==
  ASSUME LInv, NEW d \in DataFactories, NEW p \in Params,
         NEW c \in Connections, GetCurrentInstance(p, c),
         connection' = [connection EXCEPT ![d] = c],
         lostRefs' = IF connection[d] = NoConnection
                       THEN lostRefs
                       ELSE [lostRefs EXCEPT ![connection[d]] = @ + 1]
  PROVE  Lease!Open(d, p) \/ Lease!Join(d)
<1>1. /\ TypeOK /\ ConnTypeOK /\ NoConnection \notin Connections
      /\ NoParams \notin Params
  BY ConnectionAssumption DEF LInv, IInv, TypeOK
<1>2. SessionUsers' = SessionUsers \cup {d}
  BY <1>1 DEF SessionUsers, TypeOK
<1>3. CASE Open(p, c)
  <2>1. /\ instance = NoConnection /\ handle[c] = "none" /\ instance' = c
        /\ openedWith'[c] = p /\ destroyWhenIdle' = destroyWhenIdle
    BY <1>1, <1>3 DEF Open, ConnTypeOK
  <2>2. /\ SessionUsers = {} /\ OpenSession = NoParams
        /\ ToBeClosed = FALSE /\ ReferenceLost = FALSE
        /\ connection[d] = NoConnection
    BY <2>1, NoSession
  <2>3. ~destroyWhenIdle[c] /\ lostRefs'[c] = 0
    BY <2>1, <2>2 DEF LInv, UnusedAreClean
  <2>4. /\ OpenSession' = p
        /\ ToBeClosed' = FALSE /\ ReferenceLost' = FALSE
    BY <1>1, <2>1, <2>3 DEF OpenSession, ToBeClosed, ReferenceLost
  <2> QED
    BY <1>2, <2>2, <2>4 DEF Lease!Open, Lease!Joined
<1>4. CASE Join(c)
  <2>1. /\ instance = c /\ UNCHANGED <<instance, openedWith, destroyWhenIdle>>
    BY <1>4 DEF Join
  <2>2. OpenSession # NoParams
    BY <1>1, <2>1, LastReference
  <2>3. OpenSession' = OpenSession /\ ToBeClosed' = ToBeClosed
    BY <2>1 DEF OpenSession, ToBeClosed
  <2>4. connection[d] # NoConnection => connection[d] = c
    BY <2>1, HoldersAreCounted DEF LInv
  <2>5. lostRefs[c] \in Nat
    BY <1>1 DEF TypeOK
  <2>6. ReferenceLost' = (ReferenceLost \/ d \in SessionUsers)
    <3>1. CASE connection[d] = NoConnection
      BY <2>1, <3>1 DEF ReferenceLost, SessionUsers
    <3>2. CASE connection[d] # NoConnection
      <4>1. lostRefs'[c] = lostRefs[c] + 1
        BY <1>1, <2>4, <3>2 DEF TypeOK
      <4> QED
        BY <1>1, <2>1, <2>5, <3>2, <4>1 DEF ReferenceLost, SessionUsers
    <3> QED
      BY <3>1, <3>2
  <2> QED
    BY <1>2, <2>2, <2>3, <2>6 DEF Lease!Join, Lease!Joined
<1> QED
  BY <1>3, <1>4 DEF GetCurrentInstance

(* Releasing the pointer of d is x's leaving the lease, when the users left *)
(* are all but x (d itself, or the one d took the pointer from).            *)
LEMMA ReleaseMaps ==
  ASSUME LInv, NEW d \in DataFactories, connection[d] # NoConnection,
         ReleaseHeld(d), UNCHANGED lostRefs,
         NEW x \in SessionUsers, SessionUsers' = SessionUsers \ {x}
  PROVE  Lease!Leave(x)
<1> DEFINE k == connection[d]
           rest == SessionUsers \ {x}
<1>1. TypeOK /\ ConnTypeOK /\ MaxCount \in Nat /\ NoConnection \notin Connections
  BY ConnectionAssumption DEF LInv, IInv, TypeOK
<1>2. instance = k /\ k \in Connections /\ count[k] \in 1..MaxCount
  BY HoldersAreCounted DEF LInv
<1>3. /\ SessionUsers = HeldBy(connection, k) /\ OpenSession # NoParams
      /\ count[k] = Cardinality(SessionUsers) + lostRefs[k]
      /\ lostRefs[k] \in Nat
  BY <1>1, <1>2, LastReference DEF TypeOK
<1>4. /\ IsFiniteSet(rest) /\ Cardinality(rest) \in Nat
      /\ Cardinality(rest) = Cardinality(SessionUsers) - 1
      /\ Cardinality(rest) = 0 <=> rest = {}
  <2>1. IsFiniteSet(SessionUsers)
    BY <1>3, HeldByFinite
  <2>2. IsFiniteSet(rest) /\ Cardinality(rest) = Cardinality(SessionUsers) - 1
    BY <2>1, FS_RemoveElement
  <2> QED
    BY <2>2, FS_CardinalityType, FS_EmptySet
<1>5. Cardinality(SessionUsers) \in Nat
  BY <1>3, HeldByFinite
<1>6. Decremented(count[k]) = 0 <=> rest = {} /\ lostRefs[k] = 0
  <2>1. Decremented(count[k]) = count[k] - 1
    BY <1>1, <1>2 DEF Decremented
  <2> HIDE DEF rest, k
  <2> QED
    BY <1>3, <1>4, <1>5, <2>1
<1>7. ReleaseInstance(k)
  BY DEF ReleaseHeld
<1>8. CASE rest = {} /\ lostRefs[k] = 0 /\ destroyWhenIdle[k]
  <2>1. instance' = NoConnection
    BY <1>2, <1>6, <1>7, <1>8 DEF ReleaseInstance, Delete
  <2>2. /\ OpenSession' = NoParams
        /\ ToBeClosed' = FALSE /\ ReferenceLost' = FALSE
    BY <2>1 DEF OpenSession, ToBeClosed, ReferenceLost
  <2>3. ToBeClosed /\ ReferenceLost = FALSE
    BY <1>1, <1>2, <1>8 DEF ToBeClosed, ReferenceLost
  <2> QED
    BY <1>8, <2>2, <2>3 DEF Lease!Leave, Lease!CloseIfIdle
<1>9. CASE ~(rest = {} /\ lostRefs[k] = 0 /\ destroyWhenIdle[k])
  <2>1. UNCHANGED <<instance, destroyWhenIdle, openedWith>>
    BY <1>2, <1>6, <1>7, <1>9 DEF ReleaseInstance
  <2>2. UNCHANGED <<OpenSession, ToBeClosed, ReferenceLost>>
    BY <2>1 DEF OpenSession, ToBeClosed, ReferenceLost
  <2>3. ~(rest = {} /\ ToBeClosed /\ ~ReferenceLost)
    <3>1. ToBeClosed <=> destroyWhenIdle[k]
      BY <1>1, <1>2 DEF ToBeClosed
    <3>2. ~ReferenceLost <=> lostRefs[k] = 0
      BY <1>1, <1>2, <1>3 DEF ReferenceLost
    <3> QED
      BY <1>9, <3>1, <3>2
  <2> QED
    BY <2>2, <2>3 DEF Lease!Leave, Lease!CloseIfIdle
<1> QED
  BY <1>8, <1>9

-----------------------------------------------------------------------------
LEMMA InitMaps == Init => Lease!Init
<1> SUFFICES ASSUME Init PROVE Lease!Init
  OBVIOUS
<1>1. SessionUsers = {}
  BY DEF Init, SessionUsers
<1> QED
  BY <1>1 DEF Init, ConnInit, Lease!Init, OpenSession, ToBeClosed, ReferenceLost

(* Steps that leave the pointers alone do not show in the lease.            *)
LEMMA NothingSeen ==
  ASSUME UNCHANGED <<instance, openedWith, destroyWhenIdle>>,
         UNCHANGED <<connection, lostRefs>>
  PROVE  UNCHANGED Lease!vars
BY DEF Lease!vars, OpenSession, SessionUsers, ToBeClosed, ReferenceLost

(* Every step of the code is a step of the lease, or none of its business.  *)
LEMMA StepMaps == LInv /\ [Next]_vars => [Lease!Next]_Lease!vars
<1> SUFFICES ASSUME LInv, [Next]_vars PROVE Lease!Next \/ UNCHANGED Lease!vars
  OBVIOUS
<1>0. /\ TypeOK /\ ConnTypeOK /\ NoConnection \notin Connections
      /\ SessionUsers \subseteq DataFactories
  BY ConnectionAssumption DEF LInv, IInv, TypeOK, SessionUsers
<1>1. ASSUME NEW u \in DataFactories, NEW p \in Params,
             Lease!Open(u, p) \/ Lease!Join(u) \/ Lease!Leave(u)
      PROVE  Lease!Next
  BY <1>1 DEF Lease!Next
<1>2. ASSUME NEW u \in DataFactories, Lease!Leave(u)
      PROVE  Lease!Next
  BY <1>2 DEF Lease!Next
<1>3. CASE \/ \E p \in Params : SetDefaultConnectionParams(p)
           \/ ClearDefaultConnectionParams
           \/ UNCHANGED vars
  BY <1>3, NothingSeen DEF SetDefaultConnectionParams, dfVars, vars,
                           ClearDefaultConnectionParams, connVars
<1>4. ASSUME NEW d \in DataFactories, ConstructFails(d) \/ ConnectFails(d)
      PROVE  UNCHANGED Lease!vars
  BY <1>4, NothingSeen DEF ConstructFails, ConnectFails, OpenFails, dfVars
<1>5. ASSUME NEW d \in DataFactories, Construct(d)
      PROVE  Lease!Next \/ UNCHANGED Lease!vars
  <2>1. connection[d] = NoConnection /\ UNCHANGED lostRefs
    BY <1>5 DEF Construct, LInv, IInv, NoDanglingConnection
  <2>2. CASE /\ connection' = [connection EXCEPT ![d] = NoConnection]
             /\ UNCHANGED connVars
    <3>1. connection' = connection
      BY <1>0, <2>1, <2>2 DEF TypeOK
    <3> QED
      BY <2>1, <2>2, <3>1, NothingSeen DEF connVars
  <2>3. ASSUME NEW c \in Connections, defaultParams # NoParams,
               GetCurrentInstance(defaultParams, c),
               connection' = [connection EXCEPT ![d] = c]
        PROVE  Lease!Next
    <3>1. defaultParams \in Params
      BY <1>0, <2>3 DEF TypeOK
    <3> QED
      BY <1>1, <2>1, <2>3, <3>1, AcquireMaps
  <2> QED
    BY <1>5, <2>2, <2>3 DEF Construct
<1>6. ASSUME NEW d \in DataFactories, NEW p \in Params, Connect(d, p)
      PROVE  Lease!Next
  BY <1>1, <1>6, AcquireMaps DEF Connect
<1>7. ASSUME NEW d \in DataFactories, Destroy(d)
      PROVE  Lease!Next \/ UNCHANGED Lease!vars
  <2>1. CASE connection[d] = NoConnection
    <3>1. connection' = connection /\ UNCHANGED connVars /\ UNCHANGED lostRefs
      BY <1>0, <1>7, <2>1 DEF Destroy, ReleaseHeld, TypeOK
    <3> QED
      BY <3>1, NothingSeen DEF connVars
  <2>2. CASE connection[d] # NoConnection
    <3>1. d \in SessionUsers /\ SessionUsers' = SessionUsers \ {d}
      BY <1>0, <1>7, <2>2 DEF Destroy, SessionUsers, TypeOK
    <3> QED
      BY <1>2, <1>7, <2>2, <3>1, ReleaseMaps DEF Destroy
  <2> QED
    BY <2>1, <2>2
<1>8. ASSUME NEW d \in DataFactories, NEW e \in DataFactories, d # e,
             ReleaseHeld(d), UNCHANGED lostRefs,
             connection' = [connection EXCEPT ![d] = connection[e],
                                              ![e] = NoConnection]
      PROVE  Lease!Next \/ UNCHANGED Lease!vars
  <2>1. \A x \in DataFactories :
          connection'[x] = IF x = e THEN NoConnection
                           ELSE IF x = d THEN connection[e] ELSE connection[x]
    BY <1>0, <1>8 DEF TypeOK
  <2>2. CASE connection[d] = NoConnection /\ connection[e] = NoConnection
    <3>1. connection' = connection /\ UNCHANGED connVars
      BY <1>0, <1>8, <2>2 DEF ReleaseHeld, TypeOK
    <3> QED
      BY <1>8, <3>1, NothingSeen DEF connVars
  <2>3. CASE connection[d] = NoConnection /\ connection[e] # NoConnection
    <3>1. /\ e \in SessionUsers /\ d \notin SessionUsers
          /\ SessionUsers' = (SessionUsers \ {e}) \cup {d}
      BY <1>8, <2>1, <2>3 DEF SessionUsers
    <3>2. UNCHANGED <<OpenSession, ToBeClosed, ReferenceLost>>
      BY <1>8, <2>3 DEF ReleaseHeld, connVars, OpenSession, ToBeClosed,
                        ReferenceLost
    <3>3. Lease!HandOver(e, d)
      BY <3>1, <3>2 DEF Lease!HandOver
    <3> QED
      BY <3>3 DEF Lease!Next
  <2>4. CASE connection[d] # NoConnection
    <3> DEFINE x == IF connection[e] = NoConnection THEN d ELSE e
    <3>1. x \in SessionUsers /\ SessionUsers' = SessionUsers \ {x}
      BY <1>8, <2>1, <2>4 DEF SessionUsers
    <3> HIDE DEF x
    <3> QED
      BY <1>0, <1>2, <1>8, <2>4, <3>1, ReleaseMaps
  <2> QED
    BY <2>2, <2>3, <2>4
<1>9. ASSUME NEW d \in DataFactories, NEW e \in DataFactories,
             MoveConstruct(d, e)
      PROVE  Lease!Next \/ UNCHANGED Lease!vars
  <2>1. connection[d] = NoConnection /\ d # e
    BY <1>9 DEF MoveConstruct, LInv, IInv, NoDanglingConnection
  <2> QED
    BY <1>8, <1>9, <2>1 DEF MoveConstruct, ReleaseHeld
<1>10. ASSUME NEW d \in DataFactories, NEW e \in DataFactories,
              MoveAssign(d, e)
       PROVE  Lease!Next \/ UNCHANGED Lease!vars
  BY <1>8, <1>10 DEF MoveAssign
<1>11. CASE RequestDisconnect
  <2>1. /\ instance # NoConnection /\ UNCHANGED <<connection, lostRefs, openedWith>>
        /\ destroyWhenIdle' = [destroyWhenIdle EXCEPT ![instance] = TRUE]
    BY <1>11 DEF RequestDisconnect, Disconnect, dfVars
  <2>2. /\ instance \in Connections /\ OpenSession # NoParams
        /\ count[instance] = 0 <=> SessionUsers = {} /\ ~ReferenceLost
    BY <2>1, LastReference
  <2>3. SessionUsers' = SessionUsers
    BY <2>1 DEF SessionUsers
  <2>4. CASE count[instance] = 0
    <3>1. instance' = NoConnection
      BY <1>11, <2>4 DEF RequestDisconnect, Disconnect, Delete
    <3>2. /\ OpenSession' = NoParams
          /\ ToBeClosed' = FALSE /\ ReferenceLost' = FALSE
      BY <3>1 DEF OpenSession, ToBeClosed, ReferenceLost
    <3>3. SessionUsers = {} /\ ReferenceLost = FALSE
      BY <2>2, <2>4 DEF ReferenceLost
    <3>4. Lease!RequestClose
      BY <2>2, <2>3, <3>2, <3>3 DEF Lease!RequestClose, Lease!CloseIfIdle
    <3> QED
      BY <3>4 DEF Lease!Next
  <2>5. CASE count[instance] # 0
    <3>1. instance' = instance
      BY <1>11, <2>5 DEF RequestDisconnect, Disconnect
    <3>2. UNCHANGED <<OpenSession, ReferenceLost>> /\ ToBeClosed' = TRUE
      BY <1>0, <2>1, <2>2, <3>1
         DEF OpenSession, ToBeClosed, ReferenceLost, ConnTypeOK
    <3>3. Lease!RequestClose
      BY <2>2, <2>3, <2>5, <3>2 DEF Lease!RequestClose, Lease!CloseIfIdle
    <3> QED
      BY <3>3 DEF Lease!Next
  <2> QED
    BY <2>4, <2>5
<1> QED
  BY <1>3, <1>4, <1>5, <1>6, <1>7, <1>9, <1>10, <1>11 DEF Next

-----------------------------------------------------------------------------
LEMMA LInvariance == Spec => []LInv
BY LInvInit, LInvStep, PTL DEF Spec

(* The pointers, marks and counts of DataFactory.h and MySqlConnection.cpp  *)
(* implement the lease: the session its users share opens with the first    *)
(* and, once its end is asked for, closes with the last.                    *)
THEOREM LeaseImplemented == Spec => ImplementsLease
<1>1. Lease!Init /\ [][Lease!Next]_Lease!vars => ImplementsLease
  BY DEF ImplementsLease, Lease!Spec
<1> QED
  BY <1>1, InitMaps, StepMaps, LInvariance, PTL DEF Spec
==============================================================================
