---------------------------- MODULE SnapshotCache ----------------------------
(***************************************************************************)
(* What a *SingleVersionSnapshotCacheData promises its users, with no      *)
(* containers, mutexes or reference counts: the cache always holds the     *)
(* rows of the table that some query found, all of them and nothing else   *)
(* ("lookupEntry() never sees a half-populated cache", CacheData.h:20-22), *)
(* and the row a lookup returned stays what it was for as long as the      *)
(* caller holds it, whatever is reloaded meanwhile (CacheData.h:43-46).    *)
(***************************************************************************)
EXTENDS Naturals

CONSTANTS
  Threads,      \* the threads that reload
  Handles,      \* the RCPtr variables callers look entries up into
  MaxVersion,   \* bound: how often the table changes
  Table,        \* the rows of the table at each version, in query order
  Criteria,     \* the categories the cache is constrained to
  NoRow         \* what an empty handle shows

VARIABLES
  version,     \* the version of the table in the database
  inFlight,    \* per thread: the versions its running reload has read
  published,   \* what lookups see
  shown,       \* the row each handle shows
  answer       \* the key and the return value of the last lookup, if any

vars == <<version, inFlight, published, shown, answer>>

(* The cache that holds nothing.                                            *)
Nothing == [k \in {} |-> NoRow]

(* The rows of the table that meet the criteria.                            *)
Meeting(v) == {i \in DOMAIN Table[v] : Table[v][i].category \in Criteria}

(* The cache made of the whole table at a version: under each key, the      *)
(* first row that meets the criteria.                                       *)
Contents(v) ==
  [k \in {Table[v][i].key : i \in Meeting(v)} |->
     Table[v][CHOOSE i \in Meeting(v) :
                /\ Table[v][i].key = k
                /\ \A j \in Meeting(v) : Table[v][j].key = k => i <= j]]

Init ==
  /\ version = 0
  /\ inFlight = [t \in Threads |-> {}]
  /\ published = Nothing
  /\ shown = [h \in Handles |-> NoRow]
  /\ answer = {}

UpdateTable ==
  /\ version < MaxVersion
  /\ version' = version + 1
  /\ UNCHANGED <<inFlight, published, shown, answer>>

TakeSnapshot(t) ==
  /\ inFlight[t] = {}
  /\ inFlight' = [inFlight EXCEPT ![t] = {version}]
  /\ UNCHANGED <<version, published, shown, answer>>

Publish(t) ==
  /\ \E v \in inFlight[t] : published' = Contents(v)
  /\ inFlight' = [inFlight EXCEPT ![t] = {}]
  /\ UNCHANGED <<version, shown, answer>>

Abandon(t) ==
  /\ inFlight[t] # {}
  /\ inFlight' = [inFlight EXCEPT ![t] = {}]
  /\ UNCHANGED <<version, published, shown, answer>>

Lookup(h, k) ==
  /\ answer' = {[key |-> k, found |-> k \in DOMAIN published]}
  /\ shown' = IF k \in DOMAIN published
                THEN [shown EXCEPT ![h] = published[k]]
                ELSE shown
  /\ UNCHANGED <<version, inFlight, published>>

Copy(g, h) ==
  /\ shown' = [shown EXCEPT ![h] = shown[g]]
  /\ UNCHANGED <<version, inFlight, published, answer>>

Forget(h) ==
  /\ shown' = [shown EXCEPT ![h] = NoRow]
  /\ UNCHANGED <<version, inFlight, published, answer>>

(* The cache goes while nobody reloads it, and what it held with it; what   *)
(* callers have looked up stays with them.                                  *)
Discard ==
  /\ \A t \in Threads : inFlight[t] = {}
  /\ published' = Nothing
  /\ UNCHANGED <<version, inFlight, shown, answer>>

Keys == UNION {{Table[v][i].key : i \in DOMAIN Table[v]} : v \in DOMAIN Table}

Next ==
  \/ UpdateTable
  \/ \E t \in Threads : TakeSnapshot(t) \/ Publish(t) \/ Abandon(t)
  \/ \E h \in Handles, k \in Keys : Lookup(h, k)
  \/ \E h \in Handles : Forget(h)
  \/ \E g, h \in Handles : Copy(g, h)
  \/ Discard

Spec == Init /\ [][Next]_vars
=============================================================================
