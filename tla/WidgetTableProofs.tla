-------------------------- MODULE WidgetTableProofs --------------------------
(***************************************************************************)
(* What users of one connection get when they keep transaction calls apart *)
(* from all other calls (CallersSerialize), proved for any clients, keys,  *)
(* texts, calls and foreign keys: first the statements and transactions of *)
(* Session, then what query() and its processors make of them.             *)
(***************************************************************************)
EXTENDS WidgetTable, FiniteSetTheorems, TLAPS

InStatement(c) == pc[c] \in {"sent", "storing", "answered"}

(* The rows are finite, so that the affected ones can be counted.           *)
TablesAreFinite == IsFiniteSet(current) /\ IsFiniteSet(durable)

(* A statement is under way exactly for the holder of _queryMutex.          *)
MutexHeldInStatement ==
  \A c \in Clients : queryMutex = c <=> InStatement(c)

(* A client is in the steps of the kind of call it made.                    *)
StepsFitCall ==
  \A c \in Clients :
    /\ InStatement(c) => call[c] \in Statements
    /\ InTransactionCall(c) => call[c] \in TransactionCalls

(* Whoever is in a transaction call is alone in any call.                   *)
TransactionCallsAlone ==
  \A c \in Clients :
    InTransactionCall(c) =>
      /\ queryMutex = NoClient
      /\ \A d \in Clients : InTransactionCall(d) => d = c

(* Who is where: the holder of the mutex, the transaction call.             *)
Places ==
  /\ MutexHeldInStatement
  /\ StepsFitCall
  /\ TransactionCallsAlone
  /\ WireExclusive

(* The server's mode and the flag within a transaction call.                *)
ModeKnown ==
  /\ \A c \in Clients : pc[c] = "restoring" => transactionActive = FALSE
  /\ \A c \in Clients : pc[c] = "ending" => transactionActive = TRUE
  /\ up /\ (\E c \in Clients : InTransactionCall(c)) => autocommit = FALSE
  /\ AutocommitFollowsFlag

(* The handle holds the answer to a call until the call has ended.          *)
KeptFor(c) ==
  /\ pc[c] = "sent" /\ (call[c] \notin Selects \/ answer[c].error # "none")
       => answer[c].rows = {}
  /\ pc[c] = "answered" => seen[c] = answer[c] /\ reply = answer[c]
  /\ pc[c] = "returned" /\ call[c] \in Statements => EndedAsAnswered(c)

AnswersKept == \A c \in Clients : KeptFor(c)

SInv ==
  /\ TableTypeOK
  /\ TablesAreFinite
  /\ Places
  /\ ModeKnown
  /\ AnswersKept

-----------------------------------------------------------------------------
(* The steps as the connection sees them.                                   *)
SessionStep ==
  \/ \E c \in Clients :
       \/ \E s \in Statements : SendStatement(c, s)
       \/ CallStep(c) \/ Resume(c)
       \/ StartTransaction(c) \/ CommitTransaction(c) \/ RollbackTransaction(c)
  \/ LoseConnection

-----------------------------------------------------------------------------
(* The tables' data.                                                        *)

LEMMA SqlOfEntries ==
  /\ \A e \in Entries : InsertSql(e) \in Modifications
                        /\ UpdateSql(e) \in Modifications
  /\ \A k \in Keys : DeleteSql(k) \in Modifications
  /\ \A q \in PossibleQueries : QuerySql(q) \in Selects
  /\ Modifications \subseteq Statements
  /\ Selects \subseteq Statements
  /\ ClearSql \in Statements
<1>1. /\ \A e \in Entries : InsertSql(e) \in Modifications
                            /\ UpdateSql(e) \in Modifications
      /\ \A k \in Keys : DeleteSql(k) \in Modifications
  BY DEF Modifications
<1>2. ASSUME NEW q \in PossibleQueries
      PROVE  QuerySql(q) \in Selects
  <2>1. CASE q \in [by : {"key"}, key : Keys, processor : Processors]
    <3>1. q.by = "key" /\ q.key \in Keys
      BY <2>1
    <3>2. QED
      BY <3>1 DEF QuerySql, Selects
  <2>2. CASE q \in [by : {"category"}, category : Texts,
                    processor : Processors]
    <3>1. q.by = "category" /\ q.category \in Texts
      BY <2>2
    <3>2. QED
      BY <3>1 DEF QuerySql, Selects
  <2>3. CASE q \in [by : {"all"}, processor : Processors]
    <3>1. q.by = "all"
      BY <2>3
    <3>2. QED
      BY <3>1 DEF QuerySql, Selects
  <2>4. QED
    BY <2>1, <2>2, <2>3 DEF PossibleQueries
<1>3. QED
  BY <1>1, <1>2 DEF Statements

(* A converted row is an entry and carries the row's key.                   *)
LEMMA MappedRow ==
  ASSUME NEW row \in Rows
  PROVE  MapRow(row) \in Entries /\ MapRow(row).key = row.key
BY WidgetAssumption DEF MapRow, FetchedValue, Rows, Entries

(* What an insert or an update writes fits the columns.                     *)
LEMMA WrittenCells ==
  ASSUME NEW s \in Statements, s.kind \in {"insert", "update"}
  PROVE  s.key \in Keys /\ s.category \in (Texts \ {Empty}) \cup {NullCell}
<1>1. CASE \E e \in Entries : s = InsertSql(e) \/ s = UpdateSql(e)
  BY <1>1 DEF InsertSql, UpdateSql, ColumnValue, Entries
<1>2. CASE \E k \in Keys : s = DeleteSql(k)
  BY <1>2 DEF DeleteSql
<1>3. CASE s \in Selects \/ s = ClearSql
  BY <1>3 DEF Selects, ClearSql, SelectByKeySql, SelectAllSql,
              SelectByCategorySql
<1>4. QED
  BY <1>1, <1>2, <1>3 DEF Statements, Modifications

LEMMA TargetsAreRows ==
  ASSUME NEW table, NEW s
  PROVE  Targets(s, table) \subseteq table
BY DEF Targets

(* A statement leaves a finite table of rows.                               *)
LEMMA TableAfter ==
  ASSUME NEW s \in Statements, NEW table \in SUBSET Rows, IsFiniteSet(table),
         NEW protected
  PROVE  /\ RowsAfter(s, table, protected) \in SUBSET Rows
         /\ IsFiniteSet(RowsAfter(s, table, protected))
<1> DEFINE changed == Targets(s, table)
           update == [row \in changed |-> [row EXCEPT !.category = s.category]]
           updated == {update[row] : row \in changed}
           new == [key |-> s.key, category |-> s.category]
<1>1. changed \subseteq table /\ IsFiniteSet(changed)
         /\ IsFiniteSet(table \ changed)
  BY TargetsAreRows, FS_Subset
<1>2. s.kind = "insert" => new \in Rows
  BY WrittenCells DEF Rows
<1>3. s.kind = "update" => updated \subseteq Rows
  BY <1>1, WrittenCells DEF Rows
<1>4. IsFiniteSet(updated)
  <2>1. update \in Surjection(changed, updated)
    BY DEF Surjection
  <2>2. QED
    BY <1>1, <2>1, FS_Surjection
<1>5. RowsAfter(s, table, protected) =
        IF Refusal(s, table, protected) # "none" THEN table
        ELSE IF s.kind = "insert" THEN table \cup {new}
        ELSE IF s.kind = "update" THEN (table \ changed) \cup updated
        ELSE IF s.kind \in {"remove", "clear"} THEN table \ changed
        ELSE table
  BY DEF RowsAfter
<1>6. QED
  <2> HIDE DEF changed, update, updated, new
  <2>1. IsFiniteSet(table \cup {new})
          /\ IsFiniteSet((table \ changed) \cup updated)
    BY <1>1, <1>4, FS_AddElement, FS_Union
  <2>2. QED
    BY <1>1, <1>2, <1>3, <1>5, <2>1

(* The answer to a statement is a reply; only a query's has rows.           *)
LEMMA AnswerIsReply ==
  ASSUME NEW s \in Statements, NEW table \in SUBSET Rows, IsFiniteSet(table),
         current = table, NEW protected
  PROVE  /\ AnswerTo(s, protected) \in Replies
         /\ s \notin Selects \/ AnswerTo(s, protected).error # "none"
              => AnswerTo(s, protected).rows = {}
<1>1. Refusal(s, table, protected) \in Errors
  BY DEF Refusal, Errors
<1>2. Cardinality(Targets(s, table)) \in Nat
  BY TargetsAreRows, FS_Subset, FS_CardinalityType
<1>3. AffectedRows(s, table, protected) \in Nat
  <2>1. /\ IsFiniteSet(RowsAfter(s, table, protected) \ table)
        /\ IsFiniteSet(table \ RowsAfter(s, table, protected))
    BY TableAfter, FS_Difference
  <2>2. QED
    BY <2>1, FS_CardinalityType DEF AffectedRows
<1>4. Targets(s, table) \in SUBSET Rows
  BY TargetsAreRows
<1>5. QED
  BY <1>1, <1>2, <1>3, <1>4 DEF AnswerTo, Failed, OK, Replies, Errors

LEMMA FailedIsReply ==
  /\ OK \in Replies
  /\ \A e \in Errors :
       Failed(e) \in Replies /\ Failed(e).error = e /\ Failed(e).rows = {}
BY DEF Failed, OK, Replies, Errors

LEMMA CallsApart ==
  /\ TransactionCalls \cap Statements = {}
  /\ NoCall \notin Statements \cup TransactionCalls
  /\ \A k \in {"start", "commit", "rollback"} : [kind |-> k] \in TransactionCalls
<1>1. \A s \in Statements : s.kind \in {"insert", "update", "remove",
        "selectByKey", "selectAll", "selectByCategory", "clear"}
  BY DEF Statements, Modifications, Selects, InsertSql, UpdateSql, DeleteSql,
         SelectByKeySql, SelectAllSql, SelectByCategorySql, ClearSql
<1>2. \A s \in TransactionCalls : s.kind \in {"start", "commit", "rollback"}
  BY DEF TransactionCalls
<1>3. QED
  BY <1>1, <1>2 DEF TransactionCalls, NoCall

-----------------------------------------------------------------------------
(* Type correctness.                                                        *)

(* Every step of the tables' clients is a step of the session.              *)
LEMMA StepIsSessionStep ==
  ASSUME TableTypeOK, [Next]_tableVars
  PROVE  [SessionStep]_vars
<1> USE DEF SessionStep
<1>1. CASE UNCHANGED tableVars
  BY <1>1 DEF tableVars
<1>2. ASSUME NEW c \in Clients, Step(c) \/ TransactionCall(c)
      PROVE  [SessionStep]_vars
  <2>1. CASE CallStep(c) \/ Resume(c)
    BY <2>1
  <2>2. CASE TransactionCall(c)
    BY <2>2 DEF TransactionCall
  <2>3. CASE RemoveRow(c)
    <3>1. PICK row \in query[c].todo : SendStatement(c, DeleteSql(MapRow(row).key))
      BY <2>3 DEF RemoveRow
    <3>2. query[c].todo \subseteq Rows
      BY <2>3 DEF RemoveRow, TableTypeOK, QueryStates, NoQuery
    <3>3. DeleteSql(MapRow(row).key) \in Statements
      BY <3>1, <3>2, MappedRow, SqlOfEntries DEF Rows
    <3>4. QED
      BY <3>1, <3>3
  <2>4. CASE ProcessRow(c) \/ FinishQuery(c)
    BY <2>4 DEF ProcessRow, FinishQuery
  <2>5. CASE ReturnToCaller(c) \/ FetchResult(c) \/ RowRemoved(c)
    BY <2>5 DEF ReturnToCaller, FetchResult, RowRemoved
  <2>6. QED
    BY <1>2, <2>1, <2>2, <2>3, <2>4, <2>5 DEF Step
<1>3. ASSUME NEW c \in Modifiers,
             \/ \E e \in Inserts : Insert(c, e)
             \/ \E e \in Updates : Update(c, e)
             \/ \E k \in Removes : Remove(c, k)
      PROVE  [SessionStep]_vars
  <2>1. \E s \in Statements : SendStatement(c, s)
    BY <1>3, SqlOfEntries, WidgetTableAssumption DEF Insert, Update, Remove
  <2>2. QED
    BY <2>1, WidgetTableAssumption
<1>4. ASSUME NEW c \in Queriers,
             Clear(c) \/ \E q \in TableQueries : Query(c, q)
      PROVE  [SessionStep]_vars
  <2>1. \E s \in Statements : SendStatement(c, s)
    BY <1>4, SqlOfEntries, WidgetTableAssumption DEF Clear, Query
  <2>2. QED
    BY <2>1, WidgetTableAssumption
<1>5. CASE LoseConnection
  BY <1>5
<1>6. QED
  BY <1>1, <1>2, <1>3, <1>4, <1>5 DEF Next

LEMMA CommandTypes ==
  ASSUME TypeOK, TablesAreFinite, NEW c \in Clients, NEW m \in BOOLEAN,
         NEW d \in {durable, current}, NEW r \in {durable, current},
         Command(c, m, d, r)
  PROVE  /\ up' \in BOOLEAN /\ autocommit' \in BOOLEAN
         /\ current' \subseteq Rows /\ durable' \subseteq Rows
         /\ TablesAreFinite'
         /\ reply' \in Replies
         /\ answer' \in [Clients -> Replies]
         /\ mixed' \subseteq Clients
<1>1. "lost" \in Errors /\ "outOfSync" \in Errors
  BY DEF Errors
<1>2. reply' \in Replies
  BY <1>1, FailedIsReply DEF Command
<1>3. QED
  BY <1>2 DEF Command, TypeOK, TablesAreFinite, OnWire

LEMMA TransmitTypes ==
  ASSUME TypeOK, TablesAreFinite, NEW c \in Clients, NEW s \in Statements,
         Transmit(c, s)
  PROVE  TypeOK' /\ TablesAreFinite'
<1>1. "lost" \in Errors
  BY DEF Errors
<1>2. /\ answer' \in [Clients -> Replies]
      /\ current' \in SUBSET Rows /\ durable' \in SUBSET Rows
      /\ TablesAreFinite'
  <2>1. CASE up
    <3>1. PICK protected \in SUBSET Referenced :
            /\ answer' = [answer EXCEPT ![c] = AnswerTo(s, protected)]
            /\ current' = RowsAfter(s, current, protected)
            /\ durable' = IF autocommit THEN current' ELSE durable
      BY <2>1 DEF Transmit
    <3>2. current \in SUBSET Rows /\ IsFiniteSet(current)
      BY DEF TypeOK, TablesAreFinite
    <3>3. AnswerTo(s, protected) \in Replies
      BY <3>2, AnswerIsReply
    <3>4. current' \in SUBSET Rows /\ IsFiniteSet(current')
      BY <3>1, <3>2, TableAfter
    <3>5. QED
      BY <3>1, <3>3, <3>4 DEF TypeOK, TablesAreFinite
  <2>2. CASE ~up
    BY <2>2, <1>1, FailedIsReply DEF Transmit, TypeOK, TablesAreFinite
  <2>3. QED
    BY <2>1, <2>2
<1>3. QED
  BY <1>2 DEF Transmit, TypeOK, OnWire

LEMMA ArrivingReply ==
  ASSUME TypeOK, NEW c \in Clients, NEW r \in Arriving(c)
  PROVE  r \in Replies /\ [r EXCEPT !.rows = {}] \in Replies
<1>1. "lost" \in Errors /\ "outOfSync" \in Errors
  BY DEF Errors
<1>2. r \in Replies
  BY <1>1, FailedIsReply DEF Arriving, TypeOK
<1>3. QED
  BY <1>2 DEF Replies

LEMMA EndingType ==
  ASSUME NEW c \in Clients
  PROVE  Ending(c) \in {"ok", "silent", "EntryNotFound", "DuplicateEntry",
                        "DependencyViolation", "ServiceUnavailable"}
BY DEF Ending, ProcessError, ExceptionOf

LEMMA SessionTypes ==
  ASSUME TypeOK, TablesAreFinite, [SessionStep]_vars
  PROVE  TypeOK' /\ TablesAreFinite'
<1> USE DEF serverVars, connVars, clientVars
<1>1. CASE UNCHANGED vars
  BY <1>1 DEF vars, TypeOK, TablesAreFinite
<1>2. ASSUME NEW c \in Clients, NEW s \in Statements, SendStatement(c, s)
      PROVE  TypeOK' /\ TablesAreFinite'
  BY <1>2, TransmitTypes DEF SendStatement
<1>3. ASSUME NEW c \in Clients, ReceiveAnswer(c)
      PROVE  TypeOK' /\ TablesAreFinite'
  BY <1>3, ArrivingReply DEF ReceiveAnswer, TypeOK, TablesAreFinite
<1>4. ASSUME NEW c \in Clients, StoreResult(c)
      PROVE  TypeOK' /\ TablesAreFinite'
  BY <1>4, ArrivingReply DEF StoreResult, TypeOK, TablesAreFinite
<1>5. ASSUME NEW c \in Clients, EndStatement(c)
      PROVE  TypeOK' /\ TablesAreFinite'
  BY <1>5, EndingType DEF EndStatement, TypeOK, TablesAreFinite
<1>6. ASSUME NEW c \in Clients, Resume(c)
      PROVE  TypeOK' /\ TablesAreFinite'
  BY <1>6, FailedIsReply DEF Resume, TypeOK, TablesAreFinite
<1>7. ASSUME NEW c \in Clients, MarkActive(c) \/ MarkInactive(c)
      PROVE  TypeOK' /\ TablesAreFinite'
  BY <1>7 DEF MarkActive, MarkInactive, TypeOK, TablesAreFinite
<1>8. ASSUME NEW c \in Clients,
             \/ StartTransaction(c) \/ CommitTransaction(c)
             \/ RollbackTransaction(c) \/ RestoreAutocommit(c)
      PROVE  TypeOK' /\ TablesAreFinite'
  <2>1. \E m \in BOOLEAN, d, r \in {durable, current} : Command(c, m, d, r)
    BY <1>8 DEF StartTransaction, CommitTransaction, RollbackTransaction,
                RestoreAutocommit, TypeOK
  <2>2. /\ queryMutex' = queryMutex /\ transactionActive' = transactionActive
        /\ seen' = seen
        /\ \/ outcome' = outcome
           \/ outcome' = [outcome EXCEPT ![c] = "ok"]
        /\ \E p \in {"starting", "ending", "returned"} :
             pc' = [pc EXCEPT ![c] = p]
        /\ \/ call' = call
           \/ \E k \in TransactionCalls : call' = [call EXCEPT ![c] = k]
    BY <1>8, CallsApart DEF StartTransaction, CommitTransaction,
                RollbackTransaction, RestoreAutocommit
  <2>3. QED
    BY <2>1, <2>2, CommandTypes DEF TypeOK
<1>9. CASE LoseConnection
  BY <1>9 DEF LoseConnection, TypeOK, TablesAreFinite
<1>10. QED
  BY <1>1, <1>2, <1>3, <1>4, <1>5, <1>6, <1>7, <1>8, <1>9
     DEF SessionStep, CallStep

(* What runQuery() is at keeps its shape, whatever its statements return.   *)
LEMMA QueryTypes ==
  ASSUME TableTypeOK, [Next]_tableVars
  PROVE  query' \in [Clients -> QueryStates]
<1> USE DEF TableTypeOK
<1>1. CASE UNCHANGED query
  BY <1>1
<1>2. ASSUME NEW c \in Clients, NEW q \in QueryStates,
             query' = [query EXCEPT ![c] = q]
      PROVE  query' \in [Clients -> QueryStates]
  BY <1>2
<1>3. NoQuery \in QueryStates
  BY DEF QueryStates
<1>4. ASSUME NEW c \in Clients, query[c].phase # "none"
      PROVE  query[c] \in [phase : {"asking", "processing", "removing"},
                           of : TableQueries, todo : SUBSET Rows,
                           done : SUBSET Entries, expected : SUBSET Entries]
  BY <1>4 DEF QueryStates, NoQuery
<1>5. ASSUME NEW c \in Queriers, NEW q \in TableQueries, Query(c, q)
      PROVE  query' \in [Clients -> QueryStates]
  <2> DEFINE wanted == {e \in {MapRow(row) : row \in current} : Wants(q, e)}
             asking == [phase |-> "asking", of |-> q, todo |-> {}, done |-> {},
                        expected |-> wanted]
  <2>1. wanted \subseteq Entries
    BY MappedRow DEF TypeOK
  <2>2. asking \in QueryStates
    BY <2>1 DEF QueryStates
  <2>3. query' = [query EXCEPT ![c] = asking]
    BY <1>5 DEF Query
  <2> HIDE DEF asking
  <2>4. QED
    BY <2>2, <2>3, <1>2, WidgetTableAssumption
<1>6. ASSUME NEW c \in Clients, FetchResult(c)
      PROVE  query' \in [Clients -> QueryStates]
  <2> DEFINE processing ==
        [query[c] EXCEPT !.phase = "processing", !.todo = seen[c].rows]
  <2>1. seen[c].rows \in SUBSET Rows
    BY DEF TypeOK, Replies
  <2>2. processing \in QueryStates
    BY <1>4, <1>6, <2>1 DEF FetchResult, QueryStates
  <2>3. query' = [query EXCEPT ![c] = processing]
          \/ query' = [query EXCEPT ![c] = NoQuery]
    BY <1>6 DEF FetchResult
  <2> HIDE DEF processing
  <2>4. QED
    BY <2>2, <2>3, <1>2, <1>3
<1>7. ASSUME NEW c \in Clients, ProcessRow(c)
      PROVE  query' \in [Clients -> QueryStates]
  <2>1. PICK row \in query[c].todo :
          query' = [query EXCEPT ![c].done = @ \cup {MapRow(row)},
                                 ![c].todo =
                       IF query[c].of.processor = "find" THEN {} ELSE @ \ {row}]
    BY <1>7 DEF ProcessRow
  <2> DEFINE left ==
        IF query[c].of.processor = "find" THEN {} ELSE query[c].todo \ {row}
             processed ==
        [query[c] EXCEPT !.done = @ \cup {MapRow(row)}, !.todo = left]
  <2>2. query[c].phase # "none" /\ row \in Rows
    BY <1>7, <1>4 DEF ProcessRow
  <2>3. processed \in QueryStates
    BY <1>4, <2>2, MappedRow DEF QueryStates
  <2>4. query' = [query EXCEPT ![c] = processed]
    BY <2>1
  <2> HIDE DEF processed
  <2>5. QED
    BY <2>3, <2>4, <1>2
<1>8. ASSUME NEW c \in Clients, RemoveRow(c)
      PROVE  query' \in [Clients -> QueryStates]
  <2>1. PICK row \in query[c].todo :
          query' = [query EXCEPT ![c].phase = "removing", ![c].todo = @ \ {row}]
    BY <1>8 DEF RemoveRow
  <2> DEFINE removing ==
        [query[c] EXCEPT !.phase = "removing", !.todo = @ \ {row}]
  <2>2. removing \in QueryStates
    BY <1>4, <1>8 DEF RemoveRow, QueryStates
  <2>3. query' = [query EXCEPT ![c] = removing]
    BY <2>1
  <2> HIDE DEF removing
  <2>4. QED
    BY <2>2, <2>3, <1>2
<1>9. ASSUME NEW c \in Clients, RowRemoved(c)
      PROVE  query' \in [Clients -> QueryStates]
  <2> DEFINE removed ==
        [query[c] EXCEPT !.phase = "processing",
                         !.done = query[c].done \cup RemovedFor(c)]
  <2>1. removed \in QueryStates
    BY <1>4, <1>9 DEF RowRemoved, RemovedFor, QueryStates
  <2>2. query' = [query EXCEPT ![c] = removed]
          \/ query' = [query EXCEPT ![c] = NoQuery]
    BY <1>9 DEF RowRemoved
  <2> HIDE DEF removed
  <2>3. QED
    BY <2>1, <2>2, <1>2, <1>3
<1>10. ASSUME NEW c \in Clients, FinishQuery(c)
       PROVE  query' \in [Clients -> QueryStates]
  BY <1>10, <1>2, <1>3 DEF FinishQuery
<1>11. ASSUME NEW c \in Clients, Step(c) \/ TransactionCall(c)
       PROVE  query' \in [Clients -> QueryStates]
  BY <1>11, <1>1, <1>6, <1>7, <1>8, <1>9, <1>10
     DEF Step, TransactionCall, ReturnToCaller
<1>12. QED
  BY <1>1, <1>5, <1>11
     DEF Next, tableVars, Insert, Update, Remove, Clear
-----------------------------------------------------------------------------
(* The inductive invariant.                                                 *)

LEMMA SInvInit ==
  ASSUME TableInit
  PROVE  SInv
<1> USE DEF TableInit, Init
<1>1. OK \in Replies /\ NoQuery \in QueryStates
  BY FailedIsReply DEF QueryStates
<1>2. TableTypeOK
  BY <1>1 DEF TableTypeOK, TypeOK
<1>3. TablesAreFinite
  BY FS_EmptySet DEF TablesAreFinite
<1>4. MutexHeldInStatement /\ StepsFitCall /\ TransactionCallsAlone
  BY SessionAssumption
     DEF MutexHeldInStatement, StepsFitCall, TransactionCallsAlone,
         InStatement, InTransactionCall
<1>5. WireExclusive /\ ModeKnown /\ AnswersKept
  BY DEF WireExclusive, ModeKnown, AutocommitFollowsFlag, AnswersKept, KeptFor,
         InTransactionCall
<1>6. QED
  BY <1>2, <1>3, <1>4, <1>5 DEF SInv, Places

LEMMA SendPlaces ==
  ASSUME CallersSerialize, TypeOK, Places,
         NEW c \in Clients, NEW s \in Statements, SendStatement(c, s)
  PROVE  Places'
<1> USE DEF InStatement, InTransactionCall
<1>1. /\ queryMutex = NoClient /\ queryMutex' = c
      /\ pc[c] = "idle" /\ pc' = [pc EXCEPT ![c] = "sent"]
      /\ call' = [call EXCEPT ![c] = s]
      /\ \A d \in Clients : ~InTransactionCall(d)
      /\ mixed' = IF OnWire = {} THEN mixed ELSE mixed \cup OnWire \cup {c}
  BY DEF SendStatement, Transmit
<1>2. OnWire = {}
  BY <1>1, SessionAssumption DEF Places, MutexHeldInStatement, OnWire
<1>3. MutexHeldInStatement' /\ StepsFitCall'
  BY <1>1, SessionAssumption
     DEF TypeOK, Places, MutexHeldInStatement, StepsFitCall
<1>4. TransactionCallsAlone'
  BY <1>1 DEF TypeOK, TransactionCallsAlone
<1>5. QED
  BY <1>1, <1>2, <1>3, <1>4 DEF Places, WireExclusive

LEMMA TransactionPlaces ==
  ASSUME CallersSerialize, TypeOK, Places, NEW c \in Clients,
         \/ StartTransaction(c) \/ CommitTransaction(c)
         \/ RollbackTransaction(c) \/ RestoreAutocommit(c)
  PROVE  Places' /\ OnWire = {} /\ queryMutex = NoClient
<1> USE DEF InStatement, InTransactionCall
<1>1. /\ queryMutex' = queryMutex
      /\ mixed' = mixed \cup OnWire
      /\ pc[c] \in {"idle", "restoring"}
  BY DEF StartTransaction, CommitTransaction, RollbackTransaction,
         RestoreAutocommit, MayCallTransaction, Command
<1>2. queryMutex = NoClient
        /\ \A d \in Clients : InTransactionCall(d) => d = c
  <2>1. CASE RestoreAutocommit(c)
    BY <2>1 DEF RestoreAutocommit, Places, TransactionCallsAlone
  <2>2. CASE MayCallTransaction(c)
    BY <2>2 DEF MayCallTransaction, TypeOK
  <2>3. QED
    BY <2>1, <2>2
       DEF StartTransaction, CommitTransaction, RollbackTransaction
<1>3. OnWire = {}
  BY <1>2, SessionAssumption DEF Places, MutexHeldInStatement, OnWire
<1>4. \/ /\ \E p \in {"starting", "ending"} : pc' = [pc EXCEPT ![c] = p]
         /\ \E k \in TransactionCalls : call' = [call EXCEPT ![c] = k]
      \/ pc' = [pc EXCEPT ![c] = "returned"] /\ call' = call
  BY CallsApart DEF StartTransaction, CommitTransaction, RollbackTransaction,
                    RestoreAutocommit
<1>5. MutexHeldInStatement' /\ StepsFitCall' /\ TransactionCallsAlone'
  BY <1>1, <1>2, <1>4, SessionAssumption
     DEF TypeOK, Places, MutexHeldInStatement, StepsFitCall,
         TransactionCallsAlone
<1>6. QED
  BY <1>1, <1>2, <1>3, <1>5 DEF Places, WireExclusive

LEMMA PlacesStep ==
  ASSUME CallersSerialize, TypeOK, Places, [SessionStep]_vars
  PROVE  Places'
<1> USE DEF InStatement, InTransactionCall
<1>1. CASE UNCHANGED vars \/ LoseConnection
  BY <1>1 DEF vars, serverVars, connVars, clientVars, LoseConnection, Places,
              MutexHeldInStatement, StepsFitCall, TransactionCallsAlone,
              WireExclusive
<1>2. ASSUME NEW c \in Clients, NEW s \in Statements, SendStatement(c, s)
      PROVE  Places'
  BY <1>2, SendPlaces
<1>3. ASSUME NEW c \in Clients,
             \/ StartTransaction(c) \/ CommitTransaction(c)
             \/ RollbackTransaction(c) \/ RestoreAutocommit(c)
      PROVE  Places'
  BY <1>3, TransactionPlaces
<1>4. ASSUME NEW c \in Clients, ReceiveAnswer(c) \/ StoreResult(c)
      PROVE  Places'
  <2>1. /\ pc[c] \in {"sent", "storing"}
        /\ \E p \in {"storing", "answered"} : pc' = [pc EXCEPT ![c] = p]
        /\ UNCHANGED <<queryMutex, call, mixed>>
    BY <1>4 DEF ReceiveAnswer, StoreResult
  <2>2. QED
    BY <2>1 DEF TypeOK, Places, MutexHeldInStatement, StepsFitCall,
                TransactionCallsAlone, WireExclusive
<1>5. ASSUME NEW c \in Clients, EndStatement(c)
      PROVE  Places'
  BY <1>5, SessionAssumption
     DEF EndStatement, TypeOK, Places, MutexHeldInStatement, StepsFitCall,
         TransactionCallsAlone, WireExclusive
<1>6. ASSUME NEW c \in Clients, Resume(c)
      PROVE  Places'
  BY <1>6
     DEF Resume, connVars, TypeOK, Places, MutexHeldInStatement, StepsFitCall,
         TransactionCallsAlone, WireExclusive
<1>7. ASSUME NEW c \in Clients, MarkActive(c) \/ MarkInactive(c)
      PROVE  Places'
  <2>1. /\ InTransactionCall(c)
        /\ \E p \in {"restoring", "returned"} : pc' = [pc EXCEPT ![c] = p]
        /\ UNCHANGED <<queryMutex, call, mixed>>
    BY <1>7 DEF MarkActive, MarkInactive
  <2>2. QED
    BY <2>1 DEF TypeOK, Places, MutexHeldInStatement, StepsFitCall,
                TransactionCallsAlone, WireExclusive
<1>8. QED
  BY <1>1, <1>2, <1>3, <1>4, <1>5, <1>6, <1>7 DEF SessionStep, CallStep

(* The server's mode and the flag, across a step of either.                 *)
LEMMA ModeStep ==
  ASSUME CallersSerialize, TypeOK, Places, ModeKnown, [SessionStep]_vars
  PROVE  ModeKnown'
<1> USE DEF InTransactionCall
<1>0. up \in BOOLEAN /\ autocommit \in BOOLEAN /\ transactionActive \in BOOLEAN
  BY DEF TypeOK
<1>1. CASE UNCHANGED vars \/ LoseConnection
  BY <1>1 DEF vars, serverVars, connVars, clientVars, LoseConnection,
              ModeKnown, AutocommitFollowsFlag
<1>2. ASSUME NEW c \in Clients,
             \/ \E s \in Statements : SendStatement(c, s)
             \/ ReceiveAnswer(c) \/ StoreResult(c) \/ EndStatement(c)
             \/ Resume(c)
      PROVE  ModeKnown'
  <2>1. /\ UNCHANGED <<up, autocommit, transactionActive>>
        /\ ~InTransactionCall(c)
        /\ \E p \in {"sent", "storing", "answered", "returned", "idle"} :
             pc' = [pc EXCEPT ![c] = p]
    BY <1>2 DEF SendStatement, Transmit, ReceiveAnswer, StoreResult,
                EndStatement, Resume, serverVars, connVars
  <2>2. QED
    BY <2>1 DEF TypeOK, ModeKnown, AutocommitFollowsFlag
<1>3. ASSUME NEW c \in Clients,
             \/ StartTransaction(c) \/ CommitTransaction(c)
             \/ RollbackTransaction(c) \/ RestoreAutocommit(c)
      PROVE  ModeKnown'
  <2>1. OnWire = {} /\ Places'
    BY <1>3, TransactionPlaces
  <2>2. \A d \in Clients : InTransactionCall(d) => d = c
    <3>1. CASE RestoreAutocommit(c)
      BY <3>1 DEF RestoreAutocommit, Places, TransactionCallsAlone
    <3>2. CASE MayCallTransaction(c)
      BY <3>2 DEF MayCallTransaction
    <3>3. QED
      BY <1>3, <3>1, <3>2
         DEF StartTransaction, CommitTransaction, RollbackTransaction
  <2>3. CASE StartTransaction(c)
    BY <1>0, <2>1, <2>2, <2>3
       DEF StartTransaction, MayCallTransaction, Command, TypeOK, ModeKnown,
           AutocommitFollowsFlag
  <2>4. CASE CommitTransaction(c) \/ RollbackTransaction(c)
    <3>1. /\ up' = up /\ (up' => autocommit' = autocommit)
          /\ transactionActive = TRUE /\ transactionActive' = TRUE
          /\ pc' = [pc EXCEPT ![c] = "ending"]
          /\ \A d \in Clients : ~InTransactionCall(d)
      BY <1>0, <2>1, <2>4 DEF CommitTransaction, RollbackTransaction,
           MayCallTransaction, Command
    <3>2. up => autocommit = FALSE
      BY <1>0, <3>1 DEF ModeKnown, AutocommitFollowsFlag
    <3>3. QED
      BY <3>1, <3>2 DEF TypeOK, ModeKnown, AutocommitFollowsFlag
  <2>5. CASE RestoreAutocommit(c)
    <3>1. /\ up' = up /\ (up' => autocommit' = TRUE)
          /\ transactionActive = FALSE /\ transactionActive' = FALSE
          /\ pc' = [pc EXCEPT ![c] = "returned"]
      BY <2>1, <2>5 DEF RestoreAutocommit, Command, ModeKnown
    <3>2. QED
      BY <3>1, <2>2 DEF TypeOK, ModeKnown, AutocommitFollowsFlag
  <2>6. QED
    BY <1>3, <2>3, <2>4, <2>5
<1>4. ASSUME NEW c \in Clients, MarkActive(c)
      PROVE  ModeKnown'
  <2>1. /\ UNCHANGED <<up, autocommit>> /\ transactionActive' = TRUE
        /\ pc[c] = "starting" /\ pc' = [pc EXCEPT ![c] = "returned"]
    BY <1>4 DEF MarkActive, serverVars
  <2>2. \A d \in Clients : InTransactionCall(d) => d = c
    BY <2>1 DEF Places, TransactionCallsAlone
  <2>3. up => autocommit = FALSE
    BY <2>1 DEF ModeKnown
  <2>4. QED
    BY <2>1, <2>2, <2>3 DEF TypeOK, ModeKnown, AutocommitFollowsFlag
<1>5. ASSUME NEW c \in Clients, MarkInactive(c)
      PROVE  ModeKnown'
  <2>1. /\ UNCHANGED <<up, autocommit>> /\ transactionActive' = FALSE
        /\ pc[c] = "ending" /\ pc' = [pc EXCEPT ![c] = "restoring"]
    BY <1>5 DEF MarkInactive, serverVars
  <2>2. \A d \in Clients : InTransactionCall(d) => d = c
    BY <2>1 DEF Places, TransactionCallsAlone
  <2>3. QED
    BY <2>1, <2>2 DEF TypeOK, ModeKnown, AutocommitFollowsFlag
<1>6. QED
  BY <1>1, <1>2, <1>3, <1>4, <1>5 DEF SessionStep, CallStep

(* A step that leaves client d's own variables alone, and the handle while  *)
(* d is about to read it.                                                   *)
LEMMA OthersKept ==
  ASSUME NEW d \in Clients, KeptFor(d),
         pc'[d] = pc[d], call'[d] = call[d], answer'[d] = answer[d],
         seen'[d] = seen[d], outcome'[d] = outcome[d],
         reply' = reply \/ pc[d] # "answered"
  PROVE  KeptFor(d)'
BY DEF KeptFor, EndedAsAnswered

(* What arrives in an exchange nobody cut into is the answer.               *)
LEMMA ArrivingAlone ==
  ASSUME TypeOK, Places, NEW c \in Clients, NEW r \in Arriving(c)
  PROVE  IF up THEN r = answer[c] ELSE r = Failed("lost")
BY DEF Arriving, Places, WireExclusive

LEMMA SendKept ==
  ASSUME TypeOK, TablesAreFinite, NEW c \in Clients, NEW s \in Statements,
         SendStatement(c, s)
  PROVE  KeptFor(c)'
<1>1. pc'[c] = "sent" /\ call'[c] = s
  BY DEF SendStatement, Transmit, TypeOK
<1>2. s \notin Selects \/ answer'[c].error # "none" => answer'[c].rows = {}
  <2>1. CASE up
    <3>1. PICK protected \in SUBSET Referenced :
            answer' = [answer EXCEPT ![c] = AnswerTo(s, protected)]
      BY <2>1 DEF SendStatement, Transmit
    <3>2. QED
      BY <3>1, AnswerIsReply DEF TypeOK, TablesAreFinite
  <2>2. CASE ~up
    BY <2>2, FailedIsReply DEF SendStatement, Transmit, TypeOK, Errors
  <2>3. QED
    BY <2>1, <2>2
<1>3. QED
  BY <1>1, <1>2 DEF KeptFor

LEMMA ReceiveKept ==
  ASSUME TypeOK, Places, NEW c \in Clients, KeptFor(c), ReceiveAnswer(c)
  PROVE  KeptFor(c)'
<1>1. PICK r \in Arriving(c) :
        /\ reply' = r
        /\ seen' = [seen EXCEPT ![c] = [r EXCEPT !.rows = {}]]
        /\ answer' = IF up THEN answer ELSE [answer EXCEPT ![c] = r]
        /\ pc' = [pc EXCEPT ![c] = IF call[c] \in Selects /\ r.error = "none"
                                     THEN "storing" ELSE "answered"]
  BY DEF ReceiveAnswer
<1>2. answer'[c] = r
  BY <1>1, ArrivingAlone DEF TypeOK
<1>3. CASE call[c] \in Selects /\ r.error = "none"
  BY <1>1, <1>3 DEF TypeOK, KeptFor
<1>4. CASE call[c] \notin Selects \/ r.error # "none"
  <2>1. r.rows = {}
    BY <1>4, <1>1, <1>2, ArrivingAlone, FailedIsReply
       DEF KeptFor, ReceiveAnswer, Errors
  <2>2. [r EXCEPT !.rows = {}] = r
    BY <2>1, ArrivingReply DEF Replies
  <2>3. QED
    BY <1>1, <1>2, <1>4, <2>2 DEF TypeOK, KeptFor
<1>5. QED
  BY <1>3, <1>4

LEMMA StoreKept ==
  ASSUME TypeOK, Places, NEW c \in Clients, StoreResult(c)
  PROVE  KeptFor(c)'
<1>1. PICK r \in Arriving(c) :
        /\ reply' = r
        /\ seen' = [seen EXCEPT ![c] = r]
        /\ answer' = IF up THEN answer ELSE [answer EXCEPT ![c] = r]
  BY DEF StoreResult
<1>2. answer'[c] = r /\ seen'[c] = r /\ pc'[c] = "answered"
  BY <1>1, ArrivingAlone DEF StoreResult, TypeOK
<1>3. QED
  BY <1>1, <1>2 DEF KeptFor

LEMMA EndKept ==
  ASSUME TypeOK, NEW c \in Clients, KeptFor(c), EndStatement(c)
  PROVE  KeptFor(c)'
<1>1. /\ pc'[c] = "returned" /\ outcome'[c] = Ending(c)
      /\ call' = call /\ answer' = answer /\ seen' = seen
  BY DEF EndStatement, TypeOK
<1>2. seen[c] = answer[c] /\ reply = answer[c]
  BY DEF EndStatement, KeptFor
<1>3. QED
  BY <1>1, <1>2 DEF KeptFor, EndedAsAnswered, Ending, ProcessError

LEMMA AnswersStep ==
  ASSUME CallersSerialize, TypeOK, TablesAreFinite, Places, AnswersKept,
         [SessionStep]_vars
  PROVE  AnswersKept'
<1> SUFFICES ASSUME NEW d \in Clients
             PROVE  KeptFor(d)'
  BY DEF AnswersKept
<1>0. KeptFor(d)
  BY DEF AnswersKept
<1>1. CASE UNCHANGED vars \/ LoseConnection
  BY <1>0, <1>1, OthersKept
     DEF vars, connVars, clientVars, LoseConnection
<1>2. ASSUME NEW c \in Clients, NEW s \in Statements, SendStatement(c, s)
      PROVE  KeptFor(d)'
  <2>1. CASE d = c
    BY <1>2, <2>1, SendKept
  <2>2. CASE d # c
    <3>1. answer'[d] = answer[d]
      BY <1>2, <2>2 DEF SendStatement, Transmit, TypeOK
    <3>2. QED
      BY <1>0, <1>2, <2>2, <3>1, OthersKept DEF SendStatement, Transmit, TypeOK
  <2>3. QED
    BY <2>1, <2>2
<1>3. ASSUME NEW c \in Clients, ReceiveAnswer(c) \/ StoreResult(c)
      PROVE  KeptFor(d)'
  <2>1. CASE d = c
    BY <1>0, <1>3, <2>1, ReceiveKept, StoreKept
  <2>2. CASE d # c
    <3>1. pc[d] # "answered"
      BY <1>3, <2>2 DEF ReceiveAnswer, StoreResult, Places,
                        MutexHeldInStatement, InStatement
    <3>2. answer'[d] = answer[d] /\ seen'[d] = seen[d] /\ pc'[d] = pc[d]
            /\ call' = call /\ outcome' = outcome
      BY <1>3, <2>2 DEF ReceiveAnswer, StoreResult, TypeOK
    <3>3. QED
      BY <1>0, <3>1, <3>2, OthersKept
  <2>3. QED
    BY <2>1, <2>2
<1>4. ASSUME NEW c \in Clients, EndStatement(c)
      PROVE  KeptFor(d)'
  <2>1. CASE d = c
    BY <1>0, <1>4, <2>1, EndKept
  <2>2. CASE d # c
    BY <1>0, <1>4, <2>2, OthersKept DEF EndStatement, TypeOK
  <2>3. QED
    BY <2>1, <2>2
<1>5. ASSUME NEW c \in Clients, Resume(c)
      PROVE  KeptFor(d)'
  <2>1. CASE d = c
    BY <1>5, <2>1 DEF Resume, TypeOK, KeptFor
  <2>2. CASE d # c
    BY <1>0, <1>5, <2>2, OthersKept DEF Resume, connVars, TypeOK
  <2>3. QED
    BY <2>1, <2>2
<1>6. ASSUME NEW c \in Clients, MarkActive(c) \/ MarkInactive(c)
      PROVE  KeptFor(d)'
  <2>1. call[c] \notin Statements
    BY <1>6, CallsApart DEF MarkActive, MarkInactive, Places, StepsFitCall,
                            InTransactionCall
  <2>2. CASE d = c
    BY <1>6, <2>1, <2>2 DEF MarkActive, MarkInactive, TypeOK, KeptFor
  <2>3. CASE d # c
    BY <1>0, <1>6, <2>3, OthersKept DEF MarkActive, MarkInactive, TypeOK
  <2>4. QED
    BY <2>2, <2>3
<1>7. ASSUME NEW c \in Clients,
             \/ StartTransaction(c) \/ CommitTransaction(c)
             \/ RollbackTransaction(c) \/ RestoreAutocommit(c)
      PROVE  KeptFor(d)'
  <2>1. queryMutex = NoClient
    BY <1>7, TransactionPlaces
  <2>2. pc[d] # "answered"
    BY <2>1, SessionAssumption DEF Places, MutexHeldInStatement, InStatement
  <2>3. CASE d = c
    <3>1. pc'[c] \in {"starting", "ending"}
            \/ (pc[c] = "restoring" /\ pc'[c] = "returned" /\ call' = call)
      BY <1>7 DEF StartTransaction, CommitTransaction, RollbackTransaction,
                  RestoreAutocommit, TypeOK
    <3>2. pc[c] = "restoring" => call[c] \notin Statements
      BY CallsApart DEF Places, StepsFitCall, InTransactionCall
    <3>3. QED
      BY <2>3, <3>1, <3>2 DEF KeptFor
  <2>4. CASE d # c
    <3>1. answer'[d] = answer[d] /\ seen'[d] = seen[d] /\ pc'[d] = pc[d]
            /\ call'[d] = call[d] /\ outcome'[d] = outcome[d]
      BY <1>7, <2>4 DEF StartTransaction, CommitTransaction,
                        RollbackTransaction, RestoreAutocommit, Command, TypeOK
    <3>2. QED
      BY <1>0, <2>2, <3>1, OthersKept
  <2>5. QED
    BY <2>3, <2>4
<1>8. QED
  BY <1>1, <1>2, <1>3, <1>4, <1>5, <1>6, <1>7 DEF SessionStep, CallStep

-----------------------------------------------------------------------------
LEMMA SInvStep ==
  ASSUME CallersSerialize, SInv, [Next]_tableVars
  PROVE  SInv'
<1>1. [SessionStep]_vars
  BY StepIsSessionStep DEF SInv
<1>2. TableTypeOK' /\ TablesAreFinite'
  BY <1>1, SessionTypes, QueryTypes DEF SInv, TableTypeOK
<1>3. Places' /\ ModeKnown' /\ AnswersKept'
  BY <1>1, PlacesStep, ModeStep, AnswersStep DEF SInv, TableTypeOK
<1>4. QED
  BY <1>2, <1>3 DEF SInv

LEMMA SInvariance == CallersSerialize => (Spec => []SInv)
<1> SUFFICES ASSUME CallersSerialize
             PROVE  Spec => []SInv
  OBVIOUS
<1>1. SInv /\ [Next]_tableVars => SInv'
  BY SInvStep
<1>2. TableInit => SInv
  BY SInvInit
<1>3. QED
  BY <1>1, <1>2, PTL DEF Spec

(* Type correctness needs no discipline of the callers.                     *)
THEOREM TableTypeCorrect == Spec => []TableTypeOK
<1>1. TableInit => TableTypeOK /\ TablesAreFinite
  BY SInvInit DEF SInv
<1>2. TableTypeOK /\ TablesAreFinite /\ [Next]_tableVars
        => TableTypeOK' /\ TablesAreFinite'
  BY StepIsSessionStep, SessionTypes, QueryTypes DEF TableTypeOK
<1>3. QED
  BY <1>1, <1>2, PTL DEF Spec

(* Without any discipline, _queryMutex alone keeps the statements of two    *)
(* clients apart (MySqlConnection.h:64-65 speaks of queries only).          *)
StatementsApart ==
  \A c, d \in Clients : InStatement(c) /\ InStatement(d) => c = d

LEMMA MutexStep ==
  ASSUME TypeOK, MutexHeldInStatement, [SessionStep]_vars
  PROVE  MutexHeldInStatement'
<1> USE SessionAssumption DEF MutexHeldInStatement, InStatement, TypeOK
<1>1. CASE UNCHANGED vars \/ LoseConnection
  BY <1>1 DEF vars, connVars, clientVars, LoseConnection
<1>2. ASSUME NEW c \in Clients,
             \/ StartTransaction(c) \/ CommitTransaction(c)
             \/ RollbackTransaction(c) \/ RestoreAutocommit(c)
      PROVE  MutexHeldInStatement'
  <2>1. /\ queryMutex' = queryMutex /\ pc[c] \in {"idle", "restoring"}
        /\ \E p \in {"starting", "ending", "returned"} :
             pc' = [pc EXCEPT ![c] = p]
    BY <1>2 DEF StartTransaction, CommitTransaction, RollbackTransaction,
                RestoreAutocommit, MayCallTransaction
  <2>2. QED
    BY <2>1
<1>3. ASSUME NEW c \in Clients, NEW s \in Statements, SendStatement(c, s)
      PROVE  MutexHeldInStatement'
  BY <1>3 DEF SendStatement, Transmit
<1>4. ASSUME NEW c \in Clients, ReceiveAnswer(c) \/ StoreResult(c)
      PROVE  MutexHeldInStatement'
  <2>1. /\ queryMutex' = queryMutex /\ pc[c] \in {"sent", "storing"}
        /\ \E p \in {"storing", "answered"} : pc' = [pc EXCEPT ![c] = p]
    BY <1>4 DEF ReceiveAnswer, StoreResult
  <2>2. QED
    BY <2>1
<1>5. ASSUME NEW c \in Clients,
             EndStatement(c) \/ Resume(c) \/ MarkActive(c) \/ MarkInactive(c)
      PROVE  MutexHeldInStatement'
  BY <1>5 DEF EndStatement, Resume, MarkActive, MarkInactive, connVars
<1>6. QED
  BY <1>1, <1>2, <1>3, <1>4, <1>5 DEF SessionStep, CallStep

THEOREM StatementsExclude == Spec => []StatementsApart
<1>1. TableInit => MutexHeldInStatement
  BY SInvInit DEF SInv, Places
<1>2. TableTypeOK /\ MutexHeldInStatement /\ [Next]_tableVars
        => MutexHeldInStatement'
  BY StepIsSessionStep, MutexStep DEF TableTypeOK
<1>3. MutexHeldInStatement => StatementsApart
  BY DEF MutexHeldInStatement, StatementsApart
<1>4. QED
  BY <1>1, <1>2, <1>3, TableTypeCorrect, PTL DEF Spec

(* Every statement call ends as the server answered that statement.         *)
THEOREM OutcomesAreOwn == CallersSerialize => (Spec => []OwnOutcome)
<1>1. SInv => OwnOutcome
  BY DEF SInv, AnswersKept, KeptFor, OwnOutcome
<1>2. QED
  BY <1>1, SInvariance, PTL

(* Between transaction calls the server's mode is what the flag says.       *)
THEOREM ModeFollowsFlag == CallersSerialize => (Spec => []AutocommitFollowsFlag)
<1>1. SInv => AutocommitFollowsFlag
  BY DEF SInv, ModeKnown
<1>2. QED
  BY <1>1, SInvariance, PTL

(* Nothing becomes durable during a transaction but the whole of it, by a   *)
(* commitTransaction().                                                     *)
THEOREM DurableOnlyByCommit ==
  CallersSerialize => (Spec => NothingDurableUntilCommit)
<1> DEFINE Durable ==
      transactionActive /\ durable' # durable =>
        \E c \in Clients :
          /\ pc'[c] = "ending"
          /\ call'[c].kind = "commit"
          /\ durable' = current
<1>1. ASSUME CallersSerialize, SInv, [Next]_tableVars
      PROVE  Durable \/ UNCHANGED vars
  <2> USE DEF InTransactionCall
  <2>1. SUFFICES ASSUME transactionActive, durable' # durable
                 PROVE  \E c \in Clients :
                          /\ pc'[c] = "ending"
                          /\ call'[c].kind = "commit"
                          /\ durable' = current
    OBVIOUS
  <2>2. TypeOK /\ Places /\ ModeKnown /\ AutocommitFollowsFlag
          /\ [SessionStep]_vars
    BY <1>1, StepIsSessionStep DEF SInv, TableTypeOK, ModeKnown
  <2>3. ASSUME NEW c \in Clients, NEW s \in Statements, SendStatement(c, s)
        PROVE  FALSE
    <3>1. up /\ autocommit
      BY <2>1, <2>3 DEF SendStatement, Transmit
    <3>2. \A d \in Clients : ~InTransactionCall(d)
      BY <1>1, <2>3 DEF SendStatement, Transmit
    <3>3. QED
      BY <2>1, <2>2, <3>1, <3>2 DEF AutocommitFollowsFlag
  <2>4. ASSUME NEW c \in Clients, StartTransaction(c) \/ RollbackTransaction(c)
        PROVE  FALSE
    BY <2>1, <2>4 DEF StartTransaction, RollbackTransaction, Command
  <2>5. ASSUME NEW c \in Clients, RestoreAutocommit(c)
        PROVE  FALSE
    BY <2>1, <2>2, <2>5 DEF RestoreAutocommit, ModeKnown
  <2>6. ASSUME NEW c \in Clients, CommitTransaction(c)
        PROVE  /\ pc'[c] = "ending"
               /\ call'[c].kind = "commit"
               /\ durable' = current
    BY <2>1, <2>2, <2>6 DEF CommitTransaction, Command, TypeOK
  <2>7. ASSUME NEW c \in Clients,
               \/ ReceiveAnswer(c) \/ StoreResult(c) \/ EndStatement(c)
               \/ MarkActive(c) \/ MarkInactive(c) \/ Resume(c)
        PROVE  FALSE
    BY <2>1, <2>7 DEF ReceiveAnswer, StoreResult, EndStatement, MarkActive,
                      MarkInactive, Resume, serverVars
  <2>8. CASE LoseConnection \/ UNCHANGED vars
    BY <2>1, <2>8 DEF LoseConnection, vars, serverVars
  <2>9. QED
    BY <2>2, <2>3, <2>4, <2>5, <2>6, <2>7, <2>8 DEF SessionStep, CallStep
<1>2. ASSUME CallersSerialize
      PROVE  Spec => NothingDurableUntilCommit
  <2>1. SInv /\ [Next]_tableVars => [Durable]_vars
    BY <1>1, <1>2
  <2>2. QED
    BY <1>2, <2>1, SInvariance, PTL DEF Spec, NothingDurableUntilCommit
<1>3. QED
  BY <1>2

-----------------------------------------------------------------------------
(***************************************************************************)
(* query() and its processors: CompleteAtEnd, from what a query has asked, *)
(* has done and has still to do.                                           *)
(***************************************************************************)
(* The columns are NOT NULL and the keys unique, in the session's table and *)
(* in the committed one.                                                    *)
WellFormed(table) ==
  /\ \A row \in table : row.category # NullCell
  /\ \A row1, row2 \in table : row1.key = row2.key => row1 = row2

TablesWellFormed == WellFormed(current) /\ WellFormed(durable)

Mapped(rows) == {MapRow(row) : row \in rows}

(* A client is in a statement call or has just come out of one.             *)
Stating(c) == InStatement(c) \/ pc[c] = "returned"

(* The SELECT of a query is under way, and its answer has what was wanted.  *)
Asking(c) ==
  /\ Stating(c)
  /\ call[c] = QuerySql(query[c].of)
  /\ answer[c].error = "none" => Mapped(answer[c].rows) = query[c].expected
  /\ query[c].done = {}

(* What has been done and what is still to do make up what was wanted; a    *)
(* find has found one if there was one.                                     *)
Processing(c) ==
  LET q == query[c] IN
  IF q.of.processor = "find"
    THEN /\ q.done \cup Mapped(q.todo) \subseteq q.expected
         /\ q.done = {} /\ q.todo = {} => q.expected = {}
    ELSE q.done \cup Mapped(q.todo) = q.expected

(* The same with a row's own statement under way, which removes one row or  *)
(* none.                                                                    *)
Removing(c) ==
  LET q == query[c] IN
  /\ q.of.processor = "delete"
  /\ Stating(c)
  /\ \E k \in Keys : call[c] = DeleteSql(k)
  /\ answer[c].affected \in {0, 1}
  /\ q.done \cup Mapped(q.todo) \cup {e \in q.expected : e.key = call[c].key}
       = q.expected

Progress(c) ==
  /\ query[c].phase = "asking" => Asking(c)
  /\ query[c].phase = "processing" => Processing(c)
  /\ query[c].phase = "removing" => Removing(c)

QInv ==
  /\ SInv
  /\ TablesWellFormed
  /\ \A c \in Clients : Progress(c)

-----------------------------------------------------------------------------
(* The data.                                                                *)

LEMMA WellFormedAfter ==
  ASSUME NEW s \in Statements, NEW table \in SUBSET Rows, WellFormed(table),
         NEW protected
  PROVE  WellFormed(RowsAfter(s, table, protected))
<1> DEFINE after == RowsAfter(s, table, protected)
           changed == Targets(s, table)
           new == [key |-> s.key, category |-> s.category]
           updated == {[row EXCEPT !.category = s.category] : row \in changed}
<1>1. CASE Refusal(s, table, protected) # "none"
  BY <1>1 DEF RowsAfter
<1>2. CASE Refusal(s, table, protected) = "none" /\ s.kind = "insert"
  <2>1. after = table \cup {new}
    BY <1>2 DEF RowsAfter
  <2>2. s.category # NullCell /\ \A row \in table : row.key # s.key
    BY <1>2 DEF Refusal, Targets
  <2>3. QED
    BY <2>1, <2>2 DEF WellFormed
<1>3. CASE Refusal(s, table, protected) = "none" /\ s.kind = "update"
  <2>1. after = (table \ changed) \cup updated
    BY <1>3 DEF RowsAfter
  <2>2. changed = {row \in table : row.key = s.key}
    BY <1>3 DEF Targets
  <2>3. changed # {} => s.category # NullCell
    BY <1>3 DEF Refusal
  <2>4. \A row \in updated : row.category = s.category /\ row.key = s.key
    BY <2>2 DEF Rows
  <2>5. \A row1, row2 \in updated : row1 = row2
    BY <2>2 DEF WellFormed, Rows
  <2>6. QED
    <3> HIDE DEF changed, updated, after
    <3>1. updated # {} => changed # {}
      BY DEF updated
    <3>2. \A row \in table \ changed : row.key # s.key
      BY <2>2
    <3>3. \A row \in after : row.category # NullCell
      BY <2>1, <2>3, <2>4, <3>1 DEF WellFormed
    <3>4. \A row1, row2 \in after : row1.key = row2.key => row1 = row2
      BY <2>1, <2>4, <2>5, <3>2 DEF WellFormed
    <3>5. QED
      BY <3>3, <3>4 DEF WellFormed, after
<1>4. CASE /\ Refusal(s, table, protected) = "none"
           /\ s.kind \notin {"insert", "update"}
  <2>1. after \subseteq table
    BY <1>4 DEF RowsAfter
  <2>2. QED
    BY <2>1 DEF WellFormed
<1>5. QED
  BY <1>1, <1>2, <1>3, <1>4

(* A SELECT finds the rows of the entries the caller wants.                 *)
LEMMA FoundIsWanted ==
  ASSUME NEW q \in PossibleQueries, NEW table \in SUBSET Rows,
         WellFormed(table)
  PROVE  Mapped(Targets(QuerySql(q), table))
           = {e \in Mapped(table) : Wants(q, e)}
<1>1. ASSUME NEW row \in table
      PROVE  row \in Targets(QuerySql(q), table) <=> Wants(q, MapRow(row))
  <2>1. row \in Rows /\ row.category # NullCell /\ row.category # Empty
    BY WidgetAssumption DEF WellFormed, Rows
  <2>2. MapRow(row).key = row.key /\ MapRow(row).category = row.category
    BY <2>1 DEF MapRow, FetchedValue
  <2>3. CASE q \in [by : {"key"}, key : Keys, processor : Processors]
    BY <2>2, <2>3 DEF QuerySql, Wants, Targets, SelectByKeySql
  <2>4. CASE q \in [by : {"category"}, category : Texts, processor : Processors]
    BY <2>1, <2>2, <2>4, WidgetAssumption
       DEF QuerySql, Wants, Targets, SelectByCategorySql, ColumnValue
  <2>5. CASE q \in [by : {"all"}, processor : Processors]
    BY <2>2, <2>5 DEF QuerySql, Wants, Targets, SelectAllSql
  <2>6. QED
    BY <2>3, <2>4, <2>5 DEF PossibleQueries
<1>2. QED
  BY <1>1, TargetsAreRows DEF Mapped

LEMMA SelectsNotRefused ==
  ASSUME NEW s \in Selects, NEW table, NEW protected
  PROVE  Refusal(s, table, protected) = "none"
BY DEF Selects, SelectByKeySql, SelectAllSql, SelectByCategorySql, Refusal

(* Removing by key changes at most one row.                                 *)
LEMMA OneRemoved ==
  ASSUME NEW k \in Keys, NEW table \in SUBSET Rows, WellFormed(table),
         NEW protected
  PROVE  AffectedRows(DeleteSql(k), table, protected) \in {0, 1}
<1> DEFINE s == DeleteSql(k)
           gone == table \ RowsAfter(s, table, protected)
<1>1. s.kind = "remove" /\ s.key = k
  BY DEF DeleteSql
<1>2. gone \subseteq {row \in table : row.key = k}
  BY <1>1 DEF RowsAfter, Targets
<1>3. gone = {} \/ \E row : gone = {row}
  BY <1>2 DEF WellFormed
<1>4. Cardinality(gone) \in {0, 1}
  BY <1>3, FS_EmptySet, FS_Singleton
<1>5. QED
  BY <1>1, <1>4 DEF AffectedRows

-----------------------------------------------------------------------------
(* What the steps of a session leave alone.                                 *)

LEMMA TablesStep ==
  ASSUME TypeOK, TablesWellFormed, [SessionStep]_vars
  PROVE  TablesWellFormed'
<1> USE DEF TablesWellFormed
<1>1. CASE UNCHANGED <<current, durable>>
  BY <1>1
<1>2. ASSUME NEW c \in Clients, NEW s \in Statements, SendStatement(c, s)
      PROVE  TablesWellFormed'
  <2>1. CASE up
    <3>1. PICK protected \in SUBSET Referenced :
            /\ current' = RowsAfter(s, current, protected)
            /\ durable' = IF autocommit THEN current' ELSE durable
      BY <1>2, <2>1 DEF SendStatement, Transmit
    <3>2. WellFormed(RowsAfter(s, current, protected))
      BY WellFormedAfter DEF TypeOK
    <3>3. QED
      BY <3>1, <3>2
  <2>2. CASE ~up
    BY <1>1, <1>2, <2>2 DEF SendStatement, Transmit
  <2>3. QED
    BY <2>1, <2>2
<1>3. ASSUME NEW c \in Clients,
             \/ StartTransaction(c) \/ CommitTransaction(c)
             \/ RollbackTransaction(c) \/ RestoreAutocommit(c)
      PROVE  current' \in {current, durable} /\ durable' \in {current, durable}
  BY <1>3 DEF StartTransaction, CommitTransaction, RollbackTransaction,
              RestoreAutocommit, Command
<1>4. ASSUME NEW c \in Clients,
             \/ ReceiveAnswer(c) \/ StoreResult(c) \/ EndStatement(c)
             \/ MarkActive(c) \/ MarkInactive(c) \/ Resume(c)
      PROVE  UNCHANGED <<current, durable>>
  BY <1>4 DEF ReceiveAnswer, StoreResult, EndStatement, MarkActive,
              MarkInactive, Resume, serverVars
<1>5. CASE LoseConnection
  BY <1>5 DEF LoseConnection
<1>6. CASE UNCHANGED vars
  BY <1>1, <1>6 DEF vars, serverVars
<1>7. QED
  BY <1>1, <1>2, <1>3, <1>4, <1>5, <1>6 DEF SessionStep, CallStep

(* Client c's steps leave the other clients' calls alone.                   *)
LEMMA OnlyOwnCall ==
  ASSUME TypeOK, NEW c \in Clients, NEW d \in Clients, d # c,
         \/ \E s \in Statements : SendStatement(c, s)
         \/ CallStep(c) \/ Resume(c)
         \/ StartTransaction(c) \/ CommitTransaction(c) \/ RollbackTransaction(c)
  PROVE  pc'[d] = pc[d] /\ call'[d] = call[d] /\ answer'[d] = answer[d]
<1>1. CASE \E s \in Statements : SendStatement(c, s)
  <2>1. PICK s \in Statements : SendStatement(c, s)
    BY <1>1
  <2>2. QED
    BY <2>1 DEF SendStatement, Transmit, TypeOK
<1>2. CASE ReceiveAnswer(c) \/ StoreResult(c)
  BY <1>2 DEF ReceiveAnswer, StoreResult, TypeOK
<1>3. CASE EndStatement(c) \/ MarkActive(c) \/ MarkInactive(c) \/ Resume(c)
  BY <1>3 DEF EndStatement, MarkActive, MarkInactive, Resume, TypeOK
<1>4. CASE StartTransaction(c) \/ CommitTransaction(c)
             \/ RollbackTransaction(c) \/ RestoreAutocommit(c)
  BY <1>4 DEF StartTransaction, CommitTransaction, RollbackTransaction,
              RestoreAutocommit, Command, TypeOK
<1>5. QED
  BY <1>1, <1>2, <1>3, <1>4 DEF CallStep

LEMMA ProgressFrame ==
  ASSUME NEW c \in Clients, Progress(c), query'[c] = query[c],
         pc'[c] = pc[c], call'[c] = call[c], answer'[c] = answer[c]
  PROVE  Progress(c)'
BY DEF Progress, Asking, Processing, Removing, Stating, InStatement

(* Without a query there is nothing to keep.                                *)
LEMMA NoProgress ==
  ASSUME NEW c \in Clients, query'[c] = NoQuery
  PROVE  Progress(c)'
BY DEF Progress, NoQuery

-----------------------------------------------------------------------------
(* Each step of a query keeps its progress.                                 *)

LEMMA CallProgress ==
  ASSUME SInv, NEW c \in Clients, Progress(c), CallStep(c), query' = query
  PROVE  Progress(c)'
<1>1. TypeOK /\ Places
  BY DEF SInv, TableTypeOK
<1>2. CASE ~Stating(c)
  BY <1>2 DEF Progress, Asking, Processing, Removing
<1>3. CASE Stating(c)
  <2>1. ReceiveAnswer(c) \/ StoreResult(c) \/ EndStatement(c)
    BY <1>3 DEF CallStep, Stating, InStatement, MarkActive, MarkInactive,
                RestoreAutocommit
  <2>2. Stating(c)' /\ call' = call
    BY <1>1, <2>1 DEF ReceiveAnswer, StoreResult, EndStatement, Stating,
                      InStatement, TypeOK
  <2>3. answer'[c] = answer[c] \/ answer'[c] = Failed("lost")
    BY <1>1, <2>1, ArrivingAlone
       DEF ReceiveAnswer, StoreResult, EndStatement, TypeOK
  <2>4. Failed("lost").error # "none" /\ Failed("lost").affected = 0
    BY DEF Failed, OK
  <2>5. QED
    BY <2>2, <2>3, <2>4 DEF Progress, Asking, Processing, Removing
<1>4. QED
  BY <1>2, <1>3

LEMMA QueryProgress ==
  ASSUME SInv, TablesWellFormed, NEW c \in Queriers, NEW q \in TableQueries,
         Query(c, q)
  PROVE  Progress(c)'
<1> DEFINE s == QuerySql(q)
<1>1. TypeOK /\ c \in Clients /\ q \in PossibleQueries
  BY WidgetTableAssumption DEF SInv, TableTypeOK
<1>2. s \in Selects /\ s \in Statements
  BY <1>1, SqlOfEntries
<1>3. /\ pc'[c] = "sent" /\ call'[c] = s
      /\ query'[c].phase = "asking" /\ query'[c].of = q /\ query'[c].done = {}
      /\ query'[c].expected = {e \in Mapped(current) : Wants(q, e)}
  BY <1>1 DEF Query, SendStatement, Transmit, TypeOK, SInv, TableTypeOK, Mapped
<1>4. answer'[c].error = "none"
        => Mapped(answer'[c].rows) = query'[c].expected
  <2>1. CASE up
    <3>1. PICK protected \in SUBSET Referenced :
            answer' = [answer EXCEPT ![c] = AnswerTo(s, protected)]
      BY <2>1 DEF Query, SendStatement, Transmit
    <3>2. answer'[c].rows = Targets(s, current)
      BY <1>1, <1>2, <3>1, SelectsNotRefused DEF AnswerTo, TypeOK
    <3>3. Mapped(Targets(s, current)) = {e \in Mapped(current) : Wants(q, e)}
      BY <1>1, FoundIsWanted DEF TypeOK, TablesWellFormed
    <3>4. QED
      BY <1>3, <3>2, <3>3
  <2>2. CASE ~up
    BY <1>1, <2>2
       DEF Query, SendStatement, Transmit, TypeOK, Failed, OK
  <2>3. QED
    BY <2>1, <2>2
<1>5. QED
  BY <1>3, <1>4 DEF Progress, Asking, Stating, InStatement

LEMMA FetchProgress ==
  ASSUME SInv, NEW c \in Clients, Progress(c), FetchResult(c)
  PROVE  Progress(c)'
<1>1. TypeOK /\ query \in [Clients -> QueryStates] /\ Asking(c)
  BY DEF SInv, TableTypeOK, Progress, FetchResult
<1>2. query[c] \in [phase : {"asking", "processing", "removing"},
                    of : TableQueries, todo : SUBSET Rows,
                    done : SUBSET Entries, expected : SUBSET Entries]
  BY <1>1 DEF FetchResult, QueryStates, NoQuery
<1>3. CASE outcome[c] \notin {"ok", "silent"}
  BY <1>1, <1>3, NoProgress DEF FetchResult
<1>4. CASE outcome[c] \in {"ok", "silent"}
  <2>1. pc[c] = "returned" /\ call[c] \in Statements
    BY <1>1, <1>2, SqlOfEntries, WidgetTableAssumption
       DEF FetchResult, Resume, Asking
  <2>2. EndedAsAnswered(c)
    BY <2>1 DEF SInv, AnswersKept, KeptFor
  <2>3. answer[c].error = "none" /\ seen[c].rows = answer[c].rows
    BY <1>4, <2>2 DEF EndedAsAnswered, ExceptionOf
  <2>4. query'[c] =
          [query[c] EXCEPT !.phase = "processing", !.todo = seen[c].rows]
    BY <1>1, <1>4 DEF FetchResult
  <2>5. /\ query'[c].phase = "processing" /\ query'[c].todo = answer[c].rows
        /\ query'[c].done = {} /\ query'[c].expected = query[c].expected
        /\ query'[c].of = query[c].of
    BY <1>1, <1>2, <2>3, <2>4 DEF Asking
  <2>6. Mapped(query'[c].todo) = query'[c].expected
    BY <1>1, <2>3, <2>5 DEF Asking
  <2>7. query'[c].todo = {} => query'[c].expected = {}
    BY <2>6 DEF Mapped
  <2>8. Processing(c)'
    BY <2>5, <2>6, <2>7 DEF Processing
  <2>9. QED
    BY <2>5, <2>8 DEF Progress
<1>5. QED
  BY <1>3, <1>4

LEMMA MappedSplit ==
  ASSUME NEW rows, NEW row \in rows
  PROVE  Mapped(rows) = Mapped(rows \ {row}) \cup {MapRow(row)}
BY DEF Mapped

LEMMA RowProgress ==
  ASSUME SInv, NEW c \in Clients, Progress(c), ProcessRow(c)
  PROVE  Progress(c)'
<1>1. query \in [Clients -> QueryStates] /\ Processing(c)
  BY DEF SInv, TableTypeOK, Progress, ProcessRow
<1>2. query[c] \in [phase : {"asking", "processing", "removing"},
                    of : TableQueries, todo : SUBSET Rows,
                    done : SUBSET Entries, expected : SUBSET Entries]
  BY <1>1 DEF ProcessRow, QueryStates, NoQuery
<1>3. PICK row \in query[c].todo :
        query' = [query EXCEPT ![c].done = @ \cup {MapRow(row)},
                               ![c].todo =
                     IF query[c].of.processor = "find" THEN {} ELSE @ \ {row}]
  BY DEF ProcessRow
<1>4. /\ query'[c].phase = "processing"
      /\ query'[c].of = query[c].of
      /\ query'[c].expected = query[c].expected
      /\ query'[c].done = query[c].done \cup {MapRow(row)}
      /\ query'[c].todo = IF query[c].of.processor = "find" THEN {}
                                                  ELSE query[c].todo \ {row}
  BY <1>1, <1>2, <1>3 DEF ProcessRow
<1>5. Mapped(query[c].todo)
        = Mapped(query[c].todo \ {row}) \cup {MapRow(row)}
  BY MappedSplit
<1>6. CASE query[c].of.processor = "find"
  <2>1. Mapped({}) = {}
    BY DEF Mapped
  <2>2. QED
    BY <1>1, <1>4, <1>5, <1>6, <2>1 DEF Progress, Processing
<1>7. CASE query[c].of.processor # "find"
  BY <1>1, <1>4, <1>5, <1>7 DEF Progress, Processing
<1>8. QED
  BY <1>6, <1>7

LEMMA RemoveProgress ==
  ASSUME SInv, TablesWellFormed, NEW c \in Clients, Progress(c), RemoveRow(c)
  PROVE  Progress(c)'
<1>1. TypeOK /\ query \in [Clients -> QueryStates] /\ Processing(c)
  BY DEF SInv, TableTypeOK, Progress, RemoveRow
<1>2. query[c] \in [phase : {"asking", "processing", "removing"},
                    of : TableQueries, todo : SUBSET Rows,
                    done : SUBSET Entries, expected : SUBSET Entries]
  BY <1>1 DEF RemoveRow, QueryStates, NoQuery
<1>3. PICK row \in query[c].todo :
        /\ SendStatement(c, DeleteSql(MapRow(row).key))
        /\ query' = [query EXCEPT ![c].phase = "removing",
                                  ![c].todo = @ \ {row}]
  BY DEF RemoveRow
<1> DEFINE s == DeleteSql(MapRow(row).key)
<1>4. MapRow(row).key \in Keys /\ s.key = MapRow(row).key
  BY <1>2, MappedRow DEF Rows, DeleteSql
<1>5. /\ query'[c].phase = "removing"
      /\ query'[c].of = query[c].of
      /\ query'[c].expected = query[c].expected
      /\ query'[c].done = query[c].done
      /\ query'[c].todo = query[c].todo \ {row}
  BY <1>1, <1>2, <1>3
<1>6. pc'[c] = "sent" /\ call'[c] = s
  BY <1>1, <1>3 DEF SendStatement, Transmit, TypeOK
<1>7. answer'[c].affected \in {0, 1}
  <2>1. CASE up
    <3>1. PICK protected \in SUBSET Referenced :
            answer' = [answer EXCEPT ![c] = AnswerTo(s, protected)]
      BY <1>3, <2>1 DEF SendStatement, Transmit
    <3>2. AffectedRows(s, current, protected) \in {0, 1}
      BY <1>1, <1>4, OneRemoved DEF TypeOK, TablesWellFormed
    <3>3. QED
      BY <1>1, <3>1, <3>2 DEF AnswerTo, Failed, OK, TypeOK
  <2>2. CASE ~up
    BY <1>1, <1>3, <2>2 DEF SendStatement, Transmit, TypeOK, Failed, OK
  <2>3. QED
    BY <2>1, <2>2
<1>8. Mapped(query[c].todo)
        = Mapped(query[c].todo \ {row}) \cup {MapRow(row)}
  BY MappedSplit
<1>9. query[c].done \cup Mapped(query[c].todo) = query[c].expected
  BY <1>1 DEF Processing, RemoveRow
<1>10. query[c].done \cup Mapped(query[c].todo \ {row})
         \cup {e \in query[c].expected : e.key = s.key} = query[c].expected
  BY <1>4, <1>8, <1>9
<1>11. Removing(c)'
  BY <1>4, <1>5, <1>6, <1>7, <1>10
     DEF Removing, RemoveRow, Stating, InStatement
<1>12. QED
  BY <1>5, <1>11 DEF Progress

LEMMA RemovedProgress ==
  ASSUME SInv, NEW c \in Clients, Progress(c), RowRemoved(c)
  PROVE  Progress(c)'
<1>1. TypeOK /\ query \in [Clients -> QueryStates] /\ Removing(c)
  BY DEF SInv, TableTypeOK, Progress, RowRemoved
<1>2. query[c] \in [phase : {"asking", "processing", "removing"},
                    of : TableQueries, todo : SUBSET Rows,
                    done : SUBSET Entries, expected : SUBSET Entries]
  BY <1>1 DEF RowRemoved, QueryStates, NoQuery
<1>3. CASE outcome[c] \notin {"ok", "silent"}
  BY <1>1, <1>3, NoProgress DEF RowRemoved
<1>4. CASE outcome[c] \in {"ok", "silent"}
  <2>1. /\ pc[c] = "returned"
        /\ call[c] \in Modifications /\ call[c] \in Statements
    BY <1>1, SqlOfEntries DEF RowRemoved, Resume, Removing
  <2>2. EndedAsAnswered(c)
    BY <2>1 DEF SInv, AnswersKept, KeptFor
  <2>3. answer[c].affected = 1
    BY <1>1, <1>4, <2>1, <2>2 DEF EndedAsAnswered, ExceptionOf, Removing
  <2>4. query'[c] = [query[c] EXCEPT !.phase = "processing",
                                     !.done = query[c].done \cup RemovedFor(c)]
    BY <1>1, <1>4 DEF RowRemoved
  <2>5. /\ query'[c].phase = "processing" /\ query'[c].todo = query[c].todo
        /\ query'[c].expected = query[c].expected
        /\ query'[c].of = query[c].of
        /\ query'[c].done = query[c].done \cup
             {e \in query[c].expected : e.key = call[c].key}
    BY <1>2, <2>3, <2>4 DEF RemovedFor
  <2>6. query'[c].done \cup Mapped(query'[c].todo) = query'[c].expected
    BY <1>1, <2>5 DEF Removing
  <2>7. query'[c].of.processor = "delete"
    BY <1>1, <2>5 DEF Removing
  <2>8. QED
    BY <2>5, <2>6, <2>7 DEF Progress, Processing
<1>5. QED
  BY <1>3, <1>4

LEMMA ProgressStep ==
  ASSUME SInv, TablesWellFormed, \A c \in Clients : Progress(c),
         [Next]_tableVars
  PROVE  \A c \in Clients : Progress(c)'
<1> SUFFICES ASSUME NEW d \in Clients
             PROVE  Progress(d)'
  OBVIOUS
<1>0. TypeOK /\ query \in [Clients -> QueryStates] /\ Progress(d)
  BY DEF SInv, TableTypeOK
<1>1. CASE UNCHANGED tableVars
  BY <1>0, <1>1, ProgressFrame DEF tableVars, vars, clientVars
<1>2. CASE LoseConnection /\ UNCHANGED query
  BY <1>0, <1>2, ProgressFrame DEF LoseConnection, clientVars
<1>3. ASSUME NEW c \in Clients, CallStep(c) /\ UNCHANGED query
      PROVE  Progress(d)'
  <2>1. CASE d = c
    BY <1>0, <1>3, <2>1, CallProgress
  <2>2. CASE d # c
    BY <1>0, <1>3, <2>2, OnlyOwnCall, ProgressFrame
  <2>3. QED
    BY <2>1, <2>2
<1>4. ASSUME NEW c \in Clients, query[c] = NoQuery, UNCHANGED query,
             \/ \E s \in Statements : SendStatement(c, s)
             \/ Resume(c) \/ StartTransaction(c) \/ CommitTransaction(c)
             \/ RollbackTransaction(c)
      PROVE  Progress(d)'
  <2>1. CASE d = c
    BY <1>4, <2>1, NoProgress
  <2>2. CASE d # c
    BY <1>0, <1>4, <2>2, OnlyOwnCall, ProgressFrame
  <2>3. QED
    BY <2>1, <2>2
<1>5. ASSUME NEW c \in Clients, ReturnToCaller(c) \/ TransactionCall(c)
      PROVE  Progress(d)'
  BY <1>4, <1>5 DEF ReturnToCaller, TransactionCall
<1>6. ASSUME NEW c \in Modifiers,
             \/ \E e \in Inserts : Insert(c, e)
             \/ \E e \in Updates : Update(c, e)
             \/ \E k \in Removes : Remove(c, k)
      PROVE  Progress(d)'
  <2>1. /\ query[c] = NoQuery /\ UNCHANGED query
        /\ \E s \in Statements : SendStatement(c, s)
    BY <1>6, SqlOfEntries, WidgetTableAssumption DEF Insert, Update, Remove
  <2>2. QED
    BY <1>4, <2>1, WidgetTableAssumption
<1>7. ASSUME NEW c \in Queriers, Clear(c)
      PROVE  Progress(d)'
  BY <1>4, <1>7, SqlOfEntries, WidgetTableAssumption DEF Clear
<1>8. ASSUME NEW c \in Clients, d # c,
             \/ Resume(c) \/ \E s \in Statements : SendStatement(c, s)
             \/ UNCHANGED vars,
             \E q : query' = [query EXCEPT ![c] = q]
      PROVE  Progress(d)'
  <2>1. query'[d] = query[d]
    BY <1>0, <1>8
  <2>2. pc'[d] = pc[d] /\ call'[d] = call[d] /\ answer'[d] = answer[d]
    BY <1>0, <1>8, OnlyOwnCall DEF vars, clientVars
  <2>3. QED
    BY <1>0, <2>1, <2>2, ProgressFrame
<1>9. ASSUME NEW c \in Queriers, NEW q \in TableQueries, Query(c, q)
      PROVE  Progress(d)'
  <2>1. CASE d = c
    BY <1>9, <2>1, QueryProgress
  <2>2. CASE d # c
    BY <1>8, <1>9, <2>2, SqlOfEntries, WidgetTableAssumption DEF Query
  <2>3. QED
    BY <2>1, <2>2
<1>10. ASSUME NEW c \in Clients, FetchResult(c) \/ RowRemoved(c)
       PROVE  Progress(d)'
  <2>1. CASE d = c
    BY <1>0, <1>10, <2>1, FetchProgress, RemovedProgress
  <2>2. CASE d # c
    BY <1>8, <1>10, <2>2 DEF FetchResult, RowRemoved
  <2>3. QED
    BY <2>1, <2>2
<1>11. ASSUME NEW c \in Clients, ProcessRow(c) \/ FinishQuery(c)
       PROVE  Progress(d)'
  <2>1. CASE d = c
    <3>1. FinishQuery(c) => query'[c] = NoQuery
      BY <1>0 DEF FinishQuery
    <3>2. QED
      BY <1>0, <1>11, <2>1, <3>1, RowProgress, NoProgress
  <2>2. CASE d # c
    <3>1. query'[d] = query[d] /\ UNCHANGED vars
      BY <1>0, <1>11, <2>2 DEF ProcessRow, FinishQuery
    <3>2. QED
      BY <1>0, <3>1, ProgressFrame DEF vars, clientVars
  <2>3. QED
    BY <2>1, <2>2
<1>12. ASSUME NEW c \in Clients, RemoveRow(c)
       PROVE  Progress(d)'
  <2>1. CASE d = c
    BY <1>0, <1>12, <2>1, RemoveProgress
  <2>2. CASE d # c
    <3>1. PICK row \in query[c].todo :
            SendStatement(c, DeleteSql(MapRow(row).key))
      BY <1>12 DEF RemoveRow
    <3>2. query[c].todo \subseteq Rows
      BY <1>0, <1>12 DEF RemoveRow, QueryStates, NoQuery
    <3>3. DeleteSql(MapRow(row).key) \in Statements
      BY <3>1, <3>2, MappedRow, SqlOfEntries DEF Rows
    <3>4. query'[d] = query[d]
      BY <1>0, <1>12, <2>2 DEF RemoveRow
    <3>5. QED
      BY <1>0, <2>2, <3>1, <3>3, <3>4, OnlyOwnCall, ProgressFrame
  <2>3. QED
    BY <2>1, <2>2
<1>13. QED
  BY <1>1, <1>2, <1>3, <1>5, <1>6, <1>7, <1>9, <1>10, <1>11, <1>12
     DEF Next, Step

-----------------------------------------------------------------------------
(* A query that comes to its end has done all of what was wanted when the   *)
(* server executed it.                                                      *)
THEOREM QueriesAreComplete == CallersSerialize => (Spec => []CompleteAtEnd)
<1> SUFFICES ASSUME CallersSerialize
             PROVE  Spec => []CompleteAtEnd
  OBVIOUS
<1>1. TableInit => QInv
  <2> SUFFICES ASSUME TableInit
               PROVE  QInv
    OBVIOUS
  <2>1. TablesWellFormed
    BY DEF TableInit, Init, TablesWellFormed, WellFormed
  <2>2. \A c \in Clients : Progress(c)
    BY DEF TableInit, Progress, NoQuery
  <2>3. QED
    BY <2>1, <2>2, SInvInit DEF QInv
<1>2. QInv /\ [Next]_tableVars => QInv'
  <2> SUFFICES ASSUME QInv, [Next]_tableVars
               PROVE  QInv'
    OBVIOUS
  <2>1. TablesWellFormed'
    BY StepIsSessionStep, TablesStep DEF QInv, SInv, TableTypeOK
  <2>2. QED
    BY <2>1, SInvStep, ProgressStep DEF QInv
<1>3. QInv => CompleteAtEnd
  <2> SUFFICES ASSUME QInv, NEW c \in Clients,
                      query[c].phase = "processing", query[c].todo = {}
               PROVE  LET q == query[c] IN
                      IF q.of.processor = "find"
                        THEN q.done \subseteq q.expected
                               /\ (q.done = {} => q.expected = {})
                        ELSE q.done = q.expected
    BY DEF CompleteAtEnd
  <2>1. Processing(c) /\ Mapped(query[c].todo) = {}
    BY DEF QInv, Progress, Mapped
  <2>2. QED
    BY <2>1 DEF Processing
<1>4. QED
  BY <1>1, <1>2, <1>3, PTL DEF Spec
==============================================================================
