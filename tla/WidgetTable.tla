----------------------------- MODULE WidgetTable -----------------------------
(***************************************************************************)
(* WidgetTable objects that share one connection: insert(), update(),      *)
(* remove(), and query() with the processors of Data.h, which runQuery()   *)
(* feeds row by row.  Each client is a thread with a table of its own; its *)
(* statements run over the connection as in Session, whose rows the        *)
(* queries convert.  A query holds _queryMutex only until its rows are     *)
(* stored: what it does with them interleaves with the other clients, and  *)
(* a delete query sends a statement of its own for every row.              *)
(***************************************************************************)
EXTENDS Session

CONSTANTS
  Inserts,       \* the entries the clients insert,
  Updates,       \* those they update,
  Removes,       \* the keys they remove
  TableQueries,  \* and the queries they make
  Modifiers,     \* the clients that make modifications
  Queriers       \* and those that make queries

(* What a processor does with the rows; CountProcessorTemplate's result is  *)
(* the size of what CopyProcessor collects.                                 *)
Processors == {"find", "copy", "delete"}

PossibleQueries ==
  [by : {"key"}, key : Keys, processor : Processors]
    \cup [by : {"category"}, category : Texts, processor : Processors]
    \cup [by : {"all"}, processor : Processors]

ASSUME WidgetTableAssumption ==
  /\ Inserts \subseteq Entries
  /\ Updates \subseteq Entries
  /\ Removes \subseteq Keys
  /\ TableQueries \subseteq PossibleQueries
  /\ Modifiers \subseteq Clients
  /\ Queriers \subseteq Clients

VARIABLE query   \* what each client's runQuery() is at

tableVars == <<vars, query>>

NoQuery == [phase |-> "none"]

TableInit == Init /\ query = [c \in Clients |-> NoQuery]

-----------------------------------------------------------------------------
Insert(c, e) ==
  /\ query[c] = NoQuery
  /\ SendStatement(c, InsertSql(e))
  /\ UNCHANGED query

Update(c, e) ==
  /\ query[c] = NoQuery
  /\ SendStatement(c, UpdateSql(e))
  /\ UNCHANGED query

Remove(c, k) ==
  /\ query[c] = NoQuery
  /\ SendStatement(c, DeleteSql(k))
  /\ UNCHANGED query

(* A caller empties the table with executeQuery(), as the tests do.         *)
Clear(c) ==
  /\ query[c] = NoQuery
  /\ SendStatement(c, ClearSql)
  /\ UNCHANGED query

(* The call, or the transaction call, returns to its caller.                *)
ReturnToCaller(c) ==
  /\ query[c] = NoQuery
  /\ Resume(c)
  /\ UNCHANGED query

-----------------------------------------------------------------------------
QuerySql(q) ==
  CASE q.by = "key"      -> SelectByKeySql(q.key)
    [] q.by = "category" -> SelectByCategorySql(q.category)
    [] q.by = "all"      -> SelectAllSql

(* What the caller asks for, in terms of entries.                           *)
Wants(q, e) ==
  CASE q.by = "key"      -> e.key = q.key
    [] q.by = "category" -> e.category = q.category
    [] q.by = "all"      -> TRUE

(* query() builds its statement and runQuery() executes it.  "expected" is  *)
(* history: the wanted entries at the moment the server executes it.        *)
Query(c, q) ==
  /\ query[c] = NoQuery
  /\ SendStatement(c, QuerySql(q))
  /\ query' = [query EXCEPT ![c] =
       [phase |-> "asking", of |-> q, todo |-> {}, done |-> {},
        expected |-> {e \in {MapRow(row) : row \in current} : Wants(q, e)}]]

(* executeQuery() returns the stored rows, or nothing, or its exception     *)
(* ends the query.                                                          *)
FetchResult(c) ==
  /\ query[c].phase = "asking"
  /\ query' = [query EXCEPT ![c] =
       IF outcome[c] \in {"ok", "silent"}
         THEN [@ EXCEPT !.phase = "processing", !.todo = seen[c].rows]
         ELSE NoQuery]
  /\ Resume(c)

(* process() of a find takes the row and stops; a copy takes it and goes on.*)
ProcessRow(c) ==
  /\ query[c].phase = "processing"
  /\ query[c].of.processor \in {"find", "copy"}
  /\ \E row \in query[c].todo :
       query' = [query EXCEPT ![c].done = @ \cup {MapRow(row)},
                              ![c].todo =
                    IF query[c].of.processor = "find" THEN {} ELSE @ \ {row}]
  /\ UNCHANGED vars

(* process() of a delete removes the row by its key: a call of its own.     *)
RemoveRow(c) ==
  /\ query[c].phase = "processing"
  /\ query[c].of.processor = "delete"
  /\ \E row \in query[c].todo :
       /\ SendStatement(c, DeleteSql(MapRow(row).key))
       /\ query' = [query EXCEPT ![c].phase = "removing",
                                 ![c].todo = @ \ {row}]

(* The entries the server has removed for the row client c is removing.     *)
RemovedFor(c) ==
  IF answer[c].affected = 1
    THEN {e \in query[c].expected : e.key = call[c].key}
    ELSE {}

(* Mutant of RowRemoved: a row that is already gone does not end the query. *)
MutantRowRemoved(c) ==
  /\ query[c].phase = "removing"
  /\ query' = [query EXCEPT ![c] =
       IF outcome[c] \in {"ok", "silent", "EntryNotFound"}
         THEN [query[c] EXCEPT !.phase = "processing",
                               !.done = query[c].done \cup RemovedFor(c)]
         ELSE NoQuery]
  /\ Resume(c)

(* That call returns and the query goes on, or its exception (EntryNotFound *)
(* when another client has removed the row) ends the query with the other   *)
(* rows left.  "done" takes the rows the server really removed for it.      *)
RowRemoved(c) ==
  /\ query[c].phase = "removing"
  /\ query' = [query EXCEPT ![c] =
       IF outcome[c] \in {"ok", "silent"}
         THEN [query[c] EXCEPT !.phase = "processing",
                               !.done = query[c].done \cup RemovedFor(c)]
         ELSE NoQuery]
  /\ Resume(c)

(* No row is left (or none wanted): the result is freed, query() returns.   *)
FinishQuery(c) ==
  /\ query[c].phase = "processing"
  /\ query[c].todo = {}
  /\ query' = [query EXCEPT ![c] = NoQuery]
  /\ UNCHANGED vars

-----------------------------------------------------------------------------
TransactionCall(c) ==
  /\ query[c] = NoQuery
  /\ StartTransaction(c) \/ CommitTransaction(c) \/ RollbackTransaction(c)
  /\ UNCHANGED query

(* The steps of what client c has under way.                                *)
Step(c) ==
  \/ CallStep(c) /\ UNCHANGED query
  \/ ReturnToCaller(c)
  \/ FetchResult(c) \/ ProcessRow(c) \/ RemoveRow(c) \/ RowRemoved(c)
  \/ FinishQuery(c)

Next ==
  \/ \E c \in Clients : Step(c) \/ TransactionCall(c)
  \/ \E c \in Modifiers :
       \/ \E e \in Inserts : Insert(c, e)
       \/ \E e \in Updates : Update(c, e)
       \/ \E k \in Removes : Remove(c, k)
  \/ \E c \in Queriers : Clear(c) \/ \E q \in TableQueries : Query(c, q)
  \/ LoseConnection /\ UNCHANGED query

Spec == TableInit /\ [][Next]_tableVars

(* A client that is inside a call goes on with it; calling anything is its  *)
(* own choice.                                                              *)
FairSpec == Spec /\ \A c \in Clients : WF_tableVars(Step(c))

-----------------------------------------------------------------------------
QueryStates ==
  {NoQuery} \cup [phase : {"asking", "processing", "removing"},
                  of : TableQueries, todo : SUBSET Rows,
                  done : SUBSET Entries, expected : SUBSET Entries]

TableTypeOK == TypeOK /\ query \in [Clients -> QueryStates]

(* query() that comes to its end without an exception has done its work on  *)
(* all of one state of the table, the one at which the server executed the  *)
(* SELECT, whatever the other clients did to the rows in the meantime: a    *)
(* copy has every entry the caller asked for (across the text <-> NULL      *)
(* conversions), a find one of them unless there was none, and of a delete  *)
(* every one was removed by a statement of this very call.                  *)
CompleteAtEnd ==
  \A c \in Clients :
    query[c].phase = "processing" /\ query[c].todo = {} =>
      LET q == query[c] IN
      IF q.of.processor = "find"
        THEN q.done \subseteq q.expected /\ (q.done = {} => q.expected = {})
        ELSE q.done = q.expected

(* What DataError.h:31-32 says of EntryNotFound: an UPDATE or DELETE whose  *)
(* WHERE matched no rows.                                                   *)
NotFoundMeansAbsent ==
  \A c \in Clients : outcome[c] = "EntryNotFound" => answer[c].matched = 0
=============================================================================
