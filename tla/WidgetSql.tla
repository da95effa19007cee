------------------------------ MODULE WidgetSql ------------------------------
(***************************************************************************)
(* The widget table of WidgetTable.h/.cpp: how its entries become SQL and  *)
(* rows become entries, and what the server makes of the statements.  The  *)
(* two text columns, name and category, are treated alike and stand for    *)
(* each other; quantity needs no conversion and is left out.               *)
(***************************************************************************)
EXTENDS Naturals, FiniteSets

CONSTANTS
  Keys,        \* WidgetKey values
  Texts,       \* the std::strings of an entry
  Empty,       \* the empty one
  NullCell,    \* SQL NULL, a null char* in a MYSQL_ROW
  Referenced   \* the keys that rows of other tables may refer to

ASSUME WidgetAssumption ==
  /\ Empty \in Texts
  /\ NullCell \notin Texts
  /\ Referenced \subseteq Keys

Entries == [key : Keys, category : Texts]
Rows == [key : Keys, category : (Texts \ {Empty}) \cup {NullCell}]

(* getNullableStringColumnValue(): an empty text is written as null.        *)
ColumnValue(text) == IF text = Empty THEN NullCell ELSE text

(* fetchNullableStringColumnValue(): a null cell is read as an empty text.  *)
FetchedValue(cell) == IF cell = NullCell THEN Empty ELSE cell

(* RowMapperImpl::mapRow().                                                 *)
MapRow(row) == [key |-> row.key, category |-> FetchedValue(row.category)]

-----------------------------------------------------------------------------
(* The statements the static SQL builders build.                            *)
InsertSql(e) ==
  [kind |-> "insert", key |-> e.key, category |-> ColumnValue(e.category)]

UpdateSql(e) ==
  [kind |-> "update", key |-> e.key, category |-> ColumnValue(e.category)]

DeleteSql(k) == [kind |-> "remove", key |-> k]

SelectByKeySql(k) == [kind |-> "selectByKey", key |-> k]

SelectAllSql == [kind |-> "selectAll"]

SelectByCategorySql(text) ==
  [kind |-> "selectByCategory", category |-> ColumnValue(text)]

(* A statement without a result, passed to executeQuery() as the tests do.  *)
ClearSql == [kind |-> "clear"]

Modifications ==
  {InsertSql(e) : e \in Entries} \cup {UpdateSql(e) : e \in Entries}
    \cup {DeleteSql(k) : k \in Keys}

Selects ==
  {SelectByKeySql(k) : k \in Keys} \cup {SelectAllSql}
    \cup {SelectByCategorySql(t) : t \in Texts}

Statements == Modifications \cup Selects \cup {ClearSql}

-----------------------------------------------------------------------------
(* The server: the rows of a table that a statement's WHERE selects (for an *)
(* insert, those with its key).  Nothing equals null.                       *)
Targets(s, table) ==
  IF s.kind \in {"selectAll", "clear"} THEN table
  ELSE IF s.kind = "selectByCategory"
    THEN {row \in table : row.category = s.category /\ s.category # NullCell}
  ELSE {row \in table : row.key = s.key}

(* The columns are NOT NULL (WidgetTable.h:13-16); keys are unique; what a  *)
(* foreign key refers to, the "protected" keys, stays.                      *)
Refusal(s, table, protected) ==
  IF /\ s.kind \in {"insert", "update"}
     /\ s.category = NullCell
     /\ s.kind = "insert" \/ Targets(s, table) # {}
    THEN "notNull"
  ELSE IF s.kind = "insert" /\ Targets(s, table) # {} THEN "duplicate"
  ELSE IF /\ s.kind \in {"remove", "clear"}
          /\ \E row \in Targets(s, table) : row.key \in protected
    THEN "referenced"
  ELSE "none"

RowsAfter(s, table, protected) ==
  LET changed == Targets(s, table) IN
  IF Refusal(s, table, protected) # "none" THEN table
  ELSE CASE s.kind = "insert" ->
              table \cup {[key |-> s.key, category |-> s.category]}
         [] s.kind = "update" ->
              (table \ changed)
                \cup {[row EXCEPT !.category = s.category] : row \in changed}
         [] s.kind \in {"remove", "clear"} -> table \ changed
         [] OTHER -> table

(* mysql_affected_rows(): the rows changed.  The connection is opened       *)
(* without CLIENT_FOUND_ROWS, so an updated row that stays what it was does *)
(* not count.                                                               *)
AffectedRows(s, table, protected) ==
  LET after == RowsAfter(s, table, protected) IN
  IF s.kind = "insert" THEN Cardinality(after \ table)
                       ELSE Cardinality(table \ after)
=============================================================================
