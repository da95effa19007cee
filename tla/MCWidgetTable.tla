---------------------------- MODULE MCWidgetTable ----------------------------
(* The calls of WidgetTable's small instances: two rows of one category, one *)
(* of which may move to another, an entry the server refuses, a query of     *)
(* each kind and one by the empty category.  A repeated update writes what   *)
(* the row already holds.                                                    *)
EXTENDS WidgetTable

Entry(k, text) == [key |-> k, category |-> text]

MCInserts == {Entry(1, "a"), Entry(2, "a"), Entry(2, "")}
MCUpdates == {Entry(1, "b")}
MCRepeatedUpdates == {Entry(1, "a")}
MCRemoves == {1}
MCTableQueries ==
  {[by |-> "key", key |-> 1, processor |-> "find"],
   [by |-> "category", category |-> "a", processor |-> "delete"],
   [by |-> "category", category |-> "", processor |-> "delete"],
   [by |-> "all", processor |-> "copy"]}
=============================================================================
