--------------------------- MODULE MCDumpRegistry ---------------------------
(* Threads are interchangeable, and so are the maps; the caches may have    *)
(* names that sort differently.                                             *)
EXTENDS DumpRegistry, TLC

Symmetry == Permutations(Threads) \cup Permutations(Maps)
=============================================================================
