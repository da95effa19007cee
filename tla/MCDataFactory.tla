---------------------------- MODULE MCDataFactory ----------------------------
(***************************************************************************)
(* Model-checking instance of DataFactory: model values for the objects,   *)
(* and the mutants of its operations that the properties must catch.       *)
(***************************************************************************)
EXTENDS DataFactory, TLC

Symmetry == Permutations(DataFactories) \cup Permutations(Connections)
=============================================================================
