---------------------------- MODULE Subsequences ----------------------------
(***************************************************************************)
(* Finite sets of numbers in ascending order, and the part of a sequence   *)
(* that stands at some of its positions.  They say what SetToSortSeq and   *)
(* SelectSeq say, in a form the provers can expand: the n-th number of a   *)
(* set is the one that n - 1 others precede.                               *)
(***************************************************************************)
EXTENDS Integers, Sequences, FiniteSets

Ascending(S) ==
  [n \in 1..Cardinality(S) |->
     CHOOSE i \in S : Cardinality({j \in S : j < i}) = n - 1]

Subsequence(s, positions) ==
  [n \in 1..Cardinality(positions) |-> s[Ascending(positions)[n]]]
=============================================================================
