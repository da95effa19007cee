------------------------------- MODULE KeyOrder -------------------------------
(***************************************************************************)
(* Two keys whose components are set one at a time, as setA() ... setF()   *)
(* and the copying operator= do, and what must hold of their comparisons   *)
(* at every point, in each of the six classes.                             *)
(***************************************************************************)
EXTENDS CommonKey

CONSTANTS
  Values,    \* values of a component
  Default    \* A(): the value of a default-constructed component

ASSUME KeyAssumption == Values \subseteq Int /\ Default \in Values

Components == 1..6
Keys == [Components -> Values]

VARIABLES x, y
vars == <<x, y>>

Init == x = [i \in Components |-> Default] /\ y = [i \in Components |-> Default]

SetX(i, v) == x' = [x EXCEPT ![i] = v] /\ UNCHANGED y

SetY(i, v) == y' = [y EXCEPT ![i] = v] /\ UNCHANGED x

AssignX == x' = y /\ UNCHANGED y

Next ==
  \/ \E i \in Components, v \in Values : SetX(i, v) \/ SetY(i, v)
  \/ AssignX

Spec == Init /\ [][Next]_vars

TypeOK == x \in Keys /\ y \in Keys

-----------------------------------------------------------------------------
(* std::map requires a strict weak order: operator< is irreflexive and      *)
(* transitive, in each class.                                               *)
StrictOrder ==
  \A n \in Components :
    /\ ~Less(n, x, x)
    /\ Less(n, x, y) =>
         /\ ~Less(n, y, x)
         /\ \A z \in Keys : Less(n, y, z) => Less(n, x, z)

(* The keys a map takes for the same are those operator== calls equal, so   *)
(* removeDataEntry() erases from the vector exactly what it erases from the *)
(* map; and != is the negation of ==.                                       *)
SameKeyIsEqualKey ==
  \A n \in Components :
    /\ Equal(n, x, y) <=> ~Less(n, x, y) /\ ~Less(n, y, x)
    /\ NotEqual(n, x, y) <=> ~Equal(n, x, y)

(* operator> is operator< with its operands swapped.                        *)
GreaterIsConverse ==
  \A n \in Components : Greater(n, x, y) <=> Less(n, y, x)

(* The order is the one the class comments promise: "compared               *)
(* lexicographically (A first, then B)" (CommonKey.h:86-87).                *)
OrderIsLexicographic ==
  \A n \in Components : Less(n, x, y) <=> LexicographicallyLess(n, x, y)
=============================================================================
