------------------------------ MODULE CommonKey ------------------------------
(***************************************************************************)
(* The comparison operators of CommonKey1 ... CommonKey6 (CommonKey.h).    *)
(* Maps find keys with operator<, CommonMap::removeDataEntry() removes     *)
(* them from the key vector with operator==, and each class spells its     *)
(* operators out by hand: they must agree.                                 *)
(*                                                                         *)
(* A key is a function from component numbers, A = 1 ... F = 6, to values; *)
(* a CommonKeyN looks at the first N.  The components' own operators       *)
(* (BasicType's, or a built-in type's) are those of the integers.          *)
(***************************************************************************)
EXTENDS Integers

(* Mutant of LessThen: the rest decides without the components being equal. *)
MutantLessThen(x, y, i, rest) == x[i] < y[i] \/ rest

(* (_i < k._i) || ((_i == k._i) && rest), the step every operator< nests.   *)
LessThen(x, y, i, rest) == x[i] < y[i] \/ (x[i] = y[i] /\ rest)

(* Mutant of Less2: the components are compared in the wrong order.         *)
MutantLess2(x, y) == LessThen(x, y, 2, x[1] < y[1])

Less1(x, y) == x[1] < y[1]
Less2(x, y) == LessThen(x, y, 1, x[2] < y[2])
Less3(x, y) == LessThen(x, y, 1, LessThen(x, y, 2, x[3] < y[3]))
Less4(x, y) == LessThen(x, y, 1, LessThen(x, y, 2,
                 LessThen(x, y, 3, x[4] < y[4])))
Less5(x, y) == LessThen(x, y, 1, LessThen(x, y, 2, LessThen(x, y, 3,
                 LessThen(x, y, 4, x[5] < y[5]))))
Less6(x, y) == LessThen(x, y, 1, LessThen(x, y, 2, LessThen(x, y, 3,
                 LessThen(x, y, 4, LessThen(x, y, 5, x[6] < y[6])))))

(* The operator> of each class, written out the same way.                   *)
GreaterThen(x, y, i, rest) == x[i] > y[i] \/ (x[i] = y[i] /\ rest)

Greater1(x, y) == x[1] > y[1]
Greater2(x, y) == GreaterThen(x, y, 1, x[2] > y[2])
Greater3(x, y) == GreaterThen(x, y, 1, GreaterThen(x, y, 2, x[3] > y[3]))

(* Mutant of Greater4: one comparison is copied from operator<.             *)
MutantGreater4(x, y) == GreaterThen(x, y, 1, GreaterThen(x, y, 2,
                          GreaterThen(x, y, 3, x[4] < y[4])))

Greater4(x, y) == GreaterThen(x, y, 1, GreaterThen(x, y, 2,
                    GreaterThen(x, y, 3, x[4] > y[4])))
Greater5(x, y) == GreaterThen(x, y, 1, GreaterThen(x, y, 2,
                    GreaterThen(x, y, 3, GreaterThen(x, y, 4, x[5] > y[5]))))
Greater6(x, y) == GreaterThen(x, y, 1, GreaterThen(x, y, 2,
                    GreaterThen(x, y, 3, GreaterThen(x, y, 4,
                      GreaterThen(x, y, 5, x[6] > y[6])))))

(* Mutant of Equal: the last component is forgotten.                        *)
MutantEqual(n, x, y) == \A i \in 1..(n - 1) : x[i] = y[i]

(* operator== of CommonKeyN: the conjunction of the components'.            *)
Equal(n, x, y) == \A i \in 1..n : x[i] = y[i]

(* operator!=: the disjunction of the components' own operator!=.           *)
NotEqual(n, x, y) == \E i \in 1..n : x[i] # y[i]

Less(n, x, y) ==
  \/ n = 1 /\ Less1(x, y)
  \/ n = 2 /\ Less2(x, y)
  \/ n = 3 /\ Less3(x, y)
  \/ n = 4 /\ Less4(x, y)
  \/ n = 5 /\ Less5(x, y)
  \/ n = 6 /\ Less6(x, y)

Greater(n, x, y) ==
  \/ n = 1 /\ Greater1(x, y)
  \/ n = 2 /\ Greater2(x, y)
  \/ n = 3 /\ Greater3(x, y)
  \/ n = 4 /\ Greater4(x, y)
  \/ n = 5 /\ Greater5(x, y)
  \/ n = 6 /\ Greater6(x, y)

(* The documented order: the first component that differs decides.          *)
LexicographicallyLess(n, x, y) ==
  \E i \in 1..n : /\ x[i] < y[i]
                  /\ \A j \in 1..(i - 1) : x[j] = y[j]
=============================================================================
