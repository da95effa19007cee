----------------------------- MODULE KeyOrderProofs -----------------------------
(***************************************************************************)
(* The comparison operators of the six key classes, for components of any  *)
(* integer values: what the runs of KeyOrder check for two values.         *)
(***************************************************************************)
EXTENDS KeyOrder, TLAPS

AllKeys == [Components -> Int]

(* The values two keys compare by.                                          *)
LEMMA ComponentValues ==
  ASSUME NEW k \in AllKeys
  PROVE  /\ k[1] \in Int /\ k[2] \in Int /\ k[3] \in Int
         /\ k[4] \in Int /\ k[5] \in Int /\ k[6] \in Int
BY DEF AllKeys, Components

(* operator< is a strict order, in each class.                              *)
LEMMA LessIsStrict ==
  ASSUME NEW n \in Components,
         NEW a \in AllKeys, NEW b \in AllKeys, NEW c \in AllKeys
  PROVE  /\ ~Less(n, a, a)
         /\ Less(n, a, b) => ~Less(n, b, a)
         /\ Less(n, a, b) /\ Less(n, b, c) => Less(n, a, c)
BY ComponentValues DEF Components, Less, LessThen,
   Less1, Less2, Less3, Less4, Less5, Less6

LEMMA EquivalenceIsEquality ==
  ASSUME NEW n \in Components, NEW a \in AllKeys, NEW b \in AllKeys
  PROVE  /\ Equal(n, a, b) <=> ~Less(n, a, b) /\ ~Less(n, b, a)
         /\ NotEqual(n, a, b) <=> ~Equal(n, a, b)
BY ComponentValues DEF Components, Less, LessThen,
   Less1, Less2, Less3, Less4, Less5, Less6, Equal, NotEqual

LEMMA GreaterIsLessSwapped ==
  ASSUME NEW n \in Components, NEW a \in AllKeys, NEW b \in AllKeys
  PROVE  Greater(n, a, b) <=> Less(n, b, a)
BY ComponentValues DEF Components, Less, LessThen, Greater, GreaterThen,
   Less1, Less2, Less3, Less4, Less5, Less6,
   Greater1, Greater2, Greater3, Greater4, Greater5, Greater6

(* operator< is the lexicographic order its class comment promises.         *)
LEMMA LessIsLexicographic ==
  ASSUME NEW n \in Components, NEW a \in AllKeys, NEW b \in AllKeys
  PROVE  Less(n, a, b) <=> LexicographicallyLess(n, a, b)
<1> USE ComponentValues DEF Components, Less, LessThen,
        Less1, Less2, Less3, Less4, Less5, Less6
<1>1. ASSUME LexicographicallyLess(n, a, b)
      PROVE  Less(n, a, b)
  <2>1. PICK i \in 1..n : /\ a[i] < b[i]
                          /\ \A j \in 1..(i - 1) : a[j] = b[j]
    BY <1>1 DEF LexicographicallyLess
  <2>2. i \in 1..6 /\ i <= n
    BY <2>1
  <2> QED
    BY <2>1, <2>2
<1>2. ASSUME Less(n, a, b)
      PROVE  LexicographicallyLess(n, a, b)
  <2> DEFINE First(i) == a[i] < b[i] /\ \A j \in 1..(i - 1) : a[j] = b[j]
  <2>1. \E i \in 1..6 : i <= n /\ First(i)
    BY <1>2
  <2> QED
    BY <2>1 DEF LexicographicallyLess
<1> QED
  BY <1>1, <1>2

-----------------------------------------------------------------------------
(* Keys only ever hold values.                                              *)
LEMMA TypeCorrect == Spec => []TypeOK
<1>1. Init => TypeOK
  BY KeyAssumption DEF Init, TypeOK, Keys
<1>2. TypeOK /\ [Next]_vars => TypeOK'
  BY DEF TypeOK, Keys, Next, SetX, SetY, AssignX, vars
<1> QED
  BY <1>1, <1>2, PTL DEF Spec

LEMMA KeysAreKeys == Keys \subseteq AllKeys
BY KeyAssumption DEF Keys, AllKeys

(* Every CommonKeyN is a valid std::map key, whatever its components are.   *)
THEOREM MapsAreOrdered == Spec => []StrictOrder
<1>1. TypeOK => StrictOrder
  BY KeysAreKeys, LessIsStrict DEF TypeOK, StrictOrder
<1> QED
  BY <1>1, TypeCorrect, PTL

(* Map equivalence and operator== agree, so a map and its key vector do.    *)
THEOREM MapsAndVectorsAgree == Spec => []SameKeyIsEqualKey
<1>1. TypeOK => SameKeyIsEqualKey
  BY KeysAreKeys, EquivalenceIsEquality DEF TypeOK, SameKeyIsEqualKey
<1> QED
  BY <1>1, TypeCorrect, PTL

(* operator> mirrors operator<.                                             *)
THEOREM GreaterMirrorsLess == Spec => []GreaterIsConverse
<1>1. TypeOK => GreaterIsConverse
  BY KeysAreKeys, GreaterIsLessSwapped DEF TypeOK, GreaterIsConverse
<1> QED
  BY <1>1, TypeCorrect, PTL

(* The hand-written nesting is the lexicographic order.                     *)
THEOREM NestingIsLexicographic == Spec => []OrderIsLexicographic
<1>1. TypeOK => OrderIsLexicographic
  BY KeysAreKeys, LessIsLexicographic DEF TypeOK, OrderIsLexicographic
<1> QED
  BY <1>1, TypeCorrect, PTL
=============================================================================
