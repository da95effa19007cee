--------------------------- MODULE CommonMapProofs ---------------------------
(***************************************************************************)
(* What the container operations of CommonMap return, for any finite set   *)
(* of keys: lemmas for the modules that prove something about containers.  *)
(* No induction over the data is needed, because ranks are counted: the    *)
(* numbers of a finite set have different ranks, and there are as many     *)
(* ranks as numbers.                                                       *)
(***************************************************************************)
EXTENDS CommonMap, FiniteSetTheorems, SequenceTheorems, TLAPS

(* How many numbers of S come before i.                                     *)
Rank(S, i) == Cardinality({j \in S : j < i})

(* A finite set without one of its elements has one element less.           *)
LEMMA Without ==
  ASSUME NEW S, IsFiniteSet(S), NEW x \in S
  PROVE  /\ IsFiniteSet(S \ {x})
         /\ Cardinality(S \ {x}) = Cardinality(S) - 1
         /\ Cardinality(S) \in Nat
BY FS_RemoveElement, FS_CardinalityType

(* Ranks are smaller than the number of elements, and a smaller number has  *)
(* a smaller rank.                                                          *)
LEMMA RanksIncrease ==
  ASSUME NEW S \in SUBSET Int, IsFiniteSet(S)
  PROVE  /\ \A i \in S : Rank(S, i) \in 0..Cardinality(S) - 1
         /\ \A i, k \in S : i < k => Rank(S, i) < Rank(S, k)
<1>1. ASSUME NEW i \in S PROVE Rank(S, i) \in 0..Cardinality(S) - 1
  <2>1. {j \in S : j < i} \in SUBSET (S \ {i})
    OBVIOUS
  <2>2. /\ IsFiniteSet(S \ {i})
        /\ Cardinality(S \ {i}) = Cardinality(S) - 1
        /\ Cardinality(S) \in Nat
    BY Without
  <2>3. /\ IsFiniteSet({j \in S : j < i})
        /\ Cardinality({j \in S : j < i}) <= Cardinality(S \ {i})
    BY <2>1, <2>2, FS_Subset
  <2>4. Cardinality({j \in S : j < i}) \in Nat
    BY <2>3, FS_CardinalityType
  <2> QED
    BY <2>2, <2>3, <2>4 DEF Rank
<1>2. ASSUME NEW i \in S, NEW k \in S, i < k PROVE Rank(S, i) < Rank(S, k)
  <2> DEFINE Below(n) == {j \in S : j < n}
  <2>1. Below(i) \in SUBSET (Below(k) \ {i}) /\ i \in Below(k)
    <3>1. i \in Int /\ k \in Int /\ \A j \in S : j \in Int
      OBVIOUS
    <3>2. ASSUME NEW j \in Below(i) PROVE j \in Below(k) \ {i}
      <4>1. j \in S /\ j < i
        OBVIOUS
      <4> QED
        BY <1>2, <3>1, <4>1
    <3> QED
      BY <1>2, <3>2
  <2>2. IsFiniteSet(Below(k))
    <3>1. Below(k) \in SUBSET S
      OBVIOUS
    <3> HIDE DEF Below
    <3> QED
      BY <3>1, FS_Subset
  <2>3. /\ IsFiniteSet(Below(k) \ {i})
        /\ Cardinality(Below(k) \ {i}) = Cardinality(Below(k)) - 1
        /\ Cardinality(Below(k)) \in Nat
    <3> HIDE DEF Below
    <3> QED
      BY <2>1, <2>2, Without
  <2>4. /\ IsFiniteSet(Below(i))
        /\ Cardinality(Below(i)) <= Cardinality(Below(k) \ {i})
    <3> HIDE DEF Below
    <3> QED
      BY <2>1, <2>3, FS_Subset
  <2>5. Cardinality(Below(i)) \in Nat
    BY <2>4, FS_CardinalityType
  <2> QED
    BY <2>3, <2>4, <2>5 DEF Rank
<1> QED
  BY <1>1, <1>2

(* Every rank below the number of elements is some element's.               *)
LEMMA EveryRankIsTaken ==
  ASSUME NEW S \in SUBSET Int, IsFiniteSet(S), NEW n \in 1..Cardinality(S)
  PROVE  \E i \in S : Rank(S, i) = n - 1
<1> DEFINE N == Cardinality(S)
           R == 0..N - 1
           f == [i \in S |-> Rank(S, i)]
<1>1. N \in Nat
  BY FS_CardinalityType
<1>2. IsFiniteSet(R) /\ Cardinality(R) = N
  <2>1. 0 \in Int /\ N - 1 \in Int
    BY <1>1
  <2>2. /\ IsFiniteSet(0..N - 1)
        /\ Cardinality(0..N - 1) = IF 0 > N - 1 THEN 0 ELSE (N - 1) - 0 + 1
    BY <2>1, FS_Interval
  <2> QED
    BY <2>2, <1>1
<1>3. f \in Injection(S, R)
  <2>1. f \in [S -> R]
    BY RanksIncrease
  <2>2. \A i, k \in S : f[i] = f[k] => i = k
    <3> SUFFICES ASSUME NEW i \in S, NEW k \in S, i # k PROVE f[i] # f[k]
      OBVIOUS
    <3>1. CASE i < k
      BY <3>1, RanksIncrease
    <3>2. CASE k < i
      BY <3>2, RanksIncrease
    <3> QED
      BY <3>1, <3>2
  <2> QED
    BY <2>1, <2>2 DEF Injection, IsInjective
<1>4. f \in Surjection(S, R)
  BY <1>2, <1>3, FS_Injection
<1>5. \A r \in R : \E i \in S : f[i] = r
  BY <1>4 DEF Surjection
<1>6. n - 1 \in R
  BY <1>1
<1> QED
  BY <1>5, <1>6

(* The members of a finite set of numbers, each once, in ascending order.   *)
LEMMA AscendingLists ==
  ASSUME NEW S \in SUBSET Int, IsFiniteSet(S)
  PROVE  /\ Ascending(S) \in [1..Cardinality(S) -> S]
         /\ Cardinality(S) \in Nat
         /\ \A m, n \in 1..Cardinality(S) :
              m < n => Ascending(S)[m] < Ascending(S)[n]
         /\ \A i \in S : \E n \in 1..Cardinality(S) : Ascending(S)[n] = i
<1> DEFINE N == Cardinality(S)
<1>1. N \in Nat
  BY FS_CardinalityType
<1>2. ASSUME NEW n \in 1..N
      PROVE  Ascending(S)[n] \in S /\ Rank(S, Ascending(S)[n]) = n - 1
  <2>1. \E i \in S : Rank(S, i) = n - 1
    BY EveryRankIsTaken
  <2>2. Ascending(S)[n] = CHOOSE i \in S : Rank(S, i) = n - 1
    BY DEF Ascending, Rank
  <2> QED
    BY <2>1, <2>2
<1>3. Ascending(S) \in [1..N -> S]
  BY <1>2 DEF Ascending
<1>4. /\ \A i \in S : i \in Int /\ Rank(S, i) \in 0..N - 1
      /\ \A i, k \in S : i < k => Rank(S, i) < Rank(S, k)
  BY RanksIncrease
<1>5. ASSUME NEW m \in 1..N, NEW n \in 1..N, m < n
      PROVE  Ascending(S)[m] < Ascending(S)[n]
  <2>1. PICK x \in S : x = Ascending(S)[m] /\ Rank(S, x) = m - 1
    BY <1>2
  <2>2. PICK y \in S : y = Ascending(S)[n] /\ Rank(S, y) = n - 1
    BY <1>2
  <2>3. x # y /\ ~(y < x)
    BY <1>1, <1>5, <1>4, <2>1, <2>2
  <2>4. x \in Int /\ y \in Int
    OBVIOUS
  <2>5. x < y
    BY <2>3, <2>4
  <2> QED
    BY <2>1, <2>2, <2>5
<1>6. ASSUME NEW i \in S PROVE \E n \in 1..N : Ascending(S)[n] = i
  <2>1. PICK r \in 0..N - 1 : r = Rank(S, i)
    BY <1>4
  <2>2. r + 1 \in 1..N /\ (r + 1) - 1 = r
    BY <1>1, <2>1
  <2>3. PICK x \in S : x = Ascending(S)[r + 1] /\ Rank(S, x) = r
    BY <1>2, <2>2
  <2>4. ~(x < i) /\ ~(i < x)
    BY <1>1, <1>4, <2>1, <2>3
  <2>5. x \in Int /\ i \in Int
    OBVIOUS
  <2>6. x = i
    BY <2>4, <2>5
  <2> QED
    BY <2>2, <2>3, <2>6
<1> QED
  BY <1>1, <1>3, <1>5, <1>6

(* A subsequence is a sequence of the elements at its positions.            *)
LEMMA SubsequenceLists ==
  ASSUME NEW T, NEW s \in Seq(T), NEW positions \in SUBSET DOMAIN s
  PROVE  /\ Subsequence(s, positions) \in Seq(T)
         /\ IsFiniteSet(positions)
         /\ Len(Subsequence(s, positions)) = Cardinality(positions)
         /\ Range(Subsequence(s, positions)) = {s[i] : i \in positions}
<1> DEFINE N == Cardinality(positions)
           q == Subsequence(s, positions)
           a == Ascending(positions)
<1>1. DOMAIN s = 1..Len(s) /\ Len(s) \in Nat /\ \A i \in DOMAIN s : s[i] \in T
  OBVIOUS
<1>2. IsFiniteSet(positions)
  <2>1. 1 \in Int /\ Len(s) \in Int
    BY <1>1
  <2>2. IsFiniteSet(1..Len(s))
    BY <2>1, FS_Interval
  <2> QED
    BY <2>2, <1>1, FS_Subset
<1>3. positions \in SUBSET Int
  BY <1>1
<1>4. /\ a \in [1..N -> positions]
      /\ N \in Nat
      /\ \A i \in positions : \E n \in 1..N : a[n] = i
  BY <1>2, <1>3, AscendingLists
<1>5. q = [n \in 1..N |-> s[a[n]]]
  BY DEF Subsequence
<1> HIDE DEF q, a, N
<1>6. q \in [1..N -> T]
  BY <1>1, <1>4, <1>5
<1>7. q \in Seq(T) /\ Len(q) = N
  BY <1>4, <1>6
<1>8. Range(q) = {s[i] : i \in positions}
  BY <1>4, <1>5 DEF Range
<1> QED
  BY <1>2, <1>7, <1>8 DEF q, N

-----------------------------------------------------------------------------
(* A vector of as many keys as it lists different ones lists each once.     *)
LEMMA ListsEachOnce ==
  ASSUME NEW K, NEW s \in Seq(K), IsFiniteSet(Range(s)),
         Len(s) = Cardinality(Range(s)),
         NEW i \in DOMAIN s, NEW j \in DOMAIN s, s[i] = s[j]
  PROVE  i = j
<1> DEFINE D == 1..Len(s)
<1>1. DOMAIN s = D /\ Len(s) \in Nat
  OBVIOUS
<1>2. IsFiniteSet(D) /\ Cardinality(D) = Len(s)
  <2>1. 1 \in Int /\ Len(s) \in Int
    BY <1>1
  <2> QED
    BY <2>1, <1>1, FS_Interval
<1>3. s \in Surjection(D, Range(s))
  <2>1. s \in [D -> K]
    OBVIOUS
  <2>2. s \in [D -> Range(s)] /\ \A x \in Range(s) : \E n \in D : s[n] = x
    BY <2>1 DEF Range
  <2> QED
    BY <2>2 DEF Surjection
<1> HIDE DEF D
<1>4. s \in Injection(D, Range(s))
  BY <1>2, <1>3, FS_SurjSameCardinalityImpliesInj
<1> QED
  BY <1>1, <1>4 DEF Injection, IsInjective

(* An empty container is parallel to its key vector.                        *)
LEMMA EmptyIsParallel == Parallel(EmptyCommonMap)
BY FS_EmptySet DEF Parallel, EmptyCommonMap, EmptyDataMap, Range

(* addDataEntry() keeps map and vector parallel, whether it inserts or not. *)
LEMMA AddKeepsParallel ==
  ASSUME NEW cm, NEW K, cm.keyVector \in Seq(K),
         IsFiniteSet(DOMAIN cm.dataMap), Parallel(cm), NEW key \in K, NEW data
  PROVE  Parallel(AddDataEntry(cm, key, data))
<1>1. CASE key \in DOMAIN cm.dataMap
  BY <1>1 DEF AddDataEntry
<1>2. CASE key \notin DOMAIN cm.dataMap
  <2> DEFINE s == cm.keyVector
             D == DOMAIN cm.dataMap
             new == AddDataEntry(cm, key, data)
  <2>1. /\ new.dataMap = Bind(cm.dataMap, key, data)
        /\ new.keyVector = Append(s, key)
    BY <1>2 DEF AddDataEntry
  <2>2. DOMAIN new.dataMap = D \cup {key}
    BY <2>1 DEF Bind
  <2>3. Cardinality(D \cup {key}) = Cardinality(D) + 1
    BY <1>2, FS_AddElement
  <2>4. s \in Seq(K) /\ Range(s) = D /\ Len(s) = Cardinality(D)
    BY DEF Parallel
  <2> HIDE DEF s, D, new
  <2>5. /\ Len(Append(s, key)) = Len(s) + 1
        /\ DOMAIN Append(s, key) = 1..Len(s) + 1
        /\ DOMAIN s = 1..Len(s)
        /\ Len(s) \in Nat
        /\ \A i \in 1..Len(s) : Append(s, key)[i] = s[i]
        /\ Append(s, key)[Len(s) + 1] = key
    BY <2>4
  <2>6. 1..Len(s) + 1 = (1..Len(s)) \cup {Len(s) + 1}
    BY <2>5
  <2>7. Range(Append(s, key)) = Range(s) \cup {key}
    BY <2>5, <2>6 DEF Range
  <2> QED
    BY <2>1, <2>2, <2>3, <2>4, <2>5, <2>7 DEF Parallel, new
<1> QED
  BY <1>1, <1>2

(* So does removeDataEntry(), whether the key was there or not: the vector  *)
(* listed it at most once.                                                  *)
LEMMA RemoveKeepsParallel ==
  ASSUME NEW cm, NEW K, cm.keyVector \in Seq(K),
         IsFiniteSet(DOMAIN cm.dataMap), Parallel(cm), NEW key
  PROVE  Parallel(RemoveDataEntry(cm, key))
<1> DEFINE s == cm.keyVector
           D == DOMAIN cm.dataMap
           kept == {i \in DOMAIN s : s[i] # key}
           new == RemoveDataEntry(cm, key)
<1>1. /\ DOMAIN new.dataMap = D \ {key}
      /\ new.keyVector = Subsequence(s, kept)
  BY DEF RemoveDataEntry, Unbind
<1>2. s \in Seq(K) /\ Range(s) = D /\ Len(s) = Cardinality(D) /\ IsFiniteSet(D)
  BY DEF Parallel
<1> HIDE DEF s, D, new
<1>3. /\ Len(Subsequence(s, kept)) = Cardinality(kept)
      /\ Range(Subsequence(s, kept)) = {s[i] : i \in kept}
      /\ kept \in SUBSET DOMAIN s
  <2>1. kept \in SUBSET DOMAIN s
    OBVIOUS
  <2> HIDE DEF kept
  <2> QED
    BY <2>1, <1>2, SubsequenceLists
<1>4. {s[i] : i \in kept} = D \ {key}
  BY <1>2 DEF Range
<1>5. /\ DOMAIN s = 1..Len(s)
      /\ IsFiniteSet(DOMAIN s)
      /\ Cardinality(DOMAIN s) = Len(s)
      /\ Len(s) \in Nat
  <2>1. DOMAIN s = 1..Len(s) /\ Len(s) \in Nat
    BY <1>2
  <2>2. 1 \in Int /\ Len(s) \in Int
    BY <2>1
  <2>3. /\ IsFiniteSet(1..Len(s))
        /\ Cardinality(1..Len(s)) = IF 1 > Len(s) THEN 0 ELSE Len(s) - 1 + 1
    BY <2>2, FS_Interval
  <2> QED
    BY <2>1, <2>3
<1>6. Cardinality(kept) = Cardinality(D \ {key})
  <2>1. CASE key \notin D
    <3>1. kept = DOMAIN s /\ D \ {key} = D
      BY <2>1, <1>2 DEF Range
    <3> QED
      BY <3>1, <1>2, <1>5
  <2>2. CASE key \in D
    <3>1. PICK n \in DOMAIN s : s[n] = key
      BY <2>2, <1>2 DEF Range
    <3>2. \A i \in DOMAIN s : s[i] = key => i = n
      <4> SUFFICES ASSUME NEW i \in DOMAIN s, s[i] = key PROVE i = n
        OBVIOUS
      <4> QED
        BY <3>1, <1>2, ListsEachOnce
    <3>3. kept = DOMAIN s \ {n}
      BY <3>1, <3>2
    <3>4. Cardinality(DOMAIN s \ {n}) = Cardinality(DOMAIN s) - 1
      BY <1>5, FS_RemoveElement
    <3>5. Cardinality(D \ {key}) = Cardinality(D) - 1
      BY <2>2, <1>2, FS_RemoveElement
    <3> QED
      BY <3>3, <3>4, <3>5, <1>2, <1>5
  <2> QED
    BY <2>1, <2>2
<1> QED
  BY <1>1, <1>3, <1>4, <1>6 DEF Parallel, new

(* reload() leaves them parallel, whatever the container was before.        *)
LEMMA ReloadedIsParallel ==
  ASSUME NEW dataMap, DOMAIN dataMap \in SUBSET Int,
         IsFiniteSet(DOMAIN dataMap)
  PROVE  /\ Parallel(Reloaded(dataMap))
         /\ Reloaded(dataMap).keyVector \in Seq(DOMAIN dataMap)
<1> DEFINE D == DOMAIN dataMap
           q == Ascending(D)
<1>1. /\ q \in [1..Cardinality(D) -> D]
      /\ Cardinality(D) \in Nat
      /\ \A i \in D : \E n \in 1..Cardinality(D) : q[n] = i
  BY AscendingLists
<1>2. Reloaded(dataMap) = [dataMap |-> dataMap, keyVector |-> q]
  BY DEF Reloaded, KeysInOrder
<1> HIDE DEF q
<1>3. q \in Seq(D) /\ Len(q) = Cardinality(D)
  BY <1>1
<1>4. Range(q) = D
  BY <1>1 DEF Range
<1> QED
  BY <1>2, <1>3, <1>4 DEF Parallel
=============================================================================
