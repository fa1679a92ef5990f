----------------------------- MODULE ReadsProofs -----------------------------
(***************************************************************************)
(* Proofs about the answers of Reads, for every history, every series,     *)
(* every predicted frame and every pair of results: a rounded answer keeps *)
(* the order of what it rounds, a mean lies between the extremes, a        *)
(* forecast can be fitted and tested, and a match is a pairing of rows.    *)
(***************************************************************************)
EXTENDS Reads, FiniteSetTheorems, WellFoundedInduction, TLAPS

-----------------------------------------------------------------------------
(* Rounded quotients (the lemmas of module TableProofs, with which this    *)
(* one shares no module that could hold them)                              *)

LEMMA ProductsGrow ==
  ASSUME NEW k \in Nat, NEW a \in Int, NEW b \in Int, a <= b
  PROVE  k * a <= k * b /\ k * a \in Int /\ k * b \in Int
OBVIOUS

LEMMA DivBounds ==
  ASSUME NEW n \in Int, NEW d \in Nat \ {0}
  PROVE  n \div d \in Int /\ d * (n \div d) <= n /\ n < d * (n \div d) + d
OBVIOUS

LEMMA RoundBounds ==
  ASSUME NEW a \in Int, NEW b \in Nat \ {0}
  PROVE  /\ RoundDiv(a, b) \in Int
         /\ 2 * (b * RoundDiv(a, b)) <= 2 * a + b
         /\ 2 * a < 2 * (b * RoundDiv(a, b)) + b
<1> DEFINE n == 2 * a + b
           d == 2 * b
           q == n \div d
<1>1. n \in Int /\ d \in Nat \ {0}
  OBVIOUS
<1>2. q \in Int /\ d * q <= n /\ n < d * q + d
  <2> HIDE DEF n, d
  <2> QED BY <1>1, DivBounds
<1>3. d * q = 2 * (b * q)
  <2>1. q \in Int
    BY <1>2
  <2> HIDE DEF q
  <2> QED BY <2>1
<1>4. b * q \in Int
  <2>1. q \in Int
    BY <1>2
  <2> HIDE DEF q
  <2> QED BY <2>1
<1>5. RoundDiv(a, b) = q
  BY DEF RoundDiv
<1> DEFINE p == b * q
<1>6. 2 * p <= n /\ n < 2 * p + d /\ p \in Int
  BY <1>2, <1>3, <1>4
<1>7. 2 * p <= 2 * a + b /\ 2 * a < 2 * p + b
  <2> HIDE DEF p
  <2> QED BY <1>6
<1> QED BY <1>2, <1>5, <1>7

LEMMA RoundMonotone ==
  ASSUME NEW a \in Int, NEW c \in Int, NEW b \in Nat \ {0}, a <= c
  PROVE  RoundDiv(a, b) <= RoundDiv(c, b)
<1> DEFINE p == RoundDiv(a, b)
           q == RoundDiv(c, b)
<1>1. p \in Int /\ q \in Int
  BY RoundBounds
<1>2. SUFFICES ASSUME q + 1 <= p PROVE FALSE
  BY <1>1
<1>3. b * (q + 1) <= b * p
  <2> HIDE DEF p, q
  <2> QED BY <1>1, <1>2, ProductsGrow
<1>4. b * (q + 1) = b * q + b
  <2> HIDE DEF p, q
  <2> QED BY <1>1
<1>5. b * q \in Int /\ b * p \in Int
  <2> HIDE DEF p, q
  <2> QED BY <1>1
<1>6. 2 * (b * p) <= 2 * a + b /\ 2 * c < 2 * (b * q) + b
  BY RoundBounds
<1> DEFINE x == b * p
           y == b * q
<1>7. x \in Int /\ y \in Int /\ y + b <= x /\ 2 * x <= 2 * a + b /\ 2 * c < 2 * y + b
  BY <1>3, <1>4, <1>5, <1>6
<1> HIDE DEF x, y
<1> QED BY <1>7

LEMMA RoundOfMultiple ==
  ASSUME NEW k \in Int, NEW b \in Nat \ {0}
  PROVE  RoundDiv(k * b, b) = k
<1> DEFINE q == RoundDiv(k * b, b)
<1>1. k * b \in Int /\ k * b = b * k
  OBVIOUS
<1>2. q \in Int /\ 2 * (b * q) <= 2 * (b * k) + b /\ 2 * (b * k) < 2 * (b * q) + b
  BY <1>1, RoundBounds
<1> HIDE DEF q
<1>3. CASE q <= k - 1
  <2>1. b * q <= b * (k - 1)
    BY <1>2, <1>3, ProductsGrow
  <2>2. b * (k - 1) = b * k - b /\ b * q \in Int /\ b * k \in Int
    BY <1>2
  <2> QED BY <1>2, <2>1, <2>2
<1>4. CASE q >= k + 1
  <2>1. b * (k + 1) <= b * q
    BY <1>2, <1>4, ProductsGrow
  <2>2. b * (k + 1) = b * k + b /\ b * q \in Int /\ b * k \in Int
    BY <1>2
  <2> QED BY <1>2, <2>1, <2>2
<1>5. q = k
  BY <1>2, <1>3, <1>4
<1> QED BY <1>5 DEF q

(* A rounded percentage lies between 0 and 100.                            *)
LEMMA RoundShare ==
  ASSUME NEW part \in Nat, NEW whole \in Nat \ {0}, part <= whole
  PROVE  RoundDiv(1000 * part, whole) \in 0..1000
<1>1. 0 * whole = 0 /\ 1000 * part \in Int /\ 1000 * whole \in Int
  OBVIOUS
<1>2. RoundDiv(0 * whole, whole) = 0 /\ RoundDiv(1000 * whole, whole) = 1000
  BY RoundOfMultiple
<1>3. /\ RoundDiv(0, whole) <= RoundDiv(1000 * part, whole)
      /\ RoundDiv(1000 * part, whole) <= RoundDiv(1000 * whole, whole)
      /\ RoundDiv(1000 * part, whole) \in Int
  BY <1>1, RoundMonotone, RoundBounds
<1> QED BY <1>1, <1>2, <1>3

(* A quotient of naturals is a natural.                                    *)
LEMMA RoundOfNatural ==
  ASSUME NEW a \in Nat, NEW b \in Nat \ {0}
  PROVE  RoundDiv(a, b) \in Nat
<1>1. 0 * b = 0 /\ RoundDiv(0 * b, b) = 0
  BY RoundOfMultiple
<1>2. RoundDiv(0, b) <= RoundDiv(a, b) /\ RoundDiv(a, b) \in Int
  BY RoundMonotone, RoundBounds
<1> QED BY <1>1, <1>2

(* A common factor cancels.                                                *)
LEMMA RoundCancels ==
  ASSUME NEW n \in Nat \ {0}, NEW a \in Int, NEW b \in Nat \ {0}
  PROVE  RoundDiv(n * a, b * n) = RoundDiv(a, b)
<1> DEFINE q == RoundDiv(a, b)
           r == RoundDiv(n * a, b * n)
           x == b * q
           y == b * r
<1>1. q \in Int /\ 2 * x <= 2 * a + b /\ 2 * a < 2 * x + b
  BY RoundBounds
<1>2. n * a \in Int /\ b * n \in Nat \ {0}
  OBVIOUS
<1>3. /\ r \in Int
      /\ 2 * ((b * n) * r) <= 2 * (n * a) + b * n
      /\ 2 * (n * a) < 2 * ((b * n) * r) + b * n
  BY <1>2, RoundBounds
<1> HIDE DEF q, r
<1>4. (b * n) * r = n * y /\ y \in Int /\ x \in Int
  BY <1>1, <1>3
<1> HIDE DEF x, y
<1>5. 2 * y <= 2 * a + b
  <2> SUFFICES ASSUME 2 * a + b + 1 <= 2 * y PROVE FALSE
    BY <1>4
  <2>1. n * (2 * a + b + 1) <= n * (2 * y)
    BY <1>4, ProductsGrow
  <2>2. n * (2 * a + b + 1) = 2 * (n * a) + b * n + n /\ n * (2 * y) = 2 * (n * y)
    BY <1>4
  <2> QED BY <1>2, <1>3, <1>4, <2>1, <2>2
<1>6. 2 * a < 2 * y + b
  <2> SUFFICES ASSUME 2 * y + b <= 2 * a PROVE FALSE
    BY <1>4
  <2>1. n * (2 * y + b) <= n * (2 * a)
    BY <1>4, ProductsGrow
  <2>2. n * (2 * y + b) = 2 * (n * y) + b * n /\ n * (2 * a) = 2 * (n * a)
    BY <1>4
  <2> QED BY <1>2, <1>3, <1>4, <2>1, <2>2
<1>7. CASE q <= r - 1
  <2>1. b * q <= b * (r - 1)
    BY <1>1, <1>3, <1>7, ProductsGrow
  <2>2. b * (r - 1) = y - b
    BY <1>3 DEF y
  <2> QED BY <1>1, <1>4, <1>5, <2>1, <2>2 DEF x
<1>8. CASE r <= q - 1
  <2>1. b * r <= b * (q - 1)
    BY <1>1, <1>3, <1>8, ProductsGrow
  <2>2. b * (q - 1) = x - b
    BY <1>1 DEF x
  <2> QED BY <1>1, <1>4, <1>6, <2>1, <2>2 DEF y
<1> QED BY <1>1, <1>3, <1>7, <1>8 DEF q, r

-----------------------------------------------------------------------------
(* Finite sets of integers, and what a fold over a finite set computes, by *)
(* induction over subsets: a property is given as the set of the sets that *)
(* have it.                                                                *)

LEMMA SubsetInduction ==
  ASSUME NEW S, IsFiniteSet(S), NEW Good,
         \A T \in SUBSET S : (\A U \in SUBSET T : U # T => U \in Good) => T \in Good
  PROVE  SUBSET S \subseteq Good
<1> DEFINE Bad == {T \in SUBSET S : T \notin Good}
<1> SUFFICES ASSUME Bad # {} PROVE FALSE
  OBVIOUS
<1>1. IsWellFoundedOn(StrictSubsetOrdering(S), SUBSET S)
  <2>1. FiniteSubsetsOf(S) = SUBSET S
    BY FS_FiniteSubsetsOfFinite
  <2>2. IsWellFoundedOn(StrictSubsetOrdering(S), FiniteSubsetsOf(S))
    BY FS_StrictSubsetOrderingWellFounded
  <2> QED BY <2>1, <2>2
<1>2. PICK T \in Bad : \A U \in Bad : ~(<<U, T>> \in StrictSubsetOrdering(S))
  <2>1. Bad \subseteq SUBSET S
    OBVIOUS
  <2> HIDE DEF Bad
  <2> QED BY <1>1, <2>1, WFMin
<1>3. ASSUME NEW U \in SUBSET T, U # T PROVE U \in Good
  BY <1>2, <1>3 DEF StrictSubsetOrdering
<1> QED BY <1>3

LEMMA ExtremesExist ==
  ASSUME NEW S, IsFiniteSet(S), S \subseteq Int, S # {}
  PROVE  /\ Min(S) \in S /\ \A x \in S : Min(S) <= x
         /\ Max(S) \in S /\ \A x \in S : x <= Max(S)
<1> DEFINE Good == {T \in SUBSET S :
                      T # {} => /\ \E x \in T : \A y \in T : x <= y
                                /\ \E x \in T : \A y \in T : x >= y}
<1>1. ASSUME NEW T \in SUBSET S, \A U \in SUBSET T : U # T => U \in Good, T # {}
      PROVE  T \in Good
  <2>1. PICK a \in T : TRUE
    BY <1>1
  <2>2. T \ {a} \in Good
    BY <1>1
  <2>3. CASE T \ {a} = {}
    BY <2>1, <2>3
  <2>4. CASE T \ {a} # {}
    <3>1. PICK x \in T \ {a} : \A y \in T \ {a} : x <= y
      BY <2>2, <2>4
    <3>2. PICK z \in T \ {a} : \A y \in T \ {a} : z >= y
      BY <2>2, <2>4
    <3>3. \E m \in T : \A y \in T : m <= y
      <4>1. CASE a <= x BY <3>1, <4>1
      <4>2. CASE x <= a BY <3>1, <4>2
      <4> QED BY <4>1, <4>2
    <3>4. \E m \in T : \A y \in T : m >= y
      <4>1. CASE a >= z BY <3>2, <4>1
      <4>2. CASE z >= a BY <3>2, <4>2
      <4> QED BY <4>1, <4>2
    <3> QED BY <3>3, <3>4
  <2> QED BY <2>3, <2>4
<1>2. SUBSET S \subseteq Good
  <2>1. ASSUME NEW T \in SUBSET S, \A U \in SUBSET T : U # T => U \in Good
        PROVE  T \in Good
    BY <1>1, <2>1
  <2> HIDE DEF Good
  <2> QED BY <2>1, SubsetInduction
<1>3. S \in Good
  BY <1>2
<1>4. (\E x \in S : \A y \in S : x <= y) /\ (\E x \in S : \A y \in S : x >= y)
  BY <1>3
<1>5. Min(S) \in S /\ \A x \in S : Min(S) <= x
  BY <1>4 DEF Min
<1>6. Max(S) \in S /\ \A x \in S : Max(S) >= x
  BY <1>4 DEF Max
<1>7. Max(S) \in Int
  BY <1>6
<1> QED BY <1>5, <1>6, <1>7

LEMMA CountIsNatural ==
  ASSUME NEW S, IsFiniteSet(S), NEW T \in SUBSET S
  PROVE  /\ IsFiniteSet(T) /\ Cardinality(T) \in Nat /\ Cardinality(S) \in Nat
         /\ Cardinality(T) <= Cardinality(S)
         /\ T # {} => Cardinality(T) >= 1
<1>1. IsFiniteSet(T) /\ Cardinality(T) <= Cardinality(S)
  BY FS_Subset
<1>2. Cardinality(T) \in Nat /\ Cardinality(S) \in Nat
  BY <1>1, FS_CardinalityType
<1>3. T # {} => Cardinality(T) # 0
  BY <1>1, FS_EmptySet
<1> QED BY <1>1, <1>2, <1>3

(* The value of a fold at T takes pick[T] first, and then the others.      *)
IsFold(step, base, pick, S, it) ==
  it = [T \in SUBSET S |->
          IF T = {} THEN base ELSE step[<<pick[T], it[T \ {pick[T]}]>>]]

LEMMA FoldUnique ==
  ASSUME NEW S, IsFiniteSet(S), NEW step, NEW base, NEW pick,
         \A U \in SUBSET S : U # {} => pick[U] \in U,
         NEW T \in SUBSET S, NEW f, NEW g,
         IsFold(step, base, pick, S, f), IsFold(step, base, pick, T, g)
  PROVE  \A U \in SUBSET T : f[U] = g[U]
<1> DEFINE Good == {U \in SUBSET T : f[U] = g[U]}
<1>1. ASSUME NEW U \in SUBSET T, \A V \in SUBSET U : V # U => V \in Good
      PROVE  U \in Good
  <2>1. f[U] = (IF U = {} THEN base ELSE step[<<pick[U], f[U \ {pick[U]}]>>])
    <3>1. U \in SUBSET S OBVIOUS
    <3> QED BY <3>1, Zenon DEF IsFold
  <2>2. g[U] = (IF U = {} THEN base ELSE step[<<pick[U], g[U \ {pick[U]}]>>])
    BY Zenon DEF IsFold
  <2>3. U # {} => U \ {pick[U]} \in Good
    <3>1. U # {} => pick[U] \in U
      OBVIOUS
    <3> QED BY <1>1, <3>1
  <2>4. U # {} => f[U \ {pick[U]}] = g[U \ {pick[U]}]
    BY <2>3
  <2> QED BY <2>1, <2>2, <2>4
<1>2. IsFiniteSet(T)
  BY FS_Subset
<1>3. SUBSET T \subseteq Good
  <2> HIDE DEF Good
  <2> QED BY <1>1, <1>2, SubsetInduction
<1> QED BY <1>3

LEMMA FoldExists ==
  ASSUME NEW S, IsFiniteSet(S), NEW step, NEW base, NEW pick,
         \A U \in SUBSET S : U # {} => pick[U] \in U
  PROVE  \E it : IsFold(step, base, pick, S, it)
<1> DEFINE Fold(T, it) == IsFold(step, base, pick, T, it)
           fold(T) == CHOOSE it : Fold(T, it)
           value(T) == fold(T)[T]
           Good == {T \in SUBSET S : \E it : Fold(T, it)}
<1>1. ASSUME NEW T \in SUBSET S, \A U \in SUBSET T : U # T => U \in Good
      PROVE  T \in Good
  <2> DEFINE rest(U) == U \ {pick[U]}
             it == [U \in SUBSET T |->
                      IF U = {} THEN base ELSE step[<<pick[U], value(rest(U))>>]]
  <2>1. ASSUME NEW U \in SUBSET T, U # T
        PROVE  Fold(U, fold(U))
    <3>1. \E g : Fold(U, g)
      BY <1>1, <2>1
    <3> HIDE DEF Fold
    <3> QED BY <3>1, Zenon
  <2>2. ASSUME NEW U \in SUBSET T, U # T
        PROVE  it[U] = value(U)
    <3>1. value(U) = (IF U = {} THEN base ELSE step[<<pick[U], fold(U)[rest(U)]>>])
      <4>1. Fold(U, fold(U))
        BY <2>1, <2>2
      <4> HIDE DEF fold
      <4> QED BY <4>1, Zenon DEF IsFold
    <3>2. ASSUME U # {}
          PROVE  fold(U)[rest(U)] = value(rest(U))
      <4> DEFINE V == rest(U)
      <4>0. pick[U] \in U
        BY <3>2
      <4>1. V \in SUBSET U /\ V \in SUBSET T /\ V # T
        BY <4>0
      <4>2. Fold(U, fold(U)) /\ Fold(V, fold(V))
        <5> HIDE DEF V, Fold, fold
        <5> QED BY <2>1, <2>2, <4>1
      <4>3. IsFiniteSet(U) /\ \A W \in SUBSET U : W # {} => pick[W] \in W
        BY FS_Subset
      <4> HIDE DEF V, fold
      <4>4. fold(U)[V] = fold(V)[V]
        BY <4>1, <4>2, <4>3, FoldUnique
      <4> QED BY <4>4 DEF V
    <3> DEFINE next == IF U = {} THEN base ELSE step[<<pick[U], value(rest(U))>>]
    <3>3. it[U] = next
      <4> HIDE DEF value
      <4> QED BY Zenon
    <3>4. value(U) = next
      <4> HIDE DEF fold
      <4> QED BY <3>1, <3>2
    <3> QED BY <3>3, <3>4
  <2>3. ASSUME NEW U \in SUBSET T, U # {}
        PROVE  it[rest(U)] = value(rest(U))
    <3>1. rest(U) \in SUBSET T /\ rest(U) # T
      BY <2>3
    <3> HIDE DEF it, value
    <3> QED BY <2>2, <3>1
  <2>4. Fold(T, it)
    <3> DEFINE again == [U \in SUBSET T |->
                           IF U = {} THEN base ELSE step[<<pick[U], it[rest(U)]>>]]
    <3>1. ASSUME NEW U \in SUBSET T PROVE it[U] = again[U]
      <4> HIDE DEF value, rest
      <4>1. CASE U = {} BY <4>1
      <4>2. CASE U # {} BY <2>3, <4>2
      <4> QED BY <4>1, <4>2
    <3>2. it = again
      BY <3>1
    <3> QED BY <3>2, Zenon DEF IsFold
  <2> HIDE DEF it
  <2> QED BY <2>4
<1>2. SUBSET S \subseteq Good
  <2> HIDE DEF Good
  <2> QED BY <1>1, SubsetInduction
<1>3. S \in Good
  BY <1>2
<1> QED BY <1>3

LEMMA TypedFoldExists ==
  ASSUME NEW S, IsFiniteSet(S), NEW V, NEW base \in V, NEW step \in [S \X V -> V],
         NEW pick, \A U \in SUBSET S : U # {} => pick[U] \in U
  PROVE  \E it \in [SUBSET S -> V] : IsFold(step, base, pick, S, it)
<1>1. PICK it : IsFold(step, base, pick, S, it)
  BY FoldExists
<1> DEFINE Good == {T \in SUBSET S : it[T] \in V}
<1>2. ASSUME NEW T \in SUBSET S, \A U \in SUBSET T : U # T => U \in Good
      PROVE  T \in Good
  <2>1. it[T] = (IF T = {} THEN base ELSE step[<<pick[T], it[T \ {pick[T]}]>>])
    BY <1>1, Zenon DEF IsFold
  <2>2. ASSUME T # {}
        PROVE  pick[T] \in S /\ it[T \ {pick[T]}] \in V
    <3>1. pick[T] \in T
      BY <2>2
    <3>2. T \ {pick[T]} \in SUBSET T /\ T \ {pick[T]} # T
      BY <3>1
    <3> QED BY <1>2, <3>1, <3>2
  <2> QED BY <2>1, <2>2
<1>3. SUBSET S \subseteq Good
  <2> HIDE DEF Good
  <2> QED BY <1>2, SubsetInduction
<1>4. it = [T \in SUBSET S |-> it[T]]
  BY <1>1 DEF IsFold
<1>5. it \in [SUBSET S -> V]
  BY <1>3, <1>4
<1> QED BY <1>1, <1>5

-----------------------------------------------------------------------------
(* Sums and means *)

First(S) == CHOOSE x \in S : TRUE

IsSum(v, S, it) ==
  it = [T \in SUBSET S |-> IF T = {} THEN 0 ELSE v[First(T)] + it[T \ {First(T)}]]

TheSum(v, S) == CHOOSE it : IsSum(v, S, it)

LEMMA SumExists ==
  ASSUME NEW v, NEW S, IsFiniteSet(S), \A x \in S : v[x] \in Int
  PROVE  IsSum(v, S, TheSum(v, S)) /\ SumOf(v, S) = TheSum(v, S)[S]
<1> DEFINE pick == [T \in SUBSET S |-> First(T)]
           step == [p \in S \X Int |-> v[p[1]] + p[2]]
<1>1. \A T \in SUBSET S : T # {} => pick[T] \in T
  BY DEF First
<1>2. \A x \in S : \A y \in Int : step[<<x, y>>] = v[x] + y
  OBVIOUS
<1>3. step \in [S \X Int -> Int]
  OBVIOUS
<1> HIDE DEF step
<1>4. PICK it \in [SUBSET S -> Int] : IsFold(step, 0, pick, S, it)
  <2>1. PICK V : V = Int
    OBVIOUS
  <2>2. 0 \in V /\ step \in [S \X V -> V]
    BY <1>3, <2>1
  <2>3. \E it \in [SUBSET S -> V] : IsFold(step, 0, pick, S, it)
    <3> HIDE DEF pick
    <3> QED BY <1>1, <2>2, TypedFoldExists
  <2> QED BY <2>1, <2>3
<1>5. it = [T \in SUBSET S |-> IF T = {} THEN 0 ELSE v[First(T)] + it[T \ {First(T)}]]
  <2> DEFINE next == [T \in SUBSET S |->
                        IF T = {} THEN 0 ELSE v[First(T)] + it[T \ {First(T)}]]
  <2>1. ASSUME NEW T \in SUBSET S PROVE it[T] = next[T]
    <3>1. it[T] = (IF T = {} THEN 0 ELSE step[<<pick[T], it[T \ {pick[T]}]>>])
      <4> HIDE DEF pick
      <4> QED BY <1>4, Zenon DEF IsFold
    <3>2. ASSUME T # {}
          PROVE  step[<<pick[T], it[T \ {pick[T]}]>>] = v[First(T)] + it[T \ {First(T)}]
      <4>1. pick[T] = First(T) /\ pick[T] \in S /\ it[T \ {pick[T]}] \in Int
        BY <1>1, <1>4, <3>2
      <4> HIDE DEF pick
      <4> QED BY <1>2, <4>1
    <3> HIDE DEF pick
    <3> QED BY <3>1, <3>2
  <2> QED BY <1>4, <2>1
<1>6. IsSum(v, S, it)
  BY <1>5, Zenon DEF IsSum
<1>7. IsSum(v, S, TheSum(v, S))
  BY <1>6, Zenon DEF TheSum
<1>8. SumOf(v, S) = TheSum(v, S)[S]
  BY Zenon DEF SumOf, MapThenSumSet, MapThenFoldSet, TheSum, IsSum, First
<1> QED BY <1>7, <1>8

(* A sum of n numbers that are at least lo, or at most hi, is at least     *)
(* n * lo, or at most n * hi.                                              *)
LEMMA SumBetween ==
  ASSUME NEW v, NEW S, IsFiniteSet(S), NEW lo \in Int, NEW hi \in Int,
         \A x \in S : v[x] \in Int
  PROVE  /\ Cardinality(S) \in Nat /\ SumOf(v, S) \in Int
         /\ (\A x \in S : lo <= v[x]) => Cardinality(S) * lo <= SumOf(v, S)
         /\ (\A x \in S : v[x] <= hi) => SumOf(v, S) <= Cardinality(S) * hi
<1> DEFINE sum == TheSum(v, S)
           n(T) == Cardinality(T)
           Above == \A x \in S : lo <= v[x]
           Below == \A x \in S : v[x] <= hi
           Good == {T \in SUBSET S : /\ n(T) \in Nat /\ sum[T] \in Int
                                     /\ Above => n(T) * lo <= sum[T]
                                     /\ Below => sum[T] <= n(T) * hi}
<1>1. IsSum(v, S, sum) /\ SumOf(v, S) = sum[S]
  BY SumExists
<1>2. ASSUME NEW T \in SUBSET S, \A U \in SUBSET T : U # T => U \in Good
      PROVE  T \in Good
  <2>1. sum[T] = (IF T = {} THEN 0 ELSE v[First(T)] + sum[T \ {First(T)}])
    <3> HIDE DEF sum
    <3> QED BY <1>1, Zenon DEF IsSum
  <2>2. CASE T = {}
    <3>1. n(T) = 0 /\ sum[T] = 0
      BY <2>1, <2>2, FS_EmptySet
    <3> QED BY <3>1
  <2>3. CASE T # {}
    <3> DEFINE a == First(T)
               U == T \ {a}
    <3>1. a \in T
      BY <2>3 DEF First
    <3>2. U \in SUBSET T /\ U # T
      BY <3>1
    <3>3. U \in Good
      BY <1>2, <3>2
    <3>4. n(T) = n(U) + 1
      <4>1. IsFiniteSet(U) /\ T = U \cup {a} /\ a \notin U
        BY <3>1, FS_Subset
      <4> HIDE DEF U, a
      <4> QED BY <4>1, FS_AddElement
    <3>5. /\ v[a] \in Int /\ sum[T] = v[a] + sum[U]
          /\ Above => lo <= v[a]
          /\ Below => v[a] <= hi
      BY <2>1, <2>3, <3>1
    <3> DEFINE m == n(U)
               s == sum[U]
               x == v[a]
    <3>6. m \in Nat /\ s \in Int /\ (Above => m * lo <= s) /\ (Below => s <= m * hi)
      BY <3>3
    <3> HIDE DEF m, s, x, Above, Below
    <3>7. /\ m + 1 \in Nat /\ x + s \in Int
          /\ (m + 1) * lo = m * lo + lo /\ (m + 1) * hi = m * hi + hi
          /\ m * lo \in Int /\ m * hi \in Int
      BY <3>5, <3>6 DEF x
    <3>8. x \in Int /\ (Above => lo <= x) /\ (Below => x <= hi)
      BY <3>5 DEF x
    <3>9. (Above => (m + 1) * lo <= x + s) /\ (Below => x + s <= (m + 1) * hi)
      BY <3>6, <3>7, <3>8
    <3>10. n(T) = m + 1 /\ sum[T] = x + s
      BY <3>4, <3>5 DEF m, s, x
    <3> HIDE DEF sum, n
    <3> QED BY <3>7, <3>9, <3>10
  <2> QED BY <2>2, <2>3
<1>3. SUBSET S \subseteq Good
  <2> HIDE DEF Good
  <2> QED BY <1>2, SubsetInduction
<1>4. S \in Good
  BY <1>3
<1> QED BY <1>1, <1>4

(* A rounded mean lies between its rounded bounds.                         *)
LEMMA MeanBetween ==
  ASSUME NEW v, NEW S, IsFiniteSet(S), S # {}, NEW lo \in Int, NEW hi \in Int,
         \A x \in S : v[x] \in lo..hi
  PROVE  /\ MeanOf(v, S) \in Int
         /\ RoundDiv(lo, 10) <= MeanOf(v, S) /\ MeanOf(v, S) <= RoundDiv(hi, 10)
<1> DEFINE n == Cardinality(S)
           sum == SumOf(v, S)
<1>1. n \in Nat \ {0}
  BY CountIsNatural
<1>2. sum \in Int /\ n * lo <= sum /\ sum <= n * hi
  BY SumBetween
<1> HIDE DEF n, sum
<1>3. n * lo \in Int /\ n * hi \in Int /\ 10 * n \in Nat \ {0}
  BY <1>1
<1>4. RoundDiv(n * lo, 10 * n) = RoundDiv(lo, 10) /\ RoundDiv(n * hi, 10 * n) = RoundDiv(hi, 10)
  <2>1. \A b \in Nat \ {0} : /\ RoundDiv(n * lo, b * n) = RoundDiv(lo, b)
                             /\ RoundDiv(n * hi, b * n) = RoundDiv(hi, b)
    BY <1>1, RoundCancels
  <2> QED BY <2>1
<1>5. /\ RoundDiv(n * lo, 10 * n) <= RoundDiv(sum, 10 * n)
      /\ RoundDiv(sum, 10 * n) <= RoundDiv(n * hi, 10 * n)
      /\ RoundDiv(sum, 10 * n) \in Int
  BY <1>2, <1>3, RoundMonotone, RoundBounds
<1> QED BY <1>4, <1>5 DEF MeanOf, n, sum

-----------------------------------------------------------------------------
(* The inductive invariant: a query is one of those that may be asked, and *)
(* its answer is pending or what the operators compute from it.            *)

ResolveAnswered ==
  \E l \in Lookup :
    /\ query = [kind |-> "resolve", zip |-> l[1], region |-> l[2]]
    /\ answer \in {Pending, ResolveRegion(l[1], l[2])}

SavingsAnswered ==
  \E h \in History, kwh \in Kwh, from, to \in LocalHours :
    /\ query = [kind |-> "savings", history |-> h, kwh |-> kwh, from |-> from, to |-> to]
    /\ answer \in {Pending, Savings(h, kwh, from, to)}

InsightsAnswered ==
  \E h \in History, r \in Renewable, hours \in Window :
    /\ query = [kind |-> "insights", history |-> h, renewable |-> r, hours |-> hours]
    /\ answer \in {Pending, Stats(h, r, hours)}

ForecastAnswered ==
  \E rows \in Ingested, horizon \in Horizon :
    /\ query = [kind |-> "forecast", rows |-> rows, horizon |-> horizon]
    /\ \/ answer = Pending
       \/ \E frame \in Frames(horizon) :
            answer = [status |-> "200",
                      forecast |-> ForecastOf(rows, horizon, frame),
                      cleanest |-> CleanestHour(rows, frame)]

MatchAnswered ==
  \E r \in Results :
    /\ query = [kind |-> "match", got |-> r[1], expected |-> r[2]]
    /\ answer \in {Pending, [status |-> "200", match |-> Matches(r[1], r[2])]}

IInv ==
  \/ ResolveAnswered \/ SavingsAnswered \/ InsightsAnswered
  \/ ForecastAnswered \/ MatchAnswered

LEMMA InitIInv == Init => IInv
BY DEF Init, IInv, ResolveAnswered, SavingsAnswered, InsightsAnswered, ForecastAnswered,
       MatchAnswered

LEMMA NextIInv == IInv /\ [Next]_vars => IInv'
<1> SUFFICES ASSUME IInv, [Next]_vars
             PROVE  IInv'
  OBVIOUS
<1>1. CASE UNCHANGED vars
  BY <1>1 DEF IInv, ResolveAnswered, SavingsAnswered, InsightsAnswered, ForecastAnswered,
              MatchAnswered, vars
<1>2. CASE AnswerResolve
  <2>1. query.kind = "resolve" /\ query' = query
        /\ answer' = ResolveRegion(query.zip, query.region)
    BY <1>2 DEF AnswerResolve, Asked
  <2>2. ResolveAnswered
    BY <2>1 DEF IInv, ResolveAnswered, SavingsAnswered, InsightsAnswered, ForecastAnswered,
                MatchAnswered
  <2>3. PICK l \in Lookup : query = [kind |-> "resolve", zip |-> l[1], region |-> l[2]]
    BY <2>2 DEF ResolveAnswered
  <2>4. answer' = ResolveRegion(l[1], l[2])
    BY <2>1, <2>3
  <2> QED BY <2>1, <2>3, <2>4 DEF IInv, ResolveAnswered
<1>3. CASE AnswerSavings
  <2>1. query.kind = "savings" /\ query' = query
        /\ answer' = Savings(query.history, query.kwh, query.from, query.to)
    BY <1>3 DEF AnswerSavings, Asked
  <2>2. SavingsAnswered
    BY <2>1 DEF IInv, ResolveAnswered, SavingsAnswered, InsightsAnswered, ForecastAnswered,
                MatchAnswered
  <2>3. PICK h \in History, kwh \in Kwh, from \in LocalHours, to \in LocalHours :
          query = [kind |-> "savings", history |-> h, kwh |-> kwh, from |-> from, to |-> to]
    BY <2>2 DEF SavingsAnswered
  <2>4. answer' = Savings(h, kwh, from, to)
    BY <2>1, <2>3
  <2> QED BY <2>1, <2>3, <2>4 DEF IInv, SavingsAnswered
<1>4. CASE AnswerInsights
  <2>1. query.kind = "insights" /\ query' = query
        /\ answer' = Stats(query.history, query.renewable, query.hours)
    BY <1>4 DEF AnswerInsights, Asked
  <2>2. InsightsAnswered
    BY <2>1 DEF IInv, ResolveAnswered, SavingsAnswered, InsightsAnswered, ForecastAnswered,
                MatchAnswered
  <2>3. PICK h \in History, r \in Renewable, hours \in Window :
          query = [kind |-> "insights", history |-> h, renewable |-> r, hours |-> hours]
    BY <2>2 DEF InsightsAnswered
  <2>4. answer' = Stats(h, r, hours)
    BY <2>1, <2>3
  <2> QED BY <2>1, <2>3, <2>4 DEF IInv, InsightsAnswered
<1>5. CASE AnswerForecast
  <2>1. PICK frame \in Frames(query.horizon) :
          answer' = [status |-> "200",
                     forecast |-> ForecastOf(query.rows, query.horizon, frame),
                     cleanest |-> CleanestHour(query.rows, frame)]
    BY <1>5 DEF AnswerForecast
  <2>2. query.kind = "forecast" /\ query' = query
    BY <1>5 DEF AnswerForecast, Asked
  <2>3. ForecastAnswered
    BY <2>2 DEF IInv, ResolveAnswered, SavingsAnswered, InsightsAnswered, ForecastAnswered,
                MatchAnswered
  <2>4. PICK rows \in Ingested, horizon \in Horizon :
          query = [kind |-> "forecast", rows |-> rows, horizon |-> horizon]
    BY <2>3 DEF ForecastAnswered
  <2>5. query.rows = rows /\ query.horizon = horizon
    BY <2>4
  <2> QED BY <2>1, <2>2, <2>4, <2>5 DEF IInv, ForecastAnswered
<1>6. CASE AnswerMatch
  <2>1. query.kind = "match" /\ query' = query
        /\ answer' = [status |-> "200", match |-> Matches(query.got, query.expected)]
    BY <1>6 DEF AnswerMatch, Asked
  <2>2. MatchAnswered
    BY <2>1 DEF IInv, ResolveAnswered, SavingsAnswered, InsightsAnswered, ForecastAnswered,
                MatchAnswered
  <2>3. PICK r \in Results : query = [kind |-> "match", got |-> r[1], expected |-> r[2]]
    BY <2>2 DEF MatchAnswered
  <2>4. answer' = [status |-> "200", match |-> Matches(r[1], r[2])]
    BY <2>1, <2>3
  <2> QED BY <2>1, <2>3, <2>4 DEF IInv, MatchAnswered
<1> QED BY <1>1, <1>2, <1>3, <1>4, <1>5, <1>6 DEF Next

(* Every answer is what the operators compute from the query it is for.    *)
LEMMA Inductive == Spec => []IInv
BY InitIInv, NextIInv, PTL DEF Spec

-----------------------------------------------------------------------------
(* compute_savings *)

LEMMA HistoryHours ==
  ASSUME NEW h \in History, NEW S \in SUBSET (DOMAIN h)
  PROVE  IsFiniteSet(S) /\ S \subseteq Int /\ \A t \in S : h[t] \in Nat /\ h[t] \in Int
BY HistoriesAreFinite, FS_Subset DEF HistoriesAreFinite

(* The average of a local hour keeps the bounds of its intensities.        *)
LEMMA AverageBetween ==
  ASSUME NEW h \in History, NEW hour, Bucket(h, hour) # {}, NEW lo \in Int, NEW hi \in Int
  PROVE  /\ AverageIn(h, hour) \in Int
         /\ (\A t \in Bucket(h, hour) : lo <= h[t]) => lo <= AverageIn(h, hour)
         /\ (\A t \in Bucket(h, hour) : h[t] <= hi) => AverageIn(h, hour) <= hi
<1> DEFINE S == Bucket(h, hour)
           n == Cardinality(S)
           sum == SumOf(h, S)
           Above == \A t \in S : lo <= h[t]
           Below == \A t \in S : h[t] <= hi
<1>1. S \in SUBSET DOMAIN h /\ S # {}
  BY DEF Bucket
<1>2. AverageIn(h, hour) = RoundDiv(sum, n)
  BY DEF AverageIn
<1> HIDE DEF S
<1>3. IsFiniteSet(S) /\ \A t \in S : h[t] \in Int
  BY <1>1, HistoryHours
<1>4. n \in Nat \ {0}
  BY <1>1, <1>3, CountIsNatural
<1>5. /\ sum \in Int
      /\ Above => n * lo <= sum
      /\ Below => sum <= n * hi
  BY <1>3, SumBetween
<1> HIDE DEF n, sum, Above, Below
<1>6. n * lo \in Int /\ n * hi \in Int /\ n * lo = lo * n /\ n * hi = hi * n
  BY <1>4
<1>7. RoundDiv(n * lo, n) = lo /\ RoundDiv(n * hi, n) = hi
  <2>1. RoundDiv(lo * n, n) = lo /\ RoundDiv(hi * n, n) = hi
    BY <1>4, RoundOfMultiple
  <2> QED BY <1>6, <2>1
<1>8. RoundDiv(sum, n) \in Int
  BY <1>4, <1>5, RoundBounds
<1>9. Above => lo <= RoundDiv(sum, n)
  <2> SUFFICES ASSUME Above PROVE lo <= RoundDiv(sum, n)
    OBVIOUS
  <2>1. RoundDiv(n * lo, n) <= RoundDiv(sum, n)
    BY <1>4, <1>5, <1>6, RoundMonotone
  <2> QED BY <1>7, <2>1
<1>10. Below => RoundDiv(sum, n) <= hi
  <2> SUFFICES ASSUME Below PROVE RoundDiv(sum, n) <= hi
    OBVIOUS
  <2>1. RoundDiv(sum, n) <= RoundDiv(n * hi, n)
    BY <1>4, <1>5, <1>6, RoundMonotone
  <2> QED BY <1>7, <2>1
<1> QED BY <1>2, <1>8, <1>9, <1>10 DEF Above, Below, S

LEMMA LoadIsPositive ==
  ASSUME NEW kwh \in Kwh
  PROVE  kwh \in Nat /\ KwhScale \in Nat \ {0}
BY ParametersAreValid, UnitsArePositive DEF ParametersAreValid, UnitsArePositive

LEMMA Co2IsNatural ==
  ASSUME NEW h \in History, NEW kwh \in Kwh, NEW hour, Bucket(h, hour) # {}
  PROVE  Co2(h, kwh, hour) \in Nat
<1> DEFINE average == AverageIn(h, hour)
<1>1. \A t \in Bucket(h, hour) : 0 <= h[t]
  BY HistoryHours DEF Bucket
<1>2. average \in Nat
  <2>1. average \in Int /\ 0 <= average
    BY <1>1, AverageBetween
  <2> QED BY <2>1
<1>3. kwh \in Nat /\ KwhScale \in Nat \ {0}
  BY LoadIsPositive
<1> HIDE DEF average
<1>4. average * kwh \in Nat
  BY <1>2, <1>3
<1>5. RoundDiv(average * kwh, KwhScale) \in Nat
  BY <1>3, <1>4, RoundOfNatural
<1> QED BY <1>5 DEF Co2, average

(* An hour of the day that is at no time dirtier costs no more, whatever   *)
(* is rounded on the way.                                                  *)
NowhereDirtier(h, to, from) ==
  \A t \in Bucket(h, to), u \in Bucket(h, from) : h[t] <= h[u]

LEMMA CleanerCostsNoMore ==
  ASSUME NEW h \in History, NEW kwh \in Kwh, NEW from, NEW to,
         Bucket(h, from) # {}, Bucket(h, to) # {}, NowhereDirtier(h, to, from)
  PROVE  Co2(h, kwh, to) <= Co2(h, kwh, from)
<1> DEFINE a == AverageIn(h, from)
           b == AverageIn(h, to)
<1>1. a \in Int
  BY AverageBetween
<1>2. \A t \in Bucket(h, to) : h[t] <= a
  <2> TAKE t \in Bucket(h, to)
  <2>1. h[t] \in Int
    BY HistoryHours DEF Bucket
  <2>2. \A u \in Bucket(h, from) : h[t] <= h[u]
    BY DEF NowhereDirtier
  <2> QED BY <2>1, <2>2, AverageBetween
<1>3. b \in Int /\ b <= a
  <2> HIDE DEF a
  <2> QED BY <1>1, <1>2, AverageBetween
<1>4. kwh \in Nat /\ KwhScale \in Nat \ {0}
  BY LoadIsPositive
<1> HIDE DEF a, b
<1>5. a * kwh \in Int /\ b * kwh \in Int
  BY <1>1, <1>3, <1>4
<1>6. b * kwh <= a * kwh
  <2>1. \A x \in Nat, y \in Nat : 0 <= x * y
    OBVIOUS
  <2>2. a - b \in Nat /\ (a - b) * kwh = a * kwh - b * kwh
    BY <1>1, <1>3, <1>4
  <2>3. 0 <= (a - b) * kwh
    BY <1>4, <2>1, <2>2
  <2> QED BY <1>5, <2>2, <2>3
<1>7. RoundDiv(b * kwh, KwhScale) <= RoundDiv(a * kwh, KwhScale)
  BY <1>4, <1>5, <1>6, RoundMonotone
<1> QED BY <1>7 DEF Co2, a, b

(* What a percentage says of the two costs.                                *)
PercentageIsFair(from, to) ==
  /\ to <= from => Saved(from, to) \in 0..1000
  /\ from < to => \/ Saved(from, to) < 0
                  \/ from = 0
                  \/ Saved(from, to) = 0 /\ -1000 * (from - to) < from

LEMMA SavedIsFair ==
  ASSUME NEW from \in Nat, NEW to \in Nat PROVE PercentageIsFair(from, to)
<1>1. ASSUME to <= from, from > 0
      PROVE  Saved(from, to) \in 0..1000
  <2> DEFINE part == from - to
  <2>1. part \in Nat /\ from \in Nat \ {0} /\ part <= from
    BY <1>1
  <2>2. RoundDiv(1000 * part, from) \in 0..1000
    <3> HIDE DEF part
    <3> QED BY <2>1, RoundShare
  <2> QED BY <1>1, <2>2 DEF Saved
<1>2. ASSUME from < to, from > 0
      PROVE  Saved(from, to) < 0 \/ (Saved(from, to) = 0 /\ -1000 * (from - to) < from)
  <2> DEFINE x == 1000 * (from - to)
             q == RoundDiv(x, from)
  <2>1. x \in Int /\ from \in Nat \ {0} /\ x <= 0 /\ 0 * from = 0 /\ 0 \in Int
    BY <1>2
  <2>2. q \in Int /\ 2 * (from * q) <= 2 * x + from
    <3> HIDE DEF x
    <3> QED BY <2>1, RoundBounds
  <2>3. RoundDiv(0 * from, from) = 0
    BY <2>1, RoundOfMultiple
  <2>4. q <= 0
    <3>1. q <= RoundDiv(0, from)
      <4> HIDE DEF x
      <4> QED BY <2>1, RoundMonotone
    <3> QED BY <2>1, <2>3, <3>1
  <2>5. q = 0 => -x < from
    <3>1. SUFFICES ASSUME q = 0 PROVE -x < from
      OBVIOUS
    <3>2. from * q = 0
      <4> HIDE DEF q
      <4> QED BY <3>1
    <3> HIDE DEF q, x
    <3> QED BY <1>2, <2>1, <2>2, <3>2
  <2>6. -1000 * (from - to) = -x
    OBVIOUS
  <2> QED BY <1>2, <2>2, <2>4, <2>5, <2>6 DEF Saved
<1>3. from = 0 => Saved(from, to) = 0
  BY DEF Saved
<1> QED BY <1>1, <1>2, <1>3 DEF PercentageIsFair

LEMMA EveryHourIsCounted ==
  ASSUME NEW h \in History, NEW t \in DOMAIN h
  PROVE  \E hour \in LocalHours : {x \in LocalHours : t \in Bucket(h, x)} = {hour}
<1>1. t \in Int /\ UtcOffset[t] \in Int /\ HoursPerDay \in Nat \ {0}
  BY HistoriesAreFinite, UnitsArePositive DEF HistoriesAreFinite, UnitsArePositive
<1>2. LocalHour(t) \in LocalHours
  <2>1. t + UtcOffset[t] \in Int
    BY <1>1
  <2> QED BY <1>1, <2>1 DEF LocalHour, LocalHours
<1>3. {x \in LocalHours : t \in Bucket(h, x)} = {LocalHour(t)}
  BY <1>2 DEF Bucket
<1> QED BY <1>2, <1>3

LEMMA SavingsInvariant == IInv => SavingsAreFair
<1> SUFFICES ASSUME IInv, query.kind = "savings", answer.status = "200"
             PROVE  /\ NowhereDirtier(query.history, query.to, query.from) => answer.savings >= 0
                    /\ answer.savings >= 0 => answer.pct \in 0..1000
                    /\ answer.savings < 0 =>
                         \/ answer.pct < 0
                         \/ answer.fromCo2 = 0
                         \/ answer.pct = 0 /\ -1000 * answer.savings < answer.fromCo2
                    /\ \A t \in DOMAIN query.history : \E hour \in LocalHours :
                         {h \in LocalHours : t \in Bucket(query.history, h)} = {hour}
  BY Zenon DEF SavingsAreFair, Answered, NowhereDirtier
<1>1. SavingsAnswered
  BY DEF IInv, ResolveAnswered, SavingsAnswered, InsightsAnswered, ForecastAnswered,
         MatchAnswered
<1>2. PICK h \in History, kwh \in Kwh, from \in LocalHours, to \in LocalHours :
        /\ query = [kind |-> "savings", history |-> h, kwh |-> kwh, from |-> from, to |-> to]
        /\ answer \in {Pending, Savings(h, kwh, from, to)}
  BY <1>1 DEF SavingsAnswered
<1>3. answer = Savings(h, kwh, from, to)
  BY <1>2 DEF Pending
<1> DEFINE a == Co2(h, kwh, from)
           b == Co2(h, kwh, to)
<1>4. DOMAIN h # {} /\ Bucket(h, from) # {} /\ Bucket(h, to) # {}
  BY <1>3 DEF Savings
<1>5. a \in Nat /\ b \in Nat
  BY <1>4, Co2IsNatural
<1>6. answer = [status |-> "200", fromCo2 |-> a, toCo2 |-> b, savings |-> a - b,
                pct |-> Saved(a, b)]
  BY <1>3, <1>4 DEF Savings
<1>7. /\ query.history = h /\ query.kwh = kwh /\ query.from = from /\ query.to = to
      /\ answer.savings = a - b /\ answer.pct = Saved(a, b) /\ answer.fromCo2 = a
  BY <1>2, <1>6
<1>8. NowhereDirtier(h, to, from) => b <= a
  BY <1>4, CleanerCostsNoMore
<1> HIDE DEF a, b
<1>9. PercentageIsFair(a, b)
  BY <1>5, SavedIsFair
<1>10. (a - b >= 0 <=> b <= a) /\ (a - b < 0 => a < b)
  BY <1>5
<1> QED BY <1>7, <1>8, <1>9, <1>10, EveryHourIsCounted DEF PercentageIsFair

(* A saving is fair for every history, load and pair of local hours:       *)
(* a shift to an hour that is at no time dirtier never shows a loss, and   *)
(* the percentage says no more than the saving does (queries.py:251-272).  *)
THEOREM SavingsFair == Spec => []SavingsAreFair
BY Inductive, SavingsInvariant, PTL

-----------------------------------------------------------------------------
(* compute_stats *)

LEMMA RowsAreNewest ==
  ASSUME NEW h \in History, NEW hours \in Window
  PROVE  /\ Rows(h, hours) \in SUBSET DOMAIN h
         /\ Rows(h, hours) =
              {t \in DOMAIN h : Cardinality({u \in DOMAIN h : u >= t}) <= hours}
<1> DEFINE S == DOMAIN h
           Later(t) == {u \in S : u > t}
           From(t) == {u \in S : u >= t}
<1>1. IsFiniteSet(S) /\ S \subseteq Int /\ hours \in Nat
  BY HistoryHours, ParametersAreValid DEF ParametersAreValid
<1>2. ASSUME NEW t \in S
      PROVE  Cardinality(Later(t)) < hours <=> Cardinality(From(t)) <= hours
  <2>1. From(t) = Later(t) \cup {t} /\ t \notin Later(t)
    BY <1>1
  <2>2. IsFiniteSet(Later(t)) /\ Cardinality(Later(t)) \in Nat
    <3>1. Later(t) \in SUBSET S
      OBVIOUS
    <3> HIDE DEF Later, S
    <3> QED BY <1>1, <3>1, CountIsNatural
  <2>3. Cardinality(From(t)) = Cardinality(Later(t)) + 1
    <3> HIDE DEF Later, From
    <3> QED BY <2>1, <2>2, FS_AddElement
  <2> HIDE DEF Later, From
  <2> QED BY <1>1, <2>2, <2>3
<1> QED BY <1>2 DEF Rows, Highest

(* Two rows or more fall into two halves that have rows.                   *)
LEMMA HalvesHaveRows ==
  ASSUME NEW S, IsFiniteSet(S), S \subseteq Int, Cardinality(S) >= 2
  PROVE  /\ Lowest(S, Cardinality(S) \div 2) \in SUBSET S
         /\ Lowest(S, Cardinality(S) \div 2) # {}
         /\ S \ Lowest(S, Cardinality(S) \div 2) # {}
<1> DEFINE n == Cardinality(S)
           Earlier(t) == {u \in S : u < t}
<1>1. n \in Nat /\ n >= 2 /\ n \div 2 >= 1 /\ ~(n - 1 < n \div 2)
  <2>1. n \in Nat
    BY FS_CardinalityType
  <2> HIDE DEF n
  <2>2. n >= 2
    BY DEF n
  <2> QED BY <2>1, <2>2
<1>2. S # {}
  BY <1>1, FS_EmptySet
<1>3. /\ Min(S) \in S /\ \A x \in S : Min(S) <= x
      /\ Max(S) \in S /\ \A x \in S : x <= Max(S)
  BY <1>2, ExtremesExist
<1>4. Cardinality(Earlier(Min(S))) = 0
  <2>1. ASSUME NEW u \in S PROVE ~(u < Min(S))
    <3>1. Min(S) <= u /\ u \in Int /\ Min(S) \in Int
      BY <1>3
    <3> QED BY <3>1
  <2>2. Earlier(Min(S)) = {}
    BY <2>1
  <2> QED BY <2>2, FS_EmptySet
<1>5. Cardinality(Earlier(Max(S))) = n - 1
  <2>1. ASSUME NEW u \in S PROVE u < Max(S) <=> u # Max(S)
    <3>1. u <= Max(S) /\ u \in Int /\ Max(S) \in Int
      BY <1>3
    <3> QED BY <3>1
  <2>2. Earlier(Max(S)) = S \ {Max(S)}
    BY <2>1
  <2> QED BY <1>3, <2>2, FS_RemoveElement
<1>6. /\ Lowest(S, n \div 2) = {t \in S : Cardinality(Earlier(t)) < n \div 2}
  BY DEF Lowest
<1> HIDE DEF n, Earlier
<1>7. Min(S) \in Lowest(S, n \div 2) /\ Max(S) \notin Lowest(S, n \div 2)
  BY <1>1, <1>3, <1>4, <1>5, <1>6
<1> QED BY <1>3, <1>6, <1>7 DEF n

LEMMA ExtremeRows ==
  ASSUME NEW h \in History, NEW S \in SUBSET DOMAIN h, S # {}
  PROVE  /\ Lightest(h, S) \in S /\ \A t \in S : h[Lightest(h, S)] <= h[t]
         /\ Heaviest(h, S) \in S /\ \A t \in S : h[t] <= h[Heaviest(h, S)]
<1> DEFINE V == {h[t] : t \in S}
           value == [t \in S |-> h[t]]
           Low == {t \in S : \A u \in S : h[t] <= h[u]}
           High == {t \in S : \A u \in S : h[t] >= h[u]}
<1>1. IsFiniteSet(S) /\ S \subseteq Int /\ \A t \in S : h[t] \in Int
  BY HistoryHours
<1>2. IsFiniteSet(V)
  <2>1. value \in Surjection(S, V)
    BY DEF Surjection
  <2> HIDE DEF V, value
  <2> QED BY <1>1, <2>1, FS_Surjection
<1>3. V \subseteq Int /\ V # {}
  BY <1>1
<1>4. /\ Min(V) \in V /\ \A x \in V : Min(V) <= x
      /\ Max(V) \in V /\ \A x \in V : x <= Max(V)
  <2> HIDE DEF V
  <2> QED BY <1>2, <1>3, ExtremesExist
<1>5. PICK a \in S : h[a] = Min(V)
  BY <1>4
<1>6. PICK b \in S : h[b] = Max(V)
  BY <1>4
<1>7. a \in Low
  BY <1>4, <1>5
<1>8. b \in High
  BY <1>1, <1>4, <1>6
<1>9. IsFiniteSet(Low) /\ Low \subseteq Int /\ IsFiniteSet(High) /\ High \subseteq Int
  <2>1. Low \in SUBSET S /\ High \in SUBSET S
    OBVIOUS
  <2> HIDE DEF Low, High
  <2> QED BY <1>1, <2>1, FS_Subset
<1>10. Min(Low) \in Low /\ Min(High) \in High
  <2> HIDE DEF Low, High
  <2> QED BY <1>7, <1>8, <1>9, ExtremesExist
<1>11. Lightest(h, S) = Min(Low) /\ Heaviest(h, S) = Min(High)
  BY DEF Lightest, Heaviest
<1>12. Lightest(h, S) \in Low /\ Heaviest(h, S) \in High
  BY <1>10, <1>11
<1>13. \A t \in S : h[t] <= h[Heaviest(h, S)]
  BY <1>1, <1>12
<1> QED BY <1>12, <1>13

LEMMA RoundScaled ==
  ASSUME NEW s \in Int, NEW d \in Nat \ {0}, NEW c \in Nat \ {0}
  PROVE  /\ RoundDiv(s, d) \in Int /\ (d * c) * RoundDiv(s, d) \in Int
         /\ 2 * ((d * c) * RoundDiv(s, d)) <= 2 * (s * c) + d * c
         /\ 2 * (s * c) < 2 * ((d * c) * RoundDiv(s, d)) + d * c
<1> DEFINE q == RoundDiv(s, d)
           p == d * q
<1>1. q \in Int /\ 2 * p <= 2 * s + d /\ 2 * s < 2 * p + d
  BY RoundBounds
<1> HIDE DEF q
<1>2. p \in Int /\ (d * c) * q = c * p
  BY <1>1
<1> HIDE DEF p
<1>3. c * (2 * p) <= c * (2 * s + d) /\ c * (2 * s + 1) <= c * (2 * p + d)
  <2>1. 2 * p <= 2 * s + d /\ 2 * s + 1 <= 2 * p + d
    BY <1>1, <1>2
  <2>2. {2 * p, 2 * s + d, 2 * s + 1, 2 * p + d} \subseteq Int /\ c \in Nat
    BY <1>2
  <2> QED BY <2>1, <2>2, ProductsGrow
<1>4. /\ c * (2 * p) = 2 * (c * p) /\ c * (2 * s + d) = 2 * (s * c) + d * c
      /\ c * (2 * s + 1) = 2 * (s * c) + c /\ c * (2 * p + d) = 2 * (c * p) + d * c
      /\ c * p \in Int /\ s * c \in Int /\ d * c \in Int
  BY <1>2
<1> DEFINE x == c * p
           y == s * c
           z == d * c
<1>5. 2 * x <= 2 * y + z /\ 2 * y + c <= 2 * x + z /\ x \in Int /\ y \in Int /\ z \in Int
  BY <1>3, <1>4
<1> HIDE DEF x, y, z
<1>6. 2 * x <= 2 * y + z /\ 2 * y < 2 * x + z
  BY <1>5
<1> QED BY <1>1, <1>2, <1>5, <1>6 DEF x, y, z, q

(* The rounded difference of two means, beside the difference of the       *)
(* rounded means.                                                          *)
LEMMA TrendIsDifference ==
  ASSUME NEW s1 \in Int, NEW s2 \in Int, NEW c1 \in Nat \ {0}, NEW c2 \in Nat \ {0}
  PROVE  RoundDiv(s2 * c1 - s1 * c2, 10 * c1 * c2)
           - (RoundDiv(s2, 10 * c2) - RoundDiv(s1, 10 * c1)) \in -1..1
<1> DEFINE d1 == 10 * c1
           d2 == 10 * c2
           B == 10 * c1 * c2
           y1 == s1 * c2
           y2 == s2 * c1
           q1 == RoundDiv(s1, d1)
           q2 == RoundDiv(s2, d2)
           t == RoundDiv(y2 - y1, B)
<1>1. d1 \in Nat \ {0} /\ d2 \in Nat \ {0} /\ d1 * c2 = B /\ d2 * c1 = B
  OBVIOUS
<1>2. B \in Nat \ {0} /\ y1 \in Int /\ y2 \in Int
  OBVIOUS
<1> HIDE DEF B, y1, y2, d1, d2
<1>3. q1 \in Int /\ 2 * (B * q1) <= 2 * y1 + B /\ 2 * y1 < 2 * (B * q1) + B
  BY <1>1, RoundScaled DEF y1
<1>4. q2 \in Int /\ 2 * (B * q2) <= 2 * y2 + B /\ 2 * y2 < 2 * (B * q2) + B
  BY <1>1, RoundScaled DEF y2
<1>5. t \in Int /\ 2 * (B * t) <= 2 * (y2 - y1) + B /\ 2 * (y2 - y1) < 2 * (B * t) + B
  <2>1. y2 - y1 \in Int
    BY <1>2
  <2> QED BY <1>2, <2>1, RoundBounds
<1> HIDE DEF q1, q2, t
<1> DEFINE e == t - (q2 - q1)
           x1 == B * q1
           x2 == B * q2
           xt == B * t
<1>6. x1 \in Int /\ x2 \in Int /\ xt \in Int /\ e \in Int /\ B * e = xt - x2 + x1
  BY <1>2, <1>3, <1>4, <1>5
<1>7. /\ 2 * x1 <= 2 * y1 + B /\ 2 * y1 < 2 * x1 + B
      /\ 2 * x2 <= 2 * y2 + B /\ 2 * y2 < 2 * x2 + B
      /\ 2 * xt <= 2 * (y2 - y1) + B /\ 2 * (y2 - y1) < 2 * xt + B
  BY <1>3, <1>4, <1>5
<1> HIDE DEF x1, x2, xt, e
<1> DEFINE w == B * e
<1>8. w \in Int /\ w = xt - x2 + x1
  BY <1>6
<1>9. 2 * w < 3 * B /\ -(3 * B) < 2 * w
  <2> HIDE DEF w
  <2> QED BY <1>2, <1>6, <1>7, <1>8
<1>10. e >= 2 => B * 2 <= w
  BY <1>2, <1>6, ProductsGrow
<1>11. e <= -2 => w <= B * (-2)
  <2>1. -2 \in Int /\ B \in Nat
    BY <1>2
  <2> QED BY <1>6, <2>1, ProductsGrow
<1>12. e \in -1..1
  <2> HIDE DEF w
  <2> QED BY <1>2, <1>6, <1>8, <1>9, <1>10, <1>11
<1> QED BY <1>12 DEF e, t, q1, q2, B, y1, y2, d1, d2

(* What the answer from a full window says.                                *)
LEMMA StatsBetween ==
  ASSUME NEW h \in History, NEW rows \in SUBSET DOMAIN h, Cardinality(rows) >= 2,
         NEW first, first = Lowest(rows, Cardinality(rows) \div 2),
         NEW second, second = rows \ first,
         NEW lo, lo = RoundDiv(h[Lightest(h, rows)], 10),
         NEW hi, hi = RoundDiv(h[Heaviest(h, rows)], 10)
  PROVE  /\ lo <= MeanOf(h, rows) /\ MeanOf(h, rows) <= hi
         /\ lo <= MeanOf(h, first) /\ MeanOf(h, first) <= hi
         /\ lo <= MeanOf(h, second) /\ MeanOf(h, second) <= hi
         /\ RoundDiv(SumOf(h, second) * Cardinality(first)
                       - SumOf(h, first) * Cardinality(second),
                     10 * Cardinality(first) * Cardinality(second))
              - (MeanOf(h, second) - MeanOf(h, first)) \in -1..1
<1>1. IsFiniteSet(rows) /\ rows \subseteq Int /\ \A t \in rows : h[t] \in Int
  BY HistoryHours
<1>2. rows # {}
  <2>1. Cardinality({}) = 0
    BY FS_EmptySet
  <2> QED BY <2>1
<1>3. /\ first \in SUBSET rows /\ first # {}
      /\ second \in SUBSET rows /\ second # {}
  <2>1. /\ Lowest(rows, Cardinality(rows) \div 2) \in SUBSET rows
        /\ Lowest(rows, Cardinality(rows) \div 2) # {}
        /\ rows \ Lowest(rows, Cardinality(rows) \div 2) # {}
    BY <1>1, HalvesHaveRows
  <2> QED BY <2>1
<1>4. PICK a \in Int, b \in Int :
        /\ \A t \in rows : h[t] \in a..b
        /\ lo = RoundDiv(a, 10) /\ hi = RoundDiv(b, 10)
  <2>1. /\ Lightest(h, rows) \in rows /\ \A t \in rows : h[Lightest(h, rows)] <= h[t]
        /\ Heaviest(h, rows) \in rows /\ \A t \in rows : h[t] <= h[Heaviest(h, rows)]
    BY <1>2, ExtremeRows
  <2>2. h[Lightest(h, rows)] \in Int /\ h[Heaviest(h, rows)] \in Int
    BY <1>1, <2>1
  <2> QED BY <1>1, <2>1, <2>2
<1>5. ASSUME NEW S \in SUBSET rows, S # {}
      PROVE  lo <= MeanOf(h, S) /\ MeanOf(h, S) <= hi
  <2>1. IsFiniteSet(S) /\ \A t \in S : h[t] \in a..b
    BY <1>1, <1>4, <1>5, FS_Subset
  <2>2. RoundDiv(a, 10) <= MeanOf(h, S) /\ MeanOf(h, S) <= RoundDiv(b, 10)
    BY <1>4, <1>5, <2>1, MeanBetween
  <2> QED BY <1>4, <2>2
<1>6. ASSUME NEW S \in SUBSET rows, S # {}
      PROVE  Cardinality(S) \in Nat \ {0} /\ SumOf(h, S) \in Int
  <2>1. IsFiniteSet(S) /\ \A t \in S : h[t] \in Int
    BY <1>1, FS_Subset
  <2>2. Cardinality(S) \in Nat \ {0}
    BY <1>6, <2>1, CountIsNatural
  <2>3. SumOf(h, S) \in Int
    <3>1. \A x \in Int : SumOf(h, S) \in Int
      BY <2>1, SumBetween
    <3>2. 0 \in Int
      OBVIOUS
    <3> QED BY <3>1, <3>2
  <2> QED BY <2>2, <2>3
<1>7. /\ Cardinality(first) \in Nat \ {0} /\ Cardinality(second) \in Nat \ {0}
      /\ SumOf(h, first) \in Int /\ SumOf(h, second) \in Int
  BY <1>3, <1>6
<1>8. RoundDiv(SumOf(h, second) * Cardinality(first) - SumOf(h, first) * Cardinality(second),
               10 * Cardinality(first) * Cardinality(second))
        - (MeanOf(h, second) - MeanOf(h, first)) \in -1..1
  BY <1>7, TrendIsDifference DEF MeanOf
<1>9. rows \in SUBSET rows
  OBVIOUS
<1> QED BY <1>2, <1>3, <1>5, <1>8, <1>9

LEMMA StatsInvariant == IInv => StatsFitTogether
<1> SUFFICES ASSUME IInv, query.kind = "insights", answer # Pending
             PROVE  StatsFitTogether
  BY DEF StatsFitTogether
<1>1. InsightsAnswered
  BY DEF IInv, ResolveAnswered, SavingsAnswered, InsightsAnswered, ForecastAnswered,
         MatchAnswered
<1>2. PICK h \in History, r \in Renewable, hours \in Window :
        /\ query = [kind |-> "insights", history |-> h, renewable |-> r, hours |-> hours]
        /\ answer \in {Pending, Stats(h, r, hours)}
  BY <1>1 DEF InsightsAnswered
<1>3. answer = Stats(h, r, hours) /\ query.history = h /\ query.hours = hours
  BY <1>2
<1> DEFINE rows == Rows(h, hours)
           n == Cardinality(rows)
           first == Lowest(rows, n \div 2)
           second == rows \ first
           window == {t \in DOMAIN h : Cardinality({u \in DOMAIN h : u >= t}) <= hours}
           trend == RoundDiv(SumOf(h, second) * Cardinality(first)
                               - SumOf(h, first) * Cardinality(second),
                             10 * Cardinality(first) * Cardinality(second))
           good == [status |-> "200", window |-> n, mean |-> MeanOf(h, rows),
                    min |-> RoundDiv(h[Lightest(h, rows)], 10),
                    max |-> RoundDiv(h[Heaviest(h, rows)], 10),
                    minPeriod |-> Lightest(h, rows), maxPeriod |-> Heaviest(h, rows),
                    firstMean |-> MeanOf(h, first), secondMean |-> MeanOf(h, second),
                    trendDelta |-> trend]
<1>4. rows \in SUBSET DOMAIN h /\ rows = window
  BY RowsAreNewest
<1>5. answer = IF n < MinRows THEN [status |-> "503"]
               ELSE IF Constant(h, rows) /\ ~Constant(r, rows) THEN [status |-> "500"]
               ELSE good
  BY <1>3 DEF Stats
<1>6. CASE answer.status # "200"
  <2>1. n < MinRows \/ Constant(h, rows)
    <3>1. good.status = "200"
      OBVIOUS
    <3> HIDE DEF good, n, rows
    <3> QED BY <1>5, <1>6, <3>1
  <2>2. Cardinality(window) < MinRows \/ \A t, u \in window : h[t] = h[u]
    <3> HIDE DEF window, rows
    <3> QED BY <1>4, <2>1 DEF Constant
  <2> QED BY <1>3, <1>6, <2>2 DEF StatsFitTogether
<1>7. CASE answer.status = "200"
  <2>1. answer = good /\ ~(n < MinRows)
    <3> HIDE DEF good, n, rows
    <3> QED BY <1>5, <1>7
  <2>2. n >= 2
    <3>1. IsFiniteSet(rows)
      BY <1>4, HistoryHours
    <3>2. n \in Nat
      BY <3>1, FS_CardinalityType
    <3>3. MinRows \in Nat /\ MinRows >= 2
      BY RowsCanBeHalved DEF RowsCanBeHalved
    <3> HIDE DEF n, rows
    <3> QED BY <2>1, <3>2, <3>3
  <2>3. rows # {}
    <3>1. Cardinality({}) = 0
      BY FS_EmptySet
    <3> QED BY <2>2, <3>1
  <2> DEFINE lo == RoundDiv(h[Lightest(h, rows)], 10)
             hi == RoundDiv(h[Heaviest(h, rows)], 10)
  <2>4. /\ lo <= MeanOf(h, rows) /\ MeanOf(h, rows) <= hi
        /\ lo <= MeanOf(h, first) /\ MeanOf(h, first) <= hi
        /\ lo <= MeanOf(h, second) /\ MeanOf(h, second) <= hi
        /\ trend - (MeanOf(h, second) - MeanOf(h, first)) \in -1..1
    <3>1. PICK R : R = rows
      OBVIOUS
    <3>2. R \in SUBSET DOMAIN h /\ Cardinality(R) >= 2
      BY <1>4, <2>2, <3>1
    <3> HIDE DEF rows
    <3> QED BY <3>1, <3>2, StatsBetween
  <2>5. /\ Lightest(h, rows) \in rows /\ \A t \in rows : h[Lightest(h, rows)] <= h[t]
        /\ Heaviest(h, rows) \in rows /\ \A t \in rows : h[t] <= h[Heaviest(h, rows)]
    <3> HIDE DEF rows
    <3> QED BY <1>4, <2>3, ExtremeRows
  <2>6. /\ answer.window = n /\ answer.mean = MeanOf(h, rows)
        /\ answer.min = lo /\ answer.max = hi
        /\ answer.minPeriod = Lightest(h, rows) /\ answer.maxPeriod = Heaviest(h, rows)
        /\ answer.firstMean = MeanOf(h, first) /\ answer.secondMean = MeanOf(h, second)
        /\ answer.trendDelta = trend
    <3> HIDE DEF n, rows, first, second, trend
    <3> QED BY <2>1
  <2>7. /\ answer.window = Cardinality(window)
        /\ {answer.minPeriod, answer.maxPeriod} \subseteq window
        /\ \A t \in window : /\ h[answer.minPeriod] <= h[t]
                             /\ h[t] <= h[answer.maxPeriod]
    <3> HIDE DEF rows, window
    <3> QED BY <1>4, <2>5, <2>6
  <2> HIDE DEF rows, n, first, second, trend, window, lo, hi, good
  <2>8. /\ answer.min <= answer.mean /\ answer.mean <= answer.max
        /\ answer.min <= answer.firstMean /\ answer.firstMean <= answer.max
        /\ answer.min <= answer.secondMean /\ answer.secondMean <= answer.max
        /\ answer.trendDelta - (answer.secondMean - answer.firstMean) \in -1..1
    BY <2>4, <2>6
  <2> QED BY <1>3, <1>7, <2>7, <2>8 DEF StatsFitTogether, window
<1> QED BY <1>6, <1>7

(* The statistics fit together for every history, window and least number  *)
(* of rows: means lie between the extremes, also the rounded ones, and the *)
(* trend is the difference of the two means shown up to their last digit   *)
(* (insights.py:22-59).                                                    *)
THEOREM StatisticsFit == Spec => []StatsFitTogether
BY Inductive, StatsInvariant, PTL

-----------------------------------------------------------------------------
(* The forecast: which hours are fitted, held out and predicted            *)

LEMMA SeriesIsLong ==
  ASSUME NEW rows \in Ingested, Enough(rows)
  PROVE  /\ rows # {} /\ Min(rows) \in Int /\ Max(rows) \in Int
         /\ SeriesLength(rows) \in Nat /\ SeriesLength(rows) >= MinHistory
<1>1. IsFiniteSet(rows) /\ rows \subseteq Int
  BY IngestedIsFinite DEF IngestedIsFinite
<1>2. MinHistory \in Nat \ {0} /\ Cardinality(rows) >= MinHistory
  BY HistoryIsLong DEF HistoryIsLong, Enough
<1>3. rows # {}
  <2>1. Cardinality({}) = 0
    BY FS_EmptySet
  <2> QED BY <1>2, <2>1
<1>4. /\ Min(rows) \in rows /\ \A x \in rows : Min(rows) <= x
      /\ Max(rows) \in rows /\ \A x \in rows : x <= Max(rows)
  BY <1>1, <1>3, ExtremesExist
<1>5. PICK a \in Int, b \in Int :
        a = Min(rows) /\ b = Max(rows) /\ a <= b /\ \A x \in rows : a <= x /\ x <= b
  BY <1>1, <1>4
<1>6. rows \in SUBSET (a..b)
  BY <1>1, <1>5
<1>7. IsFiniteSet(a..b) /\ Cardinality(a..b) = b - a + 1
  BY <1>5, FS_Interval
<1>8. Cardinality(rows) <= b - a + 1
  BY <1>6, <1>7, FS_Subset
<1>9. Cardinality(rows) \in Nat
  BY <1>1, FS_CardinalityType
<1> QED BY <1>2, <1>3, <1>5, <1>8, <1>9 DEF SeriesLength

(* What is held out leaves two seasons to fit, and the backtest's          *)
(* prediction is for the hours held out.                                   *)
LEMMA BacktestIsAligned ==
  ASSUME NEW length \in Nat, length >= MinHistory, NEW horizon \in Nat \ {0}
  PROVE  LET b == Backtest(length, horizon)
         IN  b.train >= 2 * Season /\ b.predicted = b.actual /\ b.holdout > 0
<1> DEFINE H == Holdout(length, horizon)
<1>1. /\ MinHistory \in Nat \ {0} /\ Season \in Nat \ {0} /\ MinHistory > 2 * Season
      /\ MinHistory - MinHistory \div 5 >= 2 * Season
  BY HistoryIsLong DEF HistoryIsLong
<1>2. H \in Nat /\ H >= 1 /\ (H <= 1 \/ H <= length \div 5)
  BY DEF Holdout, Lower, Higher
<1>3. length - length \div 5 >= MinHistory - MinHistory \div 5 /\ length \div 5 \in Nat
  BY <1>1
<1> HIDE DEF H
<1>4. length - H >= 2 * Season /\ length - H \in Nat
  <2>1. CASE H <= 1
    BY <1>1, <1>2, <2>1
  <2>2. CASE H <= length \div 5
    <3>1. PICK fifth \in Nat, least \in Int :
            /\ fifth = length \div 5 /\ least = MinHistory \div 5
            /\ length - fifth >= MinHistory - least
            /\ MinHistory - least >= 2 * Season
      BY <1>1, <1>3
    <3> QED BY <1>1, <1>2, <2>2, <3>1
  <2> QED BY <1>2, <2>1, <2>2
<1>5. Cardinality(Train(length, H)) = length - H
  <2>1. Train(length, H) = 0..(length - H - 1)
    BY DEF Train
  <2>2. 0 \in Int /\ length - H - 1 \in Int
    BY <1>4
  <2>3. Cardinality(0..(length - H - 1)) =
          IF 0 > length - H - 1 THEN 0 ELSE (length - H - 1) - 0 + 1
    BY <2>2, FS_Interval
  <2> QED BY <1>4, <2>1, <2>3
<1>6. Predicted(length - H, H) = Test(length, H)
  <2>1. (length - H) + H - 1 = length - 1
    BY <1>2, <1>4
  <2> QED BY <2>1 DEF Predicted, Test
<1>7. Backtest(length, horizon) =
        [train |-> length - H, holdout |-> H,
         predicted |-> Predicted(length - H, H), actual |-> Test(length, H)]
  BY <1>5 DEF Backtest, H
<1> QED BY <1>2, <1>4, <1>6, <1>7

LEMMA ShownIsMonotone ==
  ASSUME NEW a \in Int, NEW b \in Int, a <= b
  PROVE  Shown(a) \in Nat /\ Shown(b) \in Nat /\ Shown(a) <= Shown(b)
<1>1. Higher(a, 0) \in Nat /\ Higher(b, 0) \in Nat /\ Higher(a, 0) <= Higher(b, 0)
  BY DEF Higher
<1>2. PICK x \in Nat, y \in Nat : x = Higher(a, 0) /\ y = Higher(b, 0) /\ x <= y
  BY <1>1
<1>3. RoundDiv(x, 10) \in Nat /\ RoundDiv(y, 10) \in Nat
  BY RoundOfNatural
<1>4. RoundDiv(x, 10) <= RoundDiv(y, 10)
  <2>1. \A c \in Nat \ {0} : RoundDiv(x, c) <= RoundDiv(y, c)
    BY <1>2, RoundMonotone
  <2> QED BY <2>1
<1> QED BY <1>2, <1>3, <1>4 DEF Shown

(* The points are the hours after the last row, each within its interval.  *)
LEMMA PointsFollowRows ==
  ASSUME NEW rows \in Ingested, Enough(rows),
         NEW horizon \in Horizon, NEW frame \in Frames(horizon)
  PROVE  /\ horizon \in Nat \ {0} /\ DOMAIN Points(rows, frame) = 1..horizon
         /\ \A i \in 1..horizon :
              LET p == Points(rows, frame)[i]
              IN  /\ p.period = Max(rows) + i /\ p.period \in Int
                  /\ p.lower \in Nat /\ p.mean \in Nat /\ p.upper \in Nat
                  /\ p.lower <= p.mean /\ p.mean <= p.upper
<1>1. /\ frame \in [1..horizon -> [mean : Int, lower : Int, upper : Int]]
      /\ \A i \in 1..horizon : frame[i].lower <= frame[i].mean
                               /\ frame[i].mean <= frame[i].upper
  BY FramesHoldMeans DEF FramesHoldMeans
<1>2. horizon \in Nat \ {0}
  BY ParametersAreValid DEF ParametersAreValid
<1>3. Len(frame) = horizon /\ DOMAIN frame = 1..horizon
  BY <1>1, <1>2
<1>4. PICK a \in Int, b \in Int, length \in Nat :
        a = Min(rows) /\ b = Max(rows) /\ length = SeriesLength(rows) /\ length = b - a + 1
  BY SeriesIsLong DEF SeriesLength
<1>5. Min(Predicted(length, horizon)) = length
  <2> DEFINE S == Predicted(length, horizon)
  <2>1. S = length..(length + horizon - 1)
    BY DEF Predicted
  <2>2. length \in S /\ \A x \in S : length <= x /\ x \in Int
    BY <1>2, <2>1
  <2>3. \A x \in S : (\A y \in S : x <= y) => x = length
    BY <2>2
  <2>4. Min(S) = length
    <3> HIDE DEF S
    <3> QED BY <2>2, <2>3 DEF Min
  <2> QED BY <2>4
<1>6. ASSUME NEW i \in 1..horizon
      PROVE  LET p == Points(rows, frame)[i]
             IN  /\ p.period = Max(rows) + i /\ p.period \in Int
                 /\ p.lower \in Nat /\ p.mean \in Nat /\ p.upper \in Nat
                 /\ p.lower <= p.mean /\ p.mean <= p.upper
  <2>1. Points(rows, frame)[i] =
          [period |-> a + length + i - 1, mean |-> Shown(frame[i].mean),
           lower |-> Shown(frame[i].lower), upper |-> Shown(frame[i].upper)]
    BY <1>3, <1>4, <1>5 DEF Points
  <2>2. {frame[i].mean, frame[i].lower, frame[i].upper} \subseteq Int
    BY <1>1
  <2>3. /\ Shown(frame[i].lower) \in Nat /\ Shown(frame[i].mean) \in Nat
        /\ Shown(frame[i].upper) \in Nat
        /\ Shown(frame[i].lower) <= Shown(frame[i].mean)
        /\ Shown(frame[i].mean) <= Shown(frame[i].upper)
    BY <1>1, <2>2, ShownIsMonotone
  <2>4. a + length + i - 1 = b + i /\ b + i \in Int
    BY <1>4
  <2> QED BY <1>4, <2>1, <2>3, <2>4
<1>7. DOMAIN Points(rows, frame) = 1..horizon
  BY <1>3 DEF Points
<1> QED BY <1>2, <1>6, <1>7

-----------------------------------------------------------------------------
(* The ranking of cleanest_hour                                            *)

Before(points, i) ==
  {j \in DOMAIN points :
     \/ points[j].mean < points[i].mean
     \/ points[j].mean = points[i].mean /\ j <= i}

IsRankable(points, n) ==
  DOMAIN points = 1..n /\ \A i \in 1..n : points[i].mean \in Nat

(* Of two points, one comes after the other and all that come before it.   *)
LEMMA PlacesDiffer ==
  ASSUME NEW n \in Nat, NEW points, IsRankable(points, n), NEW i \in 1..n, NEW j \in 1..n
  PROVE  /\ Place(points, i) \in 1..n
         /\ j \in Before(points, i) \/ i \in Before(points, j)
         /\ i # j /\ j \in Before(points, i) => Place(points, j) < Place(points, i)
<1> DEFINE mean(k) == points[k].mean
<1>1. DOMAIN points = 1..n /\ \A k \in 1..n : mean(k) \in Nat
  BY DEF IsRankable
<1>2. \A k, l : l \in Before(points, k) <=>
                /\ l \in 1..n
                /\ mean(l) < mean(k) \/ (mean(l) = mean(k) /\ l <= k)
  BY <1>1 DEF Before
<1>3. \A k : Place(points, k) = Cardinality(Before(points, k))
  BY DEF Place, Before
<1> HIDE DEF mean
<1>4. IsFiniteSet(1..n) /\ Cardinality(1..n) = n
  BY FS_Interval
<1>5. ASSUME NEW k \in 1..n
      PROVE  /\ IsFiniteSet(Before(points, k)) /\ Place(points, k) \in Nat
             /\ Place(points, k) <= n
  <2>1. Before(points, k) \in SUBSET (1..n)
    BY <1>2
  <2> QED BY <1>3, <1>4, <2>1, CountIsNatural
<1>6. Place(points, i) \in 1..n
  <2>1. i \in Before(points, i)
    BY <1>1, <1>2
  <2>2. Cardinality(Before(points, i)) # 0
    BY <1>5, <2>1, FS_EmptySet
  <2> QED BY <1>3, <1>5, <2>2
<1>7. j \in Before(points, i) \/ i \in Before(points, j)
  BY <1>1, <1>2
<1>8. ASSUME i # j, j \in Before(points, i)
      PROVE  Place(points, j) < Place(points, i)
  <2>1. Before(points, j) \in SUBSET Before(points, i)
    <3>1. SUFFICES ASSUME NEW k \in Before(points, j) PROVE k \in Before(points, i)
      OBVIOUS
    <3>2. k \in 1..n /\ mean(k) \in Nat /\ mean(j) \in Nat /\ mean(i) \in Nat
      BY <1>1, <1>2, <3>1
    <3> QED BY <1>2, <1>8, <3>1, <3>2
  <2>2. i \notin Before(points, j)
    <3>1. mean(j) \in Nat /\ mean(i) \in Nat
      BY <1>1
    <3> QED BY <1>2, <1>8, <3>1
  <2>3. i \in Before(points, i)
    BY <1>1, <1>2
  <2>4. /\ Cardinality(Before(points, j)) <= Cardinality(Before(points, i))
        /\ Cardinality(Before(points, j)) # Cardinality(Before(points, i))
    BY <1>5, <2>1, <2>2, <2>3, FS_Subset
  <2>5. Cardinality(Before(points, j)) \in Nat /\ Cardinality(Before(points, i)) \in Nat
    BY <1>3, <1>5
  <2> QED BY <1>3, <2>4, <2>5
<1> QED BY <1>6, <1>7, <1>8

(* So every place is taken, by one point.                                  *)
LEMMA RankedAtPlace ==
  ASSUME NEW n \in Nat, NEW points, IsRankable(points, n)
  PROVE  /\ DOMAIN RankedPoints(points) = 1..n
         /\ \A k \in 1..n : \E i \in 1..n : /\ Place(points, i) = k
                                            /\ RankedPoints(points)[k] = points[i]
         /\ \A i \in 1..n : /\ Place(points, i) \in 1..n
                            /\ RankedPoints(points)[Place(points, i)] = points[i]
<1> DEFINE D == 1..n
           place == [i \in D |-> Place(points, i)]
           places == {<<Place(points, i), i>> : i \in D}
           at(k) == CHOOSE a \in places : a[1] = k
<1>1. \A i \in D : Place(points, i) \in D
  BY PlacesDiffer
<1>2. ASSUME NEW i \in D, NEW j \in D, Place(points, i) = Place(points, j), i # j
      PROVE  FALSE
  <2>1. Place(points, i) < Place(points, j) \/ Place(points, j) < Place(points, i)
    BY <1>2, PlacesDiffer
  <2>2. Place(points, i) \in Nat /\ Place(points, j) \in Nat
    BY <1>1
  <2> QED BY <1>2, <2>1, <2>2
<1>3. \A k \in D : \E i \in D : Place(points, i) = k
  <2>1. place \in Injection(D, D)
    BY <1>1, <1>2 DEF Injection, IsInjective
  <2>2. IsFiniteSet(D)
    BY FS_Interval
  <2>3. place \in Surjection(D, D)
    <3> HIDE DEF place, D
    <3> QED BY <2>1, <2>2, FS_Injection
  <2> QED BY <2>3 DEF Surjection
<1>4. ASSUME NEW k \in D
      PROVE  \E i \in D : Place(points, i) = k /\ at(k) = <<k, i>>
  <2>1. PICK i \in D : Place(points, i) = k
    BY <1>3
  <2>2. <<k, i>> \in places
    BY <2>1
  <2>3. at(k) \in places /\ at(k)[1] = k
    <3>1. \E a \in places : a[1] = k
      BY <2>2
    <3> HIDE DEF places
    <3> QED BY <3>1
  <2>4. PICK j \in D : at(k) = <<Place(points, j), j>>
    BY <2>3
  <2> HIDE DEF at
  <2>5. Place(points, j) = k
    BY <2>3, <2>4
  <2> QED BY <2>4, <2>5
<1>5. RankedPoints(points) = [k \in D |-> points[at(k)[2]]]
  BY DEF RankedPoints, IsRankable
<1> HIDE DEF at
<1>6. ASSUME NEW k \in D
      PROVE  \E i \in D : Place(points, i) = k /\ RankedPoints(points)[k] = points[i]
  <2>1. PICK i \in D : Place(points, i) = k /\ at(k) = <<k, i>>
    BY <1>4
  <2>2. at(k)[2] = i
    BY <2>1
  <2> QED BY <1>5, <2>1, <2>2
<1>7. ASSUME NEW i \in D
      PROVE  RankedPoints(points)[Place(points, i)] = points[i]
  <2>1. PICK j \in D : /\ Place(points, j) = Place(points, i)
                       /\ RankedPoints(points)[Place(points, i)] = points[j]
    BY <1>1, <1>6
  <2>2. j = i
    BY <1>2, <2>1
  <2> QED BY <2>1, <2>2
<1>8. DOMAIN RankedPoints(points) = D
  BY <1>5
<1> QED BY <1>1, <1>6, <1>7, <1>8

(* The first is the earliest of the cleanest, the last is one of the       *)
(* dirtiest, and they are the points in another order.                     *)
LEMMA RankedExtremes ==
  ASSUME NEW n \in Nat \ {0}, NEW points, IsRankable(points, n)
  PROVE  LET ranked == RankedPoints(points)
         IN  /\ Len(ranked) = n /\ ToSet(ranked) = ToSet(points)
             /\ \E first \in 1..n :
                  /\ ranked[1] = points[first]
                  /\ \A i \in 1..n : /\ points[first].mean <= points[i].mean
                                     /\ points[first].mean = points[i].mean => first <= i
             /\ \E last \in 1..n :
                  /\ ranked[n] = points[last]
                  /\ \A i \in 1..n : points[i].mean <= points[last].mean
<1> DEFINE ranked == RankedPoints(points)
<1>1. /\ DOMAIN ranked = 1..n
      /\ \A k \in 1..n : \E i \in 1..n : Place(points, i) = k /\ ranked[k] = points[i]
      /\ \A i \in 1..n : Place(points, i) \in 1..n /\ ranked[Place(points, i)] = points[i]
  BY RankedAtPlace
<1> HIDE DEF ranked
<1>2. DOMAIN points = 1..n /\ \A i \in 1..n : points[i].mean \in Nat
  BY DEF IsRankable
<1>3. Len(ranked) = n
  BY <1>1
<1>4. ToSet(ranked) = ToSet(points)
  <2>1. ASSUME NEW k \in 1..n PROVE \E i \in 1..n : ranked[k] = points[i]
    BY <1>1
  <2>2. ASSUME NEW i \in 1..n PROVE \E k \in 1..n : points[i] = ranked[k]
    <3>1. Place(points, i) \in 1..n /\ ranked[Place(points, i)] = points[i]
      BY <1>1
    <3> QED BY <3>1
  <2>3. ToSet(ranked) = {ranked[k] : k \in 1..n} /\ ToSet(points) = {points[i] : i \in 1..n}
    BY <1>1, <1>2 DEF ToSet
  <2> QED BY <2>1, <2>2, <2>3
<1>5. PICK first \in 1..n : Place(points, first) = 1 /\ ranked[1] = points[first]
  BY <1>1
<1>6. PICK last \in 1..n : Place(points, last) = n /\ ranked[n] = points[last]
  BY <1>1
<1>7. ASSUME NEW i \in 1..n
      PROVE  first \in Before(points, i) /\ i \in Before(points, last)
  <2>1. Place(points, i) \in 1..n
    BY <1>1
  <2>2. i # first => first \in Before(points, i)
    <3>1. i # first /\ i \in Before(points, first) => Place(points, i) < 1
      BY <1>5, PlacesDiffer
    <3>2. first \in Before(points, i) \/ i \in Before(points, first)
      BY PlacesDiffer
    <3> QED BY <2>1, <3>1, <3>2
  <2>3. i # last => i \in Before(points, last)
    <3>1. i # last /\ last \in Before(points, i) => n < Place(points, i)
      BY <1>6, PlacesDiffer
    <3>2. last \in Before(points, i) \/ i \in Before(points, last)
      BY PlacesDiffer
    <3> QED BY <2>1, <3>1, <3>2
  <2>4. first \in Before(points, first) /\ last \in Before(points, last)
    BY PlacesDiffer
  <2> QED BY <2>2, <2>3, <2>4
<1>8. ASSUME NEW i \in 1..n
      PROVE  /\ points[first].mean <= points[i].mean
             /\ points[first].mean = points[i].mean => first <= i
             /\ points[i].mean <= points[last].mean
  <2>1. /\ points[first].mean \in Nat /\ points[i].mean \in Nat
        /\ points[last].mean \in Nat
    BY <1>2
  <2> QED BY <1>7, <2>1 DEF Before
<1> QED BY <1>3, <1>4, <1>5, <1>6, <1>8 DEF ranked

LEMMA ForecastInvariant == IInv => ForecastIsUsable
<1> SUFFICES ASSUME IInv, query.kind = "forecast", answer.status = "200",
                    answer.forecast.status = "200"
             PROVE  ForecastIsUsable
  BY DEF ForecastIsUsable, Answered
<1>1. ForecastAnswered
  BY DEF IInv, ResolveAnswered, SavingsAnswered, InsightsAnswered, ForecastAnswered,
         MatchAnswered
<1>2. \E rows \in Ingested, horizon \in Horizon :
        /\ query = [kind |-> "forecast", rows |-> rows, horizon |-> horizon]
        /\ \E frame \in Frames(horizon) :
             answer = [status |-> "200",
                       forecast |-> ForecastOf(rows, horizon, frame),
                       cleanest |-> CleanestHour(rows, frame)]
  <2>1. answer # Pending
    BY DEF Pending
  <2> QED BY <1>1, <2>1 DEF ForecastAnswered
<1> SUFFICES ASSUME NEW rows \in Ingested, NEW horizon \in Horizon,
                    NEW frame \in Frames(horizon),
                    query = [kind |-> "forecast", rows |-> rows, horizon |-> horizon],
                    answer = [status |-> "200",
                              forecast |-> ForecastOf(rows, horizon, frame),
                              cleanest |-> CleanestHour(rows, frame)]
             PROVE  ForecastIsUsable
  BY <1>2
<1> DEFINE f == answer.forecast
           c == answer.cleanest
           points == Points(rows, frame)
           ranked == RankedPoints(points)
           length == SeriesLength(rows)
<1>3. f = ForecastOf(rows, horizon, frame) /\ c = CleanestHour(rows, frame)
      /\ query.horizon = horizon
  OBVIOUS
<1>4. Enough(rows)
  <2>1. f.status = "200"
    OBVIOUS
  <2> HIDE DEF f
  <2> QED BY <1>3, <2>1 DEF ForecastOf
<1>5. /\ f.trainedThrough = Max(rows) /\ f.backtest = Backtest(length, horizon)
      /\ f.points = points
  <2> HIDE DEF f
  <2>1. f = [status |-> "200", trainedThrough |-> Max(rows),
             backtest |-> Backtest(length, horizon), points |-> points]
    BY <1>3, <1>4 DEF ForecastOf
  <2> HIDE DEF points, length
  <2> QED BY <2>1
<1>6. /\ c.ranked = ranked /\ c.cleanest = ranked[1] /\ c.dirtiest = ranked[Len(ranked)]
      /\ c.pct = PotentialSavings(ranked[1], ranked[Len(ranked)])
  <2> HIDE DEF c
  <2>1. c = [status |-> "200", ranked |-> ranked, cleanest |-> ranked[1],
             dirtiest |-> ranked[Len(ranked)],
             pct |-> PotentialSavings(ranked[1], ranked[Len(ranked)])]
    BY <1>3, <1>4 DEF CleanestHour, Last
  <2> HIDE DEF ranked
  <2> QED BY <2>1
<1> HIDE DEF f, c, ranked
<1>7. /\ horizon \in Nat \ {0} /\ DOMAIN points = 1..horizon
      /\ \A i \in 1..horizon :
           /\ points[i].period = Max(rows) + i
           /\ points[i].lower \in Nat /\ points[i].mean \in Nat /\ points[i].upper \in Nat
           /\ points[i].lower <= points[i].mean /\ points[i].mean <= points[i].upper
  BY <1>4, PointsFollowRows
<1>8. length \in Nat /\ length >= MinHistory /\ Max(rows) \in Int
  BY <1>4, SeriesIsLong
<1> HIDE DEF points, length
<1>9. /\ f.backtest.train >= 2 * Season
      /\ f.backtest.predicted = f.backtest.actual /\ f.backtest.holdout > 0
  BY <1>5, <1>7, <1>8, BacktestIsAligned
<1>10. /\ Len(ranked) = horizon /\ ToSet(ranked) = ToSet(points)
       /\ \E first \in 1..horizon :
            /\ ranked[1] = points[first]
            /\ \A i \in 1..horizon :
                 /\ points[first].mean <= points[i].mean
                 /\ points[first].mean = points[i].mean => first <= i
       /\ \E last \in 1..horizon :
            /\ ranked[horizon] = points[last]
            /\ \A i \in 1..horizon : points[i].mean <= points[last].mean
  <2>1. IsRankable(points, horizon)
    BY <1>7 DEF IsRankable
  <2> QED BY <1>7, <2>1, RankedExtremes DEF ranked
<1>11. PICK first \in 1..horizon :
         /\ c.cleanest = points[first]
         /\ \A i \in 1..horizon : /\ points[first].mean <= points[i].mean
                                  /\ points[first].mean = points[i].mean => first <= i
  BY <1>6, <1>10
<1>12. PICK last \in 1..horizon :
         /\ c.dirtiest = points[last]
         /\ \A i \in 1..horizon : points[i].mean <= points[last].mean
  BY <1>6, <1>10
<1>13. Len(f.points) = horizon /\ DOMAIN f.points = 1..horizon
  BY <1>5, <1>7
<1>14. ASSUME NEW i \in 1..horizon
       PROVE  /\ f.points[i].period = f.trainedThrough + i
              /\ 0 <= f.points[i].lower
              /\ f.points[i].lower <= f.points[i].mean /\ f.points[i].mean <= f.points[i].upper
              /\ c.cleanest.mean <= f.points[i].mean /\ f.points[i].mean <= c.dirtiest.mean
              /\ f.points[i].mean = c.cleanest.mean => c.cleanest.period <= f.points[i].period
  <2>1. points[first].period = Max(rows) + first /\ points[i].period = Max(rows) + i
    BY <1>7
  <2>2. first <= i => points[first].period <= points[i].period
    BY <1>8, <2>1
  <2> QED BY <1>5, <1>7, <1>11, <1>12, <2>2
<1>15. ToSet(c.ranked) = ToSet(f.points) /\ Len(c.ranked) = Len(f.points)
  BY <1>5, <1>6, <1>10, <1>13
<1>16. c.pct \in 0..1000
  <2>1. PICK a \in Nat, b \in Nat :
          a = c.cleanest.mean /\ b = c.dirtiest.mean /\ a <= b
    BY <1>7, <1>11, <1>12
  <2>2. c.pct = IF b > 0 THEN RoundDiv(1000 * (b - a), b) ELSE 0
    BY <1>6, <2>1 DEF PotentialSavings
  <2>3. CASE b > 0
    <3>1. PICK part \in Nat : part = b - a /\ part <= b
      BY <2>1
    <3>2. b \in Nat \ {0} /\ part <= b
      BY <2>3, <3>1
    <3>3. RoundDiv(1000 * part, b) \in 0..1000
      BY <3>2, RoundShare
    <3> QED BY <2>2, <2>3, <3>1, <3>3
  <2>4. CASE ~(b > 0)
    BY <2>2, <2>4
  <2> QED BY <2>3, <2>4
<1> QED BY <1>3, <1>9, <1>13, <1>14, <1>15, <1>16 DEF ForecastIsUsable, f, c

(* A forecast is usable for every series that is long enough, every        *)
(* horizon and everything the model may predict: it can be fitted and      *)
(* tested, its points are the hours after the last row, and the cleanest   *)
(* hour is the earliest of the cleanest of them (forecast.py:47-59, 76-81, *)
(* 101-110, 178-195).                                                      *)
THEOREM ForecastUsable == Spec => []ForecastIsUsable
BY Inductive, ForecastInvariant, PTL

-----------------------------------------------------------------------------
(* The execution match: the states the loop over the expected rows goes    *)
(* through, and the pairing it builds                                      *)

LEMMA StepsReach ==
  ASSUME NEW n \in Nat, NEW Good, 0 \in Good,
         \A k \in 0..(n - 1) : k \in Good => k + 1 \in Good
  PROVE  0..n \subseteq Good
<1> DEFINE Bad == {k \in 0..n : k \notin Good}
<1> SUFFICES ASSUME Bad # {} PROVE FALSE
  OBVIOUS
<1>1. IsFiniteSet(Bad) /\ Bad \subseteq Int
  <2>1. IsFiniteSet(0..n) /\ Bad \in SUBSET (0..n) /\ Bad \subseteq Int
    BY FS_Interval
  <2> HIDE DEF Bad
  <2> QED BY <2>1, FS_Subset
<1>2. Min(Bad) \in Bad /\ \A k \in Bad : Min(Bad) <= k
  <2> HIDE DEF Bad
  <2> QED BY <1>1, ExtremesExist
<1>3. PICK k \in 0..n : k = Min(Bad) /\ k \notin Good
  BY <1>2
<1>4. k # 0 /\ k - 1 \in 0..(n - 1)
  BY <1>3
<1>5. k - 1 \in Good
  <2>1. ~(k <= k - 1) /\ k - 1 \in 0..n
    BY <1>4
  <2>2. k - 1 \notin Bad
    BY <1>2, <1>3, <2>1
  <2> QED BY <2>1, <2>2
<1>6. (k - 1) + 1 = k
  BY <1>3
<1> QED BY <1>3, <1>4, <1>5, <1>6

IsResult(s) == s \in Seq(ToSet(s))

LEMMA ResultRows ==
  ASSUME NEW s, IsResult(s)
  PROVE  Len(s) \in Nat /\ DOMAIN s = 1..Len(s) /\ IsFiniteSet(1..Len(s))
<1>1. PICK S : s \in Seq(S)
  BY DEF IsResult
<1>2. Len(s) \in Nat /\ DOMAIN s = 1..Len(s)
  BY <1>1
<1> QED BY <1>2, FS_Interval

(* The states of the loop: whether all rows so far matched, and used.      *)
LoopState(got) == [ok : BOOLEAN, used : SUBSET DOMAIN got]
LoopStart == [ok |-> TRUE, used |-> {}]

LEMMA FreeRows ==
  ASSUME NEW got, IsResult(got), NEW used, NEW row, Free(got, used, row) # {}
  PROVE  LET j == Min(Free(got, used, row))
         IN  j \in DOMAIN got /\ j \notin used /\ row \subseteq got[j]
<1> DEFINE S == Free(got, used, row)
<1>1. S \in SUBSET (1..Len(got)) /\ IsFiniteSet(1..Len(got)) /\ Len(got) \in Nat
  BY ResultRows DEF Free
<1>2. IsFiniteSet(S) /\ S \subseteq Int
  <2>1. S \subseteq Int
    BY <1>1
  <2> HIDE DEF S
  <2> QED BY <1>1, <2>1, FS_Subset
<1>3. Min(S) \in S
  <2> HIDE DEF S
  <2>1. S # {}
    BY DEF S
  <2> QED BY <1>2, <2>1, ExtremesExist
<1> QED BY <1>3 DEF Free

LEMMA TakeTyped ==
  ASSUME NEW got, IsResult(got), NEW state \in LoopState(got), NEW row
  PROVE  Take(got, state, row) \in LoopState(got)
<1>1. state.used \in SUBSET DOMAIN got /\ state.ok \in BOOLEAN
  BY DEF LoopState
<1>2. CASE state.ok /\ Free(got, state.used, row) # {}
  <2>1. Min(Free(got, state.used, row)) \in DOMAIN got
    BY <1>2, FreeRows
  <2> QED BY <1>1, <1>2, <2>1 DEF Take, Taken, LoopState
<1>3. CASE ~(state.ok /\ Free(got, state.used, row) # {})
  BY <1>1, <1>3 DEF Take, LoopState
<1> QED BY <1>2, <1>3

IsLoop(got, expected, it) ==
  it = [S \in SUBSET DOMAIN expected |->
          IF S = {} THEN LoopStart ELSE Take(got, it[S \ {Max(S)}], expected[Max(S)])]

TheLoop(got, expected) == CHOOSE it : IsLoop(got, expected, it)

LEMMA LoopExists ==
  ASSUME NEW got, NEW expected, IsResult(got), IsResult(expected)
  PROVE  LET loop == TheLoop(got, expected)
         IN  /\ IsLoop(got, expected, loop)
             /\ Matches(got, expected) <=>
                  Len(got) = Len(expected) /\ loop[DOMAIN expected].ok
<1> DEFINE D == DOMAIN expected
           V == LoopState(got)
           pick == [S \in SUBSET D |-> Max(S)]
           step == [p \in D \X V |-> Take(got, p[2], expected[p[1]])]
<1>1. \A S \in SUBSET D : S # {} => pick[S] \in S
  <2>1. IsFiniteSet(D) /\ D \subseteq Int
    BY ResultRows
  <2>2. ASSUME NEW S \in SUBSET D, S # {} PROVE Max(S) \in S
    <3>1. IsFiniteSet(S) /\ S \subseteq Int
      BY <2>1, FS_Subset
    <3> QED BY <2>2, <3>1, ExtremesExist
  <2> QED BY <2>2
<1>2. IsFiniteSet(D)
  BY ResultRows
<1>3. step \in [D \X V -> V] /\ LoopStart \in V
  <2>1. \A p \in D \X V : Take(got, p[2], expected[p[1]]) \in V
    <3>1. ASSUME NEW p \in D \X V PROVE Take(got, p[2], expected[p[1]]) \in V
      <4>1. p[2] \in LoopState(got)
        OBVIOUS
      <4> QED BY <4>1, TakeTyped
    <3> QED BY <3>1
  <2> HIDE DEF V
  <2>2. step \in [D \X V -> V]
    BY <2>1
  <2> QED BY <2>2 DEF V, LoopState, LoopStart
<1>4. \A x \in D : \A y \in V : step[<<x, y>>] = Take(got, y, expected[x])
  <2> HIDE DEF V
  <2> QED OBVIOUS
<1> HIDE DEF step, V
<1>5. PICK it \in [SUBSET D -> V] : IsFold(step, LoopStart, pick, D, it)
  <2> HIDE DEF pick, D
  <2> QED BY <1>1, <1>2, <1>3, TypedFoldExists
<1>6. it = [S \in SUBSET D |->
              IF S = {} THEN LoopStart ELSE Take(got, it[S \ {Max(S)}], expected[Max(S)])]
  <2> DEFINE next == [S \in SUBSET D |->
                        IF S = {} THEN LoopStart
                        ELSE Take(got, it[S \ {Max(S)}], expected[Max(S)])]
  <2>1. ASSUME NEW S \in SUBSET D PROVE it[S] = next[S]
    <3>1. it[S] = (IF S = {} THEN LoopStart ELSE step[<<pick[S], it[S \ {pick[S]}]>>])
      <4> HIDE DEF pick
      <4> QED BY <1>5, Zenon DEF IsFold
    <3>2. ASSUME S # {}
          PROVE  step[<<pick[S], it[S \ {pick[S]}]>>] =
                   Take(got, it[S \ {Max(S)}], expected[Max(S)])
      <4>1. pick[S] = Max(S) /\ pick[S] \in D /\ it[S \ {pick[S]}] \in V
        BY <1>1, <1>5, <3>2
      <4> HIDE DEF pick
      <4> QED BY <1>4, <4>1
    <3> HIDE DEF pick
    <3> QED BY <3>1, <3>2
  <2> QED BY <1>5, <2>1
<1>7. IsLoop(got, expected, it)
  BY <1>6, Zenon DEF IsLoop
<1>8. IsLoop(got, expected, TheLoop(got, expected))
  BY <1>7, Zenon DEF TheLoop
<1>9. Matches(got, expected) <=>
        Len(got) = Len(expected) /\ TheLoop(got, expected)[D].ok
  BY Zenon DEF Matches, FoldLeft, MapThenFoldSet, TheLoop, IsLoop, LoopStart
<1> QED BY <1>8, <1>9

(* The loop, row by row.                                                   *)
LEMMA LoopSteps ==
  ASSUME NEW got, NEW expected, IsResult(got), IsResult(expected)
  PROVE  \E state \in [0..Len(expected) -> LoopState(got)] :
           /\ state[0] = LoopStart
           /\ \A k \in 1..Len(expected) :
                state[k] = Take(got, state[k - 1], expected[k])
           /\ Matches(got, expected) <=>
                Len(got) = Len(expected) /\ state[Len(expected)].ok
<1> DEFINE n == Len(expected)
           loop == TheLoop(got, expected)
           state == [k \in 0..n |-> loop[1..k]]
           Good == {k \in 0..n : state[k] \in LoopState(got)}
<1>1. n \in Nat /\ DOMAIN expected = 1..n
  BY ResultRows
<1>2. /\ IsLoop(got, expected, loop)
      /\ Matches(got, expected) <=> Len(got) = n /\ loop[1..n].ok
  BY <1>1, LoopExists
<1> HIDE DEF n, loop
<1>3. ASSUME NEW S \in SUBSET (1..n)
      PROVE  loop[S] = IF S = {} THEN LoopStart
                       ELSE Take(got, loop[S \ {Max(S)}], expected[Max(S)])
  BY <1>1, <1>2, Zenon DEF IsLoop
<1>4. state[0] = LoopStart
  <2>1. 1..0 = {} /\ 1..0 \in SUBSET (1..n) /\ 0 \in 0..n
    BY <1>1
  <2> QED BY <1>3, <2>1
<1>5. ASSUME NEW k \in 1..n
      PROVE  state[k] = Take(got, state[k - 1], expected[k])
  <2> DEFINE S == 1..k
  <2>1. S \in SUBSET (1..n) /\ S # {} /\ k \in S /\ \A x \in S : x \in Int /\ x <= k
    BY <1>1
  <2>2. Max(S) = k
    <3>1. \A x \in S : (\A y \in S : x >= y) => x = k
      BY <2>1
    <3>2. \A y \in S : k >= y
      BY <2>1
    <3> HIDE DEF S
    <3> QED BY <2>1, <3>1, <3>2 DEF Max
  <2>3. S \ {k} = 1..(k - 1) /\ k \in 0..n /\ k - 1 \in 0..n
    BY <1>1
  <2>4. loop[S] = Take(got, loop[S \ {Max(S)}], expected[Max(S)])
    <3> HIDE DEF S
    <3> QED BY <1>3, <2>1
  <2> QED BY <2>2, <2>3, <2>4
<1>6. 0 \in Good
  <2>1. LoopStart \in LoopState(got) /\ 0 \in 0..n
    BY <1>1 DEF LoopStart, LoopState
  <2> HIDE DEF state
  <2> QED BY <1>4, <2>1
<1> HIDE DEF state
<1>7. ASSUME NEW k \in 0..(n - 1), k \in Good
      PROVE  k + 1 \in Good
  <2>1. k + 1 \in 1..n /\ k + 1 \in 0..n /\ (k + 1) - 1 = k
    BY <1>1
  <2>2. state[k + 1] = Take(got, state[k], expected[k + 1])
    BY <1>5, <2>1
  <2>3. state[k + 1] \in LoopState(got)
    BY <1>7, <2>2, TakeTyped
  <2> QED BY <2>1, <2>3
<1>8. 0..n \subseteq Good
  <2> HIDE DEF Good
  <2> QED BY <1>1, <1>6, <1>7, StepsReach
<1>9. state \in [0..n -> LoopState(got)]
  <2>1. \A k \in 0..n : state[k] \in LoopState(got)
    BY <1>8
  <2>2. state = [k \in 0..n |-> state[k]]
    BY DEF state
  <2> QED BY <2>1, <2>2
<1>10. state[n] = loop[1..n]
  BY <1>1 DEF state
<1> QED BY <1>2, <1>4, <1>5, <1>9, <1>10 DEF n

(* The rows taken so far, each for the expected row with its number.       *)
IsPairing(got, expected, k, used, m) ==
  /\ m \in [1..k -> DOMAIN got]
  /\ \A i \in 1..k : expected[i] \subseteq got[m[i]]
  /\ \A i, j \in 1..k : m[i] = m[j] => i = j
  /\ used = {m[i] : i \in 1..k}

LEMMA LoopPairs ==
  ASSUME NEW got, NEW expected, IsResult(got), IsResult(expected),
         NEW state \in [0..Len(expected) -> LoopState(got)], state[0] = LoopStart,
         \A k \in 1..Len(expected) : state[k] = Take(got, state[k - 1], expected[k])
  PROVE  \A k \in 0..Len(expected) :
           state[k].ok => \E m : IsPairing(got, expected, k, state[k].used, m)
<1> DEFINE n == Len(expected)
           Good == {k \in 0..n :
                      state[k].ok => \E m : IsPairing(got, expected, k, state[k].used, m)}
<1>1. n \in Nat
  BY ResultRows
<1> HIDE DEF n
<1>2. 0 \in Good
  <2> DEFINE m == [i \in 1..0 |-> i]
  <2>1. 1..0 = {} /\ 0 \in 0..n /\ state[0].used = {}
    BY <1>1 DEF LoopStart
  <2>2. IsPairing(got, expected, 0, state[0].used, m)
    BY <2>1 DEF IsPairing
  <2> HIDE DEF m
  <2> QED BY <2>1, <2>2
<1>3. ASSUME NEW k \in 0..(n - 1), k \in Good
      PROVE  k + 1 \in Good
  <2>1. k + 1 \in 1..n /\ k + 1 \in 0..n /\ (k + 1) - 1 = k /\ k \in Nat
    BY <1>1
  <2> SUFFICES ASSUME state[k + 1].ok
               PROVE  \E m : IsPairing(got, expected, k + 1, state[k + 1].used, m)
    BY <2>1
  <2> DEFINE row == expected[k + 1]
             used == state[k].used
             j == Min(Free(got, used, row))
  <2>2. state[k + 1] = Take(got, state[k], row)
    <3>1. state[k + 1] = Take(got, state[(k + 1) - 1], expected[k + 1])
      BY <2>1 DEF n
    <3> QED BY <2>1, <3>1
  <2>3. state[k].ok /\ Free(got, used, row) # {} /\ state[k + 1].used = used \cup {j}
    BY <2>2 DEF Take, Taken
  <2>4. j \in DOMAIN got /\ j \notin used /\ row \subseteq got[j]
    <3> HIDE DEF used, row
    <3> QED BY <2>3, FreeRows
  <2>5. PICK m : IsPairing(got, expected, k, used, m)
    BY <1>3, <2>3
  <2> HIDE DEF j, used
  <2> DEFINE longer == [i \in 1..(k + 1) |-> IF i = k + 1 THEN j ELSE m[i]]
  <2>6. \A i \in 1..(k + 1) : i = k + 1 \/ i \in 1..k
    BY <2>1
  <2>7. k + 1 \notin 1..k /\ 1..(k + 1) = 1..k \cup {k + 1}
    BY <2>1
  <2>8. longer[k + 1] = j /\ \A i \in 1..k : longer[i] = m[i]
    BY <2>7
  <2>9. longer \in [1..(k + 1) -> DOMAIN got]
    BY <2>4, <2>5, <2>6 DEF IsPairing
  <2> HIDE DEF longer
  <2>10. ASSUME NEW i \in 1..(k + 1) PROVE expected[i] \subseteq got[longer[i]]
    <3>1. CASE i = k + 1
      BY <2>4, <2>8, <3>1
    <3>2. CASE i \in 1..k
      BY <2>5, <2>8, <3>2 DEF IsPairing
    <3> QED BY <2>6, <3>1, <3>2
  <2>11. ASSUME NEW i \in 1..(k + 1), NEW l \in 1..(k + 1), longer[i] = longer[l]
         PROVE  i = l
    <3>1. \A x \in 1..k : longer[x] # j
      BY <2>4, <2>5, <2>8 DEF IsPairing
    <3>2. CASE i \in 1..k /\ l \in 1..k
      BY <2>5, <2>8, <2>11, <3>2 DEF IsPairing
    <3>3. CASE i = k + 1 \/ l = k + 1
      BY <2>6, <2>8, <2>11, <3>1, <3>3
    <3> QED BY <2>6, <3>2, <3>3
  <2>12. state[k + 1].used = {longer[i] : i \in 1..(k + 1)}
    <3>1. {longer[i] : i \in 1..(k + 1)} = {longer[i] : i \in 1..k} \cup {longer[k + 1]}
      BY <2>7
    <3>2. {longer[i] : i \in 1..k} = {m[i] : i \in 1..k}
      BY <2>8
    <3> QED BY <2>3, <2>5, <2>8, <3>1, <3>2 DEF IsPairing
  <2>13. IsPairing(got, expected, k + 1, state[k + 1].used, longer)
    BY <2>9, <2>10, <2>11, <2>12 DEF IsPairing
  <2> QED BY <2>13
<1>4. 0..n \subseteq Good
  <2> HIDE DEF Good
  <2> QED BY <1>1, <1>2, <1>3, StepsReach
<1> QED BY <1>4 DEF n

(* A match has given every expected row a row of its own ...               *)
LEMMA MatchPairs ==
  ASSUME NEW got, NEW expected, IsResult(got), IsResult(expected), Matches(got, expected)
  PROVE  Paired(got, expected)
<1> DEFINE n == Len(expected)
<1>1. n \in Nat /\ DOMAIN expected = 1..n
  BY ResultRows
<1>2. PICK state \in [0..n -> LoopState(got)] :
        /\ state[0] = LoopStart
        /\ \A k \in 1..n : state[k] = Take(got, state[k - 1], expected[k])
        /\ Matches(got, expected) <=> Len(got) = n /\ state[n].ok
  BY LoopSteps
<1>3. \A k \in 0..n : state[k].ok => \E m : IsPairing(got, expected, k, state[k].used, m)
  BY <1>2, LoopPairs
<1>4. PICK m : IsPairing(got, expected, n, state[n].used, m)
  <2>1. n \in 0..n /\ state[n].ok
    BY <1>1, <1>2
  <2> QED BY <1>3, <2>1
<1>5. m \in Injection(DOMAIN expected, DOMAIN got)
  <2> HIDE DEF n
  <2> QED BY <1>1, <1>4 DEF IsPairing, Injection, IsInjective
<1>6. \A i \in DOMAIN expected : expected[i] \subseteq got[m[i]]
  <2> HIDE DEF n
  <2> QED BY <1>1, <1>4 DEF IsPairing
<1> QED BY <1>2, <1>5, <1>6 DEF Paired

(* ... and where a row that has the values of an expected row has no       *)
(* others, the loop fails only if there is no pairing: of the rows equal   *)
(* to the one it has no row left for, more are expected than there are.    *)
LEMMA NoPairingOverlooked ==
  ASSUME NEW got, NEW expected, IsResult(got), IsResult(expected), Paired(got, expected),
         \A i \in DOMAIN expected, j \in DOMAIN got :
           expected[i] \subseteq got[j] => expected[i] = got[j]
  PROVE  Matches(got, expected)
<1> DEFINE n == Len(expected)
<1>1. n \in Nat /\ DOMAIN expected = 1..n /\ IsFiniteSet(DOMAIN got) /\ IsFiniteSet(1..n)
  BY ResultRows
<1>2. PICK p \in Injection(DOMAIN expected, DOMAIN got) :
        \A i \in DOMAIN expected : expected[i] \subseteq got[p[i]]
  BY DEF Paired
<1>3. Len(got) = n
  BY DEF Paired
<1>4. PICK state \in [0..n -> LoopState(got)] :
        /\ state[0] = LoopStart
        /\ \A k \in 1..n : state[k] = Take(got, state[k - 1], expected[k])
        /\ Matches(got, expected) <=> Len(got) = n /\ state[n].ok
  BY LoopSteps
<1>5. \A k \in 0..n : state[k].ok => \E m : IsPairing(got, expected, k, state[k].used, m)
  BY <1>4, LoopPairs
<1> HIDE DEF n
<1> DEFINE Good == {k \in 0..n : state[k].ok}
<1>6. 0 \in Good
  BY <1>1, <1>4 DEF LoopStart
<1>7. ASSUME NEW k \in 0..(n - 1), k \in Good
      PROVE  k + 1 \in Good
  <2>1. k + 1 \in 1..n /\ k + 1 \in 0..n /\ (k + 1) - 1 = k /\ k \in Nat /\ 1..k \subseteq 1..n
    BY <1>1
  <2> SUFFICES ASSUME ~state[k + 1].ok PROVE FALSE
    BY <2>1
  <2> DEFINE row == expected[k + 1]
             used == state[k].used
             I == {i \in 1..k : expected[i] = row}
             J == {j \in DOMAIN got : got[j] = row}
  <2>2. state[k + 1] = Take(got, state[k], row)
    <3>1. state[k + 1] = Take(got, state[(k + 1) - 1], expected[k + 1])
      BY <1>4, <2>1
    <3> QED BY <2>1, <3>1
  <2>3. Free(got, used, row) = {}
    BY <1>7, <2>2 DEF Take
  <2>4. PICK m : IsPairing(got, expected, k, used, m)
    BY <1>5, <1>7
  <2>5. ASSUME NEW j \in J
        PROVE  \E i \in I : m[i] = j
    <3>1. j \in used
      BY <2>3 DEF Free
    <3>2. PICK i \in 1..k : m[i] = j
      BY <2>4, <3>1 DEF IsPairing
    <3>3. expected[i] \subseteq got[j]
      BY <2>4, <3>2 DEF IsPairing
    <3>4. i \in DOMAIN expected /\ j \in DOMAIN got
      BY <1>1, <2>1
    <3>5. expected[i] = got[j]
      BY <3>3, <3>4
    <3> QED BY <3>2, <3>5
  <2>6. IsFiniteSet(I) /\ IsFiniteSet(J)
    <3>1. I \in SUBSET (1..n) /\ J \in SUBSET DOMAIN got
      BY <2>1
    <3> HIDE DEF I, J
    <3> QED BY <1>1, <3>1, FS_Subset
  <2>7. Cardinality(J) <= Cardinality(I)
    <3> DEFINE f == [j \in J |-> CHOOSE i \in I : m[i] = j]
    <3>1. \A j \in J : f[j] \in I /\ m[f[j]] = j
      BY <2>5
    <3> HIDE DEF I, J
    <3>2. f \in [J -> I]
      BY <3>1
    <3> HIDE DEF f
    <3>3. f \in Injection(J, I)
      BY <3>1, <3>2 DEF Injection, IsInjective
    <3> QED BY <2>6, <3>3, FS_Injection
  <2>8. Cardinality(I \cup {k + 1}) <= Cardinality(J)
    <3> DEFINE T == I \cup {k + 1}
               g == [i \in T |-> p[i]]
    <3>1. ASSUME NEW i \in T PROVE i \in DOMAIN expected /\ p[i] \in J
      <4>1. i \in DOMAIN expected /\ expected[i] = row
        BY <1>1, <2>1
      <4>2. expected[i] \subseteq got[p[i]] /\ p[i] \in DOMAIN got
        BY <1>2, <4>1 DEF Injection
      <4>3. expected[i] = got[p[i]]
        BY <4>1, <4>2
      <4> QED BY <4>1, <4>2, <4>3
    <3> HIDE DEF J, T
    <3>2. g \in [T -> J]
      BY <3>1
    <3>3. \A x, y \in T : g[x] = g[y] => x = y
      BY <1>2, <3>1 DEF Injection, IsInjective
    <3> HIDE DEF g
    <3>4. g \in Injection(T, J)
      BY <3>2, <3>3 DEF Injection, IsInjective
    <3>5. Cardinality(T) <= Cardinality(J)
      BY <2>6, <3>4, FS_Injection
    <3> QED BY <3>5 DEF T
  <2>9. Cardinality(I \cup {k + 1}) = Cardinality(I) + 1
    <3>1. k + 1 \notin I
      BY <2>1
    <3> HIDE DEF I
    <3> QED BY <2>6, <3>1, FS_AddElement
  <2>10. Cardinality(I) \in Nat /\ Cardinality(J) \in Nat
    <3> HIDE DEF I, J
    <3> QED BY <2>6, FS_CardinalityType
  <2> HIDE DEF I, J
  <2> QED BY <2>7, <2>8, <2>9, <2>10
<1>8. 0..n \subseteq Good
  <2> HIDE DEF Good
  <2> QED BY <1>1, <1>6, <1>7, StepsReach
<1>9. n \in Good
  BY <1>1, <1>8
<1> QED BY <1>3, <1>4, <1>9

LEMMA MatchInvariant == IInv => MatchIsAPairing
<1> SUFFICES ASSUME IInv, query.kind = "match", answer.status = "200"
             PROVE  MatchIsAPairing
  BY DEF MatchIsAPairing, Answered
<1>1. MatchAnswered
  BY DEF IInv, ResolveAnswered, SavingsAnswered, InsightsAnswered, ForecastAnswered,
         MatchAnswered
<1>2. PICK r \in Results :
        /\ query = [kind |-> "match", got |-> r[1], expected |-> r[2]]
        /\ answer = [status |-> "200", match |-> Matches(r[1], r[2])]
  BY <1>1 DEF MatchAnswered, Pending
<1>3. PICK got, expected :
        /\ got = r[1] /\ expected = r[2]
        /\ IsResult(got) /\ IsResult(expected)
        /\ query.got = got /\ query.expected = expected
        /\ answer.match = Matches(got, expected)
  BY <1>2, ResultsAreSequences DEF ResultsAreSequences, IsResult
<1>4. Matches(got, expected) => Paired(got, expected)
  BY <1>3, MatchPairs
<1>5. \/ Matches(got, expected)
      \/ ~Paired(got, expected)
      \/ \E i \in DOMAIN expected, j \in DOMAIN got :
           expected[i] \subseteq got[j] /\ expected[i] # got[j]
  BY <1>3, NoPairingOverlooked
<1> QED BY <1>3, <1>4, <1>5 DEF MatchIsAPairing

(* A match is a pairing for every two results; and a pairing is overlooked *)
(* only if some row has the values of an expected row and others           *)
(* (run.py:31-45).                                                         *)
THEOREM MatchesArePairings == Spec => []MatchIsAPairing
BY Inductive, MatchInvariant, PTL

-----------------------------------------------------------------------------
(* resolve_region: the tables, looked at entry by entry                    *)

LEMMA RangesAreRanges ==
  ASSUME NEW r \in PrefixRanges
  PROVE  r[1] \in Int /\ r[2] \in Int /\ r[3] \in Regions \cup {NotCovered}
                      /\ r = <<r[1], r[2], r[3]>>
<1>1. r[1] \in Int /\ r[2] \in Int /\ r = <<r[1], r[2], r[3]>>
  BY DEF PrefixRanges
<1>2. r[3] \in Regions \cup {NotCovered}
  BY DEF PrefixRanges, Regions
<1> QED BY <1>1, <1>2

LEMMA RangesAreApart ==
  ASSUME NEW r \in PrefixRanges, NEW s \in PrefixRanges, r[1] <= s[1], s[1] <= r[2]
  PROVE  r[1] = s[1]
BY SMTT(60) DEF PrefixRanges

LEMMA RangesHaveOneEnd ==
  ASSUME NEW r \in PrefixRanges, NEW s \in PrefixRanges, r[1] = s[1]
  PROVE  r[2] = s[2] /\ r[3] = s[3]
BY SMTT(60) DEF PrefixRanges

LEMMA OneRange ==
  ASSUME NEW p \in Int,
         NEW r \in Containing(PrefixRanges, p), NEW s \in Containing(PrefixRanges, p)
  PROVE  r = s
<1>1. /\ r \in PrefixRanges /\ s \in PrefixRanges
      /\ p \in r[1]..r[2] /\ p \in s[1]..s[2]
  BY DEF Containing
<1>2. /\ r[1] \in Int /\ r[2] \in Int /\ r = <<r[1], r[2], r[3]>>
      /\ s[1] \in Int /\ s[2] \in Int /\ s = <<s[1], s[2], s[3]>>
  BY <1>1, RangesAreRanges
<1>3. r[1] = s[1]
  <2>1. CASE r[1] <= s[1] BY <1>1, <1>2, <2>1, RangesAreApart
  <2>2. CASE s[1] <= r[1] BY <1>1, <1>2, <2>2, RangesAreApart
  <2> QED BY <1>2, <2>1, <2>2
<1>4. r[2] = s[2] /\ r[3] = s[3]
  BY <1>1, <1>3, RangesHaveOneEnd
<1> QED BY <1>2, <1>3, <1>4

LEMMA OneOverride ==
  ASSUME NEW p \in Int,
         NEW r \in Containing(Overrides, p), NEW s \in Containing(Overrides, p)
  PROVE  r = s /\ r[3] \in Regions
BY DEF Containing, Overrides, Regions

LEMMA CuratedAreCurated ==
  ASSUME NEW e \in Curated
  PROVE  e[2] \in Regions /\ e[3] \in {"exact", "dominant", "approximate"}
BY DEF Curated, Regions

(* An exact entry is where its prefix says, and no override covers it.     *)
LEMMA ExactAgrees ==
  ASSUME NEW e \in Curated, e[3] = "exact"
  PROVE  /\ \E r \in Containing(PrefixRanges, e[1] \div 100) : r[3] = e[2]
         /\ Containing(Overrides, e[1] \div 100) = {}
<1>1. e \in {<<94103, "CISO", "exact">>, <<77002, "ERCO", "exact">>,
             <<75201, "ERCO", "exact">>, <<2108, "ISNE", "exact">>}
  BY DEF Curated
<1>2. /\ <<900, 961, "CISO">> \in PrefixRanges /\ <<750, 799, "ERCO">> \in PrefixRanges
      /\ <<10, 27, "ISNE">> \in PrefixRanges
  BY DEF PrefixRanges
<1>3. e[1] \div 100 \in {941, 770, 752, 21}
  BY <1>1
<1>4. \E r \in PrefixRanges : e[1] \div 100 \in r[1]..r[2] /\ r[3] = e[2]
  BY <1>1, <1>2
<1>5. Containing(Overrides, e[1] \div 100) = {}
  BY <1>3 DEF Containing, Overrides
<1> QED BY <1>4, <1>5 DEF Containing

LEMMA AtMostOne ==
  ASSUME NEW S, \A x, y \in S : x = y
  PROVE  Cardinality(S) <= 1
<1>1. CASE S = {}
  <2>1. Cardinality(S) = 0
    BY <1>1, FS_EmptySet
  <2> QED BY <2>1
<1>2. CASE S # {}
  <2>1. PICK x \in S : S = {x}
    BY <1>2
  <2>2. Cardinality(S) = 1
    BY <2>1, FS_Singleton
  <2> QED BY <2>2
<1> QED BY <1>1, <1>2

RegionsOf(table, p) == {range[3] : range \in Containing(table, p)}

(* What RegionForZip finds.                                                *)
LEMMA RegionForZipFinds ==
  ASSUME NEW zip \in Nat, NEW p, p = zip \div 100
  PROVE  LET base == RegionsOf(PrefixRanges, p)
             override == RegionsOf(Overrides, p)
             found == RegionForZip(zip)
         IN  /\ override # {} => found \in override /\ override = {found} /\ found \in Regions
             /\ override = {} /\ base # {} => found \in base /\ base = {found}
             /\ override = {} /\ base = {} => found = NotCovered
<1> DEFINE one(table) == CHOOSE range \in Containing(table, p) : TRUE
<1>0. p \in Int
  OBVIOUS
<1>1. /\ RegionForZip(zip) = IF Containing(Overrides, p) # {} THEN one(Overrides)[3]
                             ELSE IF Containing(PrefixRanges, p) # {} THEN one(PrefixRanges)[3]
                             ELSE NotCovered
  BY DEF RegionForZip, RegionIn
<1>2. \A table : Containing(table, p) # {} <=> RegionsOf(table, p) # {}
  BY DEF RegionsOf
<1>3. \A table : Containing(table, p) # {} => one(table) \in Containing(table, p)
  OBVIOUS
<1> HIDE DEF one
<1>4. CASE Containing(Overrides, p) # {}
  <2>1. one(Overrides) \in Containing(Overrides, p) /\ RegionForZip(zip) = one(Overrides)[3]
    BY <1>1, <1>3, <1>4
  <2>2. \A r \in Containing(Overrides, p) : r = one(Overrides) /\ r[3] \in Regions
    BY <1>0, <2>1, OneOverride
  <2>3. RegionsOf(Overrides, p) = {RegionForZip(zip)} /\ RegionForZip(zip) \in Regions
    BY <2>1, <2>2 DEF RegionsOf
  <2> QED BY <1>2, <1>4, <2>3
<1>5. CASE Containing(Overrides, p) = {} /\ Containing(PrefixRanges, p) # {}
  <2>1. /\ one(PrefixRanges) \in Containing(PrefixRanges, p)
        /\ RegionForZip(zip) = one(PrefixRanges)[3]
    BY <1>1, <1>3, <1>5
  <2>2. \A r \in Containing(PrefixRanges, p) : r = one(PrefixRanges)
    BY <1>0, <2>1, OneRange
  <2>3. RegionsOf(PrefixRanges, p) = {RegionForZip(zip)}
    BY <2>1, <2>2 DEF RegionsOf
  <2> QED BY <1>2, <1>5, <2>3
<1>6. CASE Containing(Overrides, p) = {} /\ Containing(PrefixRanges, p) = {}
  BY <1>1, <1>2, <1>6
<1> QED BY <1>4, <1>5, <1>6

LEMMA ResolveInvariant == IInv => ZipsResolve
<1> SUFFICES ASSUME IInv, query.kind = "resolve", query.zip # Absent,
                    query.region = Absent, answer # Pending
             PROVE  ZipsResolve
  BY DEF ZipsResolve
<1>1. ResolveAnswered
  BY DEF IInv, ResolveAnswered, SavingsAnswered, InsightsAnswered, ForecastAnswered,
         MatchAnswered
<1>2. PICK zip \in Nat :
        zip # Absent /\ query.zip = zip /\ answer = ResolveRegion(zip, Absent)
  <2>1. PICK l \in Lookup : /\ query = [kind |-> "resolve", zip |-> l[1], region |-> l[2]]
                            /\ answer \in {Pending, ResolveRegion(l[1], l[2])}
    BY <1>1 DEF ResolveAnswered
  <2>2. l[1] = query.zip /\ l[2] = query.region
    BY <2>1
  <2>3. l[1] \in Nat
    BY <2>2, ZipsAreNumbers DEF ZipsAreNumbers
  <2> QED BY <2>1, <2>2, <2>3
<1> DEFINE p == zip \div 100
           base == RegionsOf(PrefixRanges, p)
           override == RegionsOf(Overrides, p)
           curated == {entry \in Curated : entry[1] = zip}
           byPrefix == IF override # {} THEN override ELSE base
           found == RegionForZip(zip)
           entry == CHOOSE e \in curated : TRUE
<1>3. p \in Int
  OBVIOUS
<1>4. Cardinality(Containing(PrefixRanges, p)) <= 1 /\ Cardinality(Containing(Overrides, p)) <= 1
  BY <1>3, OneRange, OneOverride, AtMostOne
<1>5. answer = IF curated # {} THEN KnownRegion(entry[2], entry[3])
               ELSE KnownRegion(found, "approximate")
  BY <1>2 DEF ResolveRegion
<1>6. \A code, confidence :
        LET known == KnownRegion(code, confidence)
        IN  /\ known.status = "200" <=> code \in Regions
            /\ known.region = code /\ known.confidence = confidence
  BY DEF KnownRegion
<1>7. /\ override # {} => found \in override /\ override = {found} /\ found \in Regions
      /\ override = {} /\ base # {} => found \in base /\ base = {found}
      /\ override = {} /\ base = {} => found = NotCovered
  BY RegionForZipFinds
<1>8. base \subseteq Regions \cup {NotCovered}
  BY RangesAreRanges DEF RegionsOf, Containing
<1>9. NotCovered \notin Regions
  BY Zenon DEF NotCovered, Regions
<1>10. CASE curated # {}
  <2>1. entry \in Curated /\ entry[1] = zip
    BY <1>10
  <2> HIDE DEF entry
  <2>2. entry[2] \in Regions
    BY <2>1, CuratedAreCurated
  <2>3. answer.status = "200" /\ answer.region = entry[2] /\ answer.confidence = entry[3]
    BY <1>5, <1>6, <1>10, <2>2
  <2>4. ASSUME entry[3] = "exact" PROVE entry[2] \in byPrefix
    <3>1. /\ \E r \in Containing(PrefixRanges, p) : r[3] = entry[2]
          /\ Containing(Overrides, p) = {}
      BY <2>1, <2>4, ExactAgrees
    <3>2. entry[2] \in base /\ override = {}
      BY <3>1 DEF RegionsOf
    <3> HIDE DEF base, override
    <3> QED BY <3>2
  <2> HIDE DEF curated
  <2>5. /\ answer.status = "200" <=> curated # {} \/ byPrefix \ {NotCovered} # {}
        /\ answer.status = "200" =>
             /\ answer.region \in Regions
             /\ curated = {} => answer.region \in byPrefix /\ answer.confidence = "approximate"
             /\ answer.confidence = "exact" => answer.region \in byPrefix
    <3> HIDE DEF byPrefix
    <3> QED BY <1>10, <2>2, <2>3, <2>4
  <2> QED BY <1>2, <1>4, <2>5 DEF ZipsResolve, RegionsOf, curated
<1>11. CASE curated = {}
  <2> HIDE DEF curated, found
  <2>1. answer = KnownRegion(found, "approximate")
    BY <1>5, <1>11
  <2>2. /\ answer.status = "200" <=> found \in Regions
        /\ answer.region = found /\ answer.confidence = "approximate"
    BY <1>6, <2>1
  <2> HIDE DEF base, override
  <2>3. found \in Regions <=> byPrefix \ {NotCovered} # {}
    BY <1>7, <1>8, <1>9
  <2>4. found \in Regions => found \in byPrefix
    BY <1>7, <1>9
  <2>5. /\ answer.status = "200" <=> curated # {} \/ byPrefix \ {NotCovered} # {}
        /\ answer.status = "200" =>
             /\ answer.region \in Regions
             /\ curated = {} => answer.region \in byPrefix /\ answer.confidence = "approximate"
             /\ answer.confidence = "exact" => answer.region \in byPrefix
    <3> HIDE DEF byPrefix
    <3> QED BY <1>11, <2>2, <2>3, <2>4
  <2> QED BY <1>2, <1>4, <2>5 DEF ZipsResolve, RegionsOf, curated, base, override
<1> QED BY <1>10, <1>11

(* Every ZIP code resolves by the curated table, or by the one override or *)
(* range that covers its prefix, and to a region that is seeded, whatever  *)
(* its digits (queries.py:44-69, zip_lookup.py:23-107).                    *)
THEOREM EveryZipResolves == Spec => []ZipsResolve
BY Inductive, ResolveInvariant, PTL

=============================================================================
