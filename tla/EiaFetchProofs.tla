--------------------------- MODULE EiaFetchProofs ---------------------------
(***************************************************************************)
(* Paging by offset through a feed that grows at its front: proofs that    *)
(* nothing is skipped, that a row is delivered at most once per version of *)
(* the feed, that only the end of the feed makes a fetch short, and that a *)
(* feed that stands still is summed exactly - for every page size, target  *)
(* and number of hours published meanwhile.                                *)
(***************************************************************************)
EXTENDS EiaFetch, FiniteSetTheorems, WellFoundedInduction, TLAPS

USE SizesAreNaturals, NullChoicesAreRows
    DEF SizesAreNaturals, NullChoicesAreRows

LEMMA TargetIsPositive == TargetRows \in Nat \ {0}
BY DEF TargetRows

(* A fetch that is paging has not reached its target.                      *)
StillShort == pc = "paging" => points < TargetRows

(* The rows the next pages will read were delivered at most once for each  *)
(* hour published meanwhile; none before the first page.                   *)
DeliveredBefore ==
  pc = "paging" =>
    \A r \in Row :
      /\ offset = 0 => delivered[r] = 0
      /\ r <= published - offset => delivered[r] <= grown

IInv ==
  /\ TypeOK /\ StillShort
  /\ NoRowSkipped
  /\ DeliveryBound /\ DeliveredBefore
  /\ ShortFetchIsComplete

LEMMA InitIInv == Init => IInv
BY DEF Init, IInv, TypeOK, StillShort, NoRowSkipped, DeliveryBound, DeliveredBefore,
       ShortFetchIsComplete, Row, TargetRows

(* The rows of one answer.                                                 *)
LEMMA PageFacts ==
  ASSUME IInv, pc = "paging"
  PROVE  /\ PageLength \in 1..(TargetRows - points)
         /\ Remaining \in Nat
         /\ PageSize \in 0..PageLength /\ PageSize <= Remaining
         /\ PageSize < PageLength => PageSize = Remaining
         /\ Page = (Remaining - PageSize + 1)..Remaining
         /\ Cardinality(Got) \in 0..PageSize
<1>1. /\ TargetRows \in Nat /\ points \in Nat /\ points < TargetRows
      /\ published \in Nat /\ offset \in Nat /\ offset <= published
  BY TargetIsPositive DEF IInv, TypeOK, StillShort
<1>2. PageLength \in 1..(TargetRows - points)
  BY <1>1 DEF PageLength
<1>3. Remaining \in Nat
  BY <1>1 DEF Remaining
<1>4. /\ PageSize \in 0..PageLength /\ PageSize <= Remaining
      /\ PageSize < PageLength => PageSize = Remaining
  BY <1>1, <1>2, <1>3 DEF PageSize
<1>5. Page = (Remaining - PageSize + 1)..Remaining
  BY DEF Page
<1>6. IsFiniteSet(Page) /\ Cardinality(Page) = PageSize
  <2>1. Remaining - PageSize + 1 \in Int /\ Remaining \in Int /\ PageSize \in Int
    BY <1>2, <1>3, <1>4
  <2>2. /\ IsFiniteSet(Page)
        /\ Cardinality(Page) = IF Remaining - PageSize + 1 > Remaining THEN 0
                               ELSE Remaining - (Remaining - PageSize + 1) + 1
    BY <1>5, <2>1, FS_Interval
  <2> QED
    BY <1>4, <2>1, <2>2
<1>7. Got \subseteq Page
  BY DEF Got
<1>8. Cardinality(Got) \in Nat /\ Cardinality(Got) <= PageSize
  BY <1>6, <1>7, FS_Subset, FS_CardinalityType
<1> QED
  BY <1>2, <1>3, <1>4, <1>5, <1>8

LEMMA RequestPageIInv ==
  ASSUME IInv, RequestPage
  PROVE  IInv'
<1>1. /\ pc = "paging" /\ published' = published /\ nulls' = nulls
      /\ grown' = grown /\ stored' = stored
      /\ delivered' = [r \in Row |-> IF r \in Got THEN delivered[r] + 1 ELSE delivered[r]]
      /\ points' = points + Cardinality(Got)
      /\ offset' = offset + PageSize
      /\ start' = IF offset = 0 THEN published ELSE start
      /\ pc' = IF PageSize < PageLength \/ points' >= TargetRows
                 THEN "fetched" ELSE "paging"
  BY DEF RequestPage, NextOffset, LastPage
<1>2. /\ published \in 0..MaxRows /\ nulls \in NullChoices
      /\ offset \in 0..published /\ points \in 0..TargetRows
      /\ delivered \in [Row -> Nat] /\ start \in 0..published /\ grown \in Nat
      /\ points < TargetRows
      /\ TargetRows \in Nat
  BY <1>1, TargetIsPositive DEF IInv, TypeOK, StillShort
<1>3. /\ PageLength \in 1..(TargetRows - points)
      /\ Remaining \in Nat
      /\ PageSize \in 0..PageLength /\ PageSize <= Remaining
      /\ PageSize < PageLength => PageSize = Remaining
      /\ Page = (Remaining - PageSize + 1)..Remaining
      /\ Cardinality(Got) \in 0..PageSize
  BY <1>1, PageFacts
<1>4. Remaining = published - offset /\ Remaining - PageSize = published' - offset'
  BY <1>1, <1>2, <1>3 DEF Remaining
<1>5. \A r \in Row : r \in Got <=> /\ Remaining - PageSize < r /\ r <= Remaining
                                   /\ r \notin nulls
  BY <1>2, <1>3 DEF Got, Row
<1>6. /\ offset' \in 0..published' /\ points' \in 0..TargetRows
      /\ start' \in 0..published' /\ delivered' \in [Row -> Nat]
      /\ pc' \in {"paging", "fetched"}
  BY <1>1, <1>2, <1>3, <1>4
<1>7. TypeOK'
  BY <1>1, <1>2, <1>6 DEF IInv, TypeOK
<1>8. StillShort'
  BY <1>1, <1>2, <1>6 DEF StillShort
<1>9. NoRowSkipped'
  <2> SUFFICES ASSUME NEW r \in Row, r \notin nulls,
                      published' - offset' < r, r <= start'
               PROVE  delivered'[r] >= 1
    BY <1>1 DEF NoRowSkipped, Passed
  <2>1. r \in Nat /\ delivered[r] \in Nat
    BY <1>2 DEF Row
  <2>2. CASE r <= Remaining
    BY <1>1, <1>4, <1>5, <2>1, <2>2
  <2>3. CASE r > Remaining
    <3>1. offset # 0
      BY <1>1, <1>2, <1>4, <2>1, <2>3
    <3>2. delivered[r] >= 1
      BY <1>1, <1>4, <2>3, <3>1 DEF IInv, NoRowSkipped, Passed
    <3> QED
      BY <1>1, <2>1, <3>2
  <2> QED
    BY <1>3, <2>1, <2>2, <2>3
<1>10. DeliveryBound' /\ DeliveredBefore'
  <2> SUFFICES ASSUME NEW r \in Row
               PROVE  /\ delivered'[r] <= 1 + grown
                      /\ pc' = "paging" =>
                           /\ offset' = 0 => delivered'[r] = 0
                           /\ r <= published' - offset' => delivered'[r] <= grown
    BY <1>1 DEF DeliveryBound, DeliveredBefore
  <2>1. r \in Nat /\ delivered[r] \in Nat /\ delivered[r] <= 1 + grown
    BY <1>2 DEF Row, IInv, DeliveryBound
  <2>2. r <= Remaining => delivered[r] <= grown
    BY <1>1, <1>4 DEF IInv, DeliveredBefore
  <2>3. delivered'[r] <= 1 + grown
    BY <1>1, <1>2, <1>5, <2>1, <2>2
  <2>4. pc' = "paging" => offset' # 0
    BY <1>1, <1>2, <1>3
  <2>5. r <= published' - offset' => delivered'[r] <= grown
    <3>1. SUFFICES ASSUME r <= Remaining - PageSize
                   PROVE  delivered'[r] <= grown
      BY <1>4
    <3>2. r \notin Got /\ r <= Remaining
      BY <1>3, <1>5, <2>1, <3>1
    <3> QED
      BY <1>1, <2>2, <3>2
  <2> QED
    BY <2>3, <2>4, <2>5
<1>11. ShortFetchIsComplete'
  <2> SUFFICES ASSUME pc' = "fetched", points' < TargetRows,
                      NEW r \in (1..start') \ nulls
               PROVE  delivered'[r] >= 1
    BY <1>1 DEF ShortFetchIsComplete, TargetRows
  <2>1. PageSize < PageLength
    BY <1>1, <1>2, <1>6
  <2>2. published' - offset' = 0
    BY <1>3, <1>4, <2>1
  <2>3. r \in Row /\ published' - offset' < r /\ r <= start'
    BY <1>1, <1>2, <1>6, <2>2 DEF Row
  <2> QED
    BY <1>1, <1>9, <2>3 DEF NoRowSkipped, Passed
<1> QED
  BY <1>7, <1>8, <1>9, <1>10, <1>11 DEF IInv

LEMMA PublishHourIInv ==
  ASSUME IInv, PublishHour
  PROVE  IInv'
<1>1. /\ published' = published + RowsPerHour /\ published' <= MaxRows
      /\ grown' = IF pc = "paging" /\ offset > 0 THEN grown + 1 ELSE grown
      /\ nulls' = nulls /\ pc' = pc /\ offset' = offset /\ points' = points
      /\ delivered' = delivered /\ start' = start /\ stored' = stored
  BY DEF PublishHour
<1>2. /\ published \in Nat /\ offset \in Nat /\ grown \in Nat /\ start \in 0..published
      /\ offset <= published /\ delivered \in [Row -> Nat]
  BY DEF IInv, TypeOK
<1>3. TypeOK' /\ StillShort'
  BY <1>1, <1>2 DEF IInv, TypeOK, StillShort, TargetRows
<1>4. NoRowSkipped'
  <2>1. Passed' \subseteq Passed
    BY <1>1, <1>2 DEF Passed, Row
  <2> QED
    BY <1>1, <2>1 DEF IInv, NoRowSkipped
<1>5. DeliveryBound'
  <2> SUFFICES ASSUME NEW r \in Row
               PROVE  delivered[r] <= 1 + grown'
    BY <1>1 DEF DeliveryBound
  <2>1. delivered[r] <= 1 + grown /\ delivered[r] \in Nat
    BY <1>2 DEF IInv, DeliveryBound
  <2> QED
    BY <1>1, <1>2, <2>1
<1>6. DeliveredBefore'
  <2> SUFFICES ASSUME pc = "paging", NEW r \in Row
               PROVE  /\ offset = 0 => delivered[r] = 0
                      /\ delivered[r] <= grown'
    BY <1>1 DEF DeliveredBefore
  <2>1. offset = 0 => delivered[r] = 0
    BY DEF IInv, DeliveredBefore
  <2>2. delivered[r] <= 1 + grown /\ delivered[r] \in Nat
    BY <1>2 DEF IInv, DeliveryBound
  <2> QED
    BY <1>1, <1>2, <2>1, <2>2
<1>7. ShortFetchIsComplete'
  BY <1>1 DEF IInv, ShortFetchIsComplete, TargetRows
<1> QED
  BY <1>3, <1>4, <1>5, <1>6, <1>7 DEF IInv

LEMMA NextIInv == IInv /\ [Next]_vars => IInv'
<1> SUFFICES ASSUME IInv, [Next]_vars
             PROVE  IInv'
  OBVIOUS
<1>1. CASE StartFetch
  <2>1. /\ published' = published /\ nulls' = nulls /\ pc' = "paging"
        /\ offset' = 0 /\ points' = 0 /\ delivered' = [r \in Row |-> 0]
        /\ start' = published /\ grown' = 0 /\ stored' = stored
    BY <1>1 DEF StartFetch
  <2>2. published \in 0..MaxRows /\ TargetRows \in Nat \ {0}
    BY TargetIsPositive DEF IInv, TypeOK
  <2>3. TypeOK' /\ StillShort'
    BY <2>1, <2>2 DEF IInv, TypeOK, StillShort, TargetRows
  <2>4. NoRowSkipped' /\ ShortFetchIsComplete'
    BY <2>1, <2>2 DEF NoRowSkipped, Passed, ShortFetchIsComplete, Row
  <2>5. DeliveryBound' /\ DeliveredBefore'
    BY <2>1 DEF DeliveryBound, DeliveredBefore
  <2> QED
    BY <2>3, <2>4, <2>5 DEF IInv
<1>2. CASE FetchFails
  BY <1>2 DEF FetchFails, IInv, TypeOK, StillShort, NoRowSkipped, DeliveryBound,
              DeliveredBefore, ShortFetchIsComplete, TargetRows
<1>3. CASE UpsertGeneration
  BY <1>3 DEF UpsertGeneration, IInv, TypeOK, StillShort, NoRowSkipped, DeliveryBound,
              DeliveredBefore, ShortFetchIsComplete, TargetRows
<1>4. CASE UNCHANGED vars
  BY <1>4 DEF vars, IInv, TypeOK, StillShort, NoRowSkipped, Passed, DeliveryBound,
              DeliveredBefore, ShortFetchIsComplete, TargetRows
<1> QED
  BY <1>1, <1>2, <1>3, <1>4, RequestPageIInv, PublishHourIInv DEF Next

LEMMA Inductive == Spec => []IInv
BY InitIInv, NextIInv, PTL DEF Spec

(* The domains of the fetch's state: the offset stays within the feed and  *)
(* the points within the target.                                           *)
THEOREM TypeCorrect == Spec => []TypeOK
BY Inductive, PTL DEF IInv

(* New hours at the front of the feed never make a page skip a row.        *)
THEOREM PagingSkipsNothing == Spec => []NoRowSkipped
BY Inductive, PTL DEF IInv

(* A row is delivered at most once, plus once for every hour published     *)
(* while the fetch was paging.                                             *)
THEOREM PagingDeliversBoundedly == Spec => []DeliveryBound
BY Inductive, PTL DEF IInv

(* A fetch that ends below its target has every reported row of the feed.  *)
THEOREM ShortFetchHasAll == Spec => []ShortFetchIsComplete
BY Inductive, PTL DEF IInv

-----------------------------------------------------------------------------
(* Sums of deliveries                                                      *)

(* A property is given as the set of the sets that have it.                *)
LEMMA EverySubset ==
  ASSUME NEW S, IsFiniteSet(S), NEW Good,
         \A T \in SUBSET S : (\A U \in SUBSET T : U # T => U \in Good) => T \in Good
  PROVE  SUBSET S \subseteq Good
<1> DEFINE Bad == {T \in SUBSET S : T \notin Good}
<1> SUFFICES ASSUME Bad # {}
             PROVE  FALSE
  OBVIOUS
<1>1. IsWellFoundedOn(StrictSubsetOrdering(S), SUBSET S)
  <2>1. FiniteSubsetsOf(S) = SUBSET S
    BY FS_FiniteSubsetsOfFinite
  <2>2. IsWellFoundedOn(StrictSubsetOrdering(S), FiniteSubsetsOf(S))
    BY FS_StrictSubsetOrderingWellFounded
  <2> QED
    BY <2>1, <2>2
<1>2. PICK T \in Bad : \A U \in Bad : ~(<<U, T>> \in StrictSubsetOrdering(S))
  <2>1. Bad \subseteq SUBSET S
    OBVIOUS
  <2> HIDE DEF Bad
  <2> QED
    BY <1>1, <2>1, WFMin
<1> QED
  BY <1>2 DEF StrictSubsetOrdering

(* The recursive function that MapThenSumSet evaluates over rows that are  *)
(* delivered at most once counts the delivered ones.                       *)
One(S) == CHOOSE x \in S : TRUE
Once(S) == {r \in S : delivered[r] = 1}
SumsUp(it, S) ==
  it = [T \in SUBSET S |->
          IF T = {} THEN 0 ELSE delivered[One(T)] + it[T \ {One(T)}]]

LEMMA OnceTakeOne ==
  ASSUME NEW T, IsFiniteSet(T), T # {}, \A r \in T : delivered[r] \in {0, 1}
  PROVE  /\ One(T) \in T
         /\ Cardinality(Once(T)) = delivered[One(T)] + Cardinality(Once(T \ {One(T)}))
<1>1. One(T) \in T
  BY DEF One
<1> DEFINE x == One(T)
           rest == Once(T \ {x})
<1>2. IsFiniteSet(rest) /\ Cardinality(rest) \in Nat
  <2>1. rest \in SUBSET T
    BY DEF Once
  <2> QED
    BY <2>1, FS_Subset, FS_CardinalityType
<1>3. x \notin rest /\ Once(T) = IF delivered[x] = 1 THEN rest \cup {x} ELSE rest
  BY <1>1 DEF Once
<1>4. delivered[x] \in {0, 1}
  BY <1>1
<1> HIDE DEF x, rest
<1>5. Cardinality(rest \cup {x}) = Cardinality(rest) + 1
  BY <1>2, <1>3, FS_AddElement
<1>6. Cardinality(Once(T)) = delivered[x] + Cardinality(rest)
  BY <1>2, <1>3, <1>4, <1>5
<1> QED
  BY <1>1, <1>6 DEF x, rest

LEMMA SumCounts ==
  ASSUME NEW S, IsFiniteSet(S), \A r \in S : delivered[r] \in {0, 1}
  PROVE  MapThenSumSet(LAMBDA r : delivered[r], S) = Cardinality(Once(S))
<1> DEFINE count == [T \in SUBSET S |-> Cardinality(Once(T))]
           it == CHOOSE f : SumsUp(f, S)
<1>1. ASSUME NEW T \in SUBSET S, T # {}
      PROVE  /\ One(T) \in T
             /\ Cardinality(Once(T)) = delivered[One(T)] + Cardinality(Once(T \ {One(T)}))
  <2>1. IsFiniteSet(T)
    BY FS_Subset
  <2> QED
    BY <1>1, <2>1, OnceTakeOne
<1>2. SumsUp(count, S)
  <2>1. ASSUME NEW T \in SUBSET S
        PROVE  count[T] = IF T = {} THEN 0 ELSE delivered[One(T)] + count[T \ {One(T)}]
    <3>1. CASE T = {}
      BY <3>1, FS_EmptySet DEF Once
    <3>2. CASE T # {}
      BY <1>1, <3>2
    <3> QED
      BY <3>1, <3>2
  <2>2. count = [T \in SUBSET S |->
                   IF T = {} THEN 0 ELSE delivered[One(T)] + count[T \ {One(T)}]]
    <3> DEFINE again == [T \in SUBSET S |->
                   IF T = {} THEN 0 ELSE delivered[One(T)] + count[T \ {One(T)}]]
    <3>1. count = [T \in SUBSET S |-> count[T]] /\ \A T \in SUBSET S : count[T] = again[T]
      BY <2>1
    <3> QED
      BY <3>1
  <2> HIDE DEF count
  <2> QED
    BY <2>2 DEF SumsUp
<1>3. SumsUp(it, S)
  <2> HIDE DEF count
  <2> QED
    BY <1>2, Zenon
<1>4. it[S] = count[S]
  <2> DEFINE Good == {T \in SUBSET S : it[T] = count[T]}
  <2>1. ASSUME NEW T \in SUBSET S, \A U \in SUBSET T : U # T => U \in Good
        PROVE  T \in Good
    <3>1. it[T] = (IF T = {} THEN 0 ELSE delivered[One(T)] + it[T \ {One(T)}])
      <4> HIDE DEF it
      <4> QED
        BY <1>3, Zenon DEF SumsUp
    <3>2. count[T] = (IF T = {} THEN 0 ELSE delivered[One(T)] + count[T \ {One(T)}])
      <4> HIDE DEF count
      <4> QED
        BY <1>2, Zenon DEF SumsUp
    <3>3. T # {} => T \ {One(T)} \in Good
      BY <1>1, <2>1
    <3> HIDE DEF it, count
    <3> QED
      BY <3>1, <3>2, <3>3
  <2>2. SUBSET S \subseteq Good
    <3> HIDE DEF Good
    <3> QED
      BY <2>1, EverySubset
  <2> QED
    BY <2>2
<1>5. MapThenSumSet(LAMBDA r : delivered[r], S) = it[S]
  BY Zenon DEF MapThenSumSet, MapThenFoldSet, SumsUp, One
<1> QED
  BY <1>4, <1>5

-----------------------------------------------------------------------------
(* A feed that stands still                                                *)

(* Only rows with a value are delivered, and hours published since the     *)
(* first request show in the length of the feed.                           *)
QuietInv ==
  /\ \A r \in Row : delivered[r] > 0 => r \notin nulls
  /\ pc = "paging" /\ offset = 0 => grown = 0
  /\ pc # "idle" /\ grown > 0 => start < published

LEMMA InitQuiet == Init => QuietInv
BY DEF Init, QuietInv

LEMMA NextQuiet == IInv /\ QuietInv /\ [Next]_vars => QuietInv'
<1> SUFFICES ASSUME IInv, QuietInv, [Next]_vars
             PROVE  QuietInv'
  OBVIOUS
<1>0. /\ published \in Nat /\ start \in 0..published /\ grown \in Nat /\ offset \in Nat
      /\ delivered \in [Row -> Nat]
  BY DEF IInv, TypeOK
<1>1. CASE PublishHour
  BY <1>0, <1>1 DEF PublishHour, QuietInv
<1>2. CASE StartFetch
  BY <1>2 DEF StartFetch, QuietInv
<1>3. CASE RequestPage
  <2>1. /\ pc = "paging" /\ published' = published /\ nulls' = nulls /\ grown' = grown
        /\ delivered' = [r \in Row |-> IF r \in Got THEN delivered[r] + 1 ELSE delivered[r]]
        /\ offset' = offset + PageSize
        /\ start' = IF offset = 0 THEN published ELSE start
        /\ pc' = IF PageSize < PageLength \/ points' >= TargetRows
                   THEN "fetched" ELSE "paging"
    BY <1>3 DEF RequestPage, NextOffset, LastPage
  <2>2. PageLength \in Nat \ {0} /\ PageSize \in Nat
    <3>1. TargetRows \in Nat /\ points \in Nat
      BY TargetIsPositive DEF IInv, TypeOK
    <3> QED
      BY <2>1, <3>1, PageFacts
  <2>3. \A r \in Row : delivered'[r] > 0 => r \notin nulls'
    BY <1>0, <2>1 DEF QuietInv, Got
  <2>4. pc' = "paging" => offset' # 0
    BY <1>0, <2>1, <2>2
  <2>5. grown' > 0 => start' < published'
    BY <1>0, <2>1 DEF QuietInv
  <2> QED
    BY <2>3, <2>4, <2>5 DEF QuietInv
<1>4. CASE FetchFails
  BY <1>4 DEF FetchFails, QuietInv
<1>5. CASE UpsertGeneration
  BY <1>5 DEF UpsertGeneration, QuietInv
<1>6. CASE UNCHANGED vars
  BY <1>6 DEF vars, QuietInv
<1> QED
  BY <1>1, <1>2, <1>3, <1>4, <1>5, <1>6 DEF Next

LEMMA DivisionBounds ==
  ASSUME NEW n \in Int, NEW d \in Nat \ {0}
  PROVE  n \div d \in Int /\ n < d * (n \div d) + d
OBVIOUS

LEMMA HourEnds ==
  ASSUME NEW r \in Row, NEW h \in Int, HourOf(r) = h
  PROVE  r <= h * RowsPerHour
<1> DEFINE q == (r - 1) \div RowsPerHour
<1>1. r \in Int
  BY DEF Row
<1>2. q \in Int /\ r - 1 < RowsPerHour * q + RowsPerHour
  BY <1>1, DivisionBounds
<1>3. h = 1 + q
  BY DEF HourOf
<1> HIDE DEF q
<1>4. h * RowsPerHour = RowsPerHour * q + RowsPerHour
  BY <1>2, <1>3
<1>5. RowsPerHour * q \in Int
  BY <1>2
<1> DEFINE p == RowsPerHour * q
<1> HIDE DEF p
<1> QED
  BY <1>1, <1>2, <1>4, <1>5 DEF p

LEMMA QuietIsExact == IInv /\ QuietInv => QuietFetchIsExact
<1> SUFFICES ASSUME IInv, QuietInv, pc = "fetched", published = start,
                    NEW h \in Hour, NEW c \in Code
             PROVE  IF WhollyFetched(h) /\ h * RowsPerHour <= published
                      THEN Aggregated(h, c) = Reported(h, c)
                      ELSE Aggregated(h, c) <= Reported(h, c)
  BY DEF QuietFetchIsExact
<1> DEFINE rows == RowsOf(h, c)
<1>1. grown = 0 /\ delivered \in [Row -> Nat] /\ published \in Nat
  BY DEF QuietInv, IInv, TypeOK
<1>2. rows \subseteq Row /\ IsFiniteSet(rows)
  <2>1. IsFiniteSet(Row)
    BY FS_Interval DEF Row
  <2> QED
    BY <2>1, FS_Subset DEF RowsOf
<1>3. \A r \in Row : delivered[r] \in {0, 1}
  BY <1>1 DEF IInv, DeliveryBound
<1>4. Aggregated(h, c) = Cardinality(Once(rows))
  BY <1>2, <1>3, SumCounts DEF Aggregated
<1>5. Once(rows) \subseteq rows \ nulls
  BY <1>2, <1>3 DEF Once, QuietInv
<1>6. IsFiniteSet(rows \ nulls)
  BY <1>2, FS_Subset
<1>7. Aggregated(h, c) <= Reported(h, c)
  BY <1>4, <1>5, <1>6, FS_Subset DEF Reported
<1>8. ASSUME WhollyFetched(h), h * RowsPerHour <= published
      PROVE  Aggregated(h, c) = Reported(h, c)
  <2>1. ASSUME NEW r \in rows \ nulls
        PROVE  r \in Once(rows)
    <3>1. r \in Row /\ HourOf(r) = h
      BY DEF RowsOf
    <3>2. h \in Int /\ r \in Int /\ h * RowsPerHour \in Int
      <4>1. h \in Int /\ r \in Int
        BY <3>1 DEF Hour, Row
      <4> QED
        BY <4>1
    <3>3. r <= h * RowsPerHour
      BY <3>1, <3>2, HourEnds
    <3>4. r \in Passed
      <4> DEFINE top == h * RowsPerHour
      <4>1. r <= top /\ top <= published /\ top \in Int
        BY <1>8, <3>2, <3>3
      <4> HIDE DEF top
      <4> QED
        BY <1>1, <1>8, <3>1, <3>2, <4>1 DEF Passed, WhollyFetched
    <3>5. delivered[r] >= 1
      BY <3>4 DEF IInv, NoRowSkipped
    <3> QED
      BY <1>3, <3>1, <3>5 DEF Once
  <2>2. Once(rows) = rows \ nulls
    BY <1>5, <2>1
  <2> QED
    BY <1>4, <2>2 DEF Reported
<1> QED
  BY <1>7, <1>8

(* In a feed that stands still the sums are EIA's for every hour that was  *)
(* fetched whole, and never more for the hour the last page cuts, however  *)
(* fuel types share a code (eia.py:56-94, ingest.py:27-33).                *)
THEOREM QuietSumsAreExact == Spec => []QuietFetchIsExact
<1>1. Init => IInv /\ QuietInv
  BY InitIInv, InitQuiet
<1>2. IInv /\ QuietInv /\ [Next]_vars => (IInv /\ QuietInv)'
  BY NextIInv, NextQuiet
<1> QED
  BY <1>1, <1>2, QuietIsExact, PTL DEF Spec

-----------------------------------------------------------------------------
(* Overlapping windows                                                     *)

LEMMA StepLosesOnlySo ==
  ASSUME IInv, QuietInv, [Next]_vars, NEW h \in Hour, NEW c \in Code,
         stored[h][c] = Reported(h, c), stored'[h][c] # Reported(h, c)
  PROVE  \/ \E r \in RowsOf(h, c) : delivered[r] > 1
         \/ \E r, s \in RowsOf(h, c) \ nulls : delivered[r] > 0 /\ delivered[s] = 0
<1> DEFINE rows == RowsOf(h, c)
<1>1. IsAggregated(h, c) /\ Aggregated(h, c) # Reported(h, c)
  <2>1. UpsertGeneration
    BY DEF Next, PublishHour, StartFetch, RequestPage, FetchFails, vars
  <2>2. stored'[h][c] = IF IsAggregated(h, c) THEN Aggregated(h, c) ELSE stored[h][c]
    BY <2>1 DEF UpsertGeneration
  <2> QED
    BY <2>2
<1>2. rows \subseteq Row /\ IsFiniteSet(rows)
  <2>1. IsFiniteSet(Row)
    BY FS_Interval DEF Row
  <2> QED
    BY <2>1, FS_Subset DEF RowsOf
<1>3. \A r \in rows : delivered[r] \in Nat
  BY <1>2 DEF IInv, TypeOK
<1> SUFFICES ASSUME \A r \in rows : delivered[r] \in {0, 1}
             PROVE  \E r, s \in rows \ nulls : delivered[r] > 0 /\ delivered[s] = 0
  BY <1>3
<1>4. Aggregated(h, c) = Cardinality(Once(rows))
  BY <1>2, SumCounts DEF Aggregated
<1>5. Once(rows) \subseteq rows \ nulls
  BY <1>2 DEF Once, QuietInv
<1>6. Once(rows) # rows \ nulls
  BY <1>1, <1>4 DEF Reported
<1>7. PICK s \in rows \ nulls : delivered[s] = 0
  BY <1>5, <1>6 DEF Once
<1>8. PICK r \in rows \ nulls : delivered[r] > 0
  BY <1>1, <1>2 DEF IsAggregated, QuietInv
<1> QED
  BY <1>7, <1>8

(* A sum that agreed with EIA is lost only to one that counts a row twice, *)
(* or some of the rows of its hour and code and not others, for any feed   *)
(* that grows at any time (eia.py:59-94, ingest.py:27-48).                 *)
THEOREM LossIsExplained == Spec => LostToPartOrRepeat
<1>1. Init => IInv /\ QuietInv
  BY InitIInv, InitQuiet
<1>2. IInv /\ QuietInv /\ [Next]_vars => (IInv /\ QuietInv)'
  BY NextIInv, NextQuiet
<1> DEFINE Lost == \A h \in Hour, c \in Code :
             stored[h][c] = Reported(h, c) /\ stored'[h][c] # Reported(h, c) =>
               \/ \E r \in RowsOf(h, c) : delivered[r] > 1
               \/ \E r, s \in RowsOf(h, c) \ nulls : delivered[r] > 0 /\ delivered[s] = 0
<1>3. IInv /\ QuietInv /\ [Next]_vars => [Lost]_vars
  BY StepLosesOnlySo
<1>4. Spec => [][Lost]_vars
  BY <1>1, <1>2, <1>3, PTL DEF Spec
<1> QED
  BY <1>4 DEF LostToPartOrRepeat

LEMMA QuotientAndRest ==
  ASSUME NEW n \in Int, NEW d \in Nat \ {0}
  PROVE  /\ n \div d \in Int /\ n % d \in 0..(d - 1)
         /\ n = d * (n \div d) + (n % d)
OBVIOUS

(* Where no two fuel types share a code, a code has one row an hour.       *)
LEMMA OneRowPerCode ==
  ASSUME TypesHaveOwnCodes, NEW h \in Hour, NEW c \in Code,
         NEW r \in RowsOf(h, c), NEW s \in RowsOf(h, c)
  PROVE  r = s
<1> DEFINE q(x) == (x - 1) \div RowsPerHour
           m(x) == (x - 1) % RowsPerHour
<1>1. ASSUME NEW x \in RowsOf(h, c)
      PROVE  /\ x \in Int /\ q(x) \in Int /\ m(x) \in 0..(RowsPerHour - 1)
             /\ x - 1 = RowsPerHour * q(x) + m(x)
             /\ h = 1 + q(x) /\ CodeOf[1 + m(x)] = c
  <2>1. x \in Int
    BY DEF RowsOf, Row
  <2>2. x - 1 \in Int
    BY <2>1
  <2>3. HourOf(x) = h /\ FuelCode(x) = c
    BY DEF RowsOf
  <2> QED
    BY <2>1, <2>2, <2>3, QuotientAndRest DEF HourOf, FuelCode
<1> HIDE DEF q, m
<1>2. q(r) = q(s)
  BY <1>1
<1>3. m(r) = m(s)
  BY <1>1 DEF TypesHaveOwnCodes
<1>4. r - 1 = s - 1
  BY <1>1, <1>2, <1>3
<1>5. r \in Int /\ s \in Int
  BY <1>1
<1> QED
  BY <1>4, <1>5

(* Overlapping windows are as safe as DEPLOY.md:122 says where no two fuel *)
(* types of the region share a code and the feed stands still while it is  *)
(* paged.                                                                  *)
THEOREM OwnCodesOverlapSafely ==
  ASSUME TypesHaveOwnCodes, ~GrowWhilePaging
  PROVE  Spec => OverlapIsSafe
<1> DEFINE Inv == IInv /\ QuietInv /\ grown = 0
           Kept == \A h \in Hour, c \in Code :
             stored[h][c] = Reported(h, c) => stored'[h][c] = Reported(h, c)
<1>1. Init => Inv
  BY InitIInv, InitQuiet DEF Init
<1>2. Inv /\ [Next]_vars => Inv'
  <2>1. grown = 0 /\ [Next]_vars => grown' = 0
    BY DEF Next, PublishHour, StartFetch, RequestPage, FetchFails, UpsertGeneration, vars
  <2> QED
    BY <2>1, NextIInv, NextQuiet
<1>3. Inv /\ [Next]_vars => [Kept]_vars
  <2> SUFFICES ASSUME Inv, [Next]_vars, NEW h \in Hour, NEW c \in Code,
                      stored[h][c] = Reported(h, c), stored'[h][c] # Reported(h, c)
               PROVE  FALSE
    OBVIOUS
  <2>1. \A r \in RowsOf(h, c) : ~(delivered[r] > 1)
    BY DEF RowsOf, IInv, DeliveryBound, TypeOK
  <2>2. PICK r, s \in RowsOf(h, c) : delivered[r] > 0 /\ delivered[s] = 0
    BY <2>1, StepLosesOnlySo
  <2>3. r = s
    BY OneRowPerCode
  <2> QED
    BY <2>2, <2>3
<1>4. Spec => [][Kept]_vars
  <2> HIDE DEF Inv, Kept
  <2> QED
    BY <1>1, <1>2, <1>3, PTL DEF Spec
<1> QED
  BY <1>4 DEF OverlapIsSafe
=============================================================================
