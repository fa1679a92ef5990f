-------------------------- MODULE HistoryWalkProofs --------------------------
(***************************************************************************)
(* Keyset pagination is exact: proofs that a walk of /v1/carbon/history    *)
(* returns nothing twice and misses nothing it has passed, for every set   *)
(* of hours, every limit and every interleaving with inserts.              *)
(***************************************************************************)
EXTENDS HistoryWalk, FiniteSetTheorems, TLAPS

USE PeriodsAreFinite, LimitsArePositive, SentinelsAreNoPeriods
    DEF PeriodsAreFinite, LimitsArePositive, SentinelsAreNoPeriods

(* What ORDER BY ... LIMIT returns contains, with a row, every newer row.  *)
LEMMA NewestIsUpClosed ==
  ASSUME NEW S \in SUBSET Period, NEW n \in Nat,
         NEW t \in Newest(S, n), NEW u \in S, u >= t
  PROVE  u \in Newest(S, n)
<1> DEFINE Above(x) == {v \in S : v > x}
<1>1. Above(u) \subseteq Above(t)
  <2>1. t \in S
    BY DEF Newest
  <2>2. t \in Int /\ u \in Int /\ S \subseteq Int
    BY <2>1
  <2>3. ASSUME NEW v \in S, v > u
        PROVE  v > t
    <3>1. v \in Int
      BY <2>2
    <3> QED
      BY <2>2, <2>3, <3>1
  <2> QED
    BY <2>3
<1>2. IsFiniteSet(S)
  BY FS_Subset
<1>3. IsFiniteSet(Above(t))
  BY <1>2, FS_Subset
<1>4. /\ Cardinality(Above(u)) \in Nat /\ Cardinality(Above(t)) \in Nat
      /\ Cardinality(Above(u)) <= Cardinality(Above(t))
  BY <1>1, <1>3, FS_Subset, FS_CardinalityType
<1>5. Cardinality(Above(t)) < n
  BY DEF Newest
<1> QED
  BY <1>4, <1>5 DEF Newest

(* A LIMIT that is not exceeded cuts nothing off.                          *)
LEMMA NewestIsAll ==
  ASSUME NEW S \in SUBSET Period, NEW n \in Nat, ~(Cardinality(S) > n)
  PROVE  Newest(S, n) = S
<1> SUFFICES ASSUME NEW t \in S
             PROVE  Cardinality({u \in S : u > t}) < n
  BY DEF Newest
<1> DEFINE Above == {u \in S : u > t}
<1>1. IsFiniteSet(S) /\ Cardinality(S) \in Nat
  BY FS_Subset, FS_CardinalityType
<1>2. Above \subseteq S /\ Above # S
  OBVIOUS
<1>3. Cardinality(Above) \in Nat /\ Cardinality(Above) < Cardinality(S)
  BY <1>1, <1>2, FS_Subset, FS_CardinalityType
<1> QED
  BY <1>1, <1>3

(* The walk has passed whatever it has served.                             *)
ServedIsPassed == \A t \in Period : served[t] > 0 => Passed(t)

IInv == TypeOK /\ NothingTwice /\ NothingMissed /\ ServedIsPassed

LEMMA InitIInv == Init => IInv
BY DEF Init, IInv, TypeOK, NothingTwice, NothingMissed, ServedIsPassed,
       Passed, BeforeCursor

(* What a page adds: its rows are rows of the range that the walk had not  *)
(* passed, and they are served for the first time.                         *)
LEMMA PageIsNew ==
  ASSUME IInv, NEW limit \in Limits, pc = "walking", Returned(limit)
  PROVE  /\ Matching \in SUBSET Period
         /\ Newest(Matching, limit) \subseteq Matching
         /\ \A t \in Matching : t \in table /\ InRange(t) /\ ~Passed(t)
         /\ served' \in [Period -> Nat]
         /\ \A t \in Newest(Matching, limit) : served'[t] = 1
         /\ \A t \in Period \ Newest(Matching, limit) : served'[t] = served[t]
<1>1. Matching \in SUBSET Period /\ Newest(Matching, limit) \subseteq Matching
  BY DEF IInv, TypeOK, Matching, Newest
<1>2. \A t \in Matching : t \in table /\ InRange(t) /\ ~Passed(t)
  BY DEF Matching, Passed
<1>3. served \in [Period -> Nat]
  BY DEF IInv, TypeOK
<1>4. \A t \in Newest(Matching, limit) : served[t] = 0
  <2> SUFFICES ASSUME NEW t \in Newest(Matching, limit)
               PROVE  served[t] = 0
    OBVIOUS
  <2>1. t \in Period /\ ~Passed(t)
    BY <1>1, <1>2
  <2>2. ~(served[t] > 0)
    BY <2>1 DEF IInv, ServedIsPassed
  <2> QED
    BY <1>3, <2>1, <2>2
<1>5. served' = [t \in Period |-> IF t \in Newest(Matching, limit) THEN served[t] + 1
                                                                  ELSE served[t]]
  BY DEF Returned
<1>6. served' \in [Period -> Nat]
  BY <1>3, <1>5
<1>7. \A t \in Newest(Matching, limit) : served'[t] = 1
  <2> SUFFICES ASSUME NEW t \in Newest(Matching, limit)
               PROVE  served'[t] = 1
    OBVIOUS
  <2>1. t \in Period /\ served[t] = 0
    BY <1>1, <1>4
  <2> QED
    BY <1>5, <2>1
<1>8. \A t \in Period \ Newest(Matching, limit) : served'[t] = served[t]
  BY <1>5
<1> QED
  BY <1>1, <1>2, <1>6, <1>7, <1>8

(* A page that names a next cursor moves the walk down to its last row.    *)
LEMMA NextPageIInv ==
  ASSUME IInv, NEW limit \in Limits, NextPage(limit)
  PROVE  IInv'
<1> DEFINE page == Newest(Matching, limit)
<1>1. /\ pc = "walking" /\ Returned(limit)
      /\ table' = table /\ start' = start /\ end' = end /\ pc' = pc /\ late' = late
  BY DEF NextPage
<1>2. PICK c : c \in page /\ (\A u \in page : c <= u) /\ cursor' = c
  BY DEF NextPage, CursorAfter, Last
<1>3. /\ Matching \in SUBSET Period
      /\ page \subseteq Matching
      /\ \A t \in Matching : t \in table /\ InRange(t) /\ ~Passed(t)
      /\ served' \in [Period -> Nat]
      /\ \A t \in page : served'[t] = 1
      /\ \A t \in Period \ page : served'[t] = served[t]
  BY <1>1, PageIsNew
<1>4. c \in table /\ c \in Int /\ c # NoCursor /\ BeforeCursor(c)
  BY <1>1, <1>2, <1>3 DEF Passed
<1>5. ASSUME NEW t \in Period
      PROVE  /\ (Passed(t))' <=> t >= c
             /\ Passed(t) => t >= c
             /\ (InRange(t))' <=> InRange(t)
  <2>1. t \in Int
    OBVIOUS
  <2>2. cursor # NoCursor => cursor \in Int
    BY DEF IInv, TypeOK
  <2>3. (Passed(t))' <=> t >= c
    BY <1>1, <1>2, <1>4, <2>1 DEF Passed, BeforeCursor
  <2>4. Passed(t) => t >= c
    BY <1>1, <1>4, <2>1, <2>2 DEF Passed, BeforeCursor
  <2>5. (InRange(t))' <=> InRange(t)
    BY <1>1 DEF InRange
  <2> QED
    BY <2>3, <2>4, <2>5
<1>6. TypeOK'
  BY <1>1, <1>2, <1>3, <1>4 DEF IInv, TypeOK
<1>7. NothingTwice'
  <2> SUFFICES ASSUME NEW t \in Period
               PROVE  /\ served'[t] <= 1
                      /\ served'[t] > 0 => t \in table' /\ (InRange(t))'
    BY DEF NothingTwice
  <2>1. CASE t \in page
    BY <1>1, <1>3, <1>5, <2>1
  <2>2. CASE t \notin page
    BY <1>1, <1>3, <1>5, <2>2 DEF IInv, NothingTwice
  <2> QED
    BY <2>1, <2>2
<1>8. ServedIsPassed'
  <2> SUFFICES ASSUME NEW t \in Period, served'[t] > 0
               PROVE  (Passed(t))'
    BY DEF ServedIsPassed
  <2>1. CASE t \in page
    <3>1. c <= t /\ t \in Int
      BY <1>2, <2>1
    <3> QED
      BY <1>4, <1>5, <3>1
  <2>2. CASE t \notin page
    BY <1>3, <1>5, <2>2 DEF IInv, ServedIsPassed
  <2> QED
    BY <2>1, <2>2
<1>9. NothingMissed'
  <2> SUFFICES ASSUME NEW t \in table \ late, InRange(t), t >= c
               PROVE  served'[t] = 1
    <3>1. table \subseteq Period
      BY DEF IInv, TypeOK
    <3> QED
      BY <1>1, <1>5, <3>1 DEF NothingMissed
  <2>1. t \in Period
    BY DEF IInv, TypeOK
  <2>2. CASE Passed(t)
    <3>1. served[t] = 1
      BY <2>2 DEF IInv, NothingMissed
    <3>2. t \notin Matching
      BY <1>3, <2>2
    <3> QED
      BY <1>3, <2>1, <3>1, <3>2
  <2>3. CASE ~Passed(t)
    <3>1. t \in Matching
      BY <2>3 DEF Matching, Passed
    <3>2. t \in page
      BY <1>2, <1>3, <3>1, NewestIsUpClosed
    <3> QED
      BY <1>3, <3>2
  <2> QED
    BY <2>2, <2>3
<1> QED
  BY <1>6, <1>7, <1>8, <1>9 DEF IInv

(* The last page serves all that is left.                                  *)
LEMMA LastPageIInv ==
  ASSUME IInv, NEW limit \in Limits, LastPage(limit)
  PROVE  IInv'
<1> DEFINE page == Newest(Matching, limit)
<1>1. /\ pc = "walking" /\ Returned(limit) /\ ~HasMore(limit)
      /\ table' = table /\ start' = start /\ end' = end /\ late' = late
      /\ pc' = "done" /\ cursor' = NoCursor
  BY DEF LastPage
<1>2. /\ Matching \in SUBSET Period
      /\ \A t \in Matching : t \in table /\ InRange(t) /\ ~Passed(t)
      /\ served' \in [Period -> Nat]
      /\ \A t \in page : served'[t] = 1
      /\ \A t \in Period \ page : served'[t] = served[t]
  BY <1>1, PageIsNew
<1>3. page = Matching
  BY <1>1, <1>2, NewestIsAll DEF HasMore
<1>4. \A t : (Passed(t))' /\ ((InRange(t))' <=> InRange(t))
  BY <1>1 DEF Passed, InRange
<1>5. TypeOK'
  BY <1>1, <1>2 DEF IInv, TypeOK
<1>6. ServedIsPassed'
  BY <1>4 DEF ServedIsPassed
<1>7. NothingTwice'
  <2> SUFFICES ASSUME NEW t \in Period
               PROVE  /\ served'[t] <= 1
                      /\ served'[t] > 0 => t \in table' /\ (InRange(t))'
    BY DEF NothingTwice
  <2>1. CASE t \in page
    BY <1>1, <1>2, <1>3, <1>4, <2>1
  <2>2. CASE t \notin page
    BY <1>1, <1>2, <1>4, <2>2 DEF IInv, NothingTwice
  <2> QED
    BY <2>1, <2>2
<1>8. NothingMissed'
  <2> SUFFICES ASSUME NEW t \in table \ late, InRange(t)
               PROVE  served'[t] = 1
    BY <1>1, <1>4 DEF NothingMissed
  <2>1. t \in Period
    BY DEF IInv, TypeOK
  <2>2. CASE Passed(t)
    <3>1. served[t] = 1
      BY <2>2 DEF IInv, NothingMissed
    <3>2. t \notin page
      BY <1>2, <1>3, <2>2
    <3> QED
      BY <1>2, <2>1, <3>1, <3>2
  <2>3. CASE ~Passed(t)
    <3>1. t \in page
      BY <1>3, <2>3 DEF Matching, Passed
    <3> QED
      BY <1>2, <3>1
  <2> QED
    BY <2>2, <2>3
<1> QED
  BY <1>5, <1>6, <1>7, <1>8 DEF IInv

(* An inserted row was never served; it is owed to the walk only when the  *)
(* walk has not passed it.                                                 *)
LEMMA InsertIInv ==
  ASSUME IInv, NEW x \in Period, Insert(x)
  PROVE  IInv'
<1>1. /\ x \notin table /\ table' = table \cup {x}
      /\ late' = IF Passed(x) THEN late \cup {x} ELSE late
      /\ start' = start /\ end' = end /\ pc' = pc /\ cursor' = cursor /\ served' = served
  BY DEF Insert
<1>2. \A t : ((Passed(t))' <=> Passed(t)) /\ ((InRange(t))' <=> InRange(t))
  BY <1>1 DEF Passed, BeforeCursor, InRange
<1>3. TypeOK'
  BY <1>1 DEF IInv, TypeOK
<1>4. NothingTwice'
  BY <1>1, <1>2 DEF IInv, NothingTwice
<1>5. ServedIsPassed'
  BY <1>1, <1>2 DEF IInv, ServedIsPassed
<1>6. NothingMissed'
  <2> SUFFICES ASSUME NEW t \in table' \ late', InRange(t), Passed(t)
               PROVE  served[t] = 1
    BY <1>1, <1>2 DEF NothingMissed
  <2>1. t \in table \ late
    BY <1>1
  <2> QED
    BY <2>1 DEF IInv, NothingMissed
<1> QED
  BY <1>3, <1>4, <1>5, <1>6 DEF IInv

LEMMA NextIInv == IInv /\ [Next]_vars => IInv'
<1> SUFFICES ASSUME IInv, [Next]_vars
             PROVE  IInv'
  OBVIOUS
<1>1. ASSUME NEW limit \in Limits, NextPage(limit)
      PROVE  IInv'
  BY <1>1, NextPageIInv
<1>2. ASSUME NEW limit \in Limits, LastPage(limit)
      PROVE  IInv'
  BY <1>2, LastPageIInv
<1>3. ASSUME NEW t \in Period, Insert(t)
      PROVE  IInv'
  BY <1>3, InsertIInv
<1>4. CASE UNCHANGED vars
  BY <1>4 DEF vars, IInv, TypeOK, NothingTwice, NothingMissed, ServedIsPassed,
              Passed, BeforeCursor, InRange
<1> QED
  BY <1>1, <1>2, <1>3, <1>4 DEF Next

LEMMA Inductive == Spec => []IInv
BY InitIInv, NextIInv, PTL DEF Spec

(* The domains of the walk's state, for every set of hours and limits.     *)
THEOREM TypeCorrect == Spec => []TypeOK
BY Inductive, PTL DEF IInv

(* Keyset pages are stable under inserts: no hour is returned twice, none  *)
(* outside the range (pagination.py:3-5).                                  *)
THEOREM WalkReturnsNothingTwice == Spec => []NothingTwice
BY Inductive, PTL DEF IInv

(* Every hour of the range that the walk has passed, and that was there    *)
(* when it did, has been returned; at the end, all of them.                *)
THEOREM WalkMissesNothing == Spec => []NothingMissed
BY Inductive, PTL DEF IInv

-----------------------------------------------------------------------------
(* The promise of a listing.  What is got and owed in it:                  *)

Got == {t \in Period : served[t] > 0}
Owed == {t \in table : InRange(t) /\ ~Passed(t)}

(* What a walk has got lies above what it has not passed.                  *)
LEMMA GotIsAbove ==
  ASSUME IInv, NEW t \in Period, ~Passed(t), NEW s \in Got
  PROVE  s > t
<1>1. s \in Int /\ t \in Int /\ Passed(s)
  BY DEF IInv, ServedIsPassed, Got
<1>2. pc # "done" /\ cursor # NoCursor
  BY <1>1 DEF Passed, BeforeCursor
<1>3. cursor \in Int
  BY <1>2 DEF IInv, TypeOK
<1> QED
  BY <1>1, <1>2, <1>3 DEF Passed, BeforeCursor

LEMMA InitKeepsPromise == Init => Promise!Init
<1> SUFFICES ASSUME Init PROVE Promise!Init
  OBVIOUS
<1>1. {t \in Period : served[t] > 0} = {}
  BY DEF Init
<1>2. {t \in table : InRange(t) /\ ~Passed(t)} \in SUBSET Period
  BY DEF Init
<1>3. (pc = "done") = FALSE
  BY DEF Init
<1> QED
  BY <1>1, <1>2, <1>3 DEF Promise!Init

(* A page hands over the newest rows owed (queries.py:176-183).            *)
LEMMA PageDelivers ==
  ASSUME IInv, NEW limit \in Limits, pc = "walking", Returned(limit),
         table' = table,
         Owed' = Owed \ Newest(Matching, limit),
         pc' = "walking" \/ (pc' = "done" /\ Owed' = {})
  PROVE  Promise!Next
<1> DEFINE page == Newest(Matching, limit)
<1>1. /\ Matching \in SUBSET Period
      /\ page \subseteq Matching
      /\ \A t \in Matching : t \in table /\ InRange(t) /\ ~Passed(t)
      /\ served' \in [Period -> Nat]
      /\ \A t \in page : served'[t] = 1
      /\ \A t \in Period \ page : served'[t] = served[t]
  BY PageIsNew
<1>2. Owed = Matching
  BY DEF Owed, Matching, Passed
<1>3. \A s \in page, t \in Owed \ page : s > t
  <2> SUFFICES ASSUME NEW s \in page, NEW t \in Matching \ page
               PROVE  s > t
    BY <1>2
  <2>1. s \in Int /\ t \in Int
    BY <1>1
  <2>2. limit \in Nat
    OBVIOUS
  <2>3. ~(t >= s)
    BY <1>1, <2>2, NewestIsUpClosed
  <2> QED
    BY <2>1, <2>3
<1>4. \A s \in Got, t \in page : s > t
  BY <1>1, GotIsAbove
<1>5. Got' = Got \cup page
  <2>1. \A t \in page : t \in Period /\ served'[t] = 1
    BY <1>1
  <2>2. \A t \in Period \ page : served'[t] > 0 <=> served[t] > 0
    BY <1>1
  <2>3. page \subseteq Period
    BY <2>1
  <2> HIDE DEF page
  <2>4. ASSUME NEW t \in Period
        PROVE  t \in Got' <=> t \in Got \cup page
    <3>1. CASE t \in page
      <4>1. served'[t] > 0
        BY <2>1, <3>1
      <4> QED
        BY <3>1, <4>1 DEF Got
    <3>2. CASE t \notin page
      BY <2>2, <3>2 DEF Got
    <3> QED
      BY <3>1, <3>2
  <2>5. Got' \subseteq Period /\ Got \subseteq Period
    BY DEF Got
  <2> QED
    BY <2>3, <2>4, <2>5
<1> DEFINE finished == pc = "done"
<1>6. ~finished /\ finished' \in {FALSE, Owed' = {}}
  <2>1. pc # "done"
    OBVIOUS
  <2>2. CASE pc' = "walking"
    BY <2>1, <2>2
  <2>3. CASE pc' = "done" /\ Owed' = {}
    BY <2>1, <2>3
  <2> QED
    BY <2>2, <2>3
<1>7. page \in SUBSET Owed
  BY <1>1, <1>2
<1>8. PICK S \in SUBSET {t \in table : InRange(t) /\ ~Passed(t)} : S = page
  BY <1>7 DEF Owed
<1>9. Promise!Deliver(S)
  BY <1>3, <1>4, <1>5, <1>6, <1>7, <1>8 DEF Promise!Deliver, Promise!Above, Got, Owed
<1> QED
  BY <1>8, <1>9 DEF Promise!Next

LEMMA StepKeepsPromise == IInv /\ [Next]_vars => [Promise!Next]_<<Got, Owed, pc = "done">>
<1> SUFFICES ASSUME IInv, [Next]_vars
             PROVE  [Promise!Next]_<<Got, Owed, pc = "done">>
  OBVIOUS
<1>1. ASSUME NEW limit \in Limits, NextPage(limit)
      PROVE  Promise!Next
  <2> DEFINE page == Newest(Matching, limit)
  <2>1. /\ pc = "walking" /\ pc' = pc /\ Returned(limit)
        /\ table' = table /\ start' = start /\ end' = end
    BY <1>1 DEF NextPage
  <2>2. PICK c : c \in page /\ (\A u \in page : c <= u) /\ cursor' = c
    BY <1>1 DEF NextPage, CursorAfter, Last
  <2>3. Matching \in SUBSET Period /\ page \subseteq Matching
    BY <2>1, PageIsNew
  <2>4. c \in Int /\ c # NoCursor /\ BeforeCursor(c) /\ limit \in Nat
    BY <2>2, <2>3 DEF Matching
  <2>5. ASSUME NEW t \in table
        PROVE  t \in Owed' <=> t \in Owed \ page
    <3>1. t \in Period /\ t \in Int
      BY DEF IInv, TypeOK
    <3>2. cursor # NoCursor => cursor \in Int
      BY DEF IInv, TypeOK
    <3>3. t \in Owed' <=> InRange(t) /\ t < c
      BY <2>1, <2>2, <2>4, <3>1 DEF Owed, InRange, Passed, BeforeCursor
    <3>4. t \in Owed <=> t \in Matching
      BY <2>1 DEF Owed, Matching, Passed
    <3>5. t < c /\ InRange(t) => t \in Matching
      BY <2>4, <3>1, <3>2 DEF Matching, BeforeCursor
    <3>6. t < c => t \notin page
      BY <2>2, <2>4, <3>1
    <3>7. t \in Matching /\ t >= c => t \in page
      BY <2>2, <2>3, <2>4, NewestIsUpClosed
    <3>8. t \in Matching => InRange(t)
      BY DEF Matching
    <3> QED
      BY <2>4, <3>1, <3>3, <3>4, <3>5, <3>6, <3>7, <3>8
  <2>6. Owed' \subseteq table /\ Owed \subseteq table
    BY <2>1 DEF Owed
  <2>7. Owed' = Owed \ page
    BY <2>5, <2>6
  <2> QED
    BY <2>1, <2>7, PageDelivers
<1>2. ASSUME NEW limit \in Limits, LastPage(limit)
      PROVE  Promise!Next
  <2>1. /\ pc = "walking" /\ pc' = "done" /\ Returned(limit) /\ ~HasMore(limit)
        /\ table' = table
    BY <1>2 DEF LastPage
  <2>2. Matching \in SUBSET Period
    BY <2>1, PageIsNew
  <2>3. Newest(Matching, limit) = Matching
    BY <2>1, <2>2, NewestIsAll DEF HasMore
  <2>4. Owed' = {} /\ Owed = Matching
    BY <2>1 DEF Owed, Matching, Passed
  <2> QED
    BY <2>1, <2>3, <2>4, PageDelivers
<1>3. ASSUME NEW t \in Period, Insert(t)
      PROVE  [Promise!Next]_<<Got, Owed, pc = "done">>
  <2>1. /\ t \notin table /\ table' = table \cup {t}
        /\ start' = start /\ end' = end /\ pc' = pc /\ cursor' = cursor /\ served' = served
    BY <1>3 DEF Insert
  <2>2. \A u : ((Passed(u))' <=> Passed(u)) /\ ((InRange(u))' <=> InRange(u))
    BY <2>1 DEF Passed, BeforeCursor, InRange
  <2>3. Got' = Got /\ (pc = "done")' = (pc = "done")
    BY <2>1 DEF Got
  <2>4. CASE Passed(t) \/ ~InRange(t)
    <3>1. Owed' = Owed
      BY <2>1, <2>2, <2>4 DEF Owed
    <3> QED
      BY <2>3, <3>1
  <2>5. CASE ~Passed(t) /\ InRange(t)
    <3>1. Owed' = Owed \cup {t}
      BY <2>1, <2>2, <2>5 DEF Owed
    <3>2. pc # "done"
      BY <2>5 DEF Passed
    <3>3. \A s \in Got : s > t
      BY <2>5, GotIsAbove
    <3>4. Promise!Appear(t)
      BY <2>1, <2>3, <3>1, <3>2, <3>3 DEF Promise!Appear, Promise!Above, Got, Owed
    <3> QED
      BY <3>4 DEF Promise!Next
  <2> QED
    BY <2>4, <2>5
<1>4. CASE UNCHANGED vars
  BY <1>4 DEF vars, Got, Owed, Passed, BeforeCursor, InRange
<1> QED
  BY <1>1, <1>2, <1>3, <1>4 DEF Next

(* The walk implements the promise of a listing: pages hand over the       *)
(* newest hours owed, nothing twice, and the last one leaves nothing owed  *)
(* (queries.py:170-190).                                                   *)
THEOREM WalkKeepsPromise == Spec => KeepsPromise
BY InitKeepsPromise, Inductive, StepKeepsPromise, PTL DEF Spec, KeepsPromise, Promise!Spec, Got, Owed
=============================================================================
