----------------------------- MODULE TableProofs -----------------------------
(***************************************************************************)
(* Proofs about the two tables: the data pipeline that writes them, for    *)
(* every number of regions, hours and processes, every feed, and every     *)
(* interleaving of runs, failures and crashes; and the answers of          *)
(* /v1/carbon/now and /v1/carbon/compare that read them, for every number  *)
(* of requests in flight and every behaviour of the pipeline beside them.  *)
(***************************************************************************)
EXTENDS CarbonNow, FiniteSetTheorems, WellFoundedInduction, TLAPS

LEMMA OnlyItem ==
  ASSUME NEW S, NEW s \in Seq(S), Len(s) = 1 PROVE 1 \in DOMAIN s /\ s[1] \in S
OBVIOUS

USE MixesAreMixes, WorkersWork, BoundsAreNaturals, RegionsAreSeeded
    DEF MixesAreMixes, WorkersWork, BoundsAreNaturals, RegionsAreSeeded

LEMMA EmptyIsMix == EmptyMix \in Mixes /\ NoMixes \in [Period -> Mixes]
BY DEF EmptyMix, Mixes, NoMixes

LEMMA NobodyIsRegion == Nobody \in Region
BY DEF Nobody

LEMMA UpsertedIsMixes ==
  ASSUME NEW old \in [Period -> Mixes], NEW new \in [Period -> Mixes]
  PROVE  Upserted(old, new) \in [Period -> Mixes]
BY DEF Upserted, Mixes

(* An upsert never leaves an hour without rows that had some or gets some. *)
LEMMA UpsertKeepsRows ==
  ASSUME NEW old \in [Period -> Mixes], NEW new \in [Period -> Mixes],
         NEW t \in Period, old[t] # EmptyMix \/ new[t] # EmptyMix
  PROVE  Upserted(old, new)[t] # EmptyMix
<1>1. \A m \in Mixes : (\A f \in Fuel : m[f] = NoRow) => m = EmptyMix
  BY DEF Mixes, EmptyMix
<1>2. PICK f \in Fuel : old[t][f] # NoRow \/ new[t][f] # NoRow
  BY <1>1
<1>3. Upserted(old, new)[t][f] # NoRow
  BY <1>2 DEF Upserted
<1>4. EmptyMix[f] = NoRow
  BY DEF EmptyMix
<1> QED
  BY <1>3, <1>4

-----------------------------------------------------------------------------
(* Type correctness *)

LEMMA InitTypeOK == Init => TypeOK
<1> SUFFICES ASSUME Init
             PROVE  TypeOK
  OBVIOUS
<1> USE EmptyIsMix, NobodyIsRegion
<1>1. gen \in [Region -> [Period -> Mixes]] /\ feed \in [Region -> [Period -> Mixes]]
  BY DEF Init
<1>2. batch \in [Worker -> [Period -> Mixes]] /\ region \in [Worker -> Region]
  BY DEF Init
<1>3. seen \in [Region -> [Period -> SUBSET Mixes]]
  BY DEF Init
<1>4. \A w \in Worker : ~AtHand(w)
  BY DEF Init, AtHand
<1> QED
  BY <1>1, <1>2, <1>3, <1>4 DEF Init, TypeOK, RunPc

LEMMA ExitTypes ==
  ASSUME TypeOK, NEW w \in Worker, Exit(w)
  PROVE  /\ pc' \in [Worker -> RunPc]
         /\ job' \in [Worker -> {"none", "ingest", "compute"}]
         /\ todo' \in [Worker -> SUBSET Region]
         /\ \A v \in Worker : (AtHand(v))' => region'[v] \notin todo'[v]
         /\ region' \in [Worker -> Region]
         /\ batch' \in [Worker -> [Period -> Mixes]]
         /\ results' \in [Worker -> [Region -> {"none", "rows", "zero", "failed"}]]
         /\ kept' \in [Worker -> [Region -> SUBSET Period]]
<1> USE EmptyIsMix, NobodyIsRegion DEF Exit, TypeOK
<1>1. pc' \in [Worker -> RunPc] /\ job' \in [Worker -> {"none", "ingest", "compute"}]
  BY DEF RunPc
<1>2. todo' \in [Worker -> SUBSET Region] /\ region' \in [Worker -> Region]
  OBVIOUS
<1>3. batch' \in [Worker -> [Period -> Mixes]]
  OBVIOUS
<1>4. /\ results' \in [Worker -> [Region -> {"none", "rows", "zero", "failed"}]]
      /\ kept' \in [Worker -> [Region -> SUBSET Period]]
  OBVIOUS
<1>5. \A v \in Worker : (AtHand(v))' => region'[v] \notin todo'[v]
  BY DEF AtHand
<1> QED
  BY <1>1, <1>2, <1>3, <1>4, <1>5

LEMMA RaisesTypes ==
  ASSUME TypeOK, NEW w \in Worker, NEW r \in Region, Raises(w, r)
  PROVE  /\ pc' \in [Worker -> RunPc]
         /\ job' \in [Worker -> {"none", "ingest", "compute"}]
         /\ todo' \in [Worker -> SUBSET Region]
         /\ \A v \in Worker : (AtHand(v))' => region'[v] \notin todo'[v]
         /\ region' \in [Worker -> Region]
         /\ batch' \in [Worker -> [Period -> Mixes]]
         /\ results' \in [Worker -> [Region -> {"none", "rows", "zero", "failed"}]]
         /\ kept' \in [Worker -> [Region -> SUBSET Period]]
<1>1. CASE job[w] = "compute"
  BY <1>1, ExitTypes DEF Raises
<1>2. CASE job[w] # "compute"
  <2>1. /\ pc' = [pc EXCEPT ![w] = "next"]
        /\ todo' = [todo EXCEPT ![w] = Rest(w, r)]
        /\ batch' = [batch EXCEPT ![w] = NoMixes]
        /\ results' = [results EXCEPT ![w][r] = "failed"]
        /\ job' = job /\ region' = region /\ kept' = kept
    BY <1>2 DEF Raises
  <2>2. pc' \in [Worker -> RunPc]
    BY <2>1 DEF RunPc, TypeOK
  <2>3. batch' \in [Worker -> [Period -> Mixes]]
    BY <2>1, EmptyIsMix DEF TypeOK
  <2>4. todo' \in [Worker -> SUBSET Region]
    BY <2>1 DEF Rest, TypeOK
  <2>5. results' \in [Worker -> [Region -> {"none", "rows", "zero", "failed"}]]
    BY <2>1 DEF TypeOK
  <2>6. \A v \in Worker : (AtHand(v))' => region'[v] \notin todo'[v]
    BY <2>1 DEF AtHand, Rest, TypeOK
  <2> QED
    BY <2>1, <2>2, <2>3, <2>4, <2>5, <2>6 DEF TypeOK
<1> QED
  BY <1>1, <1>2

LEMMA NextTypeOK == TypeOK /\ [Next]_vars => TypeOK'
<1> SUFFICES ASSUME TypeOK, [Next]_vars
             PROVE  TypeOK'
  OBVIOUS
<1> USE EmptyIsMix, NobodyIsRegion
<1>1. ASSUME NEW r \in Region, Publish(r)
      PROVE  TypeOK'
  <2>1. published[r] + 1 \in Period
    BY <1>1 DEF Publish, TypeOK, Period
  <2>2. published' \in [Region -> 0..LastPeriod]
    BY <1>1 DEF Publish, TypeOK
  <2>3. feed' \in [Region -> [Period -> Mixes]]
    BY <1>1, <2>1 DEF Publish, TypeOK
  <2> QED
    BY <1>1, <2>2, <2>3 DEF Publish, TypeOK, tableVars, runVars, AtHand
<1>2. ASSUME NEW r \in Region, NEW t \in Period, Revise(r, t)
      PROVE  TypeOK'
  <2>1. feed' \in [Region -> [Period -> Mixes]]
    BY <1>2 DEF Revise, TypeOK
  <2> QED
    BY <1>2, <2>1 DEF Revise, TypeOK, tableVars, runVars, AtHand
<1>3. ASSUME NEW w \in Worker, NEW command \in {"ingest", "compute"}, Start(w, command)
      PROVE  TypeOK'
  BY <1>3 DEF Start, TypeOK, RunPc, eiaVars, tableVars, AtHand
<1>4. ASSUME NEW w \in Worker, EndRun(w)
      PROVE  TypeOK'
  BY <1>4, ExitTypes DEF EndRun, TypeOK, eiaVars, tableVars
<1>5. ASSUME NEW w \in Worker, NEW r \in Region, Fetch(w, r)
      PROVE  TypeOK'
  <2>1. Fetched(r) \in [Period -> Mixes]
    BY DEF Fetched, TypeOK
  <2>2. batch' \in [Worker -> [Period -> Mixes]]
    BY <1>5, <2>1 DEF Fetch, TypeOK
  <2> QED
    BY <1>5, <2>2 DEF Fetch, TypeOK, RunPc, Rest, eiaVars, tableVars, AtHand
<1>6. ASSUME NEW w \in Worker, NEW r \in Region, FetchNothing(w, r)
      PROVE  TypeOK'
  BY <1>6 DEF FetchNothing, TypeOK, RunPc, Rest, eiaVars, tableVars, AtHand
<1>7. ASSUME NEW w \in Worker, CommitGeneration(w)
      PROVE  TypeOK'
  <2> DEFINE r == region[w]
             stored == Upserted(gen[r], batch[w])
  <2>1. r \in Region /\ stored \in [Period -> Mixes]
    BY UpsertedIsMixes DEF TypeOK
  <2>2. gen' \in [Region -> [Period -> Mixes]]
    BY <1>7, <2>1 DEF CommitGeneration, TypeOK
  <2>3. seen' \in [Region -> [Period -> SUBSET Mixes]]
    BY <1>7, <2>1 DEF CommitGeneration, TypeOK
  <2>4. kept' \in [Worker -> [Region -> SUBSET Period]]
    BY <1>7, <2>1 DEF CommitGeneration, TypeOK
  <2> QED
    BY <1>7, <2>2, <2>3, <2>4 DEF CommitGeneration, TypeOK, RunPc, eiaVars, AtHand
<1>8. ASSUME NEW w \in Worker, NEW r \in Region, PickRegion(w, r)
      PROVE  TypeOK'
  BY <1>8 DEF PickRegion, TypeOK, RunPc, Rest, eiaVars, tableVars, AtHand
<1>9. ASSUME NEW w \in Worker, ReadGeneration(w)
      PROVE  TypeOK'
  BY <1>9 DEF ReadGeneration, GenerationRead, TypeOK, RunPc, eiaVars, tableVars, AtHand
<1>10. ASSUME NEW w \in Worker, CommitIntensity(w)
       PROVE  TypeOK'
  BY <1>10 DEF CommitIntensity, Computed, TypeOK, RunPc, eiaVars, AtHand
<1>11. ASSUME NEW w \in Worker, NEW r \in Region, FetchFails(w, r)
       PROVE  TypeOK'
  <2>1. faults' \in 0..MaxFaults
    BY <1>11 DEF FetchFails, MayFail, TypeOK
  <2> QED
    BY <1>11, <2>1, RaisesTypes DEF FetchFails, TypeOK, eiaVars, tableVars
<1>12. ASSUME NEW w \in Worker, TransactionFails(w)
       PROVE  TypeOK'
  <2>1. faults' \in 0..MaxFaults
    BY <1>12 DEF TransactionFails, MayFail, TypeOK
  <2>2. tainted' \in [Region -> BOOLEAN]
    BY <1>12 DEF TransactionFails, TypeOK
  <2>3. region[w] \in Region /\ Raises(w, region[w])
    BY <1>12 DEF TransactionFails, TypeOK
  <2> QED
    BY <1>12, <2>1, <2>2, <2>3, RaisesTypes DEF TransactionFails, TypeOK, eiaVars
<1>13. ASSUME NEW w \in Worker, Crash(w)
       PROVE  TypeOK'
  <2>1. faults' \in 0..MaxFaults /\ tainted' \in [Region -> BOOLEAN]
    BY <1>13 DEF Crash, TypeOK
  <2> QED
    BY <1>13, <2>1, ExitTypes DEF Crash, TypeOK, eiaVars
<1>14. CASE UNCHANGED vars
  BY <1>14 DEF vars, eiaVars, tableVars, runVars, TypeOK, AtHand
<1> QED
  BY <1>1, <1>2, <1>3, <1>4, <1>5, <1>6, <1>7, <1>8, <1>9, <1>10, <1>11, <1>12, <1>13, <1>14
  DEF Next, Eia, Advance, Fault, StartIngest, StartCompute

(* Every variable of the pipeline stays in its domain.                     *)
THEOREM TypeCorrect == Spec => []TypeOK
BY InitTypeOK, NextTypeOK, PTL DEF Spec

-----------------------------------------------------------------------------
(* What a step does to the tables and to a run, whichever step it is       *)

LEMMA TableSteps ==
  ASSUME [Next]_vars
  PROVE  /\ \/ gen' = gen /\ seen' = seen
            \/ \E w \in Worker : CommitGeneration(w)
         /\ intensity' = intensity \/ \E w \in Worker : CommitIntensity(w)
BY DEF Next, Eia, Publish, Revise, StartIngest, StartCompute, Start, Advance, EndRun,
       Fetch, FetchNothing, PickRegion, ReadGeneration, CommitGeneration, CommitIntensity,
       Fault, TransactionFails, Crash, FetchFails, vars, tableVars

(* Committed versions are never forgotten.                                 *)
LEMMA SeenGrows ==
  ASSUME TypeOK, [Next]_vars, NEW r \in Region, NEW t \in Period
  PROVE  seen[r][t] \subseteq seen'[r][t]
<1>1. CASE seen' = seen
  BY <1>1
<1>2. ASSUME NEW w \in Worker, CommitGeneration(w)
      PROVE  seen[r][t] \subseteq seen'[r][t]
  BY <1>2 DEF CommitGeneration, TypeOK
<1> QED
  BY <1>1, <1>2, TableSteps

(* An intensity row, once there, is there for good.                        *)
LEMMA IntensityStays ==
  ASSUME TypeOK, [Next]_vars, NEW r \in Region, NEW t \in Period,
         intensity[r][t] # NoIntensity
  PROVE  intensity'[r][t] # NoIntensity
<1>1. CASE intensity' = intensity
  BY <1>1
<1>2. ASSUME NEW w \in Worker, CommitIntensity(w)
      PROVE  intensity'[r][t] # NoIntensity
  <2>1. CASE r = region[w]
    <3>1. intensity'[r] = Computed(w)
      BY <1>2, <2>1 DEF CommitIntensity, TypeOK
    <3> QED
      BY <2>1, <3>1 DEF Computed
  <2>2. CASE r # region[w]
    BY <1>2, <2>2 DEF CommitIntensity, TypeOK
  <2> QED
    BY <2>1, <2>2
<1> QED
  BY <1>1, <1>2, TableSteps

(* A run at hand goes on, or ends and forgets, or belongs to another       *)
(* worker.                                                                 *)
LEMMA ReaderSteps ==
  ASSUME TypeOK, [Next]_vars, NEW v \in Worker, pc'[v] = "computed"
  PROVE  \/ ReadGeneration(v)
         \/ /\ pc[v] = "computed" /\ region'[v] = region[v]
            /\ batch'[v] = batch[v] /\ kept'[v] = kept[v]
<1> USE DEF TypeOK
<1> DEFINE Same == /\ pc[v] = "computed" /\ region'[v] = region[v]
                   /\ batch'[v] = batch[v] /\ kept'[v] = kept[v]
<1>1. CASE Eia \/ UNCHANGED vars
  BY <1>1 DEF Eia, Publish, Revise, vars, runVars
<1>2. ASSUME NEW w \in Worker, StartIngest(w) \/ StartCompute(w)
      PROVE  Same
  BY <1>2 DEF StartIngest, StartCompute, Start
<1>3. ASSUME NEW w \in Worker, EndRun(w) \/ Crash(w)
      PROVE  Same
  BY <1>3 DEF EndRun, Crash, Exit
<1>4. ASSUME NEW w \in Worker, NEW r \in Region,
             Fetch(w, r) \/ FetchNothing(w, r) \/ PickRegion(w, r)
      PROVE  Same
  BY <1>4 DEF Fetch, FetchNothing, PickRegion
<1>5. ASSUME NEW w \in Worker, CommitGeneration(w)
      PROVE  Same
  BY <1>5 DEF CommitGeneration
<1>6. ASSUME NEW w \in Worker, ReadGeneration(w)
      PROVE  Same \/ ReadGeneration(v)
  BY <1>6 DEF ReadGeneration
<1>7. ASSUME NEW w \in Worker, CommitIntensity(w)
      PROVE  Same
  BY <1>7 DEF CommitIntensity
<1>8. ASSUME NEW w \in Worker, NEW r \in Region, Raises(w, r)
      PROVE  Same
  BY <1>8 DEF Raises, Exit
<1>9. ASSUME NEW w \in Worker, Fault(w)
      PROVE  Same
  BY <1>3, <1>8, <1>9 DEF Fault, TransactionFails, FetchFails
<1> QED
  BY <1>1, <1>2, <1>3, <1>4, <1>5, <1>6, <1>7, <1>9 DEF Next, Advance

LEMMA KeptSteps ==
  ASSUME TypeOK, [Next]_vars, NEW v \in Worker, NEW r \in Region
  PROVE  \/ kept'[v][r] \subseteq kept[v][r]
         \/ /\ CommitGeneration(v) /\ r = region[v]
            /\ kept'[v][r] = {t \in Period : batch[v][t] # EmptyMix}
<1> USE DEF TypeOK
<1> DEFINE Fewer == kept'[v][r] \subseteq kept[v][r]
<1>1. CASE kept' = kept
  BY <1>1
<1>2. ASSUME NEW w \in Worker, Exit(w)
      PROVE  Fewer
  BY <1>2 DEF Exit
<1>3. ASSUME NEW w \in Worker, CommitGeneration(w)
      PROVE  Fewer \/ /\ CommitGeneration(v) /\ r = region[v]
                      /\ kept'[v][r] = {t \in Period : batch[v][t] # EmptyMix}
  <2>1. kept' = [kept EXCEPT ![w][region[w]] = {t \in Period : batch[w][t] # EmptyMix}]
    BY <1>3 DEF CommitGeneration
  <2>2. CASE w = v /\ r = region[v]
    BY <1>3, <2>1, <2>2
  <2>3. CASE ~(w = v /\ r = region[v])
    <3>1. kept'[v][r] = kept[v][r]
      BY <2>1, <2>3
    <3> QED
      BY <3>1
  <2> QED
    BY <2>2, <2>3
<1>4. ASSUME NEW w \in Worker, Fault(w)
      PROVE  Fewer
  <2>1. Exit(w) \/ kept' = kept
    BY <1>4 DEF Fault, TransactionFails, Crash, FetchFails, Raises
  <2> QED
    BY <1>1, <1>2, <2>1
<1>5. ASSUME NEW w \in Worker, Advance(w)
      PROVE  kept' = kept \/ Exit(w) \/ CommitGeneration(w)
  BY <1>5 DEF Advance, EndRun, Fetch, FetchNothing, PickRegion, ReadGeneration,
              CommitIntensity
<1>6. ASSUME NEW w \in Worker, StartIngest(w) \/ StartCompute(w)
      PROVE  kept' = kept
  BY <1>6 DEF StartIngest, StartCompute, Start
<1>7. CASE Eia \/ UNCHANGED vars
  BY <1>1, <1>7 DEF Eia, Publish, Revise, vars, runVars
<1> QED
  BY <1>1, <1>2, <1>3, <1>4, <1>5, <1>6, <1>7 DEF Next

LEMMA ResultSteps ==
  ASSUME TypeOK, [Next]_vars, NEW v \in Worker, NEW r \in Region,
         results'[v][r] = "rows"
  PROVE  results[v][r] = "rows" \/ (CommitIntensity(v) /\ r = region[v])
<1> USE DEF TypeOK
<1>1. CASE results' = results
  BY <1>1
<1>2. ASSUME NEW w \in Worker, Exit(w)
      PROVE  results[v][r] = "rows"
  BY <1>2 DEF Exit
<1>3. ASSUME NEW w \in Worker, NEW s \in Region, Raises(w, s)
      PROVE  results[v][r] = "rows"
  <2>1. CASE job[w] = "compute"
    BY <1>2, <1>3, <2>1 DEF Raises
  <2>2. CASE job[w] # "compute"
    <3>1. results' = [results EXCEPT ![w][s] = "failed"]
      BY <1>3, <2>2 DEF Raises
    <3> QED
      BY <3>1
  <2> QED
    BY <2>1, <2>2
<1>4. ASSUME NEW w \in Worker, NEW s \in Region, FetchNothing(w, s)
      PROVE  results[v][r] = "rows"
  BY <1>4 DEF FetchNothing
<1>5. ASSUME NEW w \in Worker, CommitIntensity(w)
      PROVE  results[v][r] = "rows" \/ (CommitIntensity(v) /\ r = region[v])
  BY <1>5 DEF CommitIntensity
<1> QED
  BY <1>1, <1>2, <1>3, <1>4, <1>5
  DEF Next, Eia, Publish, Revise, StartIngest, StartCompute, Start, Advance, EndRun,
      Fetch, PickRegion, ReadGeneration, CommitGeneration,
      Fault, TransactionFails, Crash, FetchFails, vars, runVars

-----------------------------------------------------------------------------
(* Sums: what SumFunctionOnSet computes, by induction over subsets.  A     *)
(* property is given as the set of the sets that have it.                  *)

LEMMA SubsetInduction ==
  ASSUME NEW S, IsFiniteSet(S), NEW Good,
         \A T \in SUBSET S : (\A U \in SUBSET T : U # T => U \in Good) => T \in Good
  PROVE  SUBSET S \subseteq Good
<1> DEFINE Bad == {T \in SUBSET S : T \notin Good}
<1> SUFFICES ASSUME Bad # {} PROVE FALSE
  OBVIOUS
<1>1. IsWellFoundedOn(StrictSubsetOrdering(S), SUBSET S)
  <2>1. FiniteSubsetsOf(S) = SUBSET S
    BY FS_FiniteSubsetsOfFinite
  <2>2. IsWellFoundedOn(StrictSubsetOrdering(S), FiniteSubsetsOf(S))
    BY FS_StrictSubsetOrderingWellFounded
  <2> QED BY <2>1, <2>2
<1>2. PICK T \in Bad : \A U \in Bad : ~(<<U, T>> \in StrictSubsetOrdering(S))
  <2>1. Bad \subseteq SUBSET S
    OBVIOUS
  <2> HIDE DEF Bad
  <2> QED BY <1>1, <2>1, WFMin
<1>3. ASSUME NEW U \in SUBSET T, U # T PROVE U \in Good
  BY <1>2, <1>3 DEF StrictSubsetOrdering
<1> QED BY <1>3

First(S) == CHOOSE x \in S : TRUE

(* The recursive function of which a sum is the value at the whole set.    *)
IsSum(v, S, it) ==
  it = [T \in SUBSET S |-> IF T = {} THEN 0 ELSE v[First(T)] + it[T \ {First(T)}]]

TheSum(v, S) == CHOOSE it : IsSum(v, S, it)

LEMMA SumIsTheSum ==
  ASSUME NEW v, NEW S PROVE SumFunctionOnSet(v, S) = TheSum(v, S)[S]
BY Zenon DEF SumFunctionOnSet, FoldFunctionOnSet, MapThenFoldSet, TheSum, IsSum, First

LEMMA SumUnique ==
  ASSUME NEW v, NEW S, IsFiniteSet(S), NEW T \in SUBSET S, NEW f, NEW g,
         IsSum(v, S, f), IsSum(v, T, g)
  PROVE  \A U \in SUBSET T : f[U] = g[U]
<1> DEFINE Good == {U \in SUBSET T : f[U] = g[U]}
<1>1. ASSUME NEW U \in SUBSET T, \A V \in SUBSET U : V # U => V \in Good
      PROVE  U \in Good
  <2>1. f[U] = (IF U = {} THEN 0 ELSE v[First(U)] + f[U \ {First(U)}])
    <3>1. U \in SUBSET S OBVIOUS
    <3> QED BY <3>1, Zenon DEF IsSum
  <2>2. g[U] = (IF U = {} THEN 0 ELSE v[First(U)] + g[U \ {First(U)}])
    BY Zenon DEF IsSum
  <2>3. U # {} => U \ {First(U)} \in Good
    <3>1. U # {} => First(U) \in U
      BY DEF First
    <3> QED BY <1>1, <3>1
  <2> QED BY <2>1, <2>2, <2>3
<1>2. IsFiniteSet(T)
  BY FS_Subset
<1>3. SUBSET T \subseteq Good
  <2> HIDE DEF Good
  <2> QED BY <1>1, <1>2, SubsetInduction
<1> QED BY <1>3

LEMMA SumExists ==
  ASSUME NEW v, NEW S, IsFiniteSet(S) PROVE IsSum(v, S, TheSum(v, S))
<1> DEFINE Good == {T \in SUBSET S : \E it : IsSum(v, T, it)}
<1>1. ASSUME NEW T \in SUBSET S, \A U \in SUBSET T : U # T => U \in Good
      PROVE  T \in Good
  <2> DEFINE value(U) == TheSum(v, U)[U]
             it == [U \in SUBSET T |->
                      IF U = {} THEN 0 ELSE v[First(U)] + value(U \ {First(U)})]
  <2>1. ASSUME NEW U \in SUBSET T, U # T
        PROVE  IsSum(v, U, TheSum(v, U))
    <3>1. \E g : IsSum(v, U, g)
      BY <1>1, <2>1
    <3> QED BY <3>1, Zenon DEF TheSum
  <2>2. ASSUME NEW U \in SUBSET T, U # T
        PROVE  it[U] = value(U)
    <3>1. value(U) = (IF U = {} THEN 0 ELSE v[First(U)] + TheSum(v, U)[U \ {First(U)}])
      <4>1. IsSum(v, U, TheSum(v, U))
        BY <2>1, <2>2
      <4> QED BY <4>1, Zenon DEF IsSum
    <3>2. ASSUME U # {}
          PROVE  TheSum(v, U)[U \ {First(U)}] = value(U \ {First(U)})
      <4> DEFINE V == U \ {First(U)}
      <4>0. First(U) \in U
        BY <3>2 DEF First
      <4>1. V \in SUBSET U /\ V \in SUBSET T /\ V # T
        BY <4>0
      <4>2. IsSum(v, U, TheSum(v, U)) /\ IsSum(v, V, TheSum(v, V))
        BY <2>1, <2>2, <4>1
      <4>3. IsFiniteSet(U)
        BY FS_Subset
      <4> HIDE DEF V
      <4>4. TheSum(v, U)[V] = TheSum(v, V)[V]
        BY <4>1, <4>2, <4>3, SumUnique
      <4> QED BY <4>4 DEF V
    <3>3. it[U] = (IF U = {} THEN 0 ELSE v[First(U)] + value(U \ {First(U)}))
      <4> HIDE DEF value
      <4> QED BY Zenon
    <3> QED BY <3>1, <3>2, <3>3
  <2>3. ASSUME NEW U \in SUBSET T, U # {}
        PROVE  it[U \ {First(U)}] = value(U \ {First(U)})
    <3>1. First(U) \in U
      BY <2>3 DEF First
    <3>2. U \ {First(U)} \in SUBSET T /\ U \ {First(U)} # T
      BY <3>1
    <3> HIDE DEF it
    <3> QED BY <2>2, <3>2
  <2>4. IsSum(v, T, it)
    <3> SUFFICES it = [U \in SUBSET T |->
                         IF U = {} THEN 0 ELSE v[First(U)] + it[U \ {First(U)}]]
      BY DEF IsSum
    <3> DEFINE again == [U \in SUBSET T |->
                           IF U = {} THEN 0 ELSE v[First(U)] + it[U \ {First(U)}]]
    <3>1. ASSUME NEW U \in SUBSET T PROVE it[U] = again[U]
      <4>1. CASE U = {} BY <4>1
      <4>2. CASE U # {} BY <2>3, <4>2
      <4> QED BY <4>1, <4>2
    <3> QED BY <3>1
  <2> HIDE DEF it
  <2> QED BY <2>4
<1>2. SUBSET S \subseteq Good
  <2> HIDE DEF Good
  <2> QED BY <1>1, SubsetInduction
<1>3. \E it : IsSum(v, S, it)
  BY <1>2
<1> QED BY <1>3, Zenon DEF TheSum

LEMMA SumStep ==
  ASSUME NEW v, NEW S, IsFiniteSet(S)
  PROVE  SumFunctionOnSet(v, S) =
           IF S = {} THEN 0 ELSE v[First(S)] + SumFunctionOnSet(v, S \ {First(S)})
<1>1. IsSum(v, S, TheSum(v, S))
  BY SumExists
<1>2. TheSum(v, S)[S] =
        IF S = {} THEN 0 ELSE v[First(S)] + TheSum(v, S)[S \ {First(S)}]
  BY <1>1, Zenon DEF IsSum
<1>3. ASSUME NEW T \in SUBSET S PROVE TheSum(v, S)[T] = SumFunctionOnSet(v, T)
  <2>1. IsSum(v, T, TheSum(v, T))
    BY SumExists, FS_Subset
  <2>2. TheSum(v, S)[T] = TheSum(v, T)[T]
    BY <1>1, <2>1, SumUnique
  <2> QED BY <2>2, SumIsTheSum
<1> QED BY <1>2, <1>3

(* Which element is taken first does not matter.                           *)
LEMMA SumTake ==
  ASSUME NEW v, NEW S, IsFiniteSet(S), \A x \in S : v[x] \in Int
  PROVE  /\ SumFunctionOnSet(v, S) \in Int
         /\ \A x \in S : SumFunctionOnSet(v, S) = v[x] + SumFunctionOnSet(v, S \ {x})
<1> DEFINE Sum(T) == SumFunctionOnSet(v, T)
           Good == {T \in SUBSET S : Sum(T) \in Int /\
                                     \A x \in T : Sum(T) = v[x] + Sum(T \ {x})}
<1>1. ASSUME NEW T \in SUBSET S, \A U \in SUBSET T : U # T => U \in Good
      PROVE  T \in Good
  <2>1. IsFiniteSet(T)
    BY FS_Subset
  <2>2. CASE T = {}
    <3>1. Sum(T) = 0
      BY <2>1, <2>2, SumStep
    <3> QED BY <2>2, <3>1
  <2>3. CASE T # {}
    <3> DEFINE y == First(T)
    <3>1. y \in T
      BY <2>3 DEF First
    <3>2. Sum(T) = v[y] + Sum(T \ {y})
      BY <2>1, <2>3, SumStep
    <3> HIDE DEF y
    <3>3. \A x \in T : T \ {x} \in Good
      BY <1>1
    <3>4. \A x \in T : Sum(T \ {x}) \in Int /\ v[x] \in Int
      BY <3>3
    <3>5. ASSUME NEW x \in T, x # y
          PROVE  Sum(T) = v[x] + Sum(T \ {x})
      <4> DEFINE rest == Sum((T \ {x}) \ {y})
      <4>1. (T \ {y}) \ {x} = (T \ {x}) \ {y}
        OBVIOUS
      <4>2. Sum(T \ {y}) = v[x] + rest
        BY <3>1, <3>3, <3>5, <4>1
      <4>3. Sum(T \ {x}) = v[y] + rest
        BY <3>1, <3>3, <3>5
      <4>4. rest \in Int
        <5>1. (T \ {x}) \ {y} \in SUBSET T /\ (T \ {x}) \ {y} # T
          BY <3>1
        <5> QED BY <1>1, <5>1
      <4>5. v[x] \in Int /\ v[y] \in Int
        BY <3>1, <3>4
      <4> HIDE DEF Sum, rest
      <4> QED BY <3>2, <4>2, <4>3, <4>4, <4>5
    <3> HIDE DEF Sum
    <3>6. Sum(T) \in Int
      BY <3>1, <3>2, <3>4
    <3> QED BY <3>1, <3>2, <3>5, <3>6
  <2> QED BY <2>2, <2>3
<1>2. SUBSET S \subseteq Good
  <2> HIDE DEF Good
  <2> QED BY <1>1, SubsetInduction
<1> QED BY <1>2

-----------------------------------------------------------------------------
(* Sums of naturals, and the rounding of quotients of naturals             *)

LEMMA SumOfNaturals ==
  ASSUME NEW v, NEW S, IsFiniteSet(S), \A x \in S : v[x] \in Nat
  PROVE  /\ SumFunctionOnSet(v, S) \in Nat
         /\ \A x \in S : SumFunctionOnSet(v, S) >= v[x]
         /\ \A T \in SUBSET S : SumFunctionOnSet(v, T) \in Nat /\
                                SumFunctionOnSet(v, T) <= SumFunctionOnSet(v, S)
<1> DEFINE Sum(T) == SumFunctionOnSet(v, T)
           Good == {T \in SUBSET S : Sum(T) \in Nat /\ \A U \in SUBSET T : Sum(U) <= Sum(T)}
<1>1. ASSUME NEW T \in SUBSET S, \A U \in SUBSET T : U # T => U \in Good
      PROVE  T \in Good
  <2>1. ASSUME NEW x \in T
        PROVE  /\ v[x] \in Nat /\ Sum(T) = v[x] + Sum(T \ {x})
               /\ T \ {x} \in Good
    <3>1. IsFiniteSet(T) /\ \A y \in T : v[y] \in Int
      BY FS_Subset
    <3>2. Sum(T) = v[x] + Sum(T \ {x})
      BY <3>1, SumTake
    <3> QED BY <1>1, <3>2
  <2>2. Sum(T) \in Nat
    <3>1. CASE T = {}
      <4>1. Sum(T) = 0
        BY <3>1, FS_EmptySet, SumStep
      <4> QED BY <4>1
    <3>2. CASE T # {}
      <4>1. PICK x \in T : TRUE
        BY <3>2
      <4>2. Sum(T \ {x}) \in Nat
        BY <2>1
      <4> HIDE DEF Sum, Good
      <4> QED BY <2>1, <4>2
    <3> QED BY <3>1, <3>2
  <2>3. ASSUME NEW U \in SUBSET T
        PROVE  Sum(U) <= Sum(T)
    <3>1. CASE U = T
      BY <2>2, <3>1
    <3>2. CASE U # T
      <4>1. PICK x \in T : x \notin U
        BY <3>2
      <4>2. Sum(U) <= Sum(T \ {x}) /\ Sum(T \ {x}) \in Nat
        BY <2>1, <4>1
      <4>3. Sum(U) \in Nat
        BY <1>1, <3>2
      <4> HIDE DEF Sum, Good
      <4> QED BY <2>1, <2>2, <4>2, <4>3
    <3> QED BY <3>1, <3>2
  <2> QED BY <2>2, <2>3
<1>2. SUBSET S \subseteq Good
  <2> HIDE DEF Good
  <2> QED BY <1>1, SubsetInduction
<1>3. ASSUME NEW x \in S
      PROVE  Sum(S) >= v[x]
  <2>1. Sum(S) = v[x] + Sum(S \ {x}) /\ v[x] \in Nat
    BY SumTake
  <2>2. Sum(S \ {x}) \in Nat
    BY <1>2
  <2> HIDE DEF Sum
  <2> QED BY <2>1, <2>2
<1> QED BY <1>2, <1>3

LEMMA ProductsGrow ==
  ASSUME NEW k \in Nat, NEW a \in Int, NEW b \in Int, a <= b
  PROVE  k * a <= k * b /\ k * a \in Int /\ k * b \in Int
OBVIOUS

LEMMA DivBounds ==
  ASSUME NEW n \in Int, NEW d \in Nat \ {0}
  PROVE  n \div d \in Int /\ d * (n \div d) <= n /\ n < d * (n \div d) + d
OBVIOUS

LEMMA RoundBounds ==
  ASSUME NEW a \in Int, NEW b \in Nat \ {0}
  PROVE  /\ RoundDiv(a, b) \in Int
         /\ 2 * (b * RoundDiv(a, b)) <= 2 * a + b
         /\ 2 * a < 2 * (b * RoundDiv(a, b)) + b
<1> DEFINE n == 2 * a + b
           d == 2 * b
           q == n \div d
<1>1. n \in Int /\ d \in Nat \ {0}
  OBVIOUS
<1>2. q \in Int /\ d * q <= n /\ n < d * q + d
  <2> HIDE DEF n, d
  <2> QED BY <1>1, DivBounds
<1>3. d * q = 2 * (b * q)
  <2>1. q \in Int
    BY <1>2
  <2> HIDE DEF q
  <2> QED BY <2>1
<1>4. b * q \in Int
  <2>1. q \in Int
    BY <1>2
  <2> HIDE DEF q
  <2> QED BY <2>1
<1>5. RoundDiv(a, b) = q
  BY DEF RoundDiv
<1> DEFINE p == b * q
<1>6. 2 * p <= n /\ n < 2 * p + d /\ p \in Int
  BY <1>2, <1>3, <1>4
<1>7. 2 * p <= 2 * a + b /\ 2 * a < 2 * p + b
  <2> HIDE DEF p
  <2> QED BY <1>6
<1> QED BY <1>2, <1>5, <1>7

LEMMA RoundMonotone ==
  ASSUME NEW a \in Int, NEW c \in Int, NEW b \in Nat \ {0}, a <= c
  PROVE  RoundDiv(a, b) <= RoundDiv(c, b)
<1> DEFINE p == RoundDiv(a, b)
           q == RoundDiv(c, b)
<1>1. p \in Int /\ q \in Int
  BY RoundBounds
<1>2. SUFFICES ASSUME q + 1 <= p PROVE FALSE
  BY <1>1
<1>3. b * (q + 1) <= b * p
  <2> HIDE DEF p, q
  <2> QED BY <1>1, <1>2, ProductsGrow
<1>4. b * (q + 1) = b * q + b
  <2> HIDE DEF p, q
  <2> QED BY <1>1
<1>5. b * q \in Int /\ b * p \in Int
  <2> HIDE DEF p, q
  <2> QED BY <1>1
<1>6. 2 * (b * p) <= 2 * a + b /\ 2 * c < 2 * (b * q) + b
  BY RoundBounds
<1> DEFINE x == b * p
           y == b * q
<1>7. x \in Int /\ y \in Int /\ y + b <= x /\ 2 * x <= 2 * a + b /\ 2 * c < 2 * y + b
  BY <1>3, <1>4, <1>5, <1>6
<1> HIDE DEF x, y
<1> QED BY <1>7

LEMMA RoundOfMultiple ==
  ASSUME NEW k \in Int, NEW b \in Nat \ {0}
  PROVE  RoundDiv(k * b, b) = k
<1> DEFINE q == RoundDiv(k * b, b)
<1>1. k * b \in Int /\ k * b = b * k
  OBVIOUS
<1>2. q \in Int /\ 2 * (b * q) <= 2 * (b * k) + b /\ 2 * (b * k) < 2 * (b * q) + b
  BY <1>1, RoundBounds
<1> HIDE DEF q
<1>3. CASE q <= k - 1
  <2>1. b * q <= b * (k - 1)
    BY <1>2, <1>3, ProductsGrow
  <2>2. b * (k - 1) = b * k - b /\ b * q \in Int /\ b * k \in Int
    BY <1>2
  <2> QED BY <1>2, <2>1, <2>2
<1>4. CASE q >= k + 1
  <2>1. b * (k + 1) <= b * q
    BY <1>2, <1>4, ProductsGrow
  <2>2. b * (k + 1) = b * k + b /\ b * q \in Int /\ b * k \in Int
    BY <1>2
  <2> QED BY <1>2, <2>1, <2>2
<1>5. q = k
  BY <1>2, <1>3, <1>4
<1> QED BY <1>5 DEF q

(* A rounded share lies between 0 and 1, and a part has no larger one than *)
(* the whole.                                                              *)
LEMMA ShareBounds ==
  ASSUME NEW part \in Nat, NEW whole \in Nat, NEW total \in Nat \ {0}, NEW scale \in Nat,
         part <= whole, whole <= total
  PROVE  /\ RoundDiv(scale * part, total) \in 0..scale
         /\ RoundDiv(scale * whole, total) \in 0..scale
         /\ RoundDiv(scale * part, total) <= RoundDiv(scale * whole, total)
<1> DEFINE R(x) == RoundDiv(x, total)
<1>1. /\ scale * part <= scale * whole /\ scale * whole <= scale * total
      /\ scale * part \in Int /\ scale * whole \in Int /\ scale * total \in Int
  BY ProductsGrow
<1>2. 0 * total <= scale * part
  OBVIOUS
<1> DEFINE x == scale * part
           y == scale * whole
           z == scale * total
<1>3. 0 * total \in Int /\ x \in Int /\ y \in Int /\ z \in Int
  BY <1>1
<1>4. R(0 * total) = 0 /\ R(z) = scale
  BY RoundOfMultiple
<1>5. R(x) \in Int /\ R(y) \in Int
  <2> HIDE DEF x, y
  <2> QED BY <1>3, RoundBounds
<1>6. R(0 * total) <= R(x) /\ R(x) <= R(y) /\ R(y) <= R(z)
  <2>1. 0 * total <= x /\ x <= y /\ y <= z
    BY <1>1, <1>2
  <2> HIDE DEF x, y, z
  <2> QED BY <1>3, <2>1, RoundMonotone
<1>7. 0 <= R(x) /\ R(x) <= R(y) /\ R(y) <= scale
  BY <1>4, <1>6
<1> HIDE DEF R
<1>8. R(x) \in 0..scale /\ R(y) \in 0..scale
  BY <1>5, <1>7
<1> USE DEF R
<1> QED BY <1>7, <1>8

-----------------------------------------------------------------------------
(* What _intensity_for_period computes for one hour                        *)

(* The intensities of the hours there may be.                              *)
Intensities == {IntensityForPeriod(m) : m \in Mixes}

LEMMA MwhOfGenerating ==
  ASSUME NEW mix \in Mixes
  PROVE  /\ IsFiniteSet(Generating(mix)) /\ Generating(mix) \subseteq Fuel
         /\ \A f \in Generating(mix) : mix[f] \in Nat \ {0}
         /\ MwhOf(mix, Generating(mix)) \in Nat
         /\ \A T \in SUBSET Generating(mix) :
              /\ IsFiniteSet(T)
              /\ MwhOf(mix, T) \in Nat
              /\ \A U \in SUBSET T : MwhOf(mix, U) \in Nat /\ MwhOf(mix, U) <= MwhOf(mix, T)
<1>1. IsFiniteSet(Generating(mix)) /\ Generating(mix) \subseteq Fuel
  BY FS_Subset, FuelsAreFinite DEF Generating, FuelsAreFinite
<1>2. ASSUME NEW f \in Generating(mix)
      PROVE  mix[f] \in Nat \ {0}
  <2>1. mix[f] \in Int \cup {NoRow} /\ mix[f] # NoRow /\ mix[f] > 0
    BY <1>2 DEF Generating, Mixes
  <2> QED BY <2>1
<1>3. ASSUME NEW T \in SUBSET Generating(mix)
      PROVE  /\ IsFiniteSet(T)
             /\ MwhOf(mix, T) \in Nat
             /\ \A U \in SUBSET T : MwhOf(mix, U) \in Nat /\ MwhOf(mix, U) <= MwhOf(mix, T)
  <2>1. IsFiniteSet(T) /\ \A f \in T : mix[f] \in Nat
    BY <1>1, <1>2, FS_Subset
  <2> QED BY <2>1, SumOfNaturals DEF MwhOf
<1>4. MwhOf(mix, Generating(mix)) \in Nat
  BY <1>3
<1> QED BY <1>1, <1>2, <1>3, <1>4

LEMMA EmissionsAreNatural ==
  ASSUME NEW mix \in Mixes
  PROVE  EmissionsLb(mix) \in Nat
<1> DEFINE lb == [f \in Generating(mix) |-> mix[f] * Factor[f].co2]
<1>1. ASSUME NEW f \in Generating(mix)
      PROVE  lb[f] \in Nat
  <2>1. mix[f] \in Nat /\ Factor[f].co2 \in Nat
    BY MwhOfGenerating, FactorsAreSeeded DEF FactorsAreSeeded
  <2>2. lb[f] = mix[f] * Factor[f].co2
    BY <1>1
  <2> DEFINE x == mix[f]
             y == Factor[f].co2
  <2> HIDE DEF x, y, lb
  <2>3. x \in Nat /\ y \in Nat => x * y \in Nat
    OBVIOUS
  <2> QED BY <2>1, <2>2, <2>3 DEF x, y
<1>2. DOMAIN lb = Generating(mix) /\ IsFiniteSet(Generating(mix))
  BY MwhOfGenerating
<1>3. SumFunctionOnSet(lb, DOMAIN lb) \in Nat
  <2> HIDE DEF lb
  <2> QED BY <1>1, <1>2, SumOfNaturals
<1> QED BY <1>3 DEF EmissionsLb, SumFunction

LEMMA RowOfHour ==
  ASSUME NEW mix \in Mixes,
         IntensityForPeriod(mix) # NoIntensity \/ MwhOf(mix, Generating(mix)) > 0
  PROVE  LET row == IntensityForPeriod(mix)
         IN  /\ row \in IntensityRow
             /\ row.total = MwhOf(mix, Generating(mix)) /\ row.total \in Nat \ {0}
             /\ row.gco2 \in Nat
             /\ row.renewable \in 0..ShareScale /\ row.carbonFree \in 0..ShareScale
             /\ row.renewable <= row.carbonFree
             /\ row.lowConfidence \in 0..ShareScale
<1> DEFINE row == IntensityForPeriod(mix)
           G == Generating(mix)
           total == MwhOf(mix, G)
           R == {f \in G : Factor[f].renewable}
           C == {f \in G : Factor[f].carbonFree}
           L == {f \in G : Factor[f].lowConfidence}
           gco2 == RoundDiv(GramScale * EmissionsLb(mix), total)
           Share(T) == RoundDiv(ShareScale * MwhOf(mix, T), total)
<1>2. total \in Nat \ {0}
  <2>1. total \in Nat
    BY MwhOfGenerating
  <2>2. ~(total <= 0) \/ total > 0
    BY DEF IntensityForPeriod
  <2> HIDE DEF total
  <2> QED BY <2>1, <2>2
<1>1. row = [gco2 |-> gco2, total |-> total, renewable |-> Share(R),
             carbonFree |-> Share(C), lowConfidence |-> Share(L)]
  <2>1. ~(total <= 0)
    <3> HIDE DEF total
    <3> QED BY <1>2
  <2> QED BY <2>1 DEF IntensityForPeriod
<1>3. R \subseteq C /\ C \subseteq G /\ L \subseteq G
  BY MwhOfGenerating, FactorsAreSeeded DEF FactorsAreSeeded
<1>4. /\ MwhOf(mix, R) \in Nat /\ MwhOf(mix, C) \in Nat /\ MwhOf(mix, L) \in Nat
      /\ MwhOf(mix, R) <= MwhOf(mix, C) /\ MwhOf(mix, C) <= total /\ MwhOf(mix, L) <= total
  <2> HIDE DEF R, C, L
  <2> QED BY <1>3, MwhOfGenerating
<1>5. ShareScale \in Nat /\ GramScale \in Nat
  BY ScalesArePositive DEF ScalesArePositive
<1>6. /\ Share(R) \in 0..ShareScale /\ Share(C) \in 0..ShareScale /\ Share(R) <= Share(C)
      /\ Share(L) \in 0..ShareScale
  <2> HIDE DEF total, R, C, L
  <2> QED BY <1>2, <1>4, <1>5, ShareBounds
<1>7. gco2 \in Nat
  <2> DEFINE lb == GramScale * EmissionsLb(mix)
  <2>1. lb \in Nat
    <3>1. EmissionsLb(mix) \in Nat
      BY EmissionsAreNatural
    <3> QED BY <1>5, <3>1, ProductsGrow
  <2>2. RoundDiv(0 * total, total) = 0
    BY <1>2, RoundOfMultiple
  <2>3. 0 * total <= lb /\ 0 * total \in Int
    <3> HIDE DEF total, lb
    <3> QED BY <1>2, <2>1
  <2>4. RoundDiv(lb, total) \in Int /\ RoundDiv(0 * total, total) <= RoundDiv(lb, total)
    <3> HIDE DEF total, lb
    <3> QED BY <1>2, <2>1, <2>3, RoundBounds, RoundMonotone
  <2> HIDE DEF total, lb
  <2>5. RoundDiv(lb, total) \in Nat
    BY <2>2, <2>4
  <2> QED BY <2>5 DEF lb
<1> HIDE DEF Share, total, gco2
<1> QED BY <1>1, <1>2, <1>6, <1>7 DEF total, IntensityRow

-----------------------------------------------------------------------------
(* The inductive invariant *)

(* An hour without an intensity has no fuel that counts.                   *)
LEMMA HourWithoutRow ==
  ASSUME NEW mix \in Mixes, IntensityForPeriod(mix) = NoIntensity
  PROVE  Generating(mix) = {}
<1> SUFFICES ASSUME NEW f \in Generating(mix) PROVE FALSE
  OBVIOUS
<1>1. mix[f] \in Nat \ {0} /\ MwhOf(mix, Generating(mix)) \in Nat
  BY MwhOfGenerating
<1>2. MwhOf(mix, Generating(mix)) >= mix[f]
  BY MwhOfGenerating, SumOfNaturals DEF MwhOf
<1>3. MwhOf(mix, Generating(mix)) > 0
  BY <1>1, <1>2
<1> QED BY <1>3, RowOfHour, NoIntensityIsNoRow DEF NoIntensityIsNoRow

LEMMA NoRowsNoIntensity == IntensityForPeriod(EmptyMix) = NoIntensity
<1>1. Generating(EmptyMix) = {}
  BY DEF Generating, EmptyMix
<1>2. MwhOf(EmptyMix, Generating(EmptyMix)) = 0
  BY <1>1, FS_EmptySet, SumStep DEF MwhOf
<1> QED
  BY <1>2 DEF IntensityForPeriod

LEMMA InitIInv == Init => IInv
<1> SUFFICES ASSUME Init
             PROVE  IInv
  OBVIOUS
<1>1. \A r \in Region, t \in Period : gen[r][t] = EmptyMix /\ intensity[r][t] = NoIntensity
  BY DEF Init, NoMixes
<1>5. StaleHasCause
  BY <1>1, NoRowsNoIntensity DEF StaleHasCause, Derived
<1>2. IntensityFromCommittedMix
  BY <1>1 DEF IntensityFromCommittedMix
<1>3. CommittedIsSeen
  BY <1>1 DEF Init, CommittedIsSeen
<1>4. ReportedHoursAreServed /\ KeptHasRows /\ OutcomeComesLast
  BY DEF Init, ReportedHoursAreServed, KeptHasRows, OutcomeComesLast, AtHand
<1> QED
  BY <1>2, <1>3, <1>4, <1>5, InitTypeOK DEF IInv

LEMMA NextProvenance ==
  ASSUME IInv, [Next]_vars
  PROVE  IntensityFromCommittedMix'
<1> SUFFICES ASSUME NEW r \in Region, NEW t \in Period, intensity'[r][t] # NoIntensity
             PROVE  \E m \in seen'[r][t] : intensity'[r][t] = IntensityForPeriod(m)
  BY DEF IntensityFromCommittedMix
<1> DEFINE Goal == \E m \in seen'[r][t] : intensity'[r][t] = IntensityForPeriod(m)
<1>1. seen[r][t] \subseteq seen'[r][t]
  BY SeenGrows DEF IInv
<1>2. CASE intensity'[r][t] = intensity[r][t]
  BY <1>1, <1>2 DEF IInv, IntensityFromCommittedMix
<1>3. ASSUME NEW w \in Worker, CommitIntensity(w)
      PROVE  Goal
  <2>1. CASE r = region[w]
    <3>1. intensity'[r][t] = Computed(w)[t]
      BY <1>3, <2>1 DEF CommitIntensity, IInv, TypeOK
    <3>2. \/ intensity'[r][t] = intensity[r][t]
          \/ intensity'[r][t] = IntensityForPeriod(batch[w][t])
      BY <2>1, <3>1 DEF Computed
    <3>3. batch[w][t] \in seen[r][t]
      BY <1>3, <2>1 DEF CommitIntensity, IInv, CommittedIsSeen
    <3> QED
      BY <1>1, <1>2, <3>2, <3>3
  <2>2. CASE r # region[w]
    BY <1>2, <1>3, <2>2 DEF CommitIntensity, IInv, TypeOK
  <2> QED
    BY <2>1, <2>2
<1>4. CASE intensity' = intensity
  BY <1>2, <1>4
<1> QED
  BY <1>3, <1>4, TableSteps

LEMMA NextCommittedIsSeen ==
  ASSUME IInv, [Next]_vars
  PROVE  CommittedIsSeen'
<1> USE DEF IInv
<1>1. ASSUME NEW r \in Region, NEW t \in Period
      PROVE  gen'[r][t] \in seen'[r][t]
  <2>1. CASE gen' = gen /\ seen' = seen
    BY <2>1 DEF CommittedIsSeen
  <2>2. ASSUME NEW w \in Worker, CommitGeneration(w)
        PROVE  gen'[r][t] \in seen'[r][t]
    <3> DEFINE stored == Upserted(gen[region[w]], batch[w])
    <3>1. /\ gen' = [gen EXCEPT ![region[w]] = stored]
          /\ seen' = [seen EXCEPT ![region[w]] = [u \in Period |-> @[u] \cup {stored[u]}]]
      BY <2>2 DEF CommitGeneration
    <3>2. CASE r = region[w]
      <4>1. gen \in [Region -> [Period -> Mixes]] /\ DOMAIN seen = Region
        BY DEF TypeOK
      <4>2. gen'[r][t] = stored[t] /\ seen'[r][t] = seen[r][t] \cup {stored[t]}
        BY <3>1, <3>2, <4>1
      <4> QED
        BY <4>2
    <3>3. CASE r # region[w]
      BY <3>1, <3>3 DEF CommittedIsSeen, TypeOK
    <3> QED
      BY <3>2, <3>3
  <2> QED
    BY <2>1, <2>2, TableSteps
<1>2. ASSUME NEW v \in Worker, pc'[v] = "computed", NEW t \in Period
      PROVE  batch'[v][t] \in seen'[region'[v]][t]
  <2>1. region[v] \in Region
    BY DEF TypeOK
  <2>2. seen[region[v]][t] \subseteq seen'[region[v]][t]
    BY <2>1, SeenGrows
  <2>3. CASE ReadGeneration(v)
    <3>1. region' = region /\ batch'[v] = gen[region[v]]
      BY <2>3 DEF ReadGeneration, GenerationRead, TypeOK
    <3> QED
      BY <2>1, <2>2, <3>1 DEF CommittedIsSeen
  <2>4. CASE pc[v] = "computed" /\ region'[v] = region[v] /\ batch'[v] = batch[v]
    BY <2>2, <2>4 DEF CommittedIsSeen
  <2> QED
    BY <1>2, <2>3, <2>4, ReaderSteps
<1> QED
  BY <1>1, <1>2 DEF CommittedIsSeen

LEMMA NextKeptHasRows ==
  ASSUME IInv, [Next]_vars
  PROVE  KeptHasRows'
<1> USE DEF IInv
<1>1. ASSUME NEW r \in Region, NEW t \in Period, gen[r][t] # EmptyMix
      PROVE  gen'[r][t] # EmptyMix
  <2>1. ASSUME NEW w \in Worker, CommitGeneration(w)
        PROVE  gen'[r][t] # EmptyMix
    <3>1. gen' = [gen EXCEPT ![region[w]] = Upserted(gen[region[w]], batch[w])]
      BY <2>1 DEF CommitGeneration
    <3>2. CASE r = region[w]
      <4>1. gen'[r] = Upserted(gen[r], batch[w])
        BY <3>1, <3>2 DEF TypeOK
      <4> QED
        <5>1. gen[r] \in [Period -> Mixes] /\ batch[w] \in [Period -> Mixes]
          BY DEF TypeOK
        <5> QED
          BY <1>1, <4>1, <5>1, UpsertKeepsRows
    <3>3. CASE r # region[w]
      BY <1>1, <3>1, <3>3 DEF TypeOK
    <3> QED
      BY <3>2, <3>3
  <2> QED
    BY <1>1, <2>1, TableSteps
<1>2. ASSUME NEW v \in Worker, NEW r \in Region, NEW t \in kept'[v][r]
      PROVE  gen'[r][t] # EmptyMix
  <2>1. CASE t \in kept[v][r]
    <3>1. t \in Period /\ gen[r][t] # EmptyMix
      BY <2>1 DEF KeptHasRows, TypeOK
    <3> QED
      BY <1>1, <3>1
  <2>2. CASE /\ CommitGeneration(v) /\ r = region[v]
             /\ kept'[v][r] = {u \in Period : batch[v][u] # EmptyMix}
    <3>1. t \in Period /\ batch[v][t] # EmptyMix
      BY <1>2, <2>2
    <3>2. gen'[r] = Upserted(gen[r], batch[v])
      BY <2>2 DEF CommitGeneration, TypeOK
    <3> QED
      <4>1. gen[r] \in [Period -> Mixes] /\ batch[v] \in [Period -> Mixes]
        BY DEF TypeOK
      <4> QED
        BY <3>1, <3>2, <4>1, UpsertKeepsRows
  <2> QED
    BY <1>2, <2>1, <2>2, KeptSteps
<1>3. ASSUME NEW v \in Worker, pc'[v] = "computed", NEW t \in kept'[v][region'[v]]
      PROVE  batch'[v][t] # EmptyMix
  <2>1. CASE ReadGeneration(v)
    <3>1. region' = region /\ kept' = kept /\ batch'[v] = gen[region[v]]
      BY <2>1 DEF ReadGeneration, GenerationRead, TypeOK
    <3>2. region[v] \in Region
      BY DEF TypeOK
    <3> QED
      BY <1>3, <3>1, <3>2 DEF KeptHasRows
  <2>2. CASE /\ pc[v] = "computed" /\ region'[v] = region[v]
             /\ batch'[v] = batch[v] /\ kept'[v] = kept[v]
    BY <1>3, <2>2 DEF KeptHasRows
  <2> QED
    BY <1>3, <2>1, <2>2, ReaderSteps
<1> QED
  BY <1>2, <1>3 DEF KeptHasRows

LEMMA NextOutcomeComesLast ==
  ASSUME IInv, [Next]_vars
  PROVE  OutcomeComesLast'
<1> USE DEF IInv, TypeOK
<1>1. CASE Eia \/ UNCHANGED vars
  BY <1>1 DEF Eia, Publish, Revise, vars, runVars, OutcomeComesLast, AtHand
<1>2. ASSUME NEW w \in Worker, StartIngest(w) \/ StartCompute(w)
      PROVE  OutcomeComesLast'
  BY <1>2 DEF StartIngest, StartCompute, Start, OutcomeComesLast, AtHand
<1>3. ASSUME NEW w \in Worker, Exit(w)
      PROVE  OutcomeComesLast'
  BY <1>3 DEF Exit, OutcomeComesLast, AtHand
<1>4. ASSUME NEW w \in Worker, NEW r \in Region, Fetch(w, r) \/ PickRegion(w, r)
      PROVE  OutcomeComesLast'
  <2>1. /\ r \in todo[w] /\ results' = results
        /\ todo' = [todo EXCEPT ![w] = todo[w] \ {r}]
        /\ region' = [region EXCEPT ![w] = r]
        /\ \/ pc' = [pc EXCEPT ![w] = "fetched"]
           \/ pc' = [pc EXCEPT ![w] = "recompute"]
    BY <1>4 DEF Fetch, PickRegion, Rest
  <2>2. results[w][r] = "none"
    BY <2>1 DEF OutcomeComesLast
  <2>3. ASSUME NEW v \in Worker, v # w
        PROVE  /\ pc'[v] = pc[v] /\ todo'[v] = todo[v] /\ region'[v] = region[v]
               /\ results'[v] = results[v]
    BY <2>1, <2>3
  <2>4. /\ pc'[w] \in {"fetched", "recompute"} /\ todo'[w] = todo[w] \ {r}
        /\ region'[w] = r /\ results'[w] = results[w]
    BY <2>1
  <2> SUFFICES ASSUME NEW v \in Worker
               PROVE  /\ \A s \in todo'[v] : results'[v][s] = "none"
                      /\ pc'[v] = "idle" => \A s \in Region : results'[v][s] = "none"
                      /\ (AtHand(v))' => results'[v][region'[v]] = "none"
    BY DEF OutcomeComesLast
  <2>5. CASE v = w
    BY <2>2, <2>4, <2>5 DEF OutcomeComesLast, AtHand
  <2>6. CASE v # w
    BY <2>3, <2>6 DEF OutcomeComesLast, AtHand
  <2> QED
    BY <2>5, <2>6
<1>5. ASSUME NEW w \in Worker, NEW r \in Region, FetchNothing(w, r)
      PROVE  OutcomeComesLast'
  BY <1>5 DEF FetchNothing, Rest, OutcomeComesLast, AtHand
<1>6. ASSUME NEW w \in Worker, CommitGeneration(w) \/ ReadGeneration(w)
      PROVE  OutcomeComesLast'
  BY <1>6 DEF CommitGeneration, ReadGeneration, OutcomeComesLast, AtHand
<1>7. ASSUME NEW w \in Worker, CommitIntensity(w)
      PROVE  OutcomeComesLast'
  <2>1. /\ pc' = [pc EXCEPT ![w] = "next"] /\ todo' = todo /\ region' = region
        /\ results' = [results EXCEPT ![w][region[w]] = "rows"]
        /\ region[w] \notin todo[w]
    BY <1>7 DEF CommitIntensity, AtHand
  <2> QED
    BY <2>1 DEF OutcomeComesLast, AtHand
<1>8. ASSUME NEW w \in Worker, NEW r \in Region, Raises(w, r)
      PROVE  OutcomeComesLast'
  <2>1. CASE job[w] = "compute"
    BY <1>3, <1>8, <2>1 DEF Raises
  <2>2. CASE job[w] # "compute"
    <3>1. /\ pc' = [pc EXCEPT ![w] = "next"] /\ region' = region
          /\ todo' = [todo EXCEPT ![w] = todo[w] \ {r}]
          /\ results' = [results EXCEPT ![w][r] = "failed"]
      BY <1>8, <2>2 DEF Raises, Rest
    <3> QED
      BY <3>1 DEF OutcomeComesLast, AtHand
  <2> QED
    BY <2>1, <2>2
<1>9. ASSUME NEW w \in Worker, Fault(w)
      PROVE  OutcomeComesLast'
  <2>1. \/ Exit(w)
        \/ \E r \in Region : Raises(w, r)
    BY <1>9 DEF Fault, TransactionFails, Crash, FetchFails
  <2> QED
    BY <1>3, <1>8, <2>1
<1> QED
  BY <1>1, <1>2, <1>3, <1>4, <1>5, <1>6, <1>7, <1>9 DEF Next, Advance, EndRun

LEMMA NextReported ==
  ASSUME IInv, [Next]_vars
  PROVE  ReportedHoursAreServed'
<1> SUFFICES ASSUME NEW w \in Worker, NEW r \in Region, results'[w][r] = "rows",
                    NEW t \in kept'[w][r]
             PROVE  \/ intensity'[r][t] # NoIntensity
                    \/ \E m \in seen'[r][t] \ {EmptyMix} : IntensityForPeriod(m) = NoIntensity
  BY DEF ReportedHoursAreServed
<1> DEFINE Goal == \/ intensity'[r][t] # NoIntensity
                   \/ \E m \in seen'[r][t] \ {EmptyMix} :
                        IntensityForPeriod(m) = NoIntensity
<1> USE DEF IInv
<1>1. CASE results[w][r] = "rows"
  <2>1. ~(CommitGeneration(w) /\ r = region[w])
    BY <1>1 DEF CommitGeneration, OutcomeComesLast, AtHand
  <2>2. t \in kept[w][r] /\ t \in Period
    BY <2>1, KeptSteps DEF TypeOK
  <2>3. CASE intensity[r][t] # NoIntensity
    BY <2>2, <2>3, IntensityStays
  <2>4. CASE \E m \in seen[r][t] \ {EmptyMix} : IntensityForPeriod(m) = NoIntensity
    BY <2>2, <2>4, SeenGrows
  <2> QED
    BY <1>1, <2>2, <2>3, <2>4 DEF ReportedHoursAreServed
<1>2. CASE CommitIntensity(w) /\ r = region[w]
  <2>1. pc[w] = "computed" /\ kept' = kept /\ seen' = seen
    BY <1>2 DEF CommitIntensity
  <2>2. t \in kept[w][region[w]] /\ t \in Period
    BY <1>2, <2>1 DEF TypeOK
  <2>3. batch[w][t] \in seen'[r][t] \ {EmptyMix}
    BY <1>2, <2>1, <2>2 DEF CommittedIsSeen, KeptHasRows
  <2>4. intensity'[r] = Computed(w)
    BY <1>2 DEF CommitIntensity, TypeOK
  <2> QED
    BY <2>2, <2>3, <2>4 DEF Computed
<1> QED
  BY <1>1, <1>2, ResultSteps

(* A worker that was between its commits for region r, and no longer is,   *)
(* has committed the intensities or left the region tainted.               *)
LEMMA BusySteps ==
  ASSUME TypeOK, [Next]_vars, NEW v \in Worker, NEW r \in Region,
         region[v] = r, BetweenCommits(v)
  PROVE  \/ region'[v] = r /\ (BetweenCommits(v))'
         \/ tainted'[r]
         \/ CommitIntensity(v)
<1> DEFINE Busy == region'[v] = r /\ (BetweenCommits(v))'
<1> USE DEF TypeOK, BetweenCommits
<1>1. CASE Eia \/ UNCHANGED vars
  BY <1>1 DEF Eia, Publish, Revise, vars, runVars
<1>2. ASSUME NEW w \in Worker, StartIngest(w) \/ StartCompute(w)
      PROVE  Busy
  BY <1>2 DEF StartIngest, StartCompute, Start
<1>3. ASSUME NEW w \in Worker, EndRun(w)
      PROVE  Busy
  BY <1>3 DEF EndRun, Exit
<1>4. ASSUME NEW w \in Worker, NEW s \in Region,
             Fetch(w, s) \/ PickRegion(w, s) \/ FetchNothing(w, s)
      PROVE  Busy
  BY <1>4 DEF Fetch, PickRegion, FetchNothing
<1>5. ASSUME NEW w \in Worker, CommitGeneration(w) \/ ReadGeneration(w)
      PROVE  Busy
  BY <1>5 DEF CommitGeneration, ReadGeneration
<1>6. ASSUME NEW w \in Worker, CommitIntensity(w), w # v
      PROVE  Busy
  BY <1>6 DEF CommitIntensity
<1>7. ASSUME NEW w \in Worker, w # v, NEW s \in Region, Raises(w, s) \/ Exit(w)
      PROVE  Busy
  BY <1>7 DEF Raises, Exit
<1>8. ASSUME NEW w \in Worker, TransactionFails(w) \/ Crash(w)
      PROVE  Busy \/ tainted'[r]
  <2>1. CASE w = v
    BY <1>8, <2>1 DEF TransactionFails, Crash
  <2>2. CASE w # v
    BY <1>7, <1>8, <2>2, RegionsAreSeeded DEF TransactionFails, Crash
  <2> QED
    BY <2>1, <2>2
<1>9. ASSUME NEW w \in Worker, NEW s \in Region, FetchFails(w, s)
      PROVE  Busy
  <2>1. w # v
    BY <1>9 DEF FetchFails
  <2> QED
    BY <1>7, <1>9, <2>1 DEF FetchFails
<1> QED
  BY <1>1, <1>2, <1>3, <1>4, <1>5, <1>6, <1>8, <1>9 DEF Next, Advance, Fault

LEMMA TaintSteps ==
  ASSUME TypeOK, [Next]_vars, NEW r \in Region, tainted[r]
  PROVE  tainted'[r] \/ \E w \in Worker : CommitIntensity(w) /\ r = region[w]
<1>1. CASE tainted' = tainted
  BY <1>1
<1>2. ASSUME NEW w \in Worker, TransactionFails(w) \/ Crash(w)
      PROVE  tainted'[r]
  BY <1>2 DEF TransactionFails, Crash, TypeOK
<1>3. ASSUME NEW w \in Worker, CommitIntensity(w), r # region[w]
      PROVE  tainted'[r]
  BY <1>3 DEF CommitIntensity, TypeOK
<1> QED
  BY <1>1, <1>2, <1>3
  DEF Next, Eia, Publish, Revise, StartIngest, StartCompute, Start, Advance, EndRun,
      Fetch, FetchNothing, PickRegion, ReadGeneration, CommitGeneration,
      Fault, FetchFails, vars, tableVars

(* Writing what the stored generation says makes the region derived.       *)
LEMMA FreshCommitDerives ==
  ASSUME TypeOK, NEW w \in Worker, CommitIntensity(w),
         NEW r \in Region, r = region[w]
  PROVE  tainted'[r] \/ (Derived(r))'
<1>1. /\ gen' = gen
      /\ tainted'[r] <=> batch[w] # gen[r]
      /\ intensity'[r] = Computed(w)
  BY DEF CommitIntensity, TypeOK
<1>2. ASSUME batch[w] = gen[r], NEW t \in Period, IntensityForPeriod(gen[r][t]) # NoIntensity
      PROVE  intensity'[r][t] = IntensityForPeriod(gen[r][t])
  BY <1>1, <1>2 DEF Computed
<1>3. CASE batch[w] = gen[r]
  <2> SUFFICES ASSUME NEW t \in Period, IntensityForPeriod(gen'[r][t]) # NoIntensity
               PROVE  intensity'[r][t] = IntensityForPeriod(gen'[r][t])
    BY DEF Derived
  <2> QED
    BY <1>1, <1>2, <1>3
<1> QED
  BY <1>1, <1>3

LEMMA NextStaleHasCause ==
  ASSUME IInv, [Next]_vars
  PROVE  StaleHasCause'
<1> SUFFICES ASSUME NEW r \in Region
             PROVE  \/ (Derived(r))'
                    \/ tainted'[r]
                    \/ \E w \in Worker : region'[w] = r /\ (BetweenCommits(w))'
  BY DEF StaleHasCause
<1> DEFINE Goal == \/ (Derived(r))'
                   \/ tainted'[r]
                   \/ \E w \in Worker : region'[w] = r /\ (BetweenCommits(w))'
<1>1. TypeOK
  BY DEF IInv
<1>2. ASSUME NEW w \in Worker, CommitIntensity(w), r = region[w]
      PROVE  Goal
  BY <1>1, <1>2, FreshCommitDerives
<1>3. ASSUME NEW w \in Worker, CommitGeneration(w), r = region[w]
      PROVE  Goal
  <2>1. region'[w] = r /\ (BetweenCommits(w))'
    BY <1>1, <1>3 DEF CommitGeneration, BetweenCommits, TypeOK
  <2> QED
    BY <2>1
<1>4. CASE /\ ~\E w \in Worker : CommitIntensity(w) /\ r = region[w]
           /\ ~\E w \in Worker : CommitGeneration(w) /\ r = region[w]
  <2>1. CASE Derived(r)
    <3>1. gen'[r] = gen[r]
      BY <1>1, <1>4, TableSteps DEF CommitGeneration, TypeOK
    <3>2. intensity'[r] = intensity[r]
      BY <1>1, <1>4, TableSteps DEF CommitIntensity, TypeOK
    <3> QED
      BY <2>1, <3>1, <3>2 DEF Derived
  <2>2. CASE tainted[r]
    BY <1>1, <1>4, <2>2, TaintSteps
  <2>3. ASSUME NEW v \in Worker, region[v] = r, BetweenCommits(v)
        PROVE  Goal
    BY <1>1, <1>4, <2>3, BusySteps
  <2> QED
    BY <2>1, <2>2, <2>3 DEF IInv, StaleHasCause
<1> QED
  BY <1>2, <1>3, <1>4

LEMMA NextIInv == IInv /\ [Next]_vars => IInv'
<1> SUFFICES ASSUME IInv, [Next]_vars
             PROVE  IInv'
  OBVIOUS
<1>1. TypeOK'
  BY NextTypeOK DEF IInv
<1> QED
  BY <1>1, NextProvenance, NextCommittedIsSeen, NextKeptHasRows, NextOutcomeComesLast,
     NextReported, NextStaleHasCause DEF IInv

LEMMA Inductive == Spec => []IInv
BY InitIInv, NextIInv, PTL DEF Spec

(* No intensity is ever served that is not the intensity of one committed  *)
(* version of the hour's generation.                                       *)
THEOREM IntensityHasProvenance == Spec => []IntensityFromCommittedMix
BY Inductive, PTL DEF IInv

(* Whenever the intensities of a region lag behind its generation, a       *)
(* worker is about to mend that, or one has died between its commits or    *)
(* has overwritten them from an outdated read.                             *)
THEOREM StalenessIsExplained == Spec => []StaleHasCause
BY Inductive, PTL DEF IInv

(* What a run reports as done stays served, whatever other runs and        *)
(* crashes do.                                                             *)
THEOREM ReportedIsServed == Spec => []ReportedHoursAreServed
BY Inductive, PTL DEF IInv

(* Whatever EIA reports, negative values included, no share is ever stored *)
(* outside 0..1, and none of the renewable power is not carbon-free.       *)
THEOREM SharesStayShares == Spec => []SharesAreShares
<1> SUFFICES IInv => SharesAreShares
  BY Inductive, PTL
<1> SUFFICES ASSUME IInv, NEW r \in Region, NEW t \in Period, intensity[r][t] # NoIntensity
             PROVE  /\ intensity[r][t].total > 0 /\ intensity[r][t].gco2 >= 0
                    /\ 0 <= intensity[r][t].renewable
                    /\ intensity[r][t].renewable <= intensity[r][t].carbonFree
                    /\ intensity[r][t].carbonFree <= ShareScale
                    /\ intensity[r][t].lowConfidence \in 0..ShareScale
  BY DEF SharesAreShares
<1>1. PICK m \in seen[r][t] : intensity[r][t] = IntensityForPeriod(m)
  BY DEF IInv, IntensityFromCommittedMix
<1>2. m \in Mixes
  BY DEF IInv, TypeOK
<1>3. ShareScale \in Nat
  BY ScalesArePositive DEF ScalesArePositive
<1> QED BY <1>1, <1>2, <1>3, RowOfHour

-----------------------------------------------------------------------------
(* One writer, no failures *)

LEMMA NoFaultsHappen ==
  ASSUME SoleWriter, TypeOK, NEW w \in Worker
  PROVE  ~TransactionFails(w) /\ ~Crash(w)
<1>1. MaxFaults = 0 /\ Flaky = {} /\ faults = 0
  BY DEF SoleWriter, TypeOK
<1> QED
  BY <1>1 DEF TransactionFails, Crash, MayFail

LEMMA NextNothingOutdated ==
  ASSUME SoleWriter, TypeOK, NothingOutdated, [Next]_vars
  PROVE  NothingOutdated'
<1>1. ASSUME NEW r \in Region
      PROVE  ~tainted'[r]
  <2>1. CASE tainted' = tainted
    BY <2>1 DEF NothingOutdated
  <2>2. ASSUME NEW w \in Worker, CommitIntensity(w)
        PROVE  ~tainted'[r]
    <3>1. batch[w] = gen[region[w]]
      BY <2>2 DEF CommitIntensity, NothingOutdated
    <3>2. tainted' = [tainted EXCEPT ![region[w]] = FALSE]
      BY <2>2, <3>1 DEF CommitIntensity
    <3> QED
      BY <3>2 DEF NothingOutdated, TypeOK
  <2> QED
    BY <2>1, <2>2, NoFaultsHappen
    DEF Next, Eia, Publish, Revise, StartIngest, StartCompute, Start, Advance, EndRun,
        Fetch, FetchNothing, PickRegion, ReadGeneration, CommitGeneration,
        Fault, FetchFails, vars, tableVars
<1>2. ASSUME NEW v \in Worker, pc'[v] = "computed"
      PROVE  batch'[v] = gen'[region'[v]]
  <2>1. CASE ReadGeneration(v)
    <3>1. gen' = gen /\ region' = region /\ batch'[v] = gen[region[v]]
      BY <2>1 DEF ReadGeneration, GenerationRead, tableVars, TypeOK
    <3> QED
      BY <3>1
  <2>2. CASE /\ pc[v] = "computed" /\ region'[v] = region[v]
             /\ batch'[v] = batch[v] /\ kept'[v] = kept[v]
    <3>1. ASSUME NEW w \in Worker, CommitGeneration(w)
          PROVE  FALSE
      <4>1. w = v
        BY DEF SoleWriter
      <4> QED
        BY <2>2, <3>1, <4>1 DEF CommitGeneration
    <3>2. gen' = gen
      BY <3>1, TableSteps
    <3> QED
      BY <2>2, <3>2 DEF NothingOutdated
  <2> QED
    BY <1>2, <2>1, <2>2, ReaderSteps
<1> QED
  BY <1>1, <1>2 DEF NothingOutdated

(* Without overlapping runs and failures the intensities are a function of *)
(* the stored generation again as soon as the worker is between regions.   *)
THEOREM SoleWriterStaysDerived ==
  ASSUME SoleWriter
  PROVE  Spec => []DerivedBetweenRegions
<1>1. Init => NothingOutdated
  BY DEF Init, NothingOutdated
<1>2. TypeOK /\ NothingOutdated /\ [Next]_vars => NothingOutdated'
  BY NextNothingOutdated
<1>3. IInv /\ NothingOutdated => DerivedBetweenRegions
  BY DEF IInv, StaleHasCause, NothingOutdated, DerivedBetweenRegions
<1> QED
  BY <1>1, <1>2, <1>3, TypeCorrect, Inductive, PTL DEF Spec

-----------------------------------------------------------------------------
(* The readers: what is proved of the tables above holds beside them, as a *)
(* reader changes no table.                                                *)

HIDE DEF MixesAreMixes, WorkersWork, BoundsAreNaturals, RegionsAreSeeded

LEMMA NowIsIngest == NowSpec => Spec
<1>1. NowInit => Init
  BY DEF NowInit
<1>2. [NowNext]_allVars => [Next]_vars
  BY DEF NowNext, allVars
<1> QED
  BY <1>1, <1>2, PTL DEF NowSpec, Spec

LEMMA TablesAreSound == NowSpec => []IInv
BY NowIsIngest, Inductive, PTL

(* A step is one of the pipeline or one of a reader.                       *)
LEMMA NowSteps ==
  ASSUME [NowNext]_allVars
  PROVE  \/ [Next]_vars /\ UNCHANGED readerVars
         \/ \E r \in Reader :
              /\ UNCHANGED vars
              /\ \/ \E c \in Region : Ask(r, "latest", <<c>>)
                 \/ \E cs \in Seq(Code) : Ask(r, "compare", cs)
                 \/ ReadLatest(r) \/ ReadMix(r) \/ CompareCode(r) \/ CompareRanks(r)
<1>1. ASSUME NEW r \in Reader, AskCompare(r)
      PROVE  \E cs \in Seq(Code) : Ask(r, "compare", cs)
  <2>1. PICK cs \in SeqOf(Code, MaxCodes + 1) :
          Ask(r, "compare", SubSeq(cs, 1, IF Len(cs) < MaxCodes THEN Len(cs) ELSE MaxCodes))
    BY <1>1 DEF AskCompare
  <2>2. cs \in Seq(Code)
    BY MaxCodesIsNatural DEF SeqOf, MaxCodesIsNatural
  <2>3. SubSeq(cs, 1, IF Len(cs) < MaxCodes THEN Len(cs) ELSE MaxCodes) \in Seq(Code)
    BY <2>2, MaxCodesIsNatural DEF MaxCodesIsNatural
  <2> QED BY <2>1, <2>3
<1>2. CASE UNCHANGED allVars
  BY <1>2 DEF allVars
<1>3. CASE NowNext
  BY <1>1, <1>3 DEF NowNext, ReaderStep, AskNow
<1> QED BY <1>2, <1>3

-----------------------------------------------------------------------------
(* Types *)

(* What _latest_intensity returns, with the ghosts.                        *)
ReadRow ==
  [code : Region, period : Period, row : Intensities \ {NoIntensity},
   mix : Mixes, lagging : BOOLEAN]

NowTypes ==
  /\ rpc \in [Reader -> {"idle", "latest", "mix", "compare"}]
  /\ codes \in [Reader -> Seq(Code)]
  /\ found \in [Reader -> Seq(ReadRow)]
  /\ missing \in [Reader -> Seq(Code)]
  /\ DOMAIN reply = Reader
  /\ shown \in [Region -> Nat]
  /\ floor \in [Reader -> [Region -> Nat]]
  /\ served \in [Reader -> SUBSET Region]
  /\ \A r \in Reader : rpc[r] = "latest" => Len(codes[r]) = 1 /\ codes[r][1] \in Region
  /\ \A r \in Reader : rpc[r] = "mix" => Len(found[r]) = 1

(* The newest hour is the greatest of those with an intensity.             *)
LEMMA HoursHaveLatest ==
  ASSUME NEW c \in Region, Hours(c) # {}
  PROVE  LatestOf(c) \in Hours(c) /\ \A t \in Hours(c) : t <= LatestOf(c)
<1> DEFINE Good == {T \in SUBSET Hours(c) : T # {} => \E x \in T : \A y \in T : y <= x}
<1>1. Hours(c) \subseteq Nat /\ IsFiniteSet(Hours(c))
  <2>1. IsFiniteSet(Period)
    BY BoundsAreNaturals, FS_Interval DEF BoundsAreNaturals, Period
  <2>2. Hours(c) \in SUBSET Period
    BY DEF Hours
  <2>3. Period \subseteq Nat
    BY DEF Period
  <2> QED BY <2>1, <2>2, <2>3, FS_Subset
<1>2. ASSUME NEW T \in SUBSET Hours(c), \A U \in SUBSET T : U # T => U \in Good
      PROVE  T \in Good
  <2> SUFFICES ASSUME T # {} PROVE \E x \in T : \A y \in T : y <= x
    OBVIOUS
  <2>1. PICK a \in T : TRUE
    OBVIOUS
  <2>2. T \ {a} \in Good
    BY <1>2, <2>1
  <2>3. CASE T \ {a} = {}
    BY <1>1, <2>1, <2>3
  <2>4. CASE T \ {a} # {}
    <3>1. PICK b \in T \ {a} : \A y \in T \ {a} : y <= b
      BY <2>2, <2>4
    <3>2. a \in Nat /\ b \in Nat /\ T \subseteq Nat
      BY <1>1, <2>1, <3>1
    <3>3. CASE a <= b
      BY <3>1, <3>2, <3>3
    <3>4. CASE b <= a
      BY <3>1, <3>2, <3>4
    <3> QED BY <3>2, <3>3, <3>4
  <2> QED BY <2>3, <2>4
<1>3. Hours(c) \in Good
  <2> HIDE DEF Good
  <2> QED BY <1>1, <1>2, SubsetInduction
<1>4. PICK x \in Hours(c) : \A y \in Hours(c) : x >= y
  BY <1>1, <1>3
<1>5. /\ Max(Hours(c)) \in Hours(c)
      /\ \A y \in Hours(c) : Max(Hours(c)) >= y
  BY <1>4 DEF Max
<1> QED BY <1>1, <1>5 DEF LatestOf

LEMMA LatestIsRow ==
  ASSUME IInv, NEW c, Available(c)
  PROVE  LatestIntensity(c) \in ReadRow
<1>1. c \in Region /\ LatestOf(c) \in Period /\ intensity[c][LatestOf(c)] # NoIntensity
  BY HoursHaveLatest DEF Available, Hours
<1>2. intensity[c][LatestOf(c)] \in Intensities
  <2>1. PICK m \in seen[c][LatestOf(c)] : intensity[c][LatestOf(c)] = IntensityForPeriod(m)
    BY <1>1 DEF IInv, IntensityFromCommittedMix
  <2>2. m \in Mixes
    BY <1>1 DEF IInv, TypeOK
  <2> QED BY <2>1, <2>2 DEF Intensities
<1>3. gen[c][LatestOf(c)] \in Mixes /\ tainted[c] \in BOOLEAN
  BY <1>1 DEF IInv, TypeOK
<1>4. Lagging(c) \in BOOLEAN
  BY <1>3 DEF Lagging
<1> QED BY <1>1, <1>2, <1>3, <1>4 DEF LatestIntensity, ReadRow

LEMMA InitTypes == NowInit => NowTypes
BY DEF NowInit, NowTypes

LEMMA AskTypes ==
  ASSUME NowTypes, NEW r \in Reader, NEW next \in {"latest", "compare"}, NEW cs \in Seq(Code),
         next = "latest" => Len(cs) = 1 /\ cs[1] \in Region, Ask(r, next, cs)
  PROVE  NowTypes'
<1> USE DEF NowTypes
<1>1. /\ rpc' = [rpc EXCEPT ![r] = next] /\ codes' = [codes EXCEPT ![r] = cs]
      /\ found' = [found EXCEPT ![r] = <<>>] /\ missing' = [missing EXCEPT ![r] = <<>>]
      /\ reply' = [reply EXCEPT ![r] = NoReply] /\ floor' = [floor EXCEPT ![r] = shown]
      /\ served' = [served EXCEPT ![r] = {c \in Region : Available(c)}]
      /\ shown' = shown
  BY DEF Ask
<1>2. /\ rpc' \in [Reader -> {"idle", "latest", "mix", "compare"}]
      /\ codes' \in [Reader -> Seq(Code)]
      /\ found' \in [Reader -> Seq(ReadRow)]
      /\ missing' \in [Reader -> Seq(Code)]
  BY <1>1
<1>3. /\ DOMAIN reply' = Reader
      /\ shown' \in [Region -> Nat]
      /\ floor' \in [Reader -> [Region -> Nat]]
      /\ served' \in [Reader -> SUBSET Region]
  BY <1>1
<1>4. ASSUME NEW q \in Reader
      PROVE  /\ rpc'[q] = "latest" => Len(codes'[q]) = 1 /\ codes'[q][1] \in Region
             /\ rpc'[q] = "mix" => Len(found'[q]) = 1
  <2>1. CASE q = r
    BY <1>1, <2>1
  <2>2. CASE q # r
    BY <1>1, <2>2
  <2> QED BY <2>1, <2>2
<1> QED BY <1>2, <1>3, <1>4

LEMMA RepliesTypes ==
  ASSUME NowTypes, NEW r \in Reader, NEW answer, Replies(r, answer), shown' \in [Region -> Nat]
  PROVE  NowTypes'
BY DEF NowTypes, Replies

LEMMA ReadLatestTypes ==
  ASSUME IInv, NowTypes, NEW r \in Reader, ReadLatest(r)
  PROVE  NowTypes'
<1> DEFINE c == codes[r][1]
<1>1. CASE Available(c)
  <2>1. /\ rpc' = [rpc EXCEPT ![r] = "mix"]
        /\ found' = [found EXCEPT ![r] = <<LatestIntensity(c)>>]
        /\ UNCHANGED <<codes, missing, reply, floor, served, shown>>
    BY <1>1 DEF ReadLatest
  <2>2. LatestIntensity(c) \in ReadRow
    BY <1>1, LatestIsRow
  <2>3. found' \in [Reader -> Seq(ReadRow)] /\ Len(found'[r]) = 1
    BY <2>1, <2>2 DEF NowTypes
  <2> QED BY <2>1, <2>3 DEF NowTypes
<1>2. CASE ~Available(c)
  <2>1. Replies(r, [kind |-> "503", code |-> c]) /\ shown' = shown
    BY <1>2 DEF ReadLatest
  <2> QED BY <2>1, RepliesTypes DEF NowTypes
<1> QED BY <1>1, <1>2

LEMMA ReadMixTypes ==
  ASSUME NowTypes, NEW r \in Reader, ReadMix(r)
  PROVE  /\ NowTypes'
         /\ found[r][1] \in ReadRow
<1> DEFINE read == found[r][1]
           answer == [kind |-> "now", read |-> read,
                      mix |-> GenerationOf(read.code, read.period),
                      shares |-> FuelMix(GenerationOf(read.code, read.period), read.row.total)]
<1>1. read \in ReadRow
  <2>1. rpc[r] = "mix" /\ found[r] \in Seq(ReadRow) /\ Len(found[r]) = 1
    BY DEF ReadMix, NowTypes
  <2> QED BY <2>1
<1>2. /\ Replies(r, answer)
      /\ shown' = [shown EXCEPT ![read.code] = IF @ < read.period THEN read.period ELSE @]
  BY DEF ReadMix
<1>3. read.period \in Nat
  BY <1>1 DEF ReadRow, Period
<1>4. shown' \in [Region -> Nat]
  BY <1>2, <1>3 DEF NowTypes
<1> HIDE DEF answer
<1> QED BY <1>1, <1>2, <1>4, RepliesTypes

LEMMA CompareCodeTypes ==
  ASSUME IInv, NowTypes, NEW r \in Reader, CompareCode(r)
  PROVE  /\ NowTypes'
         /\ Compared(r) \in 0..(Len(codes[r]) - 1)
         /\ codes[r][Compared(r) + 1] \in Code
<1> DEFINE c == codes[r][Compared(r) + 1]
<1>1. Len(codes[r]) \in Nat /\ Len(found[r]) \in Nat /\ Len(missing[r]) \in Nat
  BY DEF NowTypes
<1>2. Compared(r) \in 0..(Len(codes[r]) - 1)
  <2>1. Compared(r) < Len(codes[r])
    BY DEF CompareCode
  <2>2. Compared(r) \in Nat
    <3> DEFINE m == Len(found[r])
               n == Len(missing[r])
    <3>1. Compared(r) = m + n
      BY DEF Compared
    <3>2. m \in Nat /\ n \in Nat
      BY <1>1
    <3> HIDE DEF m, n
    <3> QED BY <3>1, <3>2
  <2> QED BY <1>1, <2>1, <2>2
<1>3. c \in Code
  BY <1>2 DEF NowTypes
<1>4. CASE Available(c)
  <2> DEFINE item == IF StillLoaded(r, c) THEN Last(found[r]) ELSE LatestIntensity(c)
  <2>1. /\ found' = [found EXCEPT ![r] = Append(found[r], item)]
        /\ UNCHANGED <<missing, rpc, codes, reply, shown, floor, served>>
    BY <1>4 DEF CompareCode
  <2>2. item \in ReadRow
    <3>1. LatestIntensity(c) \in ReadRow
      BY <1>4, LatestIsRow
    <3>2. found[r] # <<>> => Last(found[r]) \in ReadRow
      BY DEF Last, NowTypes
    <3> QED BY <3>1, <3>2 DEF StillLoaded
  <2> HIDE DEF item
  <2>3. found' \in [Reader -> Seq(ReadRow)]
    BY <2>1, <2>2 DEF NowTypes
  <2>4. \A q \in Reader : rpc[q] = "mix" => found'[q] = found[q]
    BY <2>1 DEF CompareCode, NowTypes
  <2>5. NowTypes'
    BY <2>1, <2>3, <2>4 DEF NowTypes
  <2> QED BY <1>2, <1>3, <2>5
<1>5. CASE ~Available(c)
  <2>1. /\ missing' = [missing EXCEPT ![r] = Append(missing[r], c)]
        /\ UNCHANGED <<found, rpc, codes, reply, shown, floor, served>>
    BY <1>5 DEF CompareCode
  <2>2. missing' \in [Reader -> Seq(Code)]
    BY <1>3, <2>1 DEF NowTypes
  <2>3. NowTypes'
    BY <2>1, <2>2 DEF NowTypes
  <2> QED BY <1>2, <1>3, <2>3
<1> QED BY <1>4, <1>5

LEMMA NextTypes == IInv /\ NowTypes /\ [NowNext]_allVars => NowTypes'
<1> SUFFICES ASSUME IInv, NowTypes, [NowNext]_allVars PROVE NowTypes'
  OBVIOUS
<1>1. CASE UNCHANGED readerVars
  BY <1>1 DEF NowTypes, readerVars
<1>2. ASSUME NEW r \in Reader, NEW c \in Region, Ask(r, "latest", <<c>>)
      PROVE  NowTypes'
  <2>1. <<c>> \in Seq(Code) /\ Len(<<c>>) = 1 /\ <<c>>[1] = c
    BY RegionsAreCodes DEF RegionsAreCodes
  <2> QED BY <1>2, <2>1, AskTypes
<1>3. ASSUME NEW r \in Reader, NEW cs \in Seq(Code), Ask(r, "compare", cs)
      PROVE  NowTypes'
  BY <1>3, AskTypes
<1>4. ASSUME NEW r \in Reader, CompareRanks(r)
      PROVE  NowTypes'
  <2>1. shown' \in [Region -> Nat]
    BY <1>4 DEF CompareRanks, NowTypes
  <2> QED BY <1>4, <2>1, RepliesTypes DEF CompareRanks
<1> QED
  BY <1>1, <1>2, <1>3, <1>4, NowSteps, ReadLatestTypes, ReadMixTypes, CompareCodeTypes

LEMMA TypesHold == NowSpec => []NowTypes
BY InitTypes, NextTypes, TablesAreSound, PTL DEF NowSpec

-----------------------------------------------------------------------------
(* What a request has read                                                 *)

(* An hour without rows has never had any.                                 *)
SeenHasRows ==
  \A c \in Region, t \in Period : gen[c][t] = EmptyMix => seen[c][t] \subseteq {EmptyMix}

(* A row that was read is the intensity of a committed version, its hour   *)
(* still has one, and it goes with the generation of the time unless it    *)
(* was lagging or that generation has nothing to compute from.             *)
RowIsCommitted(a) ==
  /\ a.period \in Hours(a.code)
  /\ \E m \in seen[a.code][a.period] : a.row = IntensityForPeriod(m)
  /\ a.lagging \/ IntensityForPeriod(a.mix) \in {a.row, NoIntensity}

FoundIsCommitted ==
  \A r \in Reader : \A i \in DOMAIN found[r] : RowIsCommitted(found[r][i])

(* An hour that a reply has named, and a region that had data, have an     *)
(* intensity still.                                                        *)
ShownIsThere ==
  /\ \A c \in Region : shown[c] # 0 => shown[c] \in Hours(c)
  /\ \A r \in Reader, c \in Region : floor[r][c] # 0 => floor[r][c] \in Hours(c)
  /\ \A r \in Reader : \A c \in served[r] : Hours(c) # {}

(* So what a request reads is no older than what had been shown.           *)
ReadIsNoOlder ==
  \A r \in Reader : rpc[r] = "mix" => found[r][1].period >= floor[r][found[r][1].code]

ReadInv == SeenHasRows /\ FoundIsCommitted /\ ShownIsThere /\ ReadIsNoOlder

LEMMA InitRead == NowInit => ReadInv
<1> SUFFICES ASSUME NowInit PROVE ReadInv
  OBVIOUS
<1>1. SeenHasRows
  BY DEF NowInit, Init, SeenHasRows
<1>2. FoundIsCommitted /\ ShownIsThere /\ ReadIsNoOlder
  BY DEF NowInit, FoundIsCommitted, ShownIsThere, ReadIsNoOlder
<1> QED BY <1>1, <1>2 DEF ReadInv

LEMMA NextSeenHasRows ==
  ASSUME IInv, SeenHasRows, [Next]_vars
  PROVE  SeenHasRows'
<1> SUFFICES ASSUME NEW c \in Region, NEW t \in Period, gen'[c][t] = EmptyMix
             PROVE  seen'[c][t] \subseteq {EmptyMix}
  BY DEF SeenHasRows
<1> USE DEF IInv, TypeOK
<1>1. CASE gen'[c] = gen[c] /\ seen'[c] = seen[c]
  BY <1>1 DEF SeenHasRows
<1>2. ASSUME NEW w \in Worker, CommitGeneration(w)
      PROVE  seen'[c][t] \subseteq {EmptyMix}
  <2> DEFINE stored == Upserted(gen[region[w]], batch[w])
  <2>1. /\ gen' = [gen EXCEPT ![region[w]] = stored]
        /\ seen' = [seen EXCEPT ![region[w]] = [u \in Period |-> @[u] \cup {stored[u]}]]
    BY <1>2 DEF CommitGeneration
  <2>2. CASE c = region[w]
    <3>1. gen[c] \in [Period -> Mixes] /\ batch[w] \in [Period -> Mixes]
      OBVIOUS
    <3>2. stored[t] = EmptyMix /\ seen'[c][t] = seen[c][t] \cup {stored[t]}
      <4> HIDE DEF stored
      <4> QED BY <2>1, <2>2
    <3>3. ASSUME gen[c][t] # EmptyMix PROVE FALSE
      <4>1. Upserted(gen[c], batch[w])[t] # EmptyMix
        BY <3>1, <3>3, UpsertKeepsRows
      <4> QED BY <2>2, <3>2, <4>1
    <3> HIDE DEF stored
    <3> QED BY <3>2, <3>3 DEF SeenHasRows
  <2>3. CASE c # region[w]
    BY <1>1, <2>1, <2>3
  <2> QED BY <2>2, <2>3
<1> QED BY <1>1, <1>2, TableSteps

LEMMA HoursGrow ==
  ASSUME IInv, [Next]_vars, NEW c \in Region
  PROVE  Hours(c) \subseteq Hours(c)'
BY IntensityStays DEF Hours, IInv

(* What the pipeline does leaves what a request has read as it was.        *)
LEMMA RowStaysCommitted ==
  ASSUME IInv, [Next]_vars, NEW a \in ReadRow, RowIsCommitted(a)
  PROVE  RowIsCommitted(a)'
<1>1. a.code \in Region /\ a.period \in Period
  BY DEF ReadRow
<1>2. seen[a.code][a.period] \subseteq seen'[a.code][a.period]
  BY <1>1, SeenGrows DEF IInv
<1>3. Hours(a.code) \subseteq Hours(a.code)'
  BY <1>1, HoursGrow
<1> QED BY <1>2, <1>3 DEF RowIsCommitted

LEMMA PipelineKeepsRead ==
  ASSUME IInv, NowTypes, ReadInv, [Next]_vars, UNCHANGED readerVars
  PROVE  ReadInv'
<1> USE DEF readerVars
<1>1. SeenHasRows'
  BY NextSeenHasRows DEF ReadInv
<1>2. FoundIsCommitted'
  <2> SUFFICES ASSUME NEW r \in Reader, NEW i \in DOMAIN found[r]
               PROVE  RowIsCommitted(found[r][i])'
    BY DEF FoundIsCommitted
  <2>1. found[r][i] \in ReadRow /\ RowIsCommitted(found[r][i])
    BY DEF NowTypes, ReadInv, FoundIsCommitted
  <2>2. PICK a \in ReadRow : a = found[r][i]
    BY <2>1
  <2>3. RowIsCommitted(a)'
    BY <2>1, <2>2, RowStaysCommitted
  <2>4. a = found'[r][i]
    BY <2>2
  <2> QED BY <2>3, <2>4
<1>3. ShownIsThere'
  BY HoursGrow DEF ReadInv, ShownIsThere, NowTypes
<1>4. ReadIsNoOlder'
  BY DEF ReadInv, ReadIsNoOlder
<1> QED BY <1>1, <1>2, <1>3, <1>4 DEF ReadInv

LEMMA LatestIsCommitted ==
  ASSUME IInv, NEW c, Available(c)
  PROVE  RowIsCommitted(LatestIntensity(c))
<1> DEFINE a == LatestIntensity(c)
           t == LatestOf(c)
<1>1. c \in Region /\ t \in Hours(c) /\ t \in Period /\ intensity[c][t] # NoIntensity
  BY HoursHaveLatest DEF Available, Hours
<1>2. a.code = c /\ a.period = t /\ a.row = intensity[c][t] /\ a.mix = gen[c][t]
      /\ a.lagging = Lagging(c)
  BY DEF LatestIntensity
<1> HIDE DEF a, t
<1>3. \E m \in seen[c][t] : a.row = IntensityForPeriod(m)
  BY <1>1, <1>2 DEF IInv, IntensityFromCommittedMix
<1>4. Lagging(c) \/ IntensityForPeriod(a.mix) \in {a.row, NoIntensity}
  <2>1. Derived(c) \/ Lagging(c)
    BY <1>1 DEF IInv, StaleHasCause, Lagging
  <2> QED BY <1>1, <1>2, <2>1 DEF Derived
<1>5. RowIsCommitted(a)
  BY <1>1, <1>2, <1>3, <1>4 DEF RowIsCommitted
<1> QED BY <1>5 DEF a

(* A question asks after what is served by then ...                        *)
LEMMA AskKeepsRead ==
  ASSUME IInv, NowTypes, ReadInv, UNCHANGED vars, NEW r \in Reader,
         NEW next \in {"latest", "compare"}, NEW cs, Ask(r, next, cs)
  PROVE  ReadInv'
<1> USE DEF NowTypes, ReadInv
<1>1. /\ rpc' = [rpc EXCEPT ![r] = next] /\ shown' = shown
      /\ found' = [found EXCEPT ![r] = <<>>]
      /\ floor' = [floor EXCEPT ![r] = shown]
      /\ served' = [served EXCEPT ![r] = {c \in Region : Available(c)}]
  BY DEF Ask
<1>2. gen' = gen /\ seen' = seen /\ intensity' = intensity
  BY DEF vars, tableVars
<1>3. \A c : Hours(c)' = Hours(c)
  BY <1>2 DEF Hours
<1>4. SeenHasRows'
  BY <1>2 DEF SeenHasRows
<1>5. FoundIsCommitted'
  <2> SUFFICES ASSUME NEW q \in Reader, NEW i \in DOMAIN found'[q]
               PROVE  RowIsCommitted(found[q][i])'
    BY DEF FoundIsCommitted
  <2>1. q # r /\ found'[q] = found[q]
    BY <1>1
  <2>2. PICK a : a = found[q][i]
    OBVIOUS
  <2>3. RowIsCommitted(a)
    BY <2>1, <2>2 DEF FoundIsCommitted
  <2>4. RowIsCommitted(a)'
    BY <1>2, <1>3, <2>3 DEF RowIsCommitted
  <2>5. a = found'[q][i]
    BY <2>1, <2>2
  <2> QED BY <2>4, <2>5
<1>6. ShownIsThere'
  <2>1. \A c \in Region : shown'[c] # 0 => shown'[c] \in Hours(c)'
    BY <1>1, <1>3 DEF ShownIsThere
  <2>2. ASSUME NEW q \in Reader
        PROVE  /\ \A c \in Region : floor'[q][c] # 0 => floor'[q][c] \in Hours(c)'
               /\ \A c \in served'[q] : Hours(c)' # {}
    <3>1. CASE q = r
      BY <1>1, <1>3, <3>1 DEF ShownIsThere, Available
    <3>2. CASE q # r
      BY <1>1, <1>3, <3>2 DEF ShownIsThere
    <3> QED BY <3>1, <3>2
  <2> QED BY <2>1, <2>2 DEF ShownIsThere
<1>7. ReadIsNoOlder'
  <2> SUFFICES ASSUME NEW q \in Reader, rpc'[q] = "mix"
               PROVE  found'[q][1].period >= floor'[q][found'[q][1].code]
    BY DEF ReadIsNoOlder
  <2>1. q # r /\ rpc[q] = "mix" /\ found'[q] = found[q] /\ floor'[q] = floor[q]
    BY <1>1
  <2> QED BY <2>1 DEF ReadIsNoOlder
<1> QED BY <1>4, <1>5, <1>6, <1>7

(* ... and a reader that appends a committed row, or replies, keeps the    *)
(* rest as it is.                                                          *)
LEMMA ReaderKeepsRead ==
  ASSUME NowTypes, ReadInv, UNCHANGED vars, NEW r \in Reader,
         UNCHANGED <<floor, served>>,
         shown' = shown \/ ReadMix(r),
         \A q \in Reader : rpc'[q] = "mix" =>
           \/ rpc[q] = "mix" /\ found'[q] = found[q]
           \/ found'[q][1].period >= floor[q][found'[q][1].code],
         \A q \in Reader : \A i \in DOMAIN found'[q] :
           RowIsCommitted(found'[q][i]) \/ (i \in DOMAIN found[q] /\ found'[q][i] = found[q][i])
  PROVE  ReadInv'
<1> USE DEF NowTypes, ReadInv
<1>2. gen' = gen /\ seen' = seen /\ intensity' = intensity
  BY DEF vars, tableVars
<1>3. \A c : Hours(c)' = Hours(c)
  BY <1>2 DEF Hours
<1>4. SeenHasRows'
  BY <1>2 DEF SeenHasRows
<1>5. FoundIsCommitted'
  <2> SUFFICES ASSUME NEW q \in Reader, NEW i \in DOMAIN found'[q]
               PROVE  RowIsCommitted(found[q][i])'
    BY DEF FoundIsCommitted
  <2>1. PICK a : a = found'[q][i]
    OBVIOUS
  <2>2. RowIsCommitted(a)
    BY <2>1 DEF FoundIsCommitted
  <2>3. RowIsCommitted(a)'
    BY <1>2, <1>3, <2>2 DEF RowIsCommitted
  <2> QED BY <2>1, <2>3
<1>6. \A c \in Region : shown'[c] # 0 => shown'[c] \in Hours(c)
  <2>1. CASE shown' = shown
    BY <2>1 DEF ShownIsThere
  <2>2. CASE ReadMix(r)
    <3> DEFINE read == found[r][1]
    <3>1. shown' = [shown EXCEPT ![read.code] = IF @ < read.period THEN read.period ELSE @]
      BY <2>2 DEF ReadMix
    <3>2. read.period \in Hours(read.code)
      <4>1. 1 \in DOMAIN found[r]
        BY <2>2 DEF ReadMix
      <4> QED BY <4>1 DEF FoundIsCommitted, RowIsCommitted
    <3> HIDE DEF read
    <3> QED BY <3>1, <3>2 DEF ShownIsThere
  <2> QED BY <2>1, <2>2
<1>7. ShownIsThere'
  BY <1>3, <1>6 DEF ShownIsThere
<1>8. ReadIsNoOlder'
  BY DEF ReadIsNoOlder
<1> QED BY <1>4, <1>5, <1>7, <1>8

LEMMA ReadLatestKeepsRead ==
  ASSUME IInv, NowTypes, ReadInv, UNCHANGED vars, NEW r \in Reader, ReadLatest(r)
  PROVE  ReadInv'
<1> DEFINE c == codes[r][1]
           a == LatestIntensity(c)
<1>1. CASE Available(c)
  <2>1. /\ rpc' = [rpc EXCEPT ![r] = "mix"] /\ found' = [found EXCEPT ![r] = <<a>>]
        /\ UNCHANGED <<shown, floor, served>>
    BY <1>1 DEF ReadLatest
  <2>2. RowIsCommitted(a)
    BY <1>1, LatestIsCommitted
  <2>3. a.period >= floor[r][a.code]
    <3>1. c \in Region /\ \A t \in Hours(c) : t <= LatestOf(c)
      BY <1>1, HoursHaveLatest DEF Available
    <3>2. floor[r][c] \in Nat /\ (floor[r][c] = 0 \/ floor[r][c] \in Hours(c))
      BY <3>1 DEF NowTypes, ReadInv, ShownIsThere
    <3>3. LatestOf(c) \in Nat
      BY <1>1, HoursHaveLatest DEF Available, Hours, Period
    <3>4. a.code = c /\ a.period = LatestOf(c)
      BY DEF LatestIntensity
    <3> HIDE DEF a, c
    <3> QED BY <3>1, <3>2, <3>3, <3>4
  <2> HIDE DEF a
  <2>4. \A q \in Reader : \/ q = r /\ found'[q] = <<a>>
                          \/ q # r /\ found'[q] = found[q] /\ rpc'[q] = rpc[q]
    BY <2>1 DEF NowTypes
  <2>5. \A q \in Reader : rpc'[q] = "mix" =>
          \/ rpc[q] = "mix" /\ found'[q] = found[q]
          \/ found'[q][1].period >= floor[q][found'[q][1].code]
    BY <2>3, <2>4
  <2>6. \A q \in Reader : \A i \in DOMAIN found'[q] :
          RowIsCommitted(found'[q][i]) \/ (i \in DOMAIN found[q] /\ found'[q][i] = found[q][i])
    BY <2>2, <2>4
  <2> QED BY <2>1, <2>5, <2>6, ReaderKeepsRead
<1>2. CASE ~Available(c)
  <2>1. Replies(r, [kind |-> "503", code |-> c]) /\ shown' = shown
    BY <1>2 DEF ReadLatest
  <2>2. \A q \in Reader : found'[q] = found[q] /\ (rpc'[q] = "mix" => rpc[q] = "mix")
    BY <2>1 DEF Replies, NowTypes
  <2> QED BY <2>1, <2>2, ReaderKeepsRead DEF Replies
<1> QED BY <1>1, <1>2

LEMMA CompareCodeKeepsRead ==
  ASSUME IInv, NowTypes, ReadInv, UNCHANGED vars, NEW r \in Reader, CompareCode(r)
  PROVE  ReadInv'
<1> DEFINE c == codes[r][Compared(r) + 1]
           item == IF StillLoaded(r, c) THEN Last(found[r]) ELSE LatestIntensity(c)
<1>1. CASE Available(c)
  <2>1. /\ found' = [found EXCEPT ![r] = Append(found[r], item)]
        /\ UNCHANGED <<rpc, shown, floor, served>>
    BY <1>1 DEF CompareCode
  <2>2. RowIsCommitted(item)
    <3>1. RowIsCommitted(LatestIntensity(c))
      BY <1>1, LatestIsCommitted
    <3>2. found[r] # <<>> => RowIsCommitted(Last(found[r]))
      <4>1. found[r] \in Seq(ReadRow)
        BY DEF NowTypes
      <4>2. found[r] # <<>> => Len(found[r]) \in DOMAIN found[r]
        BY <4>1
      <4> QED BY <4>2 DEF Last, ReadInv, FoundIsCommitted
    <3> QED BY <3>1, <3>2 DEF StillLoaded
  <2> HIDE DEF item
  <2>3. rpc[r] = "compare"
    BY DEF CompareCode
  <2>4. \A q \in Reader : \/ q = r /\ found'[q] = Append(found[q], item)
                          \/ q # r /\ found'[q] = found[q]
    BY <2>1 DEF NowTypes
  <2>5. ASSUME NEW q \in Reader, NEW i \in DOMAIN found'[q]
        PROVE  RowIsCommitted(found'[q][i]) \/ (i \in DOMAIN found[q] /\ found'[q][i] = found[q][i])
    <3>1. found[q] \in Seq(ReadRow)
      BY DEF NowTypes
    <3>2. \A s \in Seq(ReadRow) : \A j \in DOMAIN Append(s, item) :
            \/ j \in DOMAIN s /\ Append(s, item)[j] = s[j]
            \/ Append(s, item)[j] = item
      OBVIOUS
    <3>3. CASE q = r
      BY <2>2, <2>4, <3>1, <3>2, <3>3
    <3>4. CASE q # r
      BY <2>4, <3>4
    <3> QED BY <3>3, <3>4
  <2>6. \A q \in Reader : rpc'[q] = "mix" => rpc[q] = "mix" /\ found'[q] = found[q]
    BY <2>1, <2>3, <2>4
  <2> QED BY <2>1, <2>5, <2>6, ReaderKeepsRead
<1>2. CASE ~Available(c)
  <2>1. UNCHANGED <<found, rpc, shown, floor, served>>
    BY <1>2 DEF CompareCode
  <2> QED BY <2>1, ReaderKeepsRead
<1> QED BY <1>1, <1>2

LEMMA NextRead == IInv /\ NowTypes /\ ReadInv /\ [NowNext]_allVars => ReadInv'
<1> SUFFICES ASSUME IInv, NowTypes, ReadInv, [NowNext]_allVars PROVE ReadInv'
  OBVIOUS
<1>1. ASSUME NEW r \in Reader, UNCHANGED vars, ReadMix(r) \/ CompareRanks(r)
      PROVE  ReadInv'
  <2>1. /\ UNCHANGED <<found, floor, served>>
        /\ rpc' = [rpc EXCEPT ![r] = "idle"]
    BY <1>1 DEF ReadMix, CompareRanks, Replies
  <2>2. \A q \in Reader : found'[q] = found[q] /\ (rpc'[q] = "mix" => rpc[q] = "mix")
    BY <2>1 DEF NowTypes
  <2>3. shown' = shown \/ ReadMix(r)
    BY <1>1 DEF CompareRanks
  <2> QED BY <1>1, <2>1, <2>2, <2>3, ReaderKeepsRead
<1> QED
  BY <1>1, NowSteps, PipelineKeepsRead, AskKeepsRead, ReadLatestKeepsRead,
     CompareCodeKeepsRead

LEMMA ReadHolds == NowSpec => []ReadInv
BY InitRead, NextRead, TablesAreSound, TypesHold, PTL DEF NowSpec

-----------------------------------------------------------------------------
(* What a reply says                                                       *)

IsReply(q, kind) == reply[q] # NoReply /\ reply[q].kind = kind

NowAnswer(q, mix) ==
  [kind |-> "now", read |-> found[q][1], mix |-> mix,
   shares |-> FuelMix(mix, found[q][1].row.total)]
NoDataAnswer(q) == [kind |-> "503", code |-> codes[q][1]]
CompareAnswer(q) ==
  [kind |-> "compare", items |-> Ranked(found[q]), unavailable |-> missing[q]]

(* A reader's reply stays, is forgotten, or is the one its request gives.  *)
LEMMA ReplySteps ==
  ASSUME NowTypes, [NowNext]_allVars, NEW q \in Reader
  PROVE  \/ /\ reply'[q] = reply[q] /\ floor'[q] = floor[q]
            /\ codes'[q] = codes[q] /\ served'[q] = served[q]
         \/ reply'[q] = NoReply
         \/ /\ UNCHANGED vars
            /\ floor' = floor /\ codes' = codes /\ served' = served
            /\ \/ ReadMix(q) /\ reply'[q] = NowAnswer(q, gen[found[q][1].code][found[q][1].period])
               \/ ReadLatest(q) /\ ~Available(codes[q][1]) /\ reply'[q] = NoDataAnswer(q)
               \/ CompareRanks(q) /\ reply'[q] = CompareAnswer(q)
<1> DEFINE Same == /\ reply'[q] = reply[q] /\ floor'[q] = floor[q]
                   /\ codes'[q] = codes[q] /\ served'[q] = served[q]
<1> USE DEF NowTypes
<1>1. CASE UNCHANGED readerVars
  BY <1>1 DEF readerVars
<1>2. ASSUME NEW r \in Reader, NEW next, NEW cs, Ask(r, next, cs)
      PROVE  Same \/ reply'[q] = NoReply
  BY <1>2 DEF Ask
<1>3. ASSUME NEW r \in Reader, NEW answer, Replies(r, answer)
      PROVE  /\ UNCHANGED <<floor, codes, served>>
             /\ r = q => reply'[q] = answer
             /\ r # q => Same
  BY <1>3 DEF Replies
<1>4. ASSUME NEW r \in Reader, ReadLatest(r), ~(r = q /\ ~Available(codes[q][1]))
      PROVE  Same
  BY <1>3, <1>4 DEF ReadLatest
<1>5. ASSUME ReadLatest(q), ~Available(codes[q][1])
      PROVE  UNCHANGED <<floor, codes, served>> /\ reply'[q] = NoDataAnswer(q)
  BY <1>3, <1>5 DEF ReadLatest, NoDataAnswer
<1>6. ASSUME NEW r \in Reader, ReadMix(r)
      PROVE  Same \/ /\ r = q /\ UNCHANGED <<floor, codes, served>>
                     /\ reply'[q] = NowAnswer(q, gen[found[q][1].code][found[q][1].period])
  BY <1>3, <1>6 DEF ReadMix, NowAnswer, GenerationOf
<1>7. ASSUME NEW r \in Reader, CompareCode(r)
      PROVE  Same
  BY <1>7 DEF CompareCode
<1>8. ASSUME NEW r \in Reader, CompareRanks(r)
      PROVE  Same \/ /\ r = q /\ UNCHANGED <<floor, codes, served>>
                     /\ reply'[q] = CompareAnswer(q)
  BY <1>3, <1>8 DEF CompareRanks, CompareAnswer
<1> HIDE DEF Same
<1>9. CASE Same
  BY <1>9 DEF Same
<1> QED
  BY <1>1, <1>2, <1>4, <1>5, <1>6, <1>7, <1>8, <1>9, NowSteps

(* /now: the parts of the answer.                                          *)
NowIsCommitted ==
  \A q \in Reader : IsReply(q, "now") =>
    LET read == reply[q].read
    IN  /\ read \in ReadRow
        /\ reply[q].mix \in seen[read.code][read.period] \ {EmptyMix}

LEMMA RowHasGeneration ==
  ASSUME IInv, SeenHasRows, NEW c \in Region, NEW t \in Hours(c)
  PROVE  gen[c][t] \in seen[c][t] \ {EmptyMix}
<1>1. t \in Period /\ intensity[c][t] # NoIntensity
  BY DEF Hours
<1>2. PICK m \in seen[c][t] : intensity[c][t] = IntensityForPeriod(m)
  BY <1>1 DEF IInv, IntensityFromCommittedMix
<1>3. m # EmptyMix
  BY <1>1, <1>2, NoRowsNoIntensity
<1>4. gen[c][t] # EmptyMix
  BY <1>1, <1>2, <1>3 DEF SeenHasRows
<1> QED BY <1>1, <1>4 DEF IInv, CommittedIsSeen

LEMMA MixReadIsCommitted ==
  ASSUME IInv, NowTypes, ReadInv, NEW q \in Reader, rpc[q] = "mix"
  PROVE  LET read == found[q][1]
         IN  /\ read \in ReadRow /\ RowIsCommitted(read)
             /\ gen[read.code][read.period] \in seen[read.code][read.period] \ {EmptyMix}
             /\ read.period >= floor[q][read.code]
<1> DEFINE read == found[q][1]
<1>1. found[q] \in Seq(ReadRow) /\ Len(found[q]) = 1
  BY DEF NowTypes
<1>2. 1 \in DOMAIN found[q] /\ read \in ReadRow
  BY <1>1, OnlyItem
<1>3. RowIsCommitted(read) /\ read.period >= floor[q][read.code]
  BY <1>2 DEF ReadInv, FoundIsCommitted, ReadIsNoOlder
<1> HIDE DEF read
<1>4. read.code \in Region /\ read.period \in Hours(read.code)
  BY <1>2, <1>3 DEF ReadRow, RowIsCommitted
<1>5. gen[read.code][read.period] \in seen[read.code][read.period] \ {EmptyMix}
  BY <1>4, RowHasGeneration DEF ReadInv
<1> QED BY <1>2, <1>3, <1>5 DEF read

LEMMA NextNowIsCommitted ==
  ASSUME IInv, NowTypes, ReadInv, NowIsCommitted, [NowNext]_allVars
  PROVE  NowIsCommitted'
<1> SUFFICES ASSUME NEW q \in Reader, reply'[q] # NoReply, reply'[q].kind = "now"
             PROVE  /\ reply'[q].read \in ReadRow
                    /\ reply'[q].mix \in
                         seen'[reply'[q].read.code][reply'[q].read.period] \ {EmptyMix}
  BY DEF NowIsCommitted, IsReply
<1>1. CASE reply'[q] = reply[q]
  <2>1. [Next]_vars
    BY NowSteps DEF vars
  <2>2. /\ reply[q].read \in ReadRow
        /\ reply[q].mix \in seen[reply[q].read.code][reply[q].read.period] \ {EmptyMix}
    BY <1>1 DEF NowIsCommitted, IsReply
  <2>3. reply[q].read.code \in Region /\ reply[q].read.period \in Period
    BY <2>2 DEF ReadRow
  <2> QED BY <1>1, <2>1, <2>2, <2>3, SeenGrows DEF IInv
<1>2. CASE /\ UNCHANGED vars /\ ReadMix(q)
           /\ reply'[q] = NowAnswer(q, gen[found[q][1].code][found[q][1].period])
  <2>1. rpc[q] = "mix" /\ seen' = seen
    BY <1>2 DEF ReadMix, vars, tableVars
  <2>2. /\ reply'[q].read = found[q][1]
        /\ reply'[q].mix = gen[found[q][1].code][found[q][1].period]
    BY <1>2 DEF NowAnswer
  <2> QED BY <2>1, <2>2, MixReadIsCommitted
<1>3. reply'[q] # NoDataAnswer(q) /\ reply'[q] # CompareAnswer(q)
  BY DEF NoDataAnswer, CompareAnswer
<1> QED BY <1>1, <1>2, <1>3, ReplySteps

(* Whatever the pipeline does between its statements, a request to /now or *)
(* /compare is answered from committed versions of the hours it names, and *)
(* /now never with an hour that has no generation.                         *)
THEOREM AnswersStayCommitted == NowSpec => []AnswersAreCommitted
<1>1. NowInit => NowIsCommitted
  BY DEF NowInit, NowIsCommitted, IsReply
<1>2. IInv /\ NowTypes /\ ReadInv /\ NowIsCommitted /\ [NowNext]_allVars => NowIsCommitted'
  BY NextNowIsCommitted
<1>3. ReadInv /\ NowIsCommitted => AnswersAreCommitted
  BY DEF ReadInv, FoundIsCommitted, RowIsCommitted, NowIsCommitted, AnswersAreCommitted,
         RepliesOf, IsReply
<1> QED
  BY <1>1, <1>2, <1>3, TablesAreSound, TypesHold, ReadHolds, PTL DEF NowSpec

(* What /now names is no older than what had been named when it was asked. *)
NowIsNoOlder ==
  \A q \in Reader :
    /\ IsReply(q, "now") => reply[q].read.period >= floor[q][reply[q].read.code]
    /\ IsReply(q, "503") => floor[q][reply[q].code] = 0

LEMMA NextNowIsNoOlder ==
  ASSUME IInv, NowTypes, ReadInv, NowIsNoOlder, [NowNext]_allVars
  PROVE  NowIsNoOlder'
<1> SUFFICES ASSUME NEW q \in Reader, reply'[q] # NoReply
             PROVE  /\ reply'[q].kind = "now" =>
                         reply'[q].read.period >= floor'[q][reply'[q].read.code]
                    /\ reply'[q].kind = "503" => floor'[q][reply'[q].code] = 0
  BY DEF NowIsNoOlder, IsReply
<1>1. CASE reply'[q] = reply[q] /\ floor'[q] = floor[q]
  BY <1>1 DEF NowIsNoOlder, IsReply
<1>2. CASE /\ ReadMix(q) /\ floor' = floor
           /\ reply'[q] = NowAnswer(q, gen[found[q][1].code][found[q][1].period])
  <2>1. rpc[q] = "mix"
    BY <1>2 DEF ReadMix
  <2>2. reply'[q].read = found[q][1] /\ reply'[q].kind = "now"
    BY <1>2 DEF NowAnswer
  <2>3. found[q][1].period >= floor[q][found[q][1].code]
    BY <2>1, MixReadIsCommitted
  <2> QED BY <1>2, <2>2, <2>3
<1>3. CASE /\ ReadLatest(q) /\ ~Available(codes[q][1]) /\ floor' = floor
           /\ reply'[q] = NoDataAnswer(q)
  <2> DEFINE c == codes[q][1]
  <2>1. c \in Region /\ Hours(c) = {}
    BY <1>3 DEF ReadLatest, Available, NowTypes
  <2>2. floor[q][c] = 0
    BY <2>1 DEF ReadInv, ShownIsThere
  <2> QED BY <1>3, <2>2 DEF NoDataAnswer
<1>4. CASE reply'[q] = CompareAnswer(q)
  BY <1>4 DEF CompareAnswer
<1> QED BY <1>1, <1>2, <1>3, <1>4, ReplySteps

(* However requests and runs interleave, once a request to /now has been   *)
(* answered with an hour, none that begins later gets an older one or 503. *)
THEOREM NowStaysCurrent == NowSpec => []NowNeverGoesBack
<1>1. NowInit => NowIsNoOlder
  BY DEF NowInit, NowIsNoOlder, IsReply
<1>2. IInv /\ NowTypes /\ ReadInv /\ NowIsNoOlder /\ [NowNext]_allVars => NowIsNoOlder'
  BY NextNowIsNoOlder
<1>3. NowIsNoOlder => NowNeverGoesBack
  BY DEF NowIsNoOlder, NowNeverGoesBack, RepliesOf, IsReply
<1> QED
  BY <1>1, <1>2, <1>3, TablesAreSound, TypesHold, ReadHolds, PTL DEF NowSpec

-----------------------------------------------------------------------------
(* The shares of /now                                                      *)

LEMMA Distribute ==
  ASSUME NEW k \in Int, NEW a \in Int, NEW b \in Int
  PROVE  k * (a + b) = k * a + k * b /\ k * a \in Int /\ k * b \in Int
OBVIOUS

LEMMA CancelFactor ==
  ASSUME NEW k \in Nat \ {0}, NEW z \in Int, k * z <= 0
  PROVE  z <= 0
<1> SUFFICES ASSUME 1 <= z PROVE FALSE
  OBVIOUS
<1>1. k * 1 <= k * z
  BY ProductsGrow
<1> QED BY <1>1

(* Each share is off by half a unit at most, so n of them together are off *)
(* by n halves: stated for the shares of any of the fuels, times total.    *)
LEMMA SharesOfFuels ==
  ASSUME NEW mix \in Mixes, NEW total \in Nat \ {0}, NEW S \in SUBSET Generating(mix)
  PROVE  LET sum == SumFunctionOnSet(FuelMix(mix, total), S)
             n == Cardinality(S)
         IN  /\ sum \in Int /\ n \in Nat /\ MwhOf(mix, S) \in Nat
             /\ 2 * (total * sum) <= 2 * (ShareScale * MwhOf(mix, S)) + total * n
             /\ 2 * (ShareScale * MwhOf(mix, S)) <= 2 * (total * sum) + total * n
<1> DEFINE v == FuelMix(mix, total)
           Sum(T) == SumFunctionOnSet(v, T)
           Mwh(T) == MwhOf(mix, T)
           Within(s, m, n) == /\ 2 * (total * s) <= 2 * (ShareScale * m) + total * n
                              /\ 2 * (ShareScale * m) <= 2 * (total * s) + total * n
           Good == {T \in SUBSET Generating(mix) :
                      /\ Sum(T) \in Int /\ Cardinality(T) \in Nat /\ Mwh(T) \in Nat
                      /\ Within(Sum(T), Mwh(T), Cardinality(T))}
<1>1. ShareScale \in Nat
  BY ScalesArePositive DEF ScalesArePositive
<1>2. ASSUME NEW f \in Generating(mix)
      PROVE  mix[f] \in Nat /\ v[f] \in Int /\ Within(v[f], mix[f], 1)
  <2>1. mix[f] \in Nat /\ v[f] = RoundDiv(ShareScale * mix[f], total)
    BY MwhOfGenerating DEF FuelMix
  <2> DEFINE a == ShareScale * mix[f]
  <2>2. a \in Int
    BY <1>1, <2>1, ProductsGrow
  <2>3. /\ RoundDiv(a, total) \in Int
        /\ 2 * (total * RoundDiv(a, total)) <= 2 * a + total
        /\ 2 * a < 2 * (total * RoundDiv(a, total)) + total
    <3> HIDE DEF a
    <3> QED BY <2>2, RoundBounds
  <2>4. v[f] = RoundDiv(a, total)
    BY <2>1
  <2> HIDE DEF v
  <2> DEFINE p == total * v[f]
  <2>5. p \in Int /\ total * 1 = total
    BY <2>3, <2>4, Distribute
  <2>6. 2 * p <= 2 * a + total * 1 /\ 2 * a <= 2 * p + total * 1
    <3>1. 2 * p <= 2 * a + total /\ 2 * a < 2 * p + total
      BY <2>3, <2>4
    <3> HIDE DEF p, a
    <3> QED BY <2>2, <2>5, <3>1
  <2> QED BY <2>1, <2>3, <2>4, <2>6
<1>3. ASSUME NEW s \in Int, NEW m \in Nat, NEW n \in Nat, Within(s, m, n),
             NEW t \in Int, NEW k \in Nat, Within(t, k, 1)
      PROVE  Within(t + s, k + m, n + 1)
  <2>1. /\ total * (t + s) = total * t + total * s
        /\ ShareScale * (k + m) = ShareScale * k + ShareScale * m
        /\ total * (n + 1) = total * n + total * 1
        /\ total * t \in Int /\ total * s \in Int /\ total * n \in Int /\ total * 1 \in Int
        /\ ShareScale * k \in Int /\ ShareScale * m \in Int
    BY <1>1, <1>3, Distribute
  <2> DEFINE ts == total * s
             tt == total * t
             tn == total * n
             t1 == total * 1
             sk == ShareScale * k
             sm == ShareScale * m
  <2>2. /\ 2 * ts <= 2 * sm + tn /\ 2 * sm <= 2 * ts + tn
        /\ 2 * tt <= 2 * sk + t1 /\ 2 * sk <= 2 * tt + t1
    BY <1>3
  <2>3. ts \in Int /\ tt \in Int /\ tn \in Int /\ t1 \in Int /\ sk \in Int /\ sm \in Int
    BY <2>1
  <2>4. /\ 2 * (tt + ts) <= 2 * (sk + sm) + (tn + t1)
        /\ 2 * (sk + sm) <= 2 * (tt + ts) + (tn + t1)
    <3> HIDE DEF ts, tt, tn, t1, sk, sm
    <3> QED BY <2>2, <2>3
  <2> QED BY <2>1, <2>4
<1>4. ASSUME NEW T \in SUBSET Generating(mix), \A U \in SUBSET T : U # T => U \in Good
      PROVE  T \in Good
  <2>1. IsFiniteSet(T) /\ \A f \in T : v[f] \in Int /\ mix[f] \in Int
    BY <1>2, MwhOfGenerating
  <2>2. CASE T = {}
    <3>1. Sum(T) = 0 /\ Mwh(T) = 0 /\ Cardinality(T) = 0
      BY <2>2, FS_EmptySet, SumStep DEF MwhOf
    <3>2. Within(0, 0, 0)
      BY <1>1
    <3> QED BY <3>1, <3>2
  <2>3. CASE T # {}
    <3>1. PICK f \in T : TRUE
      BY <2>3
    <3> DEFINE U == T \ {f}
    <3>2. U \in Good
      BY <1>4, <3>1
    <3>3. Sum(T) = v[f] + Sum(U) /\ Mwh(T) = mix[f] + Mwh(U)
      BY <2>1, <3>1, SumTake DEF MwhOf
    <3>4. Cardinality(T) = Cardinality(U) + 1
      <4>1. Cardinality(U) = Cardinality(T) - 1 /\ Cardinality(T) \in Nat
        BY <2>1, <3>1, FS_RemoveElement, FS_CardinalityType
      <4> QED BY <4>1
    <3>5. mix[f] \in Nat /\ v[f] \in Int /\ Within(v[f], mix[f], 1)
      BY <1>2, <3>1
    <3>6. /\ Sum(U) \in Int /\ Cardinality(U) \in Nat /\ Mwh(U) \in Nat
          /\ Within(Sum(U), Mwh(U), Cardinality(U))
      BY <3>2
    <3> HIDE DEF Sum, Mwh, Within, v, U
    <3>7. Within(v[f] + Sum(U), mix[f] + Mwh(U), Cardinality(U) + 1)
      BY <1>3, <3>5, <3>6
    <3>8. v[f] + Sum(U) \in Int /\ mix[f] + Mwh(U) \in Nat /\ Cardinality(U) + 1 \in Nat
      BY <3>5, <3>6
    <3> QED BY <3>3, <3>4, <3>7, <3>8
  <2> QED BY <2>2, <2>3
<1>5. S \in Good
  <2>1. IsFiniteSet(Generating(mix))
    BY MwhOfGenerating
  <2> HIDE DEF Good
  <2> QED BY <1>4, <2>1, SubsetInduction
<1> QED BY <1>5

LEMMA SharesOfHour ==
  ASSUME NEW mix \in Mixes, NEW total \in Nat \ {0}, total = MwhOf(mix, Generating(mix))
  PROVE  AddUp(FuelMix(mix, total))
<1> DEFINE sum == SumFunctionOnSet(FuelMix(mix, total), Generating(mix))
           n == Cardinality(Generating(mix))
<1>1. /\ sum \in Int /\ n \in Nat
      /\ 2 * (total * sum) <= 2 * (ShareScale * total) + total * n
      /\ 2 * (ShareScale * total) <= 2 * (total * sum) + total * n
  BY SharesOfFuels
<1>2. DOMAIN FuelMix(mix, total) = Generating(mix)
  BY DEF FuelMix
<1>3. ShareScale \in Nat /\ ShareScale * total = total * ShareScale
  <2>1. ShareScale \in Nat
    BY ScalesArePositive DEF ScalesArePositive
  <2> QED BY <2>1
<1> HIDE DEF sum, n
<1>4. /\ total * (2 * sum - 2 * ShareScale - n) <= 0
      /\ total * (2 * ShareScale - 2 * sum - n) <= 0
  <2> DEFINE a == total * sum
             b == total * ShareScale
             c == total * n
  <2>1. /\ total * (2 * sum - 2 * ShareScale - n) = 2 * a - 2 * b - c
        /\ total * (2 * ShareScale - 2 * sum - n) = 2 * b - 2 * a - c
        /\ a \in Int /\ b \in Int /\ c \in Int
    BY <1>1, <1>3
  <2>2. 2 * a <= 2 * b + c /\ 2 * b <= 2 * a + c
    BY <1>1, <1>3
  <2> HIDE DEF a, b, c
  <2> QED BY <2>1, <2>2
<1>5. 2 * sum - 2 * ShareScale - n <= 0 /\ 2 * ShareScale - 2 * sum - n <= 0
  <2> DEFINE above == 2 * sum - 2 * ShareScale - n
             below == 2 * ShareScale - 2 * sum - n
  <2>1. above \in Int /\ below \in Int
    BY <1>1, <1>3
  <2>2. total * above <= 0 /\ total * below <= 0
    BY <1>4
  <2>3. above <= 0 /\ below <= 0
    <3> HIDE DEF above, below
    <3> QED BY <2>1, <2>2, CancelFactor
  <2> QED BY <2>3
<1>6. 2 * (sum - ShareScale) \in -n..n
  BY <1>1, <1>3, <1>5
<1> QED BY <1>2, <1>6 DEF AddUp, SumFunction, sum, n

LEMMA NextSharesAddUp ==
  ASSUME IInv, NowTypes, ReadInv, SharesAddUp, [NowNext]_allVars
  PROVE  SharesAddUp'
<1> SUFFICES ASSUME NEW q \in Reader, reply'[q] # NoReply, reply'[q].kind = "now"
             PROVE  \/ AddUp(reply'[q].shares)
                    \/ reply'[q].mix # reply'[q].read.mix
                    \/ reply'[q].read.lagging
                    \/ DOMAIN reply'[q].shares = {}
  BY DEF SharesAddUp, RepliesOf, AddUp
<1>1. CASE reply'[q] = reply[q]
  BY <1>1 DEF SharesAddUp, RepliesOf
<1>2. CASE /\ ReadMix(q)
           /\ reply'[q] = NowAnswer(q, gen[found[q][1].code][found[q][1].period])
  <2>1. PICK read : read = found[q][1]
    OBVIOUS
  <2>2. PICK mix : mix = gen[read.code][read.period]
    OBVIOUS
  <2>3. /\ reply'[q].read = read /\ reply'[q].mix = mix
        /\ reply'[q].shares = FuelMix(mix, read.row.total)
    BY <1>2, <2>1, <2>2 DEF NowAnswer
  <2>4. /\ read \in ReadRow
        /\ read.lagging \/ IntensityForPeriod(read.mix) \in {read.row, NoIntensity}
    BY <1>2, <2>1, MixReadIsCommitted DEF ReadMix, RowIsCommitted
  <2>5. ASSUME mix = read.mix, ~read.lagging
        PROVE  AddUp(FuelMix(mix, read.row.total)) \/ DOMAIN FuelMix(mix, read.row.total) = {}
    <3>1. mix \in Mixes /\ read.row # NoIntensity
      BY <2>4, <2>5 DEF ReadRow
    <3>2. CASE IntensityForPeriod(mix) = NoIntensity
      BY <3>1, <3>2, HourWithoutRow DEF FuelMix
    <3>3. CASE IntensityForPeriod(mix) = read.row
      <4>1. /\ read.row.total = MwhOf(mix, Generating(mix))
            /\ read.row.total \in Nat \ {0}
        BY <3>1, <3>3, RowOfHour
      <4> QED BY <3>1, <4>1, SharesOfHour
    <3> QED BY <2>4, <2>5, <3>2, <3>3
  <2> QED BY <2>3, <2>5
<1>3. reply'[q] # NoDataAnswer(q) /\ reply'[q] # CompareAnswer(q)
  BY DEF NoDataAnswer, CompareAnswer
<1> QED BY <1>1, <1>2, <1>3, ReplySteps

(* The shares of an answer add up to 1 within half a unit per fuel, unless *)
(* the hour was committed anew between the two statements of its request,  *)
(* its intensity lagged, or it has no generation any more.                 *)
THEOREM SharesStayWhole == NowSpec => []SharesAddUp
<1>1. NowInit => SharesAddUp
  BY DEF NowInit, SharesAddUp, RepliesOf
<1>2. IInv /\ NowTypes /\ ReadInv /\ SharesAddUp /\ [NowNext]_allVars => SharesAddUp'
  BY NextSharesAddUp
<1> QED
  BY <1>1, <1>2, TablesAreSound, TypesHold, ReadHolds, PTL DEF NowSpec

-----------------------------------------------------------------------------
(* The ranking of /compare                                                 *)

LEMMA RowsHaveIntegers ==
  ASSUME NEW a \in ReadRow
  PROVE  a.row.gco2 \in Int
<1>1. PICK m \in Mixes : a.row = IntensityForPeriod(m)
  BY DEF ReadRow, Intensities
<1>2. a.row # NoIntensity
  BY DEF ReadRow
<1> QED BY <1>1, <1>2, RowOfHour

(* Of two items, one comes after the other and all that come before it.    *)
LEMMA PlacesDiffer ==
  ASSUME NEW items \in Seq(ReadRow), NEW i \in DOMAIN items, NEW j \in DOMAIN items
  PROVE  /\ Place(items, i) \in 1..Len(items)
         /\ j \in UpTo(items, i) \/ i \in UpTo(items, j)
         /\ i # j /\ j \in UpTo(items, i) => Place(items, j) < Place(items, i)
<1> DEFINE n == Len(items)
           gco2(k) == items[k].row.gco2
<1>1. n \in Nat /\ DOMAIN items = 1..n
  OBVIOUS
<1>2. \A k \in 1..n : gco2(k) \in Int
  <2>1. \A k \in 1..n : items[k] \in ReadRow
    BY <1>1
  <2> QED BY <2>1, RowsHaveIntegers
<1>3. \A k, l : l \in UpTo(items, k) <=>
                /\ l \in 1..n
                /\ gco2(l) < gco2(k) \/ (l <= k /\ ~(gco2(k) < gco2(l)))
  BY <1>1 DEF UpTo, Cleaner
<1> HIDE DEF gco2, n
<1>4. \A k \in 1..n : IsFiniteSet(UpTo(items, k)) /\ Cardinality(UpTo(items, k)) \in Nat
                     /\ Cardinality(UpTo(items, k)) <= n
  <2>1. IsFiniteSet(1..n) /\ Cardinality(1..n) = n
    BY <1>1, FS_Interval
  <2>2. \A k \in 1..n : UpTo(items, k) \in SUBSET (1..n)
    BY <1>3
  <2>3. \A k \in 1..n : IsFiniteSet(UpTo(items, k)) /\ Cardinality(UpTo(items, k)) <= n
    BY <2>1, <2>2, FS_Subset
  <2> QED BY <2>3, FS_CardinalityType
<1>5. Place(items, i) \in 1..n
  <2>1. i \in UpTo(items, i)
    BY <1>1, <1>2, <1>3
  <2>2. Cardinality(UpTo(items, i)) # 0
    BY <1>1, <1>4, <2>1, FS_EmptySet
  <2> QED BY <1>1, <1>4, <2>2 DEF Place
<1>6. j \in UpTo(items, i) \/ i \in UpTo(items, j)
  BY <1>1, <1>2, <1>3
<1>7. ASSUME i # j, j \in UpTo(items, i)
      PROVE  Place(items, j) < Place(items, i)
  <2>1. ASSUME NEW k \in UpTo(items, j)
        PROVE  k \in UpTo(items, i)
    <3>1. k \in 1..n /\ gco2(k) \in Int /\ gco2(j) \in Int /\ gco2(i) \in Int
      BY <1>1, <1>2, <1>3, <2>1
    <3> QED BY <1>1, <1>3, <1>7, <2>1, <3>1
  <2>2. i \notin UpTo(items, j)
    <3>1. gco2(j) \in Int /\ gco2(i) \in Int
      BY <1>1, <1>2
    <3> QED BY <1>1, <1>3, <1>7, <3>1
  <2>3. i \in UpTo(items, i)
    BY <1>1, <1>2, <1>3
  <2> DEFINE before == UpTo(items, j)
             all == UpTo(items, i)
  <2>4. before \in SUBSET all /\ before # all
    BY <2>1, <2>2, <2>3
  <2>5. /\ IsFiniteSet(all) /\ Cardinality(all) \in Nat
        /\ Cardinality(before) \in Nat
    BY <1>1, <1>4
  <2>6. Cardinality(before) < Cardinality(all)
    <3> HIDE DEF before, all
    <3>1. Cardinality(before) <= Cardinality(all) /\ Cardinality(before) # Cardinality(all)
      BY <2>4, <2>5, FS_Subset
    <3> QED BY <2>5, <3>1
  <2> QED BY <2>6 DEF Place
<1> QED BY <1>5, <1>6, <1>7 DEF n

(* So every place is taken, by one item.                                   *)
LEMMA PlacesAreTaken ==
  ASSUME NEW items \in Seq(ReadRow)
  PROVE  /\ \A i \in DOMAIN items : Place(items, i) \in DOMAIN items
         /\ \A i, j \in DOMAIN items : Place(items, i) = Place(items, j) => i = j
         /\ \A k \in DOMAIN items : /\ AtPlace(items, k) \in DOMAIN items
                                    /\ Place(items, AtPlace(items, k)) = k
<1> DEFINE D == DOMAIN items
           place == [i \in D |-> Place(items, i)]
<1>1. D = 1..Len(items) /\ Len(items) \in Nat
  OBVIOUS
<1>2. \A i \in D : Place(items, i) \in D
  BY <1>1, PlacesDiffer
<1>3. ASSUME NEW i \in D, NEW j \in D, Place(items, i) = Place(items, j), i # j
      PROVE  FALSE
  <2>1. Place(items, i) < Place(items, j) \/ Place(items, j) < Place(items, i)
    BY <1>3, PlacesDiffer
  <2>2. Place(items, i) \in Nat /\ Place(items, j) \in Nat
    BY <1>1, <1>2
  <2> QED BY <1>3, <2>1, <2>2
<1>4. \A k \in D : \E i \in D : Place(items, i) = k
  <2>1. place \in Injection(D, D)
    BY <1>2, <1>3 DEF Injection, IsInjective
  <2>2. IsFiniteSet(D)
    BY <1>1, FS_Interval
  <2>3. place \in Surjection(D, D)
    <3> HIDE DEF place, D
    <3> QED BY <2>1, <2>2, FS_Injection
  <2> QED BY <2>3 DEF Surjection
<1>5. \A k \in D : AtPlace(items, k) \in D /\ Place(items, AtPlace(items, k)) = k
  BY <1>4 DEF AtPlace
<1> QED BY <1>2, <1>3, <1>5

(* Ranked is a permutation ...                                             *)
LEMMA RankedIsPermutation ==
  ASSUME NEW items \in Seq(ReadRow), NEW c
  PROVE  Times(c, CodesOf(Ranked(items))) = Times(c, CodesOf(items))
<1> DEFINE D == DOMAIN items
           S == {k \in D : items[AtPlace(items, k)].code = c}
           T == {i \in D : items[i].code = c}
           at == [k \in S |-> AtPlace(items, k)]
<1>1. /\ Times(c, CodesOf(Ranked(items))) = Cardinality(S)
      /\ Times(c, CodesOf(items)) = Cardinality(T)
  <2>1. DOMAIN Ranked(items) = D /\ \A k \in D : Ranked(items)[k] = items[AtPlace(items, k)]
    BY DEF Ranked
  <2>2. {k \in DOMAIN CodesOf(Ranked(items)) : CodesOf(Ranked(items))[k] = c} = S
    BY <2>1 DEF CodesOf
  <2>3. {k \in DOMAIN CodesOf(items) : CodesOf(items)[k] = c} = T
    BY DEF CodesOf
  <2> QED BY <2>2, <2>3 DEF Times
<1>2. IsFiniteSet(S)
  <2>1. IsFiniteSet(D)
    <3>1. D = 1..Len(items) /\ Len(items) \in Nat
      OBVIOUS
    <3> QED BY <3>1, FS_Interval
  <2>2. S \in SUBSET D
    OBVIOUS
  <2> HIDE DEF S, D
  <2> QED BY <2>1, <2>2, FS_Subset
<1>3. at \in [S -> T]
  BY PlacesAreTaken
<1>4. \A k, l \in S : at[k] = at[l] => k = l
  BY PlacesAreTaken
<1>5. ASSUME NEW i \in T
      PROVE  \E k \in S : at[k] = i
  <2>1. i \in D /\ Place(items, i) \in D
    BY <1>5, PlacesAreTaken
  <2>2. AtPlace(items, Place(items, i)) = i
    BY <2>1, PlacesAreTaken
  <2> QED BY <2>1, <2>2
<1>6. at \in Bijection(S, T)
  <2> HIDE DEF at, S, T
  <2> QED BY <1>3, <1>4, <1>5 DEF Bijection, Injection, Surjection, IsInjective
<1>7. Cardinality(S) = Cardinality(T)
  <2> HIDE DEF at, S, T
  <2>1. ExistsBijection(S, T)
    BY <1>6 DEF ExistsBijection
  <2> QED BY <1>2, <2>1, FS_Bijection
<1> QED BY <1>1, <1>7

(* ... in the order of gco2.                                               *)
LEMMA RankedIsOrdered ==
  ASSUME NEW items \in Seq(ReadRow)
  PROVE  \A i, j \in DOMAIN Ranked(items) :
           i < j => Ranked(items)[i].row.gco2 <= Ranked(items)[j].row.gco2
<1> SUFFICES ASSUME NEW i \in DOMAIN items, NEW j \in DOMAIN items, i < j
             PROVE  items[AtPlace(items, i)].row.gco2 <= items[AtPlace(items, j)].row.gco2
  BY DEF Ranked
<1>1. PICK a \in DOMAIN items : a = AtPlace(items, i)
  BY PlacesAreTaken
<1>2. PICK b \in DOMAIN items : b = AtPlace(items, j)
  BY PlacesAreTaken
<1>3. Place(items, a) = i /\ Place(items, b) = j /\ a # b
  <2>1. i # j
    OBVIOUS
  <2> QED BY <1>1, <1>2, <2>1, PlacesAreTaken
<1>4. b \notin UpTo(items, a)
  <2>1. b \in UpTo(items, a) => j < i
    BY <1>3, PlacesDiffer
  <2> QED BY <2>1
<1>5. items[a].row.gco2 \in Int /\ items[b].row.gco2 \in Int
  BY RowsHaveIntegers
<1>6. items[a].row.gco2 <= items[b].row.gco2
  BY <1>4, <1>5 DEF UpTo, Cleaner
<1> QED BY <1>1, <1>2, <1>6

-----------------------------------------------------------------------------
(* /compare accounts for every code                                        *)

LEMMA TimesIsNatural ==
  ASSUME NEW n \in Nat, NEW s, DOMAIN s = 1..n, NEW c
  PROVE  Times(c, s) \in Nat
<1> DEFINE S == {i \in DOMAIN s : s[i] = c}
<1>1. IsFiniteSet(1..n) /\ S \in SUBSET (1..n)
  BY FS_Interval
<1>2. Cardinality(S) \in Nat
  <2> HIDE DEF S
  <2> QED BY <1>1, FS_Subset, FS_CardinalityType
<1> QED BY <1>2 DEF Times

LEMMA TimesGrows ==
  ASSUME NEW n \in Nat, NEW s, NEW t, DOMAIN s = 1..n, DOMAIN t = 1..(n + 1),
         \A i \in 1..n : t[i] = s[i], NEW c
  PROVE  /\ Times(c, s) \in Nat
         /\ Times(c, t) = Times(c, s) + (IF t[n + 1] = c THEN 1 ELSE 0)
<1> DEFINE S == {i \in DOMAIN s : s[i] = c}
           T == {i \in DOMAIN t : t[i] = c}
<1>1. IsFiniteSet(S) /\ Cardinality(S) \in Nat
  <2>1. IsFiniteSet(1..n) /\ S \in SUBSET (1..n)
    BY FS_Interval
  <2> HIDE DEF S
  <2> QED BY <2>1, FS_Subset, FS_CardinalityType
<1>2. n + 1 \notin S
  OBVIOUS
<1>3. ASSUME t[n + 1] = c PROVE Cardinality(T) = Cardinality(S) + 1
  <2>1. T = S \cup {n + 1}
    BY <1>3
  <2>2. Cardinality(T) = Cardinality(S) + 1
    <3> HIDE DEF S, T
    <3> QED BY <1>1, <1>2, <2>1, FS_AddElement
  <2> QED BY <2>2
<1>4. ASSUME t[n + 1] # c PROVE Cardinality(T) = Cardinality(S)
  <2>1. T = S
    BY <1>4
  <2> QED BY <1>1, <1>4, <2>1
<1>5. Times(c, s) = Cardinality(S) /\ Times(c, t) = Cardinality(T)
  BY DEF Times
<1> HIDE DEF S, T
<1> QED BY <1>1, <1>3, <1>4, <1>5

(* So far, each code has led to an item or is missing, and what is missing *)
(* had no data when the request began.                                     *)
Accounted ==
  \A q \in Reader : rpc[q] = "compare" =>
    /\ Compared(q) <= Len(codes[q])
    /\ \A c \in Code : Times(c, SubSeq(codes[q], 1, Compared(q))) =
                          Times(c, CodesOf(found[q])) + Times(c, missing[q])
    /\ \A i \in DOMAIN missing[q] : missing[q][i] \notin served[q]

LEMMA TimesOfNothing ==
  ASSUME NEW s, DOMAIN s = {}, NEW c
  PROVE  Times(c, s) = 0
<1>1. {i \in DOMAIN s : s[i] = c} = {}
  OBVIOUS
<1> QED BY <1>1, FS_EmptySet DEF Times

LEMMA AskAccounts ==
  ASSUME NowTypes, NEW q \in Reader, NEW cs \in Seq(Code),
         codes'[q] = cs, found'[q] = <<>>, missing'[q] = <<>>
  PROVE  /\ Compared(q)' = 0
         /\ \A c \in Code : Times(c, SubSeq(codes'[q], 1, 0)) =
                               Times(c, CodesOf(found'[q])) + Times(c, missing'[q])
<1>1. Compared(q)' = 0
  BY DEF Compared
<1>2. DOMAIN SubSeq(cs, 1, 0) = {} /\ DOMAIN CodesOf(<<>>) = {} /\ DOMAIN <<>> = {}
  BY DEF CodesOf
<1>3. \A c : /\ Times(c, SubSeq(cs, 1, 0)) = 0 /\ Times(c, CodesOf(<<>>)) = 0
             /\ Times(c, <<>>) = 0
  BY <1>2, TimesOfNothing
<1> QED BY <1>1, <1>3

LEMMA ComparedAddsUp ==
  ASSUME NowTypes, NEW q \in Reader,
         \/ Len(found'[q]) = Len(found[q]) + 1 /\ Len(missing'[q]) = Len(missing[q])
         \/ Len(missing'[q]) = Len(missing[q]) + 1 /\ Len(found'[q]) = Len(found[q])
  PROVE  Compared(q)' = Compared(q) + 1
<1> DEFINE f == Len(found[q])
           m == Len(missing[q])
           f1 == Len(found'[q])
           m1 == Len(missing'[q])
<1>1. f \in Nat /\ m \in Nat
  BY DEF NowTypes
<1>2. Compared(q) = f + m /\ Compared(q)' = f1 + m1
  BY DEF Compared
<1>3. (f1 = f + 1 /\ m1 = m) \/ (m1 = m + 1 /\ f1 = f)
  OBVIOUS
<1> HIDE DEF f, m, f1, m1
<1> QED BY <1>1, <1>2, <1>3

LEMMA CompareCodeAccounts ==
  ASSUME IInv, NowTypes, ReadInv, Accounted, NEW q \in Reader, CompareCode(q)
  PROVE  /\ Compared(q)' <= Len(codes[q])
         /\ \A c \in Code : Times(c, SubSeq(codes[q], 1, Compared(q)')) =
                               Times(c, CodesOf(found'[q])) + Times(c, missing'[q])
         /\ \A i \in DOMAIN missing'[q] : missing'[q][i] \notin served[q]
<1> DEFINE n == Compared(q)
           cs == codes[q]
           d == cs[n + 1]
           a == IF StillLoaded(q, d) THEN Last(found[q]) ELSE LatestIntensity(d)
<1>1. /\ cs \in Seq(Code) /\ found[q] \in Seq(ReadRow) /\ missing[q] \in Seq(Code)
      /\ n \in Nat /\ n + 1 <= Len(cs) /\ Len(cs) \in Nat
      /\ Len(found[q]) \in Nat /\ Len(missing[q]) \in Nat
  <2>1. n \in 0..(Len(cs) - 1)
    BY CompareCodeTypes
  <2>2. cs \in Seq(Code) /\ found[q] \in Seq(ReadRow) /\ missing[q] \in Seq(Code)
    BY DEF NowTypes
  <2>3. Len(cs) \in Nat /\ Len(found[q]) \in Nat /\ Len(missing[q]) \in Nat
    BY <2>2
  <2> HIDE DEF n, cs
  <2> QED BY <2>1, <2>2, <2>3
<1>2. rpc[q] = "compare"
  BY DEF CompareCode
<1>3. /\ \A c \in Code : Times(c, SubSeq(cs, 1, n)) =
                            Times(c, CodesOf(found[q])) + Times(c, missing[q])
      /\ \A i \in DOMAIN missing[q] : missing[q][i] \notin served[q]
  BY <1>2 DEF Accounted
<1>4. \A c : /\ Times(c, SubSeq(cs, 1, n)) \in Nat
             /\ Times(c, SubSeq(cs, 1, n + 1)) =
                  Times(c, SubSeq(cs, 1, n)) + (IF d = c THEN 1 ELSE 0)
  <2> DEFINE s == SubSeq(cs, 1, n)
             t == SubSeq(cs, 1, n + 1)
  <2>1. /\ DOMAIN s = 1..n /\ DOMAIN t = 1..(n + 1)
        /\ \A i \in 1..n : t[i] = s[i]
        /\ t[n + 1] = d
    <3> HIDE DEF n, cs
    <3> QED BY <1>1
  <2>2. n \in Nat
    BY <1>1
  <2> HIDE DEF s, t, n, d
  <2>3. \A c : Times(c, s) \in Nat /\ Times(c, t) = Times(c, s) + (IF d = c THEN 1 ELSE 0)
    BY <2>1, <2>2, TimesGrows
  <2> QED BY <2>3 DEF s, t
<1>5. \A c : Times(c, CodesOf(found[q])) \in Nat /\ Times(c, missing[q]) \in Nat
  <2>1. DOMAIN CodesOf(found[q]) = 1..Len(found[q]) /\ DOMAIN missing[q] = 1..Len(missing[q])
    BY <1>1 DEF CodesOf
  <2> QED BY <1>1, <2>1, TimesIsNatural
<1> DEFINE Adds ==
      \A c : Times(c, CodesOf(found'[q])) + Times(c, missing'[q]) =
               Times(c, CodesOf(found[q])) + Times(c, missing[q]) + (IF d = c THEN 1 ELSE 0)
           Counts ==
      /\ Compared(q)' = n + 1 /\ Adds
      /\ \A i \in DOMAIN missing'[q] : missing'[q][i] \notin served[q]
<1>6. \A c : (IF d = c THEN 1 ELSE 0) \in Nat
  OBVIOUS
<1> HIDE DEF Adds
<1>7. ASSUME Available(d) PROVE Counts
  <2>1. /\ found' = [found EXCEPT ![q] = Append(found[q], a)] /\ missing' = missing
    BY <1>7 DEF CompareCode
  <2>2. found'[q] = Append(found[q], a) /\ missing'[q] = missing[q]
    BY <2>1 DEF NowTypes
  <2>3. a.code = d
    <3>1. LatestIntensity(d).code = d
      BY DEF LatestIntensity
    <3>2. ASSUME StillLoaded(q, d) PROVE Last(found[q]).code = d
      BY <3>2 DEF StillLoaded
    <3> QED BY <3>1, <3>2
  <2> HIDE DEF a, d
  <2>4. \A c : Times(c, CodesOf(found'[q])) =
                 Times(c, CodesOf(found[q])) + (IF d = c THEN 1 ELSE 0)
    <3> DEFINE k == Len(found[q])
               s == CodesOf(found[q])
               t == CodesOf(found'[q])
    <3>1. /\ k \in Nat /\ DOMAIN s = 1..k /\ DOMAIN t = 1..(k + 1)
          /\ \A i \in 1..k : t[i] = s[i]
          /\ t[k + 1] = d
      BY <1>1, <2>2, <2>3 DEF CodesOf
    <3> HIDE DEF k, s, t
    <3>2. \A c : Times(c, t) = Times(c, s) + (IF d = c THEN 1 ELSE 0)
      BY <3>1, TimesGrows
    <3> QED BY <3>2 DEF s, t
  <2>5. Compared(q)' = n + 1
    <3>1. Len(found'[q]) = Len(found[q]) + 1 /\ Len(missing'[q]) = Len(missing[q])
      BY <1>1, <2>2
    <3> QED BY <3>1, ComparedAddsUp
  <2>6. Adds
    BY <1>5, <1>6, <2>2, <2>4 DEF Adds
  <2> QED BY <1>3, <2>2, <2>5, <2>6
<1>8. ASSUME ~Available(d) PROVE Counts
  <2>1. missing' = [missing EXCEPT ![q] = Append(missing[q], d)] /\ found' = found
    BY <1>8 DEF CompareCode
  <2>2. found'[q] = found[q] /\ missing'[q] = Append(missing[q], d)
    BY <2>1 DEF NowTypes
  <2>3. d \in Code
    BY CompareCodeTypes
  <2>4. d \notin served[q]
    <3>1. served[q] \subseteq Region /\ \A c \in served[q] : Hours(c) # {}
      BY DEF NowTypes, ReadInv, ShownIsThere
    <3> QED BY <1>8, <3>1 DEF Available
  <2> HIDE DEF d
  <2>5. \A c : Times(c, missing'[q]) = Times(c, missing[q]) + (IF d = c THEN 1 ELSE 0)
    <3> DEFINE k == Len(missing[q])
               s == missing[q]
               t == missing'[q]
    <3>1. /\ k \in Nat /\ DOMAIN s = 1..k /\ DOMAIN t = 1..(k + 1)
          /\ \A i \in 1..k : t[i] = s[i]
          /\ t[k + 1] = d
      BY <1>1, <2>2
    <3> HIDE DEF k, s, t
    <3>2. \A c : Times(c, t) = Times(c, s) + (IF d = c THEN 1 ELSE 0)
      BY <3>1, TimesGrows
    <3> QED BY <3>2 DEF s, t
  <2>6. Compared(q)' = n + 1
    <3>1. Len(missing'[q]) = Len(missing[q]) + 1 /\ Len(found'[q]) = Len(found[q])
      BY <1>1, <2>2
    <3> QED BY <3>1, ComparedAddsUp
  <2>7. \A i \in DOMAIN missing'[q] : missing'[q][i] \notin served[q]
    <3>1. \A s \in Seq(Code) : \A i \in DOMAIN Append(s, d) :
            (i \in DOMAIN s /\ Append(s, d)[i] = s[i]) \/ Append(s, d)[i] = d
      OBVIOUS
    <3> QED BY <1>1, <1>3, <2>2, <2>4, <3>1
  <2>8. Adds
    BY <1>5, <1>6, <2>2, <2>5 DEF Adds
  <2> QED BY <2>6, <2>7, <2>8
<1> HIDE DEF d
<1>9. Counts
  BY <1>7, <1>8
<1>10. \A c \in Code : Times(c, SubSeq(cs, 1, n + 1)) =
                         Times(c, CodesOf(found'[q])) + Times(c, missing'[q])
  BY <1>3, <1>4, <1>9 DEF Adds
<1> HIDE DEF n
<1> QED BY <1>1, <1>9, <1>10

LEMMA CompareSteps ==
  ASSUME NowTypes, [NowNext]_allVars, NEW q \in Reader, rpc'[q] = "compare"
  PROVE  \/ \E cs \in Seq(Code) : /\ codes'[q] = cs /\ found'[q] = <<>> /\ missing'[q] = <<>>
         \/ CompareCode(q) /\ codes' = codes /\ served' = served
         \/ /\ rpc[q] = "compare" /\ codes'[q] = codes[q] /\ found'[q] = found[q]
            /\ missing'[q] = missing[q] /\ served'[q] = served[q]
<1> DEFINE Same == /\ rpc[q] = "compare" /\ codes'[q] = codes[q] /\ found'[q] = found[q]
                   /\ missing'[q] = missing[q] /\ served'[q] = served[q]
           Asked == \E cs \in Seq(Code) :
                      /\ codes'[q] = cs /\ found'[q] = <<>> /\ missing'[q] = <<>>
<1> USE DEF NowTypes
<1>1. ASSUME UNCHANGED readerVars PROVE Same
  BY <1>1 DEF readerVars
<1>2. ASSUME NEW r \in Reader, NEW next, NEW cs \in Seq(Code), Ask(r, next, cs)
      PROVE  Same \/ Asked
  BY <1>2 DEF Ask
<1>3. ASSUME NEW r \in Reader, NEW answer, Replies(r, answer)
      PROVE  Same
  BY <1>3 DEF Replies
<1>4. ASSUME NEW r \in Reader, ReadLatest(r)
      PROVE  Same
  BY <1>3, <1>4 DEF ReadLatest
<1>5. ASSUME NEW r \in Reader, CompareCode(r)
      PROVE  Same \/ (CompareCode(q) /\ codes' = codes /\ served' = served)
  BY <1>5 DEF CompareCode
<1>6. ASSUME NEW c \in Region
      PROVE  <<c>> \in Seq(Code)
  BY RegionsAreCodes DEF RegionsAreCodes
<1> HIDE DEF Same, Asked
<1>7. Same \/ Asked \/ (CompareCode(q) /\ codes' = codes /\ served' = served)
  <2>1. CASE UNCHANGED readerVars
    BY <1>1, <2>1 DEF Same
  <2>2. ASSUME NEW r \in Reader, ReadMix(r) \/ CompareRanks(r)
        PROVE  Same
    BY <1>3, <2>2 DEF ReadMix, CompareRanks
  <2>3. ASSUME NEW r \in Reader, NEW c \in Region, Ask(r, "latest", <<c>>)
        PROVE  Same \/ Asked
    BY <1>2, <1>6, <2>3
  <2>4. ASSUME NEW r \in Reader, NEW cs \in Seq(Code), Ask(r, "compare", cs)
        PROVE  Same \/ Asked
    BY <1>2, <2>4
  <2> QED BY <1>4, <1>5, <2>1, <2>2, <2>3, <2>4, NowSteps
<1> QED BY <1>7 DEF Same, Asked

LEMMA NextAccounted ==
  ASSUME IInv, NowTypes, ReadInv, Accounted, [NowNext]_allVars
  PROVE  Accounted'
<1> SUFFICES ASSUME NEW q \in Reader, rpc'[q] = "compare"
             PROVE  /\ Compared(q)' <= Len(codes'[q])
                    /\ \A c \in Code : Times(c, SubSeq(codes'[q], 1, Compared(q)')) =
                                          Times(c, CodesOf(found'[q])) + Times(c, missing'[q])
                    /\ \A i \in DOMAIN missing'[q] : missing'[q][i] \notin served'[q]
  BY DEF Accounted
<1>1. ASSUME NEW cs \in Seq(Code), codes'[q] = cs, found'[q] = <<>>, missing'[q] = <<>>
      PROVE  /\ Compared(q)' <= Len(codes'[q])
             /\ \A c \in Code : Times(c, SubSeq(codes'[q], 1, Compared(q)')) =
                                   Times(c, CodesOf(found'[q])) + Times(c, missing'[q])
             /\ \A i \in DOMAIN missing'[q] : missing'[q][i] \notin served'[q]
  <2>1. /\ Compared(q)' = 0
        /\ \A c \in Code : Times(c, SubSeq(codes'[q], 1, 0)) =
                              Times(c, CodesOf(found'[q])) + Times(c, missing'[q])
    BY <1>1, AskAccounts
  <2>2. Len(codes'[q]) \in Nat /\ DOMAIN missing'[q] = {}
    BY <1>1
  <2> QED BY <2>1, <2>2
<1>2. CASE CompareCode(q) /\ codes' = codes /\ served' = served
  BY <1>2, CompareCodeAccounts
<1>3. CASE /\ rpc[q] = "compare" /\ codes'[q] = codes[q] /\ found'[q] = found[q]
           /\ missing'[q] = missing[q] /\ served'[q] = served[q]
  <2>1. Compared(q)' = Compared(q)
    BY <1>3 DEF Compared
  <2> QED BY <1>3, <2>1 DEF Accounted
<1> QED BY <1>1, <1>2, <1>3, CompareSteps

LEMMA NextComparisonIsFair ==
  ASSUME IInv, NowTypes, ReadInv, Accounted, ComparisonIsFair, [NowNext]_allVars
  PROVE  ComparisonIsFair'
<1> DEFINE Fair(q) ==
      LET items == reply'[q].items
          unavailable == reply'[q].unavailable
      IN  /\ \A c \in Code :
               Times(c, codes'[q]) = Times(c, CodesOf(items)) + Times(c, unavailable)
          /\ \A i \in DOMAIN unavailable : unavailable[i] \notin served'[q]
          /\ \A i, j \in DOMAIN items : i < j => items[i].row.gco2 <= items[j].row.gco2
<1> SUFFICES ASSUME NEW q \in Reader, reply'[q] # NoReply, reply'[q].kind = "compare"
             PROVE  Fair(q)
  BY DEF ComparisonIsFair, RepliesOf, Times, CodesOf
<1>1. CASE reply'[q] = reply[q] /\ codes'[q] = codes[q] /\ served'[q] = served[q]
  <2>1. reply[q] \in RepliesOf("compare")
    BY <1>1 DEF RepliesOf
  <2>2. LET items == reply[q].items
            unavailable == reply[q].unavailable
        IN  /\ \A c \in Code :
                 Times(c, codes[q]) = Times(c, CodesOf(items)) + Times(c, unavailable)
            /\ \A i \in DOMAIN unavailable : unavailable[i] \notin served[q]
            /\ \A i, j \in DOMAIN items : i < j => items[i].row.gco2 <= items[j].row.gco2
    BY <2>1 DEF ComparisonIsFair
  <2> QED BY <1>1, <2>2
<1>2. CASE /\ CompareRanks(q) /\ codes' = codes /\ served' = served
           /\ reply'[q] = CompareAnswer(q)
  <2>1. reply'[q].items = Ranked(found[q]) /\ reply'[q].unavailable = missing[q]
    BY <1>2 DEF CompareAnswer
  <2>2. rpc[q] = "compare" /\ Compared(q) = Len(codes[q])
    BY <1>2 DEF CompareRanks
  <2>3. found[q] \in Seq(ReadRow) /\ codes[q] \in Seq(Code)
    BY DEF NowTypes
  <2>4. SubSeq(codes[q], 1, Compared(q)) = codes[q]
    BY <2>2, <2>3
  <2>5. /\ \A c \in Code : Times(c, codes[q]) =
                             Times(c, CodesOf(found[q])) + Times(c, missing[q])
        /\ \A i \in DOMAIN missing[q] : missing[q][i] \notin served[q]
    BY <2>2, <2>4 DEF Accounted
  <2>6. \A c : Times(c, CodesOf(Ranked(found[q]))) = Times(c, CodesOf(found[q]))
    BY <2>3, RankedIsPermutation
  <2>7. \A i, j \in DOMAIN Ranked(found[q]) :
          i < j => Ranked(found[q])[i].row.gco2 <= Ranked(found[q])[j].row.gco2
    BY <2>3, RankedIsOrdered
  <2> QED BY <1>2, <2>1, <2>5, <2>6, <2>7
<1>3. /\ reply'[q] # NoDataAnswer(q)
      /\ reply'[q] # NowAnswer(q, gen[found[q][1].code][found[q][1].period])
  BY DEF NoDataAnswer, NowAnswer
<1> HIDE DEF Fair
<1> QED BY <1>1, <1>2, <1>3, ReplySteps

(* A comparison, whose codes are read one statement after the other while  *)
(* the pipeline moves on, loses and doubles none of them, calls no region  *)
(* unavailable that had data, and ranks by gco2.                           *)
THEOREM ComparisonStaysFair == NowSpec => []ComparisonIsFair
<1>1. NowInit => Accounted /\ ComparisonIsFair
  BY DEF NowInit, Accounted, ComparisonIsFair, RepliesOf
<1>2. IInv /\ NowTypes /\ ReadInv /\ Accounted /\ ComparisonIsFair /\ [NowNext]_allVars
        => (Accounted /\ ComparisonIsFair)'
  BY NextAccounted, NextComparisonIsFair
<1> QED
  BY <1>1, <1>2, TablesAreSound, TypesHold, ReadHolds, PTL DEF NowSpec
=============================================================================
