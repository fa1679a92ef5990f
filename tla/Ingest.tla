------------------------------- MODULE Ingest -------------------------------
(***************************************************************************)
(* The data pipeline: EIA's feed, the tables generation_hourly and         *)
(* carbon_intensity_hourly, and the processes that write them - the hourly *)
(* cron job `manage ingest`, manual backfills, and `manage compute`.       *)
(*                                                                         *)
(* For each region an ingest fetches, upserts and COMMITS the generation,  *)
(* then reads the whole generation of the region back, computes, upserts   *)
(* and commits the intensities.  Nothing joins the two commits and nothing *)
(* keeps two processes apart, so other commits, failures and crashes fall  *)
(* between any two of these steps.                                         *)
(*                                                                         *)
(* A fetch answers with the newest Window hours of the feed as they stand  *)
(* at one instant; how it pages is module EiaFetch.                        *)
(***************************************************************************)
EXTENDS CarbonIntensity

CONSTANTS
  Region,        \* the seeded regions
  LastPeriod,    \* bound: hours EIA may publish
  Mix,           \* the mixes EIA may report for an hour
  Worker,        \* processes that run the management CLI
  Ingester,      \* those that run `ingest`
  Computer,      \* those that run `compute`
  Cron,          \* the ingesters a schedule starts
  Window,        \* hours a fetch reaches back
  Flaky,         \* regions whose ingest may fail again and again
  MaxRevisions,  \* bound: values EIA revises after publishing them
  MaxFaults      \* bound: failures outside Flaky, empty answers and crashes

Period == 1..LastPeriod
Mixes == [Fuel -> Int \cup {NoRow}]

ASSUME MixesAreMixes == Mix \subseteq Mixes
ASSUME WorkersWork ==
  Ingester \subseteq Worker /\ Computer \subseteq Worker /\ Cron \subseteq Ingester
ASSUME BoundsAreNaturals ==
  LastPeriod \in Nat /\ Window \in Nat /\ MaxRevisions \in Nat /\ MaxFaults \in Nat
ASSUME RegionsAreSeeded == Region # {} /\ Flaky \subseteq Region

VARIABLES
  published,  \* EIA: hours published per region
  feed,       \* EIA: the mix of each region and hour, EmptyMix if unpublished
  revisions,  \* bound
  gen,        \* generation_hourly
  intensity,  \* carbon_intensity_hourly
  pc,         \* per worker: where the run is
  job,        \* per worker: which command it runs
  todo,       \* per worker: regions the run has not reached
  region,     \* per worker: region at hand
  batch,      \* per worker: mixes in memory, fetched or read back
  results,    \* per worker: outcome per region
  faults,     \* bound
  seen,       \* ghost: every mix committed for a region and hour
  kept,       \* ghost: hours whose generation the worker's run committed
  tainted     \* ghost: the last writer of the region died between its commits
              \*        or wrote intensities from an outdated read

eiaVars == <<published, feed, revisions>>
tableVars == <<gen, intensity, seen, tainted>>
runVars == <<pc, job, todo, region, batch, results, kept>>
vars == <<eiaVars, tableVars, runVars, faults>>

NoMixes == [t \in Period |-> EmptyMix]
Nobody == CHOOSE r \in Region : TRUE  \* value of `region` before the first one

Init ==
  /\ published = [r \in Region |-> 0]
  /\ feed = [r \in Region |-> NoMixes]
  /\ revisions = 0
  /\ gen = [r \in Region |-> NoMixes]
  /\ intensity = [r \in Region |-> [t \in Period |-> NoIntensity]]
  /\ pc = [w \in Worker |-> "idle"]
  /\ job = [w \in Worker |-> "none"]
  /\ todo = [w \in Worker |-> {}]
  /\ region = [w \in Worker |-> Nobody]
  /\ batch = [w \in Worker |-> NoMixes]
  /\ results = [w \in Worker |-> [r \in Region |-> "none"]]
  /\ kept = [w \in Worker |-> [r \in Region |-> {}]]
  /\ faults = 0
  /\ seen = [r \in Region |-> [t \in Period |-> {EmptyMix}]]
  /\ tainted = [r \in Region |-> FALSE]

-----------------------------------------------------------------------------
(* EIA *)

Publish(r) ==
  /\ published[r] < LastPeriod
  /\ published' = [published EXCEPT ![r] = @ + 1]
  /\ \E m \in Mix : feed' = [feed EXCEPT ![r][published[r] + 1] = m]
  /\ UNCHANGED <<revisions, tableVars, runVars, faults>>

Revise(r, t) ==
  /\ t <= published[r]
  /\ revisions < MaxRevisions
  /\ revisions' = revisions + 1
  /\ \E m \in Mix : feed' = [feed EXCEPT ![r][t] = m]
  /\ UNCHANGED <<published, tableVars, runVars, faults>>

-----------------------------------------------------------------------------
(* manage ingest, manage compute *)

Revisiting(w, r) == todo[w]  \* mutant: the region stays on the list
Rest(w, r) == todo[w] \ {r}

(* Both commands begin by selecting every region code.                     *)
Start(w, command) ==
  /\ pc[w] = "idle"
  /\ pc' = [pc EXCEPT ![w] = "next"]
  /\ job' = [job EXCEPT ![w] = command]
  /\ todo' = [todo EXCEPT ![w] = Region]
  /\ UNCHANGED <<eiaVars, tableVars, region, batch, results, kept, faults>>

StartIngest(w) == w \in Ingester /\ Start(w, "ingest")
StartCompute(w) == w \in Computer /\ Start(w, "compute")

(* The process is gone, and with it all it had in memory.                  *)
Exit(w) ==
  /\ pc' = [pc EXCEPT ![w] = "idle"]
  /\ job' = [job EXCEPT ![w] = "none"]
  /\ todo' = [todo EXCEPT ![w] = {}]
  /\ region' = [region EXCEPT ![w] = Nobody]
  /\ batch' = [batch EXCEPT ![w] = NoMixes]
  /\ results' = [results EXCEPT ![w] = [r \in Region |-> "none"]]
  /\ kept' = [kept EXCEPT ![w] = [r \in Region |-> {}]]

EndRun(w) ==
  /\ pc[w] = "next" /\ todo[w] = {}
  /\ Exit(w)
  /\ UNCHANGED <<eiaVars, tableVars, faults>>

InWindow(r, t) == t <= published[r] /\ t > published[r] - Window

Fetched(r) == [t \in Period |-> IF InWindow(r, t) THEN feed[r][t] ELSE EmptyMix]

(* The loop of ingest_all reaches region r, and the fetch answers.         *)
Fetch(w, r) ==
  /\ pc[w] = "next" /\ job[w] = "ingest" /\ r \in todo[w]
  /\ Fetched(r) # NoMixes
  /\ pc' = [pc EXCEPT ![w] = "fetched"]
  /\ todo' = [todo EXCEPT ![w] = Rest(w, r)]
  /\ region' = [region EXCEPT ![w] = r]
  /\ batch' = [batch EXCEPT ![w] = Fetched(r)]
  /\ UNCHANGED <<eiaVars, tableVars, job, results, kept, faults>>

(* `if not points: return 0`: there is nothing yet, or the API answers     *)
(* without data.  The intensities are not recomputed.                      *)
FetchNothing(w, r) ==
  /\ pc[w] = "next" /\ job[w] = "ingest" /\ r \in todo[w]
  /\ \/ Fetched(r) = NoMixes /\ UNCHANGED faults
     \/ faults < MaxFaults /\ faults' = faults + 1
  /\ todo' = [todo EXCEPT ![w] = Rest(w, r)]
  /\ results' = [results EXCEPT ![w][r] = "zero"]
  /\ UNCHANGED <<eiaVars, tableVars, pc, job, region, batch, kept>>

Upserted(old, new) ==
  [t \in Period |-> [f \in Fuel |-> IF new[t][f] # NoRow THEN new[t][f] ELSE old[t][f]]]

(* The upsert of generation_hourly and its commit.                         *)
CommitGeneration(w) ==
  LET r == region[w]
      stored == Upserted(gen[r], batch[w])
  IN  /\ pc[w] = "fetched"
      /\ pc' = [pc EXCEPT ![w] = "recompute"]
      /\ gen' = [gen EXCEPT ![r] = stored]
      /\ seen' = [seen EXCEPT ![r] = [t \in Period |-> @[t] \cup {stored[t]}]]
      /\ kept' = [kept EXCEPT ![w][r] = {t \in Period : batch[w][t] # EmptyMix}]
      /\ UNCHANGED <<eiaVars, intensity, tainted, job, todo, region, batch, results, faults>>

(* The loop of _compute reaches region r.                                  *)
PickRegion(w, r) ==
  /\ pc[w] = "next" /\ job[w] = "compute" /\ r \in todo[w]
  /\ pc' = [pc EXCEPT ![w] = "recompute"]
  /\ todo' = [todo EXCEPT ![w] = Rest(w, r)]
  /\ region' = [region EXCEPT ![w] = r]
  /\ UNCHANGED <<eiaVars, tableVars, job, batch, results, kept, faults>>

(* recompute_region selects the region's whole generation.                 *)
FetchedAgain(w) == batch[w]  \* mutant: computes from the fetched points
GenerationRead(w) == gen[region[w]]

ReadGeneration(w) ==
  /\ pc[w] = "recompute"
  /\ pc' = [pc EXCEPT ![w] = "computed"]
  /\ batch' = [batch EXCEPT ![w] = GenerationRead(w)]
  /\ UNCHANGED <<eiaVars, tableVars, job, todo, region, results, kept, faults>>

(* ... and upserts what it computed; hours without an intensity are left   *)
(* out of the upsert, and their old rows stay.                             *)
ComputedDoNothing(w) ==  \* mutant: ON CONFLICT DO NOTHING
  [t \in Period |->
    IF intensity[region[w]][t] # NoIntensity
      THEN intensity[region[w]][t] ELSE IntensityForPeriod(batch[w][t])]
ComputedNewestOnly(w) ==  \* mutant: only the newest hour, the one /now shows
  [intensity[region[w]] EXCEPT
     ![published[region[w]]] = IntensityForPeriod(batch[w][published[region[w]]])]
ComputedReplacing(w) ==  \* mutant: the region's rows are deleted and inserted
  [t \in Period |-> IntensityForPeriod(batch[w][t])]
Computed(w) ==
  [t \in Period |->
    LET row == IntensityForPeriod(batch[w][t])
    IN  IF row = NoIntensity THEN intensity[region[w]][t] ELSE row]

CommitIntensity(w) ==
  LET r == region[w]
  IN  /\ pc[w] = "computed"
      /\ pc' = [pc EXCEPT ![w] = "next"]
      /\ intensity' = [intensity EXCEPT ![r] = Computed(w)]
      /\ tainted' = [tainted EXCEPT ![r] = batch[w] # gen[r]]
      /\ results' = [results EXCEPT ![w][r] = "rows"]
      /\ batch' = [batch EXCEPT ![w] = NoMixes]
      /\ UNCHANGED <<eiaVars, gen, seen, job, todo, region, kept, faults>>

-----------------------------------------------------------------------------
(* Failures *)

MayFail(r) ==
  \/ r \in Flaky /\ UNCHANGED faults
  \/ faults < MaxFaults /\ faults' = faults + 1

(* An exception while region r is at hand: ingest_all notes it and takes   *)
(* the next region, _compute does not catch it and the process ends.       *)
RaisesAlways(w, r) == Exit(w)  \* mutant: no try / except in ingest_all
Raises(w, r) ==
  IF job[w] = "compute" THEN Exit(w)
  ELSE /\ pc' = [pc EXCEPT ![w] = "next"]
       /\ todo' = [todo EXCEPT ![w] = Rest(w, r)]
       /\ batch' = [batch EXCEPT ![w] = NoMixes]
       /\ results' = [results EXCEPT ![w][r] = "failed"]
       /\ UNCHANGED <<job, region, kept>>

(* The request to EIA for region r raises.                                 *)
FetchFails(w, r) ==
  /\ pc[w] = "next" /\ job[w] = "ingest" /\ r \in todo[w]
  /\ MayFail(r)
  /\ Raises(w, r)
  /\ UNCHANGED <<eiaVars, tableVars>>

AtHand(w) == pc[w] \in {"fetched", "recompute", "computed"}
BetweenCommits(w) == pc[w] \in {"recompute", "computed"}

(* A statement or a commit of the region's transaction raises and is       *)
(* rolled back.                                                            *)
TransactionFails(w) ==
  LET r == region[w]
  IN  /\ AtHand(w)
      /\ MayFail(r)
      /\ Raises(w, r)
      /\ tainted' = [tainted EXCEPT ![r] = @ \/ BetweenCommits(w)]
      /\ UNCHANGED <<eiaVars, gen, intensity, seen>>

(* The process is killed.                                                  *)
Crash(w) ==
  /\ pc[w] # "idle"
  /\ faults < MaxFaults
  /\ faults' = faults + 1
  /\ Exit(w)
  /\ tainted' = [tainted EXCEPT ![region[w]] = @ \/ BetweenCommits(w)]
  /\ UNCHANGED <<eiaVars, gen, intensity, seen>>

-----------------------------------------------------------------------------

Eia == \E r \in Region : Publish(r) \/ \E t \in Period : Revise(r, t)

(* The steps of a run that no failure stops.                               *)
Advance(w) ==
  \/ EndRun(w)
  \/ CommitGeneration(w)
  \/ ReadGeneration(w)
  \/ CommitIntensity(w)
  \/ \E r \in Region : Fetch(w, r) \/ FetchNothing(w, r) \/ PickRegion(w, r)

Fault(w) ==
  \/ TransactionFails(w)
  \/ Crash(w)
  \/ \E r \in Region : FetchFails(w, r)

Next ==
  \/ Eia
  \/ \E w \in Worker : StartIngest(w) \/ StartCompute(w) \/ Advance(w) \/ Fault(w)

Spec == Init /\ [][Next]_vars

(* The cron schedule starts an ingest again and again, and a process that  *)
(* is running runs on.  Nothing is assumed of EIA, of `compute` being      *)
(* started, or of failures.                                                *)
Fairness ==
  /\ \A w \in Cron : WF_vars(StartIngest(w))
  /\ \A w \in Worker : WF_vars(Advance(w))

FairSpec == Spec /\ Fairness

-----------------------------------------------------------------------------
(* Properties *)

RunPc == {"idle", "next", "fetched", "recompute", "computed"}

(* Every variable stays in its domain (the rows of intensity are the       *)
(* subject of IntensityFromCommittedMix), and a run does not come back to  *)
(* the region it has at hand.                                              *)
TypeOK ==
  /\ published \in [Region -> 0..LastPeriod]
  /\ feed \in [Region -> [Period -> Mixes]]
  /\ revisions \in 0..MaxRevisions
  /\ gen \in [Region -> [Period -> Mixes]]
  /\ DOMAIN intensity = Region /\ \A r \in Region : DOMAIN intensity[r] = Period
  /\ pc \in [Worker -> RunPc]
  /\ job \in [Worker -> {"none", "ingest", "compute"}]
  /\ todo \in [Worker -> SUBSET Region]
  /\ \A w \in Worker : AtHand(w) => region[w] \notin todo[w]
  /\ region \in [Worker -> Region]
  /\ batch \in [Worker -> [Period -> Mixes]]
  /\ results \in [Worker -> [Region -> {"none", "rows", "zero", "failed"}]]
  /\ kept \in [Worker -> [Region -> SUBSET Period]]
  /\ faults \in 0..MaxFaults
  /\ seen \in [Region -> [Period -> SUBSET Mixes]]
  /\ tainted \in [Region -> BOOLEAN]

(* Every stored intensity is the intensity of ONE version of the hour's    *)
(* generation that was committed at some time: never of a fetch that was   *)
(* not stored, nor of fuels of two versions (carbon.py:88-124).            *)
IntensityFromCommittedMix ==
  \A r \in Region, t \in Period :
    intensity[r][t] # NoIntensity =>
      \E m \in seen[r][t] : intensity[r][t] = IntensityForPeriod(m)

(* The intensity row is that of the generation now stored, for every hour  *)
(* that has an intensity at all.                                           *)
Derived(r) ==
  \A t \in Period :
    LET row == IntensityForPeriod(gen[r][t])
    IN  row # NoIntensity => intensity[r][t] = row

(* Stored intensities lag behind the stored generation only while some     *)
(* worker is between its two commits for the region, or when the last one  *)
(* there died in between or wrote from an outdated read (ingest.py:46-48,  *)
(* carbon.py:88-125).                                                      *)
StaleHasCause ==
  \A r \in Region :
    \/ Derived(r)
    \/ tainted[r]
    \/ \E w \in Worker : region[w] = r /\ BetweenCommits(w)

(* A region an ingest reports as done is served: every hour it stored has  *)
(* an intensity, unless some version of that hour had nothing to compute   *)
(* from.  No overlapping run and no crash undoes that (ingest.py:39-49).   *)
ReportedHoursAreServed ==
  \A w \in Worker, r \in Region :
    results[w][r] = "rows" =>
      \A t \in kept[w][r] :
        \/ intensity[r][t] # NoIntensity
        \/ \E m \in seen[r][t] \ {EmptyMix} : IntensityForPeriod(m) = NoIntensity

(* Shares are shares and what is renewable is carbon-free, whatever EIA    *)
(* reports, negative values included (carbon.py:58-81).                    *)
SharesAreShares ==
  \A r \in Region, t \in Period :
    LET row == intensity[r][t]
    IN  row # NoIntensity =>
          /\ row.total > 0 /\ row.gco2 >= 0
          /\ 0 <= row.renewable /\ row.renewable <= row.carbonFree
          /\ row.carbonFree <= ShareScale
          /\ row.lowConfidence \in 0..ShareScale

-----------------------------------------------------------------------------
(* What the inductive invariant adds                                       *)

(* The stored generation is a committed version, and so is what a worker   *)
(* has read back of it.                                                    *)
CommittedIsSeen ==
  /\ \A r \in Region, t \in Period : gen[r][t] \in seen[r][t]
  /\ \A w \in Worker : pc[w] = "computed" =>
       \A t \in Period : batch[w][t] \in seen[region[w]][t]

(* An hour whose generation a run has committed keeps some row, and the    *)
(* run reads it back.                                                      *)
KeptHasRows ==
  \A w \in Worker :
    /\ \A r \in Region : \A t \in kept[w][r] : gen[r][t] # EmptyMix
    /\ pc[w] = "computed" => \A t \in kept[w][region[w]] : batch[w][t] # EmptyMix

(* A run notes an outcome for a region once, when it leaves it.            *)
OutcomeComesLast ==
  \A w \in Worker :
    /\ \A r \in todo[w] : results[w][r] = "none"
    /\ pc[w] = "idle" => \A r \in Region : results[w][r] = "none"
    /\ AtHand(w) => results[w][region[w]] = "none"

IInv ==
  /\ TypeOK
  /\ IntensityFromCommittedMix
  /\ StaleHasCause
  /\ ReportedHoursAreServed
  /\ CommittedIsSeen
  /\ KeptHasRows
  /\ OutcomeComesLast

(* One writer, no failures                                                 *)
SoleWriter == MaxFaults = 0 /\ Flaky = {} /\ \E w \in Worker : Worker = {w}

(* A sole writer has read what is stored, and nothing is tainted.          *)
NothingOutdated ==
  /\ \A r \in Region : ~tainted[r]
  /\ \A w \in Worker : pc[w] = "computed" => batch[w] = gen[region[w]]

(* Between its runs and its regions, a sole writer that meets no failure   *)
(* leaves the intensities of every region derived (ingest.py:46-48).       *)
DerivedBetweenRegions ==
  (\A w \in Worker : ~BetweenCommits(w)) => \A r \in Region : Derived(r)

-----------------------------------------------------------------------------
(* What happens in the end                                                 *)

UpToDate(r) ==
  \A t \in Period, f \in Fuel :
    InWindow(r, t) /\ feed[r][t][f] # NoRow => gen[r][t][f] = feed[r][t][f]

(* Once EIA stands still and the bounded failures are over, the tables of  *)
(* every region catch up with EIA and stay so - crashes, lost updates of   *)
(* overlapping runs and regions that keep failing notwithstanding          *)
(* (ingest.py:61-69, DEPLOY.md:122 "self-healing").                        *)
HealthyRegionsHeal ==
  \A r \in Region \ Flaky : <>[](UpToDate(r) /\ Derived(r))

(* "carbon_intensity_hourly is derived from it" (models/generation.py:4):  *)
(* between runs that met no failure and no overlap, a row is there exactly *)
(* when the stored generation has an intensity, and is that intensity.     *)
IntensityIsDerived ==
  (\A w \in Worker : pc[w] = "idle") /\ (\A r \in Region : ~tainted[r]) =>
    \A r \in Region, t \in Period :
      intensity[r][t] = IntensityForPeriod(gen[r][t])
=============================================================================
