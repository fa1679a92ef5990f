------------------------------ MODULE EiaFetch ------------------------------
(***************************************************************************)
(* One region's path from the EIA-930 API into generation_hourly:          *)
(* EIAClient.fetch_fuel_type pages through the API, newest hour first, by  *)
(* OFFSET, and ingest_region sums the rows per (period, fuel code) and     *)
(* upserts the sums.  EIA keeps publishing new hours while the client      *)
(* pages, so the same offset can name different rows in two requests.      *)
(*                                                                         *)
(* A row of the feed is a number: row 1 is the oldest, row `published` the *)
(* newest, so the row at offset o of the descending listing is             *)
(* published - o.  Every hour has RowsPerHour rows, one per EIA fuel type, *)
(* and every row with a value stands for one unit of generation, so a sum  *)
(* of values is a number of deliveries.  The request sorts by period only  *)
(* (eia.py:66-67): that EIA lists the rows of one hour in the same order   *)
(* in every answer is an assumption of this module.                        *)
(***************************************************************************)
EXTENDS Integers, FiniteSets, FiniteSetsExt

CONSTANTS
  RowsPerHour,      \* fuel types EIA reports for one hour of this region
  CodeOf,           \* fuel type (1..RowsPerHour) -> stored fuel code; the
                    \* types outside KNOWN_FUELS all map to the code OTH
  Hours,            \* the `hours` argument
  RowsBudget,       \* rows requested per hour: 12 in the code
  MaxPage,          \* EIAClient.MAX_PAGE: 5000 in the code
  MaxRows,          \* bound: rows the feed may ever hold
  NullChoices,      \* the sets of rows EIA may publish without a value
  GrowWhilePaging,  \* whether EIA may publish between two requests
  NoRow             \* no such row in generation_hourly

Row == 1..MaxRows
Code == {CodeOf[k] : k \in 1..RowsPerHour}
Hour == 1..(MaxRows \div RowsPerHour)

ASSUME SizesAreNaturals ==
  /\ RowsPerHour \in Nat \ {0}
  /\ Hours \in Nat \ {0}
  /\ RowsBudget \in Nat \ {0}
  /\ MaxPage \in Nat \ {0}
  /\ MaxRows \in Nat
ASSUME NullChoicesAreRows == NullChoices \subseteq SUBSET Row
ASSUME NoRowIsNoNumber == NoRow \notin Nat
ASSUME GrowWhilePagingIsBoolean == GrowWhilePaging \in BOOLEAN

VARIABLES
  published,  \* rows of the feed so far
  nulls,      \* rows of the feed whose value is null
  pc,         \* where fetch_fuel_type / ingest_region is
  offset,     \* `offset` of the next request
  points,     \* len(points)
  delivered,  \* how often each row occurs in `points`
  start,      \* rows of the feed at the first request of this fetch
  grown,      \* hours published since that first request
  stored      \* generation_hourly: mwh by hour and fuel code

fetchVars == <<pc, offset, points, delivered, start, grown>>
vars == <<published, nulls, pc, offset, points, delivered, start, grown, stored>>

TargetRows == Hours * RowsBudget

HourOf(r) == 1 + ((r - 1) \div RowsPerHour)
FuelCode(r) == CodeOf[1 + ((r - 1) % RowsPerHour)]
RowsOf(h, c) == {r \in Row : HourOf(r) = h /\ FuelCode(r) = c}

Init ==
  /\ published = 0
  /\ nulls \in NullChoices
  /\ pc = "idle"
  /\ offset = 0
  /\ points = 0
  /\ delivered = [r \in Row |-> 0]
  /\ start = 0
  /\ grown = 0
  /\ stored = [h \in Hour |-> [c \in Code |-> NoRow]]

(***************************************************************************)
(* EIA publishes one more hour, with all of its fuel types.                *)
(***************************************************************************)
PublishHour ==
  /\ published + RowsPerHour <= MaxRows
  /\ pc = "paging" => GrowWhilePaging
  /\ published' = published + RowsPerHour
  /\ grown' = IF pc = "paging" /\ offset > 0 THEN grown + 1 ELSE grown
  /\ UNCHANGED <<nulls, pc, offset, points, delivered, start, stored>>

(***************************************************************************)
(* A cron run or a manual backfill reaches this region.                    *)
(***************************************************************************)
StartFetch ==
  /\ pc = "idle"
  /\ pc' = "paging"
  /\ offset' = 0
  /\ points' = 0
  /\ delivered' = [r \in Row |-> 0]
  /\ start' = published
  /\ grown' = 0
  /\ UNCHANGED <<published, nulls, stored>>

(* `length` of the next request, and the rows the feed has left for it.    *)
PageLengthUncapped == MaxPage  \* mutant: the target does not cap the page
PageLength ==
  IF MaxPage <= TargetRows - points THEN MaxPage ELSE TargetRows - points
Remaining == published - offset
PageSize == IF PageLength <= Remaining THEN PageLength ELSE Remaining
Page == (Remaining - PageSize + 1)..Remaining

(* The points of the page: rows without a value are dropped.               *)
Got == Page \ nulls

OffsetByPoints == offset + Cardinality(Got)  \* mutant: skipped rows not counted
OffsetByMaxPage == offset + MaxPage          \* mutant: advances by the cap
NextOffset == offset + PageSize

ShortOfPoints == Cardinality(Got) < PageLength  \* mutant: counts points, not rows
LastPage == PageSize < PageLength

(***************************************************************************)
(* One request and the loop body that consumes its answer.  The loop ends  *)
(* on an empty page, on a page shorter than asked for, or when the points  *)
(* reach the target.                                                       *)
(***************************************************************************)
RequestPage ==
  /\ pc = "paging"
  /\ delivered' = [r \in Row |-> IF r \in Got THEN delivered[r] + 1
                                              ELSE delivered[r]]
  /\ points' = points + Cardinality(Got)
  /\ offset' = NextOffset
  /\ start' = IF offset = 0 THEN published ELSE start
  /\ pc' = IF LastPage \/ points' >= TargetRows THEN "fetched" ELSE "paging"
  /\ UNCHANGED <<published, nulls, grown, stored>>

(***************************************************************************)
(* raise_for_status, or the database, raises: nothing of this fetch is     *)
(* stored.  ingest_all goes on with the next region.                       *)
(***************************************************************************)
FetchFails ==
  /\ pc \in {"paging", "fetched"}
  /\ pc' = "idle"
  /\ UNCHANGED <<published, nulls, offset, points, delivered, start, grown, stored>>

(***************************************************************************)
(* The sum of the delivered rows of hour h whose fuel code is c.           *)
(***************************************************************************)
AggregatedLastWins(h, c) ==  \* mutant: agg[key] = mwh instead of += mwh
  IF \E r \in RowsOf(h, c) : delivered[r] > 0 THEN 1 ELSE 0
Aggregated(h, c) == MapThenSumSet(LAMBDA r : delivered[r], RowsOf(h, c))

IsAggregated(h, c) == \E r \in RowsOf(h, c) : delivered[r] > 0

(***************************************************************************)
(* ingest_region: no points, nothing to do; otherwise one upsert of all    *)
(* sums, committed as a whole.                                             *)
(***************************************************************************)
UpsertGeneration ==
  /\ pc = "fetched"
  /\ pc' = "idle"
  /\ stored' = [h \in Hour |-> [c \in Code |->
                  IF IsAggregated(h, c) THEN Aggregated(h, c) ELSE stored[h][c]]]
  /\ UNCHANGED <<published, nulls, offset, points, delivered, start, grown>>

Next ==
  \/ PublishHour
  \/ StartFetch
  \/ RequestPage
  \/ FetchFails
  \/ UpsertGeneration

Spec == Init /\ [][Next]_vars

(***************************************************************************)
(* httpx answers or times out (30 s), so a fetch that is paging moves on.  *)
(***************************************************************************)
FairSpec == Spec /\ WF_vars(RequestPage)

-----------------------------------------------------------------------------

(* Every variable stays in its domain; a fetch never collects more points  *)
(* than it asked for and never asks beyond the end of the feed.            *)
TypeOK ==
  /\ published \in 0..MaxRows
  /\ nulls \in NullChoices
  /\ pc \in {"idle", "paging", "fetched"}
  /\ offset \in 0..published
  /\ points \in 0..TargetRows
  /\ delivered \in [Row -> Nat]
  /\ start \in 0..published
  /\ grown \in Nat
  /\ DOMAIN stored = Hour /\ \A h \in Hour : DOMAIN stored[h] = Code

(* The rows a request has already passed over, counted from the newest row *)
(* of the feed as it was at the first request.                             *)
Passed == {r \in Row : published - offset < r /\ r <= start}

(* Paging by offset over a feed that grows at its front skips nothing: a   *)
(* row with a value that the offset has moved past, and that was there at  *)
(* the first request, is among the points (eia.py:56-92).                  *)
NoRowSkipped ==
  pc # "idle" => \A r \in Passed \ nulls : delivered[r] >= 1

(* A row occurs in the points at most once per version of the feed the     *)
(* fetch has seen; in a feed that stands still, at most once (eia.py:92).  *)
DeliveryBound ==
  \A r \in Row : delivered[r] <= 1 + grown

(* The loop stops early only at the end of the feed: a fetch with fewer    *)
(* points than its target holds every row with a value (eia.py:59, 74, 93).*)
ShortFetchIsComplete ==
  pc = "fetched" /\ points < TargetRows
    => \A r \in (1..start) \ nulls : delivered[r] >= 1

(* The generation of hour h that EIA reports under code c.                 *)
Reported(h, c) == Cardinality(RowsOf(h, c) \ nulls)

WhollyFetched(h) == \A r \in Row : HourOf(r) = h => published - offset < r

(* In a feed that stood still during the fetch, the sum computed for an    *)
(* hour that was fetched whole is what EIA reports, and the sum for the    *)
(* hour the last page cuts is never above it (ingest.py:27-33).            *)
QuietFetchIsExact ==
  pc = "fetched" /\ published = start =>
    \A h \in Hour, c \in Code :
      IF WhollyFetched(h) /\ h * RowsPerHour <= published
        THEN Aggregated(h, c) = Reported(h, c)
        ELSE Aggregated(h, c) <= Reported(h, c)

(* A fetch that is paging ends, however often EIA publishes (eia.py:59-94).*)
FetchEnds == (pc = "paging") ~> (pc # "paging")

(* Overlapping windows are safe: a stored sum that agrees with EIA is not  *)
(* replaced by one that does not, as EIA revises nothing here.  docs       *)
(* DEPLOY.md:122 says "`ingest` upserts, so a small overlapping window is  *)
(* safe and self-healing."                                                 *)
OverlapIsSafe ==
  [][\A h \in Hour, c \in Code :
       stored[h][c] = Reported(h, c) => stored'[h][c] = Reported(h, c)]_vars

(* What overlapping windows can do, then: a stored sum that agrees with    *)
(* EIA is replaced by another only if a fetch read one of its rows twice,  *)
(* or stopped within an hour with some of the rows stored under the code   *)
(* and without others (eia.py:59-94, ingest.py:27-48).                     *)
LostToPartOrRepeat ==
  [][\A h \in Hour, c \in Code :
       stored[h][c] = Reported(h, c) /\ stored'[h][c] # Reported(h, c) =>
         \/ \E r \in RowsOf(h, c) : delivered[r] > 1
         \/ \E r, s \in RowsOf(h, c) \ nulls : delivered[r] > 0 /\ delivered[s] = 0]_vars

TypesHaveOwnCodes ==
  \A j, k \in 1..RowsPerHour : CodeOf[j] = CodeOf[k] => j = k
=============================================================================
