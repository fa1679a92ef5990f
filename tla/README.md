# GridClean in TLA+

GridClean serves the carbon intensity of US grid regions. An hourly job fetches
generation by fuel from the EIA-930 API, stores it, and derives intensities; an
HTTP API serves them from Postgres through a Redis cache, with rate limiting, a
forecast and natural-language queries. This directory models that system in
TLA+, checks the models with TLC on small instances, and proves every safety
property that the runs check with TLAPS, for all values of the constants.

Source paths below are relative to `src/`; `ingest.py`, `eia.py`, `carbon.py`,
`queries.py` are in `app/services/`, `cache.py` in `app/core/`.

## Inventory

| component | state | operations | what is hard | correct when |
|---|---|---|---|---|
| EIA client (`eia.py`) | points collected, offset | `fetch_fuel_type` | offset paging over a listing that grows at its front; null values; a target in rows | nothing skipped; nothing repeated in a feed that stands still; ends |
| Ingest (`ingest.py`) | outcome per region | `ingest_all`, `ingest_region` | two commits per region, failures, crashes, overlapping runs | a region's failure stays its own; the tables catch up |
| Carbon calculation (`carbon.py`) | `carbon_intensity_hourly` | `recompute_region` | read, compute and write without a lock; negative and zero values | every row is the intensity of one committed version |
| Management CLI (`app/manage.py`) | - | `seed`, `ingest`, `compute`, `apikey` | `compute` stops at the first exception | as above |
| History (`queries.py`, `app/pagination.py`) | cursor, held by the client | `get_history` | rows inserted between pages | every hour once, newest first, and the walk ends |
| Current data (`queries.py`) | - | `build_now`, `build_compare` | several statements per answer, commits in between | the parts of an answer fit together; answers do not go back |
| Savings, insights (`queries.py`, `app/services/ai/insights.py`) | - | `compute_savings`, `compute_stats` | local hours over a change of the clocks, division by zero, rounding in stages | the numbers shown together agree |
| Response cache (`cache.py`) | one Redis key per query | `cached_json` | check-then-act, expiry, 304 | bounded staleness |
| Rate limit (`app/core/ratelimit.py`) | a counter per caller and minute | `enforce_rate_limit` | two Redis calls, window boundary | at most `limit` per window; nobody refused for another's requests; a sensible Retry-After |
| API keys, sessions (`app/core/security.py`, `app/db/session.py`) | `api_keys`, a pool of connections | `get_principal`, `get_session` | a connection is kept to the end of a request, the wait for the language model included | reads end although others wait for the model |
| Text-to-SQL (`app/services/ai/`) | attempts of a question | `answer_question`, `validate_and_prepare` | anything may come from the model; repair after failure | only guarded statements run, at most two; every failure is told once |
| Forecast (`forecast.py`) | - | `forecast_region`, `cleanest_hour`, `_backtest` | positions in a series with gaps, the holdout | points are of the hours they name; enough is left to fit |
| ZIP lookup (`zip_lookup.py`) | two tables of prefixes | `resolve_region`, `region_for_zip` | hand-written ranges, overrides, curated codes | one region per prefix, a seeded one, an honest confidence |
| Seed, models, migrations | reference tables | `seed_all` | - | - |
| Evaluation (`app/eval/`) | - | `_matches` | greedy matching | agrees with a pairing |
| Frontend (`frontend/app.js`) | region, comparison, panels | `refreshLocation`, `loadChart`, `loadCompare`, `runAsk`, ... | responses out of order, failures in between | the panels show one region; nothing shimmers for ever |

The ingest and the API meet only in the tables: the ingest writes
`generation_hourly` and then `carbon_intensity_hourly`, in two transactions per
region; the API reads them under READ COMMITTED, one statement at a time, and
keeps answers in Redis. Requests meet in Redis (their counters, the cached
answers) and in the pool of connections, the one place where one waits for
another. `PROJECT.json` lists the
hazards of this code at their lines, and which property is aimed at each.

## Modules

**EiaFetch** is one region's path from the API to `generation_hourly`. A row of
the feed is a number counted from the oldest, so that a page at an offset is an
interval and new hours shift it. `RequestPage` is one iteration of the loop
(`eia.py:59-94`): the capped length, the null rows that count for the offset and
not for the points, the short page and the target that end it. `UpsertGeneration`
sums by hour and stored fuel code and upserts. Every value is one unit, so a sum
is a number of deliveries and a row counted twice shows. `PublishHour` may come
between any two requests. Two things are assumed of EIA: an hour appears with all
its fuel types at once, and the rows of one hour keep their order from answer to
answer. The code relies on the second: it sorts by period only (`eia.py:66-67`),
so if ties were listed differently in two answers, a page boundary inside an hour
could lose one row and repeat another.

**CarbonIntensity** holds the arithmetic of `_intensity_for_period`: the clamp,
the total, the weighted sums, the rounding, and the absent row when nothing was
generated. It has no state. `IntensityRow` is a row of the table; that Python's
`None` is no row, that the seeded factors are not negative (`app/seed/data.py:35-45`)
and mark no fuel renewable that is not carbon-free, are its assumptions.

**Ingest** is the pipeline as a whole: EIA's feed, both tables, and any number
of workers that run `manage ingest` or `manage compute`. A worker goes through
`next` (choose a region, fetch), `fetched` (upsert and commit the generation),
`recompute` (read the region's generation), `computed` (upsert and commit the
intensities). A step may raise: `ingest_all` notes it and goes on
(`ingest.py:61-69`), `_compute` ends. A worker may be killed anywhere. Regions
are taken in any order, since the code's `SELECT` has no `ORDER BY`. A fetch
takes the whole hours of its window at one instant; its paging is EiaFetch's
subject. Three ghost variables serve the properties: `seen` (committed versions
of each hour), `kept` (hours whose generation a run stored) and `tainted`.

**HistoryWalk** is a client that walks `/v1/carbon/history` from the newest hour
to the last page while hours are inserted anywhere. The client may change
`limit` from page to page; `start` and `end` stay.

**ResponseCache** is one key of `cached_json`: look up, build, store, reply, by
several clients at once (two uvicorn workers share Redis), with expiry, commits
of the ingest and failures between any two steps. An answer is the version of
the tables it was built from. Clients keep a copy, may reuse it for `max-age`,
and send its ETag.

**CarbonNow** puts readers beside the processes of Ingest, of which it takes
every step: requests to `/now` and `/compare`, one statement to a step, each of
which sees what is committed by then. `ReadLatest` and `ReadMix` are the two
statements of `build_now` (`queries.py:88-102`); `CompareCode` is one iteration
of `build_compare`, with the identity map of the ORM (`StillLoaded`): a code
that is repeated right away yields the object that is still referenced, with the
values it was loaded with. `Ranked` is Python's stable `sort`: `Place` numbers
the items by their intensity and, if equal, by their order. The ghosts `mix`, `lagging`, `shown`, `floor` and
`served` remember what the tables held when a statement ran or a request began.

**Listing** says what a listing promises whatever is inserted meanwhile: a client
is owed rows, gets the newest of them first and each once, is owed a new row too
if it appears below all it got, and is owed nothing at the end. HistoryWalk
implements it; cursors, limits and ranges are what the abstract specification
does not have.

**ApiRequest** is the way of a request through the dependencies, in FastAPI's
order: a session (no connection yet), the principal (which takes a connection
if there is a key to look up), the clock, `INCR`, `EXPIRE`, the decision, the
handler. A handler reads the tables, waits for the language model, or both, and
a connection once taken is kept to the end (`app/db/session.py:42`). `Dies` ends
a request at any await, with what it has written to Redis left behind. A counter
is keyed by caller and window, as the Redis key is.

**AskSql** is a question to `/v1/ai/ask`. A text from the model is what sqlglot
makes of it: nothing, or statements given by what the guard looks at (kind,
forbidden nodes anywhere, names used as tables, the outermost `LIMIT`).
`Accepts` and `Prepared` are `validate_and_prepare`; `ModelAnswers` goes from the
model's answer to the call of the database, since no await lies between;
`TimesOut` is the `statement_timeout` of the read-only engine. **GuardedAnswer**
is the promise without attempts, repairs or traces: safe statements run, no more
than a given number, and the one shown is the one that was answered. AskSql
implements it.

**Reads** composes the pure parts, each a module of operators translated from
one source: **ZipLookup** (both tables, `resolve_region`), **Statistics**
(`compute_savings`, `compute_stats`), **Forecast** (which hours are fitted, held
out, predicted; cut, rounding and ranking of points) and **EvalMatch**
(`_matches`). It asks one query and answers it; the instance is the set of
queries. **Rounding** is the division all of them and CarbonIntensity round by.

**Frontend** is the page: what the user does puts up skeletons and starts
requests, which are answered or fail in any order; an answer runs the code to
its next `await`. A request is who started it, its kind and its argument. The
ghost `overlapped` notes which groups of panels had two loads in flight.

**EiaFetchProofs**, **TableProofs** (Ingest and its readers in CarbonNow),
**HistoryWalkProofs**, **ResponseCacheProofs**, **ApiRequestProofs**, **AskSqlProofs**,
**ReadsProofs** and **FrontendProofs** hold the theorems; the modules **MC...** the definitions of
the instances. The map in `PROJECT.json` names the lines of each definition; the
two abstract specifications have none, being no translations.

## Runs

| run | checks | instance |
|---|---|---|
| `eia_fetch` | nothing skipped, bounded delivery, exact on a quiet feed, ends | 4 hours of 3 fuel types, two of them stored as OTH; target 5 points in pages of 2, so pages end inside hours; at most one null row |
| `eia_overlap` | `OverlapIsSafe`, violated | 3 hours, one fetch = one page of 4 rows |
| `ingest_overlap` | `IntensityFromCommittedMix`, `StaleHasCause`, `ReportedHoursAreServed`, `SharesAreShares` | one region, 2 hours, window 1, an ingester and a worker that runs either command, a revision, one failure |
| `ingest_heals` | `HealthyRegionsHeal` | two regions of which one may fail for ever, cron ingest and an overlapping compute, a revision, one more fault |
| `ingest_derived` | `IntensityIsDerived`, violated | one region, one hour, one worker, no faults |
| `history_walk` | each hour once, the walk ends, `KeepsPromise`: it implements Listing | 5 hours, limits 1 and 2, every range, every initial table |
| `response_cache` | staleness of replies and copies, order of answers | 2 clients, ttl 2, requests up to 1, 2 commits, no bound on time |
| `carbon_now` | answers made of committed versions, shares that add up, no going back, fair comparisons | one region, 2 hours, a cron ingest with a revision and a failure, one reader, codes that repeat or do not exist, cut at 2 |
| `api_request` | the quota, no early refusal, Retry-After; reads end | a caller with a key and one without, 1 request a minute each; 3 requests (a read, a question, a read or a summary); minutes of 2 ticks, 2 of them; one connection |
| `ask_sql` | complete traces; `OnlySafeRuns`: it implements GuardedAnswer; questions end | 2 attempts; texts of no, one and two statements over a view, a base table and a CTE; limits below, at and above the maximum, absent, and expressions that name no or another number |
| `reads` | `ZipsResolve`, `SavingsAreFair`, `StatsFitTogether`, `ForecastIsUsable`, `MatchIsAPairing` | all 1000 prefixes and every curated code; histories over a change of the clocks; series around 72 hours, with gaps, horizons 1 to 72; results of up to 3 rows |
| `frontend` | skeletons end, the NOW panel names its region, panels agree | 2 regions, a ZIP code, 3 things the user does after the page has opened |

Why these bounds: the feed needs more rows than a target, a target that is no
multiple of the rows per hour, and a page smaller than both; a lost update needs
two workers on one region; isolation of failures needs two regions; a page
boundary with a row to lose needs a limit below the table; a slow store over a
newer answer needs two clients and a commit between them; a torn `/now` needs a
revision between two statements; a request that counts in a window that is over
needs a second minute; starvation of the pool needs a request that waits for the
model with the only connection; an answer out of order needs two events, and a
third leaves room for another panel. `MCIngest` has mixes
with a negative value, a missing fuel, and nothing to compute from. In
`ingest_heals` a `VIEW` leaves out the ghosts and the noted outcomes, on which no
guard and no part of the property depends. `MCResponseCache` treats clients as
symmetric; the run has no liveness property. The time of ResponseCache is kept
as countdowns and as ages cut at `Horizon`, so its clock never runs out.
`HistoryWalk` allows deadlock: the walk ends and the table fills up. So do
`ApiRequest`, `AskSql`, `Reads` and `Frontend`, whose requests and events run out.
The inputs of `Reads` are exhaustive where the code's own tables are the input
(`ZipLookup`), and chosen at the boundaries elsewhere: 71, 72 and 73 hours of
history, rows enough with a gap and too few with a long one.

### What the two violated properties say

- `OverlapIsSafe`: DEPLOY.md calls overlapping windows "safe and self-healing".
  The fetch stops after `hours * 12` points, wherever that is. If it stops
  within an hour that has several fuel types stored as OTH, the sum for that hour
  is of some of them, and the upsert puts it in place of the complete sum of an
  earlier fetch. Other fuels of a cut hour are only missing from the batch and
  keep their rows. When windows do overlap safely is proved
  (`OwnCodesOverlapSafely`, below).
- `IntensityIsDerived`: models/generation.py says intensities are derived from
  the generation. When EIA revises an hour to zero, `recompute_region` has no
  row for it and deletes none, so the old intensity stays.

### Fairness

`FetchEnds` assumes that a request is answered or times out (`httpx` has a 30 s
timeout). `HealthyRegionsHeal` assumes that the cron schedule
(`railway.cron.json`, DEPLOY.md section 6: hourly) starts an ingest again and
again, and that a process that runs takes its next step. Failures need no
fairness: outside `Flaky` they are bounded, inside they may go on for ever.
EIA is not assumed to publish or to stop; the bounds stop it. `WalkEnds` assumes
a client that goes on until `next_cursor` is null. `ReadsEnd` assumes that Redis
and the database answer and that the wait for a connection ends (the pool raises
after 30 s, SQLAlchemy's default); of the language model it assumes nothing.
`QuestionEnds` assumes that a call of the model returns or raises (its SDK has a
timeout by default) and that the database gives up at `statement_timeout`; that the database
ever answers is not assumed. Frontend and CarbonNow have no fairness: what they
state is safety. ResponseCache has none either: what bounds the duration of a
request is its constant `MaxRequest`, an assumption about Postgres and Redis that
the code does not enforce (no statement timeout on the main engine).

### What is worth knowing of the properties

- `SharesAddUp` and `ReadsEnd` hold with exceptions that the code has: the two
  statements of `/now` may see two versions of an hour, and the answer then mixes
  them; and a summary that waits for the model keeps a connection, so others may
  end with an error, but they end.
- `QuotaHolds` counts the requests whose `INCR` came while their window was on.
  One that read the clock just before the minute turned is counted in the old
  window, beside the new window's limit.
- `OnlySafeRuns` leaves out statements whose `LIMIT` is an expression that names
  another number than it stands for (`sql_guard.py:63`). The guard also takes the
  names that a query's own CTEs define for tables, and refuses the query, though
  its comment counts CTEs among what is accepted (`sql_guard.py:4`).
- `StatsFitTogether` allows a failure (500) when all intensities of a window are
  equal and the shares are not: the correlation is then NaN, which JSON does not
  have.
- `ForecastIsUsable` says which hours points are for: those after the last row.
  The forecast reads no clock, so with an ingest that is late the "upcoming"
  cleanest hour may be past.
- `PanelsAgreeUnlessOverlapped` is conditional because overlapping loads do
  disagree: the panels show whichever answer came last. Without overlap only the
  chart may lag, after a load that failed.

## Proofs

All theorems are for arbitrary constants that satisfy the named assumptions.
Those made for the proofs are that fuels, readers' codes, requests, and the rows
of a history or a series come in finite numbers where something is summed or
counted (`FuelsAreFinite`, `RequestsAreFinite`, `HistoriesAreFinite`,
`IngestedIsFinite`), those about factors, scales and rows named above
(`FactorsAreSeeded`, `ScalesArePositive`, `NoIntensityIsNoRow`), and of Reads:

| assumption | what justifies it |
|---|---|
| `HistoriesAreFinite`: no negative intensity | `SharesAreShares`, which is proved of the table that histories are read from |
| `ParametersAreValid` | the validation of `kwh` (`gt=0`), `hours` and `horizon` (`ge=1`) in the routes |
| `RowsCanBeHalved`: at least 2 rows | insights need 6 (`insights.py`) |
| `HistoryIsLong` | `MIN_HISTORY_HOURS` is 72, a season is 24: 72 > 48, and 58 hours are left without a fifth |
| `FramesHoldMeans` | a frame is a mean and the ends of an interval around it, hour by hour (`summary_frame` of statsmodels) |
| `ZipsAreNumbers` | a ZIP code is validated as five digits (`carbon.py` in `app/api/v1`) |


- *TableProofs, the pipeline.* `TypeCorrect` is inductive by itself. `IntensityHasProvenance`,
  `StalenessIsExplained` and `ReportedIsServed` follow from one inductive
  invariant, `IInv`, since none is inductive alone: that an intensity is written
  from a committed version needs that what a worker has read back was committed
  (`CommittedIsSeen`); that a reported hour is served needs that an hour once
  stored keeps a row and was among the rows read back (`KeptHasRows`); and that
  needs that an outcome is noted only when the region is left
  (`OutcomeComesLast`). `IInv` is proved action by action.
  `SoleWriterStaysDerived` adds the assumption of one worker and no failures,
  under which no read is outdated (`NothingOutdated`).
  `SharesStayShares` needs provenance and arithmetic: a stored row is the
  intensity of a mix, the sum over fewer fuels is no more than the total
  (`SumOfNaturals`), and rounding keeps the order of quotients
  (`RoundMonotone`). The sums are recursive functions of the library; `SumExists`,
  `SumStep` and `SumTake` say what they compute, by induction over subsets, with
  a property given as a set so that no operator has to be instantiated.
- *EiaFetchProofs.* The strengthening relates the offset to the rows delivered:
  a row can have been delivered again only as many times as hours were
  published since the first request. Type correctness includes that the offset
  never passes the end of the feed, for which the feed must only grow.
  `QuietSumsAreExact` adds that only rows with a value are delivered and that a
  feed that has not grown since the first request is the one all pages are of
  (`QuietInv`); then a row is delivered at most once, and a sum of deliveries
  counts the rows (`SumCounts`).
  On the same ground stand two theorems about overlapping windows, which
  `OverlapIsSafe` says too much of: `LossIsExplained` (a right sum is lost only to
  one that counts a row twice, or a part of the rows of its hour and code), and
  `OwnCodesOverlapSafely` (`OverlapIsSafe` holds where no two fuel types share a
  code and the feed stands still while it is paged). Either condition alone is
  not enough: `eia_overlap` is an instance with a shared code and a feed that
  stands still; with codes of their own and a page shorter than the target, a
  feed that grows puts a row on two pages.
- *HistoryWalkProofs.* What has been returned lies on the far side of the cursor
  and what will be returned on the near side; the lemmas about `Newest` and
  `Last` say that a page is a top segment of what matches, and where it ends.
  On the same invariant rests `WalkKeepsPromise`, the refinement of Listing: a
  page is the newest part of what is owed (`PageDelivers`), an insert is a row
  that appears or nothing.
- *ResponseCacheProofs.* An answer becomes outdated while it is built, stored and
  sent, so the bounds on replies and copies are not inductive. `FreshInv` bounds
  the age of an answer at every stage by what may still be added: in a build by
  the time the request has taken, in Redis by the time to live that is left,
  in a copy by what is left of `max-age`. `AnswersOnlyAdvance` needs that the key
  holds the newest answer published unless builds have overlapped
  (`KeyIsNewest`), and that a build that has been outrun finds a key, since
  no request takes as long as the time to live (`OutrunFindsKey`).
- *TableProofs, the readers.* A step of the pipeline is one of Ingest, so `TypeOK`
  and `IInv` of the first part hold beside the readers (`TablesAreSound`). `ReadInv`
  carries what a reader has found over the commits that follow: committed
  versions stay in `seen`, intensity rows are never deleted, so what was once
  shown is there for the next request. `SharesStayWhole` sums the rounding
  errors, half a unit for each fuel. `ComparisonStaysFair` needs that found and
  missing codes together are the codes read so far, each as often (`Accounted`),
  and that places are a permutation of the items (`RankedIsPermutation`). Its
  proof showed that `StillLoaded` has to ask for the last object's region: after
  a code that was not found, an object of the region before it is no longer
  what the loop holds. An instance with one region cannot tell.
- *ApiRequestProofs.* `RetryLandsLater` needs that a window begins before its
  requests are counted. For `QuotaIsKept` the requests counted in time have
  different numbers, up to the counter (`OnTimeDistinct`, `OnTimeNumbered`), and a
  counter does not expire while its window is on (`ExpiresLate`), so those that
  pass map one to one into `1..Limit` (`FS_Injection`). `RefusalIsEarned` is the
  converse: below the count of a request, every number was given to a request of
  the same caller and window (`Reached`), whoever died meanwhile.
- *AskSqlProofs.* `AskImplementsPromise` is the refinement of GuardedAnswer. It
  needs that a statement that the guard accepts is safe in the form it will run
  in (`AcceptedIsSafe`, which rests on `CappedLimitBounds`), and the invariant
  `IInv`: attempts that have ended and statements that have run are counted
  together, and the statement at hand is the last that ran. `TraceStaysComplete`
  adds `TraceInv`: while an attempt is under way there is one prompt more than
  attempts, and as many statements ran as attempts failed in the database, one
  more while one is running.
- *FrontendProofs.* `PanelNamesRegion` and `SkeletonsAreLoading` are inductive
  given the types of the requests in flight. `PanelsAgree` rests on an invariant
  for each group of panels: without overlap a request for `/now` is alone in its
  group, and those that follow it are for the region shown. A step of one group
  leaves the invariants of the others alone (`Apart`).

- *ReadsProofs.* The inductive invariant only ties an answer to its query
  (`Inductive`); what the theorems say is proved of the operators.
  `SavingsFair` and `StatisticsFit` rest on the bounds of a rounded quotient
  (`RoundBounds`) and what follows: rounding keeps order, cancels a common factor,
  and a rounded share is between 0 and 100 per cent. A sum over hours is the
  library's fold over a set; `FoldUnique` and `FoldExists` say what such a fold
  computes, for an order of choice and a step given as functions, by induction
  over subsets, and `SumBetween` bounds a sum by its extremes. The trend is
  rounded once from a difference of means, the two means beside it each once, so
  they agree only up to a unit (`TrendIsDifference`).
  `ForecastUsable` shows that what is held out is no more than a fifth, so two
  seasons are left, and that the prediction of the backtest begins where the
  training ends (`BacktestIsAligned`). Of the ranking it shows that places are a
  permutation of the points, hence the first is the earliest of the cleanest.
  `MatchesArePairings` follows the loop over the expected rows: `LoopPairs` builds
  the pairing row by row, and `NoPairingOverlooked` is a pigeonhole argument: where
  rows are compared for equality, the row that finds none left is expected more
  often than it is there.
  `EveryZipResolves` takes the tables entry by entry: at most one range and one
  override contain a prefix (`OneRange`), whatever the digits of the ZIP code.

Only model-checked: the liveness properties `FetchEnds`, `HealthyRegionsHeal`,
`WalkEnds`, `ReadsEnd` and `QuestionEnds`, which rest on fairness and ENABLED.

## Not modelled, and why

Numbers are integers in units of the last digit kept; floating-point error is
left out, and so is the column precision of Postgres. Statement sizes are not
modelled (a recompute binds seven parameters per hour in one INSERT). The order
of row locks is not modelled; a deadlock that the database breaks is a failed
transaction. `load_factors` is a constant, as only the seed writes its table.

- The forecast's fit is statsmodels': its predictions are an input, its error
  metrics are left out. The value of the correlation in the insights likewise.
- The language model may write anything; prompts are not modelled.
- The HTTP shell (`app/main.py`, `app/middleware.py`, routing, health, logging)
  keeps no state. Which headers a response carries is left out, except
  `Retry-After` and the ETag, on which what a client does next depends.
- `seed_all` is one transaction of upserts of constants. `generate_api_key` and
  `hash_key` are a random string and a digest: FindKey finds a key or does not.
- The DDL of the migrations has no steps that interleave with anything modelled;
  the tables and primary keys it makes are those of the modules.
- Of the frontend: markdown, number formats, toasts, colours, the clock.
- Pre-ping and recycling of connections, and the pool of the read-only engine,
  from which a question takes one connection for one statement and returns it.
- The loop of the evaluation counts passes of a list of questions.

## Plan

- EiaFetch: a fetch in one step as an abstract specification of the paged fetch
  on a quiet feed, which Ingest takes for granted. What it would promise is
  proved as `PagingSkipsNothing`, `ShortFetchHasAll` and `QuietSumsAreExact`.
- Should rows of generation be read in the order of a listing that is not stable
  within an hour, EiaFetch needs an order of the rows per answer.
