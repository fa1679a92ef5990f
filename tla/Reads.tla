-------------------------------- MODULE Reads --------------------------------
(***************************************************************************)
(* One reading request or evaluation at a time, each answered from what    *)
(* its single query returned: the pure parts of the system, over bounded   *)
(* inputs.                                                                 *)
(***************************************************************************)
EXTENDS ZipLookup, Statistics, Forecast, EvalMatch

CONSTANTS
  Lookup,       \* bound: <<zip, region>>
  History,      \* bound: histories of intensities
  Renewable,    \* bound: histories of renewable shares beside them
  Kwh,          \* bound: values of the parameter kwh
  Window,       \* bound: values of the parameter hours
  Ingested,     \* bound: sets of hours with rows, for forecasts
  Horizon,      \* bound: values of the parameter horizon
  Frames(_),    \* bound: horizon -> frames the model may predict
  Results       \* bound: <<got, expected>>

(* A ZIP code is five digits; here it only has to be a number.             *)
ASSUME ZipsAreNumbers == \A l \in Lookup : l[1] = Absent \/ l[1] \in Nat

(* Intensities are not negative: SharesAreShares of module Ingest.         *)
ASSUME HistoriesAreFinite ==
  \A h \in History :
    /\ IsFiniteSet(DOMAIN h) /\ DOMAIN h \subseteq Int
    /\ \A t \in DOMAIN h : h[t] \in Nat /\ UtcOffset[t] \in Int

ASSUME ParametersAreValid ==
  Kwh \subseteq Nat \ {0} /\ Window \subseteq Nat /\ Horizon \subseteq Nat \ {0}

ASSUME IngestedIsFinite == \A rows \in Ingested : IsFiniteSet(rows) /\ rows \subseteq Int

(* An interval of summary_frame() is around its mean.                      *)
ASSUME FramesHoldMeans ==
  \A horizon \in Horizon : \A frame \in Frames(horizon) :
    /\ frame \in [1..horizon -> [mean : Int, lower : Int, upper : Int]]
    /\ \A i \in 1..horizon : frame[i].lower <= frame[i].mean /\ frame[i].mean <= frame[i].upper

ASSUME ResultsAreSequences ==
  \A r \in Results : r[1] \in Seq(ToSet(r[1])) /\ r[2] \in Seq(ToSet(r[2]))

VARIABLES
  query,   \* what is asked
  answer   \* what is answered, or Pending

vars == <<query, answer>>

Pending == [status |-> "pending"]
LocalHours == 0 .. (HoursPerDay - 1)

Init ==
  /\ answer = Pending
  /\ \/ \E l \in Lookup :
          query = [kind |-> "resolve", zip |-> l[1], region |-> l[2]]
     \/ \E h \in History, kwh \in Kwh, from, to \in LocalHours :
          query = [kind |-> "savings", history |-> h, kwh |-> kwh, from |-> from, to |-> to]
     \/ \E h \in History, r \in Renewable, hours \in Window :
          query = [kind |-> "insights", history |-> h, renewable |-> r, hours |-> hours]
     \/ \E rows \in Ingested, horizon \in Horizon :
          query = [kind |-> "forecast", rows |-> rows, horizon |-> horizon]
     \/ \E r \in Results :
          query = [kind |-> "match", got |-> r[1], expected |-> r[2]]

Asked(kind) == query.kind = kind /\ answer = Pending

AnswerResolve ==
  /\ Asked("resolve")
  /\ answer' = ResolveRegion(query.zip, query.region)
  /\ UNCHANGED query

AnswerSavings ==
  /\ Asked("savings")
  /\ answer' = Savings(query.history, query.kwh, query.from, query.to)
  /\ UNCHANGED query

AnswerInsights ==
  /\ Asked("insights")
  /\ answer' = Stats(query.history, query.renewable, query.hours)
  /\ UNCHANGED query

(* forecast_region and cleanest_hour; one model answers both here, as both *)
(* fit the same series.                                                    *)
AnswerForecast ==
  /\ Asked("forecast")
  /\ \E frame \in Frames(query.horizon) :
       answer' = [status |-> "200",
                  forecast |-> ForecastOf(query.rows, query.horizon, frame),
                  cleanest |-> CleanestHour(query.rows, frame)]
  /\ UNCHANGED query

AnswerMatch ==
  /\ Asked("match")
  /\ answer' = [status |-> "200", match |-> Matches(query.got, query.expected)]
  /\ UNCHANGED query

Next ==
  AnswerResolve \/ AnswerSavings \/ AnswerInsights \/ AnswerForecast \/ AnswerMatch

Spec == Init /\ [][Next]_vars

-----------------------------------------------------------------------------
(* Properties *)

Answered(kind) == query.kind = kind /\ answer.status = "200"

(* A ZIP code is found exactly if it is curated or a range covers its      *)
(* prefix; its region is the curated one, or the one and only override, or *)
(* the one and only range; it is one that is seeded; only a curated code   *)
(* may claim more than an approximate match, and one that claims an exact  *)
(* match agrees with its prefix (queries.py:44-69, zip_lookup.py:23-107).  *)
ZipsResolve ==
  query.kind = "resolve" /\ query.zip # Absent /\ query.region = Absent /\ answer # Pending =>
    LET p == query.zip \div 100
        base == {range[3] : range \in Containing(PrefixRanges, p)}
        override == {range[3] : range \in Containing(Overrides, p)}
        curated == {entry \in Curated : entry[1] = query.zip}
        byPrefix == IF override # {} THEN override ELSE base
    IN  /\ Cardinality(Containing(PrefixRanges, p)) <= 1
        /\ Cardinality(Containing(Overrides, p)) <= 1
        /\ answer.status = "200" <=> curated # {} \/ byPrefix \ {NotCovered} # {}
        /\ answer.status = "200" =>
             /\ answer.region \in Regions
             /\ curated = {} => answer.region \in byPrefix /\ answer.confidence = "approximate"
             /\ answer.confidence = "exact" => answer.region \in byPrefix

(* Shifting a load to an hour of the day that is at no time dirtier shows  *)
(* no loss, though averages and products are rounded one after another; a  *)
(* percentage has the sign of its saving and is at most 100, and is 0      *)
(* beside a cost only when the cost is below its last digit or the hour    *)
(* shifted from emits nothing; and an ingested hour counts in the average  *)
(* of one local hour, also when the clocks change (queries.py:251-272).    *)
SavingsAreFair ==
  Answered("savings") =>
    LET fromHours == Bucket(query.history, query.from)
        toHours == Bucket(query.history, query.to)
    IN  /\ (\A t \in toHours, u \in fromHours : query.history[t] <= query.history[u])
             => answer.savings >= 0
        /\ answer.savings >= 0 => answer.pct \in 0..1000
        /\ answer.savings < 0 =>
             \/ answer.pct < 0
             \/ answer.fromCo2 = 0
             \/ answer.pct = 0 /\ -1000 * answer.savings < answer.fromCo2
        /\ \A t \in DOMAIN query.history : \E hour \in LocalHours :
             {h \in LocalHours : t \in Bucket(query.history, h)} = {hour}

(* The numbers the model is told to narrate fit together: they are of the  *)
(* newest hours, the means lie between the extremes, the extremes are      *)
(* where they are said to be, and the trend is the difference of the means *)
(* shown up to their last digit; a full window fails only when the         *)
(* correlation is undefined (insights.py:22-59).                           *)
StatsFitTogether ==
  query.kind = "insights" /\ answer # Pending =>
    LET hours == DOMAIN query.history
        window == {t \in hours : Cardinality({u \in hours : u >= t}) <= query.hours}
        Within(x) == answer.min <= x /\ x <= answer.max
    IN  IF answer.status # "200"
          THEN \/ Cardinality(window) < MinRows
               \/ \A t, u \in window : query.history[t] = query.history[u]
          ELSE /\ answer.window = Cardinality(window)
               /\ {answer.minPeriod, answer.maxPeriod} \subseteq window
               /\ \A t \in window :
                    query.history[answer.minPeriod] <= query.history[t]
                      /\ query.history[t] <= query.history[answer.maxPeriod]
               /\ Within(answer.mean) /\ Within(answer.firstMean) /\ Within(answer.secondMean)
               /\ answer.trendDelta - (answer.secondMean - answer.firstMean) \in -1..1

(* A history that is long enough can be fitted, and still without what its *)
(* backtest holds out; the backtest compares predictions with the hours    *)
(* they are for; the points are the `horizon` hours after the last row,    *)
(* within their intervals; and the cleanest hour is the earliest of the    *)
(* cleanest of them (forecast.py:47-59, 76-81, 101-110, 178-195).          *)
ForecastIsUsable ==
  Answered("forecast") /\ answer.forecast.status = "200" =>
    LET f == answer.forecast
        c == answer.cleanest
    IN  /\ f.backtest.train >= 2 * Season
        /\ f.backtest.predicted = f.backtest.actual /\ f.backtest.holdout > 0
        /\ Len(f.points) = query.horizon
        /\ \A i \in DOMAIN f.points :
             /\ f.points[i].period = f.trainedThrough + i
             /\ 0 <= f.points[i].lower
             /\ f.points[i].lower <= f.points[i].mean /\ f.points[i].mean <= f.points[i].upper
             /\ c.cleanest.mean <= f.points[i].mean /\ f.points[i].mean <= c.dirtiest.mean
             /\ f.points[i].mean = c.cleanest.mean => c.cleanest.period <= f.points[i].period
        /\ ToSet(c.ranked) = ToSet(f.points) /\ Len(c.ranked) = Len(f.points)
        /\ c.pct \in 0..1000

Paired(got, expected) ==
  /\ Len(got) = Len(expected)
  /\ \E m \in Injection(DOMAIN expected, DOMAIN got) :
       \A i \in DOMAIN expected : expected[i] \subseteq got[m[i]]

(* A match pairs every expected row with a row of its own; and without     *)
(* extra columns no pairing is overlooked, though rows are taken as they   *)
(* come (run.py:31-45).                                                    *)
MatchIsAPairing ==
  Answered("match") =>
    /\ answer.match => Paired(query.got, query.expected)
    /\ \/ answer.match
       \/ ~Paired(query.got, query.expected)
       \/ \E i \in DOMAIN query.expected, j \in DOMAIN query.got :
            query.expected[i] \subseteq query.got[j] /\ query.expected[i] # query.got[j]
=============================================================================
