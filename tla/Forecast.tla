------------------------------ MODULE Forecast ------------------------------
(***************************************************************************)
(* The forecast around its model: which hours it is fitted on, tested with *)
(* and asked for, and how its points are cut, rounded and ranked.  What    *)
(* the model predicts is an input: a frame, hour after hour a mean and the *)
(* ends of an interval around it, in hundredths of a gram.                 *)
(*                                                                         *)
(* Positions in a series count from 0, as in pandas.                       *)
(***************************************************************************)
EXTENDS Rounding, FiniteSetsExt, SequencesExt

CONSTANTS
  MinHistory,  \* MIN_HISTORY_HOURS
  Season       \* SEASONAL_PERIODS

(* A series of the least length is longer than two seasons, also without   *)
(* its last fifth.                                                         *)
ASSUME HistoryIsLong ==
  /\ {MinHistory, Season} \subseteq Nat \ {0}
  /\ MinHistory > 2 * Season /\ MinHistory - MinHistory \div 5 >= 2 * Season

(* _load_series: from the first to the last row, gaps filled.              *)
Enough(rows) == Cardinality(rows) >= MinHistory
SeriesLength(rows) == Max(rows) - Min(rows) + 1

(* get_prediction(start=len(series), end=len(series) + horizon - 1)        *)
Predicted(length, horizon) == length .. (length + horizon - 1)

Lower(a, b) == IF a < b THEN a ELSE b
Higher(a, b) == IF a > b THEN a ELSE b

HoldoutOfHorizon(length, horizon) == horizon  \* mutant: not more than asked for
Holdout(length, horizon) == Lower(horizon, Higher(1, length \div 5))

(* iloc[:-holdout] and iloc[-holdout:]                                     *)
Train(length, holdout) == 0 .. (length - holdout - 1)
Test(length, holdout) == (length - holdout) .. (length - 1)

(* _backtest: the positions its prediction is for beside those it is       *)
(* compared with.                                                          *)
Backtest(length, horizon) ==
  LET holdout == Holdout(length, horizon)
      train == Train(length, holdout)
  IN  [train |-> Cardinality(train), holdout |-> holdout,
       predicted |-> Predicted(Cardinality(train), holdout), actual |-> Test(length, holdout)]

Shown(x) == RoundDiv(Higher(x, 0), 10)

(* _frame_to_points                                                        *)
Points(rows, frame) ==
  [i \in DOMAIN frame |->
     [period |-> Min(rows) + Min(Predicted(SeriesLength(rows), Len(frame))) + i - 1,
      mean |-> Shown(frame[i].mean), lower |-> Shown(frame[i].lower),
      upper |-> Shown(frame[i].upper)]]

(* sorted() keeps the order of equals.                                     *)
Place(points, i) ==
  Cardinality({j \in DOMAIN points :
                 \/ points[j].mean < points[i].mean
                 \/ points[j].mean = points[i].mean /\ j <= i})

RankedPoints(points) ==
  LET places == {<<Place(points, i), i>> : i \in DOMAIN points}
  IN  [k \in DOMAIN points |-> points[(CHOOSE at \in places : at[1] = k)[2]]]

PotentialSavings(cleanest, dirtiest) ==
  IF dirtiest.mean > 0 THEN RoundDiv(1000 * (dirtiest.mean - cleanest.mean), dirtiest.mean) ELSE 0

ForecastOf(rows, horizon, frame) ==
  IF ~Enough(rows) THEN [status |-> "503"]
  ELSE [status |-> "200", trainedThrough |-> Max(rows),
        backtest |-> Backtest(SeriesLength(rows), horizon), points |-> Points(rows, frame)]

CleanestHour(rows, frame) ==
  LET ranked == RankedPoints(Points(rows, frame))
  IN  IF ~Enough(rows) THEN [status |-> "503"]
      ELSE [status |-> "200", ranked |-> ranked, cleanest |-> ranked[1],
            dirtiest |-> Last(ranked), pct |-> PotentialSavings(ranked[1], Last(ranked))]
=============================================================================
