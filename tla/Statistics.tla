----------------------------- MODULE Statistics -----------------------------
(***************************************************************************)
(* What /v1/carbon/savings and /v1/ai/insights compute from the history of *)
(* a region: a function from ingested hours to gco2_per_kwh, in hundredths *)
(* of a gram.                                                              *)
(***************************************************************************)
EXTENDS Rounding, FiniteSetsExt

CONSTANTS
  HoursPerDay,
  UtcOffset,  \* hour -> offset of the region's time zone in that hour
  KwhScale,   \* 1 kWh in units of the parameter kwh
  MinRows     \* rows that insights need: 6 in the code

ASSUME UnitsArePositive == {HoursPerDay, KwhScale} \subseteq Nat \ {0}
ASSUME RowsCanBeHalved == MinRows \in Nat \ {0, 1}

SumOf(history, hours) == MapThenSumSet(LAMBDA t : history[t], hours)

-----------------------------------------------------------------------------
(* compute_savings *)

LocalHour(t) == (t + UtcOffset[t]) % HoursPerDay

Bucket(history, hour) == {t \in DOMAIN history : LocalHour(t) = hour}

AverageIn(history, hour) ==
  RoundDiv(SumOf(history, Bucket(history, hour)), Cardinality(Bucket(history, hour)))

Co2(history, kwh, hour) == RoundDiv(AverageIn(history, hour) * kwh, KwhScale)

SavedOfTo(from, to) ==  \* mutant: per cent of what is left
  IF to > 0 THEN RoundDiv(1000 * (from - to), to) ELSE 0

(* savings_pct, in tenths of a per cent                                    *)
Saved(from, to) == IF from > 0 THEN RoundDiv(1000 * (from - to), from) ELSE 0

Savings(history, kwh, from, to) ==
  IF DOMAIN history = {} THEN [status |-> "503"]
  ELSE IF Bucket(history, from) = {} \/ Bucket(history, to) = {} THEN [status |-> "422"]
  ELSE LET a == Co2(history, kwh, from)
           b == Co2(history, kwh, to)
       IN  [status |-> "200", fromCo2 |-> a, toCo2 |-> b, savings |-> a - b, pct |-> Saved(a, b)]

-----------------------------------------------------------------------------
(* compute_stats *)

Lowest(S, n) == {t \in S : Cardinality({u \in S : u < t}) < n}
Highest(S, n) == {t \in S : Cardinality({u \in S : u > t}) < n}

OldestRows(history, hours) == Lowest(DOMAIN history, hours)  \* mutant: ORDER BY period
Rows(history, hours) == Highest(DOMAIN history, hours)

(* The mean of hundredths, in tenths.                                      *)
MeanOf(history, S) == RoundDiv(SumOf(history, S), 10 * Cardinality(S))

(* argmin and argmax: the first of equals.                                 *)
Lightest(history, S) == Min({t \in S : \A u \in S : history[t] <= history[u]})
Heaviest(history, S) == Min({t \in S : \A u \in S : history[t] >= history[u]})

Constant(series, S) == \A t, u \in S : series[t] = series[u]

(* `renewable` is the history of renewable shares.  The correlation is 0   *)
(* by definition when the shares are constant, and NaN, which JSON cannot  *)
(* carry, when only the intensities are.                                   *)
Stats(history, renewable, hours) ==
  LET rows == Rows(history, hours)
      n == Cardinality(rows)
      first == Lowest(rows, n \div 2)
      second == rows \ first
      trend == RoundDiv(SumOf(history, second) * Cardinality(first)
                          - SumOf(history, first) * Cardinality(second),
                        10 * Cardinality(first) * Cardinality(second))
  IN  IF n < MinRows THEN [status |-> "503"]
      ELSE IF Constant(history, rows) /\ ~Constant(renewable, rows) THEN [status |-> "500"]
      ELSE [status |-> "200", window |-> n, mean |-> MeanOf(history, rows),
            min |-> RoundDiv(history[Lightest(history, rows)], 10),
            max |-> RoundDiv(history[Heaviest(history, rows)], 10),
            minPeriod |-> Lightest(history, rows), maxPeriod |-> Heaviest(history, rows),
            firstMean |-> MeanOf(history, first), secondMean |-> MeanOf(history, second),
            trendDelta |-> trend]
=============================================================================
