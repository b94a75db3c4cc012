------------------------------ MODULE Screener ------------------------------
(***************************************************************************)
(* The screener's formulas and their evaluation: screener/schema.py,       *)
(* screener/registry.py and screener/evaluator.py.                         *)
(*                                                                         *)
(* Values are fractions, so that an average or a percentage is compared    *)
(* exactly.  Of the whitelist, close and sma are here; the others differ   *)
(* in their arithmetic only.  A value that raises, and a NaN, is NoValue.  *)
(***************************************************************************)
EXTENDS Candles, Sequences, Functions

CONSTANTS MinBars,    \* evaluate's min_bars
          NoValue

Whole(n) == <<n, 1>>
Ops == {">", "<", ">=", "<=", "=="}

\* _compare, of fractions with positive denominators.
Compare(a, op, b) ==
  LET x == a[1] * b[2]
      y == b[1] * a[2]
  IN  CASE op = ">" -> x > y
        [] op = "<" -> x < y
        [] op = ">=" -> x >= y
        [] op = "<=" -> x <= y
        [] op = "==" -> x = y

LastCandle(bars) == bars[Latest(bars)]

\* The sum of a column over some bars, and its mean over the newest n.
SumOf(column, bars) == FoldFunction(LAMBDA c, sum : c[column] + sum, 0, bars)
Mean(column, bars, n) ==
  IF Cardinality(DOMAIN bars) < n THEN NoValue
  ELSE <<SumOf(column, Newest(bars, n)), n>>

\* resolve_indicator_value: a name that is not in the whitelist, a parameter the
\* indicator does not take, and a window longer than the bars have no value.
Resolve(i, bars) ==
  CASE i.name = "close" -> Whole(LastCandle(bars).close)
    [] i.name = "sma" /\ i.period >= 1 -> Mean("close", bars, i.period)
    [] OTHER -> NoValue

\* The close n bars before the last one.
Prior(bars, n) == LET B == Newest(bars, n + 1) IN B[Min(DOMAIN B)].close

\* The two sides of a filter's comparison.
Left(f, bars) ==
  CASE f.type = "indicator" -> Resolve(f.indicator, bars)
    [] f.type = "volume" -> Whole(LastCandle(bars).volume)
    [] f.type = "price_change" ->
         IF Cardinality(DOMAIN bars) <= f.window \/ Prior(bars, f.window) = 0 THEN NoValue
         ELSE <<(LastCandle(bars).close - Prior(bars, f.window)) * 100, Prior(bars, f.window)>>

TimesAverage(f, bars) ==
  LET mean == Mean("volume", bars, f.window)
  IN  IF mean = NoValue \/ mean[1] = 0 THEN NoValue ELSE <<mean[1] * f.times, mean[2]>>

Right(f, bars) ==
  CASE f.type = "indicator" /\ f.compare -> Resolve(f.other, bars)
    [] f.type = "volume" /\ f.average -> TimesAverage(f, bars)
    [] OTHER -> Whole(f.value)

\* _evaluate_filter
Matches(f, bars) ==
  LET l == Left(f, bars)
      r == Right(f, bars)
  IN  l # NoValue /\ r # NoValue /\ Compare(l, f.op, r)

\* Mutant: too few bars are no reason to skip a symbol.
EvaluableAny(bars) == DOMAIN bars # {}

\* _symbol_is_evaluable
Evaluable(bars) == Cardinality(DOMAIN bars) >= MinBars

\* evaluate: the symbols whose candles pass every filter.
Evaluate(filters, candles) ==
  {s \in DOMAIN candles :
     Evaluable(candles[s]) /\ \A i \in DOMAIN filters : Matches(filters[i], candles[s])}
=============================================================================
