--------------------------- MODULE BacktestMetrics ---------------------------
(***************************************************************************)
(* The metrics of backtest/metrics.py that are computed by a scan over the *)
(* trades or the equity curve.  A percentage is kept as its fraction, a    *)
(* part of a base; ratios of floats (Sharpe, Sortino, CAGR) are left out.  *)
(***************************************************************************)
EXTENDS Integers, Sequences, FiniteSets, SequencesExt, FiniteSetsExt

SumPnl(trades, places) == MapThenSumSet(LAMBDA n : trades[n].pnl, places)

\* _build_summary and the counts of compute_performance_metrics
TotalPnl(trades) == SumPnl(trades, DOMAIN trades)
GrossProfit(trades) == SumPnl(trades, {n \in DOMAIN trades : trades[n].pnl > 0})
GrossLoss(trades) == -SumPnl(trades, {n \in DOMAIN trades : trades[n].pnl < 0})

Share(part, base) == [part |-> part, base |-> base]

\* portfolio_values
PortfolioValues(equity, capital) ==
  IF equity = <<>> THEN <<capital>> ELSE [i \in DOMAIN equity |-> capital + equity[i]]

\* The running peak, and a fall as a share of it: none, of a peak worth nothing.
Higher(peak, v) == IF v > peak THEN v ELSE peak
ShareOfPeak(fall, peak) == IF peak > 0 THEN Share(fall, peak) ELSE Share(0, 1)

\* max_drawdown: the deepest fall, and its share of the peak before it.
Deepest(acc, v) ==
  LET peak == Higher(acc.peak, v)
  IN  IF peak - v > acc.fall
        THEN [peak |-> peak, fall |-> peak - v, share |-> ShareOfPeak(peak - v, peak)]
        ELSE [acc EXCEPT !.peak = peak]
MaxDrawdown(values) ==
  FoldLeft(Deepest, [peak |-> values[1], fall |-> 0, share |-> ShareOfPeak(0, values[1])], values)

\* drawdown_series: the fall of each bar, as a share of the running peak.
Falls(acc, v) ==
  LET peak == Higher(acc.peak, v)
  IN  [peak |-> peak, out |-> Append(acc.out, ShareOfPeak(peak - v, peak))]
DrawdownSeries(values) == FoldLeft(Falls, [peak |-> values[1], out |-> <<>>], values).out

\* One more of what is counted, or the end of the stretch.
Streak(acc, counts) ==
  IF counts
    THEN [acc EXCEPT !.current = @ + 1,
                     !.longest = IF acc.current + 1 > @ THEN acc.current + 1 ELSE @]
    ELSE [acc EXCEPT !.current = 0]

\* longest_drawdown_bars
BelowPeak(acc, v) == [Streak(acc, v < acc.peak) EXCEPT !.peak = Higher(@, v)]

\* Mutant: a bar back at the peak does not end the stretch.
AtOrBelowPeak(acc, v) == [Streak(acc, v <= acc.peak) EXCEPT !.peak = Higher(@, v)]
LongestDrawdownStrict(values) ==
  FoldLeft(AtOrBelowPeak, [peak |-> values[1], longest |-> 0, current |-> 0], values).longest

LongestDrawdown(values) ==
  FoldLeft(BelowPeak, [peak |-> values[1], longest |-> 0, current |-> 0], values).longest

\* max_consecutive: a trade that neither wins nor loses ends a run of either.
Matches(t, winning) == IF winning THEN t.pnl > 0 ELSE t.pnl < 0
MaxConsecutive(trades, winning) ==
  FoldLeft(LAMBDA acc, t : Streak(acc, Matches(t, winning)),
           [current |-> 0, longest |-> 0], trades).longest

\* exposure_pct, before the division by the number of bars
HeldFor(t) == IF t.exitBar >= t.entryBar THEN t.exitBar - t.entryBar + 1 ELSE 1
HeldBars(trades) == FoldLeft(LAMBDA sum, t : sum + HeldFor(t), 0, trades)

\* monthly_returns: each month's gain as a share of the last one's end, the
\* first's of the capital; no return on a base of zero.  month[i] is the month of
\* bar i, a number, since zero-padded keys sort as dates do.
MonthlyReturns(equity, month, capital) ==
  LET months == {month[i] : i \in DOMAIN equity}
      end(m) == capital + equity[Max({i \in DOMAIN equity : month[i] = m})]
      earlier(m) == {n \in months : n < m}
      base(m) == IF earlier(m) = {} THEN capital ELSE end(Max(earlier(m)))
  IN  [m \in months |->
         IF base(m) # 0 THEN Share(end(m) - base(m), base(m)) ELSE Share(0, 1)]
=============================================================================
