------------------------------ MODULE Backtest ------------------------------
(***************************************************************************)
(* The engine and the metrics of its result, against definitions that look *)
(* at a whole walk at once: which trades a list of signals amounts to on a *)
(* list of bars, and what each metric means.                               *)
(***************************************************************************)
EXTENDS BacktestEngine, BacktestMetrics, FiniteSets, FiniteSetsExt

CONSTANTS Capital,       \* initial_capital, in the engine's units of money
          Months         \* the month of each bar of the frame

ASSUME CapitalAssumption == Capital \in Int
\* A frame's bars are sorted by time.
ASSUME MonthsAssumption ==
  /\ Months \in [1 .. NumBars -> Nat]
  /\ \A i, j \in 1 .. NumBars : i <= j => Months[i] <= Months[j]

-----------------------------------------------------------------------------
(* The trades of a walk, by signal                                         *)

\* The bars whose signal has been filled: at the open of the next bar.
Orders == {k \in 1 .. Bar - 1 : said[k] # None}
Later(k) == {n \in Orders : n > k}

\* An order's life within bars: until the next order, whose fill replaces it.
LastBar(k) == IF Later(k) = {} THEN Bar ELSE Min(Later(k))
Touches(k) ==
  {j \in k + 1 .. LastBar(k) :
     \/ rows[j].low <= said[k].stop /\ said[k].side = "LONG"
     \/ rows[j].high >= said[k].target /\ said[k].side = "LONG"
     \/ rows[j].high >= said[k].stop /\ said[k].side = "SHORT"
     \/ rows[j].low <= said[k].target /\ said[k].side = "SHORT"}

Sign(k) == IF said[k].side = "LONG" THEN 1 ELSE -1
Qty(k) == IF said[k].qty = None THEN DefaultQty ELSE said[k].qty
EntryPrice(k) == rows[k + 1].open * (100 + Sign(k) * SlippagePct)

LeftAt(k, bar, level, reason) ==
  LET exit == level * (100 - Sign(k) * SlippagePct)
      fees == CommissionPct * (EntryPrice(k) + exit) * Qty(k)
  IN  [side |-> said[k].side, entry |-> EntryPrice(k), exit |-> exit, qty |-> Qty(k),
       entryBar |-> k + 1, exitBar |-> bar, reason |-> reason,
       pnl |-> 100 * Sign(k) * (exit - EntryPrice(k)) * Qty(k) - fees, fees |-> fees]

\* A bar that reaches both levels is taken for the stop.
StopTouched(k, j) ==
  IF said[k].side = "LONG" THEN rows[j].low <= said[k].stop ELSE rows[j].high >= said[k].stop
TradeOf(k) ==
  IF Touches(k) # {}
    THEN LET j == Min(Touches(k))
         IN  IF StopTouched(k, j) THEN LeftAt(k, j, said[k].stop, "stop_loss")
             ELSE LeftAt(k, j, said[k].target, "target")
    ELSE LeftAt(k, LastBar(k) + 1, rows[LastBar(k) + 1].open, "signal_reverse")

Left == {k \in Orders : Touches(k) # {} \/ Later(k) # {}}

\* Bar by bar, the engine makes exactly the trades its signals amount to: each
\* signal is filled at the next open, costs included, and left at its first
\* touch of a level or at the open that fills the next one; what is not left
\* is the open position.
TradesAreFirstTouch ==
  /\ Len(closed) = Cardinality(Left)
  /\ ToSet(closed) = {TradeOf(k) : k \in Left}
  /\ IF Orders = Left THEN position = None
     ELSE LET k == CHOOSE n \in Orders \ Left : TRUE
          IN  /\ Orders \ Left = {k}
              /\ position # None /\ position.entryBar = k + 1
              /\ position.entry = EntryPrice(k)

\* The two books agree: the curve, kept as the walk goes, is at each bar the sum
\* of the trades left by then, and its end the summary's total and the gross
\* profit less the gross loss.
EquityTellsTrades ==
  /\ \A i \in 1 .. Bar :
       equity[i] = SumPnl(closed, {n \in DOMAIN closed : closed[n].exitBar <= i})
  /\ realized = TotalPnl(closed)
  /\ realized = GrossProfit(closed) - GrossLoss(closed)

-----------------------------------------------------------------------------
(* The metrics                                                             *)

\* The stretches of bars strictly below an earlier high of the curve.
Underwater(i) == \E j \in 1 .. i : equity[j] > equity[i]
Stretches == {p \in (1 .. Bar) \X (1 .. Bar) :
                p[1] <= p[2] /\ \A k \in p[1] .. p[2] : Underwater(k)}
Runs(Good(_)) == {p \in (1 .. Len(closed)) \X (1 .. Len(closed)) :
                    p[1] <= p[2] /\ \A k \in p[1] .. p[2] : Good(closed[k])}
LengthOf(S) == Max({0} \cup {p[2] - p[1] + 1 : p \in S})

\* exposure_pct counts the bar of a reversal for both of its trades, although its
\* comment says no bar is counted twice.
HeldBy(t) == t.entryBar .. t.exitBar
SharedBars == {n \in 1 .. Len(closed) - 1 : closed[n].exitBar = closed[n + 1].entryBar}

\* The metrics' scans compute what they are named for: the deepest fall of the
\* curve from an earlier high, which is that of some bar of the underwater curve,
\* where the curve of a peak above zero shows it; the longest stretch below a high;
\* the longest run of winners and of losers; the bars held; and monthly gains that
\* add up to the whole, as monthly_returns promises, unless the run or one of its
\* months starts with nothing.
MetricsMeanTheirNames ==
  LET values == PortfolioValues(equity, Capital)
      series == DrawdownSeries(values)
      worst == MaxDrawdown(values)
  IN
  Bar > 0 =>
    /\ worst.fall = Max(UNION {{equity[i] - equity[j] : i \in 1 .. j} : j \in 1 .. Bar})
    /\ worst.share \in ToSet(series)
    /\ \A i \in 1 .. Bar :
         series[i].part > 0 <=> Underwater(i) /\ \E j \in 1 .. i : values[j] > 0
    /\ LongestDrawdown(values) = LengthOf(Stretches)
    /\ MaxConsecutive(closed, TRUE) = LengthOf(Runs(LAMBDA t : t.pnl > 0))
    /\ MaxConsecutive(closed, FALSE) = LengthOf(Runs(LAMBDA t : t.pnl < 0))
    /\ HeldBars(closed) =
         Cardinality(UNION {HeldBy(closed[n]) : n \in DOMAIN closed}) + Cardinality(SharedBars)
    /\ (Capital # 0 /\ \A i \in 1 .. Bar : values[i] # 0) =>
         FoldFunction(LAMBDA r, sum : r.part + sum, 0, MonthlyReturns(equity, Months, Capital))
           = equity[Bar]
=============================================================================
