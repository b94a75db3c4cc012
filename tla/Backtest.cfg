SPECIFICATION Spec
CONSTANTS
  NumBars = 4
  Rows <- MCRows
  Levels <- MCLevels
  Quantities = {2}
  DefaultQty = 1
  CommissionPct = 1
  SlippagePct = 2
  None = None
  Capital = 80000
  Months <- MCMonths
INVARIANTS
  TradesInSequence
  TradesAreFirstTouch
  EquityTellsTrades
  MetricsMeanTheirNames
\* The frame ends.
CHECK_DEADLOCK FALSE
