SPECIFICATION Spec
CONSTANTS
  Prices <- MCPrices
  Days <- MCDays
  TradingDays <- MCDays
  DayLength = 4
  MarketHours <- MCHours
  Basis = 10
  SlippageBps = 1
  Steps = 2
  Settings <- MCOneSetting
  NoPosition = NoPosition
  NoSignal = NoSignal
  NoOverride = NoOverride
  MaxBars = 4
  MaxKills = 0
INVARIANTS
  DailyIsToday
\* The feed ends after MaxBars bars.
CHECK_DEADLOCK FALSE
