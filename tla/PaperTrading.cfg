SPECIFICATION Spec
CONSTANTS
  Prices <- MCPrices
  Days <- MCDays
  TradingDays <- MCDays
  DayLength = 4
  MarketHours <- MCHours
  Basis = 10
  SlippageBps = 1
  Steps = 2
  Settings <- MCSettings
  NoPosition = NoPosition
  NoSignal = NoSignal
  NoOverride = NoOverride
  MaxBars = 3
  MaxKills = 1
INVARIANTS
  LossBounded
  ExitsHonoured
  EntriesInHours
  SizedWithinRules
  OneFillAfterKill
\* The feed ends after MaxBars bars.
CHECK_DEADLOCK FALSE
