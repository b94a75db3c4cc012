CONSTANTS
  ema = ema
  macd = macd
  ghost = ghost
  tcs = tcs
  infy = infy
  fast = fast
  slow = slow
  signal = signal
  None = None
  Nobody = Nobody
  Clients = {c1, c2}
  Symbols = {tcs, infy}
  Ids = {ema, macd, ghost}
  Strategies = {ema, macd}
  Params = {fast, slow, signal}
  Values = {1, 2}
  Accepts <- MCAccepts
  Plans <- MCPlans
  MaxReviews = 2
  MaxPages = 1
  MaxCrashes = 1
SPECIFICATION Spec
INVARIANTS
  OnlyAppliedInForce
  ParamsAccepted
PROPERTIES
  DisabledStays
CHECK_DEADLOCK FALSE
