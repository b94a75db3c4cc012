CONSTANTS
  tcs = tcs
  infy = infy
  ema = ema
  macd = macd
  bad = bad
  ghost = ghost
  Clients = {c1, c2}
  Nobody = Nobody
  Symbols = {tcs, infy}
  Universe <- MCUniverse
  Tokens = {tcs}
  Names = {ema, macd, bad, ghost}
  Buildable = {ema, macd}
  Combined = Combined
  Synthetic <- MCSynthetic
  Formulas <- MCFormulas
  DefaultFormula <- MCDefault
  Sweeps <- MCSweeps
  Requests <- Sent
  Stored <- MCStored
  Times = {1, 2, 3}
  BarMinutes = 1
  IntervalMinutes = 1
  Lost = {2}
  Quote <- MCQuote
  MinBars = 2
  NoValue = NoValue
  Ballots <- MCBallots
  Abstains = Abstains
  Schemas <- MCSchemas
  Proposals <- MCProposals
  NaN = NaN
  MaxItems = 2
  MaxRequests = 2
  MaxCrashes = 1
SYMMETRY Symmetry
SPECIFICATION Spec
INVARIANTS
  GroupsComparable
  RunsUseFetchedBars
  PicksMeetFormula
  AdviceInBounds
  CompositeFollowsChildren
CHECK_DEADLOCK FALSE
