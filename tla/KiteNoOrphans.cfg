CONSTANTS
  a = a
  b = b
  sbin = sbin
  infy = infy
  NoId = NoId
  Ids = {a, b}
  Symbols = {sbin, infy}
  SymbolOf <- TwoSymbols
  DirOf <- LongShort
  QtyOf <- One
  OrderIds = {1,2,3}
  GttIds = {1,2}
  Retries = 1
  PollBudget = 2
  Faults = {"new_day"}
  MaxFaults = 1
SPECIFICATION Spec
INVARIANTS
  TrackedOwn
  NoOrphanEntry
  NoOrphanGtt
  EnteredProtected
  FlattenDisarms
