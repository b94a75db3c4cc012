CONSTANTS
  a = a
  b = b
  sbin = sbin
  infy = infy
  NoId = NoId
  Ids = {a}
  Symbols = {sbin}
  SymbolOf <- OneSignal
  DirOf <- Long
  QtyOf <- Two
  OrderIds = {1,2,3}
  GttIds = {1,2}
  Retries = 1
  PollBudget = 1
  Faults = {"crash", "lost_reply", "api_error", "gtt_vanish", "new_day", "mark"}
  MaxFaults = 2
SPECIFICATION Spec
INVARIANTS
  GttOnlyAfterFill
  StateBacked
PROPERTIES
  LifecycleSteps
  ImplementsOrderLifecycle
