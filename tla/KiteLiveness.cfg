CONSTANTS
  a = a
  b = b
  sbin = sbin
  infy = infy
  NoId = NoId
  Ids = {a}
  Symbols = {sbin}
  SymbolOf <- OneSignal
  DirOf <- Long
  QtyOf <- One
  OrderIds = {1,2,3}
  GttIds = {1,2}
  Retries = 1
  PollBudget = 1
  Faults = {"crash", "lost_reply", "api_error"}
  MaxFaults = 1
SPECIFICATION FairSpec
PROPERTIES
  EntryResolved
  ExitBooked
