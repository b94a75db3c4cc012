CONSTANTS
  p = p
  q = q
  m = m
  n = n
  k = k
  tcs = tcs
  infy = infy
  Clients = {c1, c2}
  Requests <- Sent
  Paths = {p, q}
  DefaultPath = p
  Models = {m, n}
  DefaultModel = m
  Keys = {k}
  Symbols = {tcs, infy}
  Example = {tcs}
  Popular = {tcs, infy}
  Missing = Missing
  Empty = Empty
  Unset = Unset
  Blank = Blank
  Nobody = Nobody
  Invalid = Invalid
  Refused = Refused
  MaxRequests = 3
  MaxDisturbances = 1
SPECIFICATION FairSpec
INVARIANTS
  SettingsTellFiles
  UpdatesKept
  WholeConfigs
  StampTellsRows
PROPERTIES
  KillServed
CHECK_DEADLOCK FALSE
