SPECIFICATION Spec
CONSTANTS
  Symbols = {AAA, BBB}
  Prices <- MCPrices
  LastMinute = 4
  BucketMinutes = 2
  NoPartial = NoPartial
  MaxTicks = 3
  MaxDrops = 1
  MaxRefusals = 1
INVARIANTS
  BarsAggregateTicks
PROPERTIES
  ImplementsBarStream
  EveryBarDelivered
\* The user disconnects, the ticks are used up.
CHECK_DEADLOCK FALSE
