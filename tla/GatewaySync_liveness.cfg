SPECIFICATION FairSpec
CONSTANTS
  r1 = r1
  r2 = r2
  g1 = g1
  g2 = g2
  w1 = w1
  w2 = w2
  NoOne = NoOne
  Tick = Tick
  Run = {r1, r2}
  Group = {g1}
  Worker = {w1}
  Mode = {"INCREMENTAL"}
  Listing <- AllOrNone
  MaxRunAttempts = 2
  MaxItemAttempts = 2
  MinBaseline = 1
  DropPercent = 60
  Confirmations = 2
  MaxItems = 2
CHECK_DEADLOCK FALSE
PROPERTIES DiscoverySettles ItemsSettle
