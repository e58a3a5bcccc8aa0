SPECIFICATION FairSpec
CONSTANTS
  r1 = r1
  r2 = r2
  g1 = g1
  g2 = g2
  w1 = w1
  w2 = w2
  NoOne = NoOne
  Tick = Tick
  Run = {r1}
  Group = {g1, g2}
  Worker = {w1, w2}
  Mode = {"INCREMENTAL"}
  Listing <- Whole
  MaxRunAttempts = 1
  MaxItemAttempts = 2
  MinBaseline = 2
  DropPercent = 60
  Confirmations = 2
  MaxItems = 2
CHECK_DEADLOCK FALSE
PROPERTY ParentFinalized
