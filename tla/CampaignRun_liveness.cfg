SPECIFICATION FairSpec
CONSTANTS
  r1 = r1
  r2 = r2
  g1 = g1
  g2 = g2
  w1 = w1
  w2 = w2
  op = op
  NoOne = NoOne
  NoRun = NoRun
  Run = {r1}
  Group = {g1}
  Worker = {w1}
  Operator = {}
  MaxAttempts = 2
  MaxBuffered = 1
  LiveEnabled = TRUE
  Acks = {"READ", "FAILED"}
  MaxRevision = 1
  MaxFaults = 1
INVARIANT SnapshotNotOlder
PROPERTIES PreparationSettles RunSettles
