SPECIFICATION Spec
CONSTANTS
  j1 = j1
  j2 = j2
  s1 = s1
  w1 = w1
  w2 = w2
  NoJob = NoJob
  Job = {j1, j2}
  Session = {s1}
  Worker = {w1, w2}
  SessionOf <- OneSession
  DryRun = {}
  StartDelays = {0}
  ClaimLimit = 1
  StaleTTL = 1
  ProcessingTTL = 2
  AcquireTTL = 2
  SendTTL = 3
  VerifyGap = 1
  PostTimeout = 1
  MaxFaults = 1
SYMMETRY Symmetric
INVARIANTS AtMostOnePost SendsSerialized OutcomeHonest
PROPERTY Lifecycle
