SPECIFICATION FairSpec
CONSTANTS
  j1 = j1
  j2 = j2
  s1 = s1
  w1 = w1
  w2 = w2
  NoJob = NoJob
  Job = {j1, j2}
  Session = {s1}
  Worker = {w1}
  SessionOf <- OneSession
  DryRun = {j2}
  StartDelays = {0, 1}
  ClaimLimit = 1
  StaleTTL = 1
  ProcessingTTL = 2
  AcquireTTL = 2
  SendTTL = 2
  VerifyGap = 0
  PostTimeout = 1
  MaxFaults = 2
PROPERTY ProcessingSettles
