SPECIFICATION FairSpec
CONSTANTS
  s = s
  a1 = a1
  a2 = a2
  w1 = w1
  w2 = w2
  NoOne = NoOne
  Event = {s, a1, a2}
  Worker = {w1, w2}
  KindOf <- Kinds
  OccurredAt <- Times
  Value <- SessionValues
  ValueOf <- Values
  AckOf <- Acknowledgements
  Snapshot <- SessionsAround
  Together <- StatusOrAcknowledgements
  MaxAttempts = 2
  MaxFaults = 1
INVARIANTS TypeOK AppliedOnce LatestShown AckKept
PROPERTY WebhookSettles
