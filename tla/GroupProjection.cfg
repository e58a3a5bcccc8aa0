SPECIFICATION FairSpec
CONSTANTS
  w1 = w1
  w2 = w2
  NoOne = NoOne
  Worker = {w1, w2}
  MaxVersion = 2
  Flags <- OpenThenAnnounce
  IntentAttempts = 2
  RefreshAttempts = 2
  MaxEvents = 4
INVARIANTS TypeOK
PROPERTIES EventsCoalesce ReadsNeverRegress RefreshNeverRevives IntentSettles InvalidationSettles
CHECK_DEADLOCK FALSE
