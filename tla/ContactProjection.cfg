SPECIFICATION FairSpec
CONSTANTS
  p1 = p1
  ob = ob
  r1 = r1
  None = None
  Identity = {1, 2, 3, 4}
  TypeOf <- Types
  Derived <- Phones
  Member = {2, 5}
  IdentityOf <- Rows
  Legacy = {5}
  Sender = {2}
  PushName = {"n1", "n2"}
  GroupName = {}
  Snapshot <- Contacts
  Generations <- LinkedThenShared
  Resolver = {r1}
  Projector = {p1}
  Observer = ob
  BatchSize = 1
  MaxBatches = 2
  ScanLimit = 2
  MaxAttempts = 2
  MaxEvents = 2
CHECK_DEADLOCK FALSE
INVARIANTS TypeOK ProjectionCurrent ResolvedPhonesDistinct
PROPERTY QueueSettles
