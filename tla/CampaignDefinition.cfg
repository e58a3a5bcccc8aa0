SPECIFICATION Spec
CONSTANTS
  u1 = u1
  u2 = u2
  g1 = g1
  g3 = g3
  None = None
  Client = {u1, u2}
  Campaign = {1, 2}
  List = {1, 2}
  Key = {"k"}
  ListKey = {"lk"}
  RunKey = {"r"}
  Group = {g1, g3}
  Known = {g1}
  Text = {"a", "b"}
  Name = {"n"}
  MaxTime = 1
  MaxChanges = 5
SYMMETRY Symmetric
CHECK_DEADLOCK FALSE
INVARIANTS TypeOK ProvenanceHonest RunsWhatWasReviewed
PROPERTIES EditsWhatWasSeen TombstoneFinal
