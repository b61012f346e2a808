SPECIFICATION Spec
CONSTANTS
  c1 = c1
  c2 = c2
  r1 = r1
  r2 = r2
  None = None
  Replicas = {r1, r2}
  Syncers = {c1, c2}
  StoreOf <- OneStoreEach
  Bodies = {x, y}
  BatchSize = 2
  MaximumRounds = 2
  MaxSequence = 2
  MaxLate = 1
SYMMETRY BodySymmetry
INVARIANTS SyncInvariant ConfirmedTogether
PROPERTIES ImplementsReplication
CHECK_DEADLOCK FALSE
