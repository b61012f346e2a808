SPECIFICATION Spec
CONSTANTS
  k1 = k1
  k2 = k2
  v1 = v1
  v2 = v2
  id1 = id1
  id2 = id2
  a1 = a1
  t1 = t1
  NoRecord = NoRecord
  None = None
  Keys = {k1, k2}
  Values = {v1, v2}
  Actors = {a1}
  Instants = {t1}
  OperationIds = {id1, id2}
  RecordsPerSnapshot = 2
  ChangeSets <- OneChangeSet
  Clients = {c1, c2}
  Synchronizers = {c1, c2}
  Bindings = {}
  WorkingBindings = {}
  Remotes = {}
  Bundles <- NoBundles
  Verifiers = {c1}
  MaxSequence = 2
INVARIANTS VerificationSound
CHECK_DEADLOCK FALSE
