SPECIFICATION FairSpec
CONSTANTS
  k1 = k1
  k2 = k2
  v1 = v1
  v2 = v2
  id1 = id1
  id2 = id2
  c1 = c1
  c2 = c2
  w1 = w1
  h1 = h1
  NoRecord = NoRecord
  None = None
  Keys = {k1}
  Values = {v1, v2}
  Actors = {a1}
  Instants = {t1}
  OperationIds = {id1}
  RecordsPerSnapshot = 2
  ChangeSets <- OneChangeSet
  Authorities = {h1}
  Callers = {c1, w1}
  Workers = {w1}
  AuthorityOf <- FirstCallerOnly
  Bindings = {working, canonical}
  WorkingBindings = {working}
  PurgeInstants = {t1}
  PurgeAttempts = 2
  Crashing = {h1}
  MaxSequence = 1
  MaxLate = 1
INVARIANTS StoreInvariant OneReceipt
PROPERTIES ImplementsLog ClientClosedLast CallsSettle
CHECK_DEADLOCK FALSE
