SPECIFICATION Spec
CONSTANTS
  k1 = k1
  k2 = k2
  v1 = v1
  v2 = v2
  id1 = id1
  id2 = id2
  c1 = c1
  c2 = c2
  w1 = w1
  h1 = h1
  NoRecord = NoRecord
  None = None
  Keys = {k1, k2}
  Values = {v1, v2}
  Actors = {a1}
  Instants = {t1}
  OperationIds = {id1, id2}
  RecordsPerSnapshot = 2
  ChangeSets <- LinkAndUnlink
  Authorities = {h1}
  Callers = {c1, c2}
  Workers = {}
  AuthorityOf <- SharedAuthority
  Bindings = {canonical}
  WorkingBindings = {}
  PurgeInstants = {t1}
  PurgeAttempts = 1
  Crashing = {}
  MaxSequence = 2
  MaxLate = 1
INVARIANTS StoreInvariant AnswersStand NoFalseAlarm
CHECK_DEADLOCK FALSE
SYMMETRY CallerSymmetry
