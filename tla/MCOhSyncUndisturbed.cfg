SPECIFICATION FairHistorySpec
CONSTANTS
  c1 = c1
  c2 = c2
  r1 = r1
  r2 = r2
  None = None
  Replicas = {r1, r2}
  Syncers = {c1, c2}
  StoreOf <- OneStoreEach
  Bodies = {x, y}
  BatchSize = 1
  MaximumRounds = 1
  MaxSequence = 2
  MaxLate = 0
PROPERTIES NoSpareRound RefusedOnlyIfDiverged EveryCallEnds
CHECK_DEADLOCK FALSE
