SPECIFICATION FairSpec
CONSTANTS
  c1 = c1
  c2 = c2
  h1 = h1
  k1 = k1
  k2 = k2
  v1 = v1
  v2 = v2
  first = first
  forged = forged
  Absent = Absent
  None = None
  Authorities = {h1}
  Calls = {c1, c2}
  AuthorityOf <- TwoCallsOneHost
  Keys = {k1, k2}
  Values = {v1, v2}
  Nominations = {first, forged}
  Nominated <- NominatedRecords
  Exported = {first}
  Claims <- SubmittedClaims
  Writes <- WrittenSnapshots
  Capacity = 2
  PageLimit = 2
  MaxPages = 1
  MaxOperations = 2
  MaxSequence = 3
  MaxLate = 1
INVARIANTS AuthorityInvariant ReceiptsTrue
PROPERTIES PinMovesAlongPath AdoptedAsReviewed EveryHostCallSettles
