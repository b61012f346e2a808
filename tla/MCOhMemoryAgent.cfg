SPECIFICATION Spec
CONSTANTS
  c1 = c1
  c2 = c2
  v1 = v1
  v2 = v2
  r1 = r1
  Absent = Absent
  None = None
  Clients = {c1, c2}
  Readers = {c1}
  MaxKey = 2
  Values = {v1, v2}
  RequestIds = {r1}
  Bundles <- SentBundles
  Writes <- WrittenSnapshots
  Pins <- PinnedSnapshots
  Capacity = 1
  Questions = {"memory.record", "memory.conflict"}
  PageSize = 1
  MaximumRows = 3
  Capabilities = 2
  ExplanationBytes = {1, 2, 4}
  EntryBytes = 3
  TotalBytes = 3
  Lifetime = 1
  MaxTime = 1
  MaxTokens = 3
  MaxSequence = 2
INVARIANTS RegistryBounded RememberWithinCapacity PagesAreTheAnswer
PROPERTIES RetryAnswered
