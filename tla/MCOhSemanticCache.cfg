SPECIFICATION Spec
CONSTANTS
  c1 = c1
  c2 = c2
  auth1 = auth1
  auth2 = auth2
  iso1 = iso1
  iso2 = iso2
  text1 = text1
  text2 = text2
  None = None
  Clients = {c1, c2}
  Upgraders = {c1}
  Authorities = {auth1, auth2}
  Isolations = {iso1, iso2}
  Derived <- DerivedIsolations
  Numbers = {0, 1}
  Contents = {text1, text2}
  Chunks <- RenderedChunks
  Instants = {1, 2}
  PageSize = 1
  Inherited <- InheritedTables
  LegacyPurges <- LegacyRequests
  Stages <- StageRequests
  Publishes <- PublishRequests
  Searches <- SearchRequests
  HeadReads <- HeadRequests
  Purges <- PurgeRequests
  Receipts <- ReceiptRequests
INVARIANTS CacheSound OnePublisher ReportsStand NoFalseAlarm
PROPERTIES TombstonesSurvive ReceiptsPermanent
CHECK_DEADLOCK FALSE
