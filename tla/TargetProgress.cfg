SPECIFICATION FairSpec
CONSTANTS
  Client = {c1}
  TargetId = {t1}
  Path = {root}
  TargetRoot = root
  OperationId = {o1, o2}
  Package = {alpha, beta}
  Digest = {d1, d2}
  Kind = {"software"}
  NoClient = NoClient
  NoDigest = NoDigest
  NoOperation = NoOperation
  Foreign = Foreign
  NoContainer = NoContainer
  NoMarker = NoMarker
  Offered = {"install", "change", "sync", "recover"}
  RecoverFirst = TRUE
  MaxGeneration = 2
  MaxFailures = 1
  MaxEdits = 0
INVARIANTS
  StagingAccounted
PROPERTIES
  MarkerLeavesNoOrphan
  OrderReturns
