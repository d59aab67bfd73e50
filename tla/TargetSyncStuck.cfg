SPECIFICATION FairSpec
CONSTANTS
  Client = {c1}
  TargetId = {t1}
  Path = {root}
  TargetRoot = root
  OperationId = {o1, o2}
  Package = {alpha}
  Digest = {d1, d2}
  Kind = {"software"}
  NoClient = NoClient
  NoDigest = NoDigest
  NoOperation = NoOperation
  Foreign = Foreign
  NoContainer = NoContainer
  NoMarker = NoMarker
  Offered = {"install", "change", "sync"}
  RecoverFirst = FALSE
  MaxGeneration = 2
  MaxFailures = 1
  MaxEdits = 0
PROPERTIES
  Converges
