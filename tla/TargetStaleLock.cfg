SPECIFICATION Spec
CONSTANTS
  Client = {c1, c2}
  TargetId = {t1}
  Path = {root}
  TargetRoot = root
  OperationId = {o1, o2}
  Package = {alpha}
  Digest = {d1, d2}
  Kind = {"software"}
  NoClient = NoClient
  NoDigest = NoDigest
  NoOperation = NoOperation
  Foreign = Foreign
  NoContainer = NoContainer
  NoMarker = NoMarker
  Offered = {"install", "change", "sync", "recover"}
  RecoverFirst = FALSE
  MaxGeneration = 2
  MaxFailures = 1
  MaxEdits = 1
SYMMETRY Symmetry
PROPERTIES
  NoLostUpdate
  OnlyAcceptedAppears
