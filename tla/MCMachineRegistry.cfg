SPECIFICATION RegistrySpec
CONSTANTS
  TargetId = {t1, t2}
  Path = {root, other}
  OperationId = {o1, o2}
  Package = {alpha}
  Digest = {d1, d2}
  Kind = {software}
  NoDigest = NoDigest
  NoOperation = NoOperation
  MaxGeneration = 2
SYMMETRY Symmetry
CONSTRAINT GenerationBound
INVARIANTS
  RegistryTypeOK
  PendingSound
  TablesConsistent
PROPERTIES
  AcceptedNeverLost
