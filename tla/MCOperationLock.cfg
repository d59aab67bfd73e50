SPECIFICATION Spec
CONSTANTS
  Client = {c1, c2, c3}
  NoClient = NoClient
INVARIANTS
  TypeOK
  OwnershipIsReal
  HeldAtOnceMeansUnnoticedExit
  ReleaseOkProvesExclusion
PROPERTIES
  LockProgress
  ImplementsLockService
CHECK_DEADLOCK FALSE
