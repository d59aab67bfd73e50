CONSTANTS
  a = a
  b = b
  c = c
  d = d
  r1 = r1
  r2 = r2
  r3 = r3
  other = other
  main = main
  target = target
  MarkerId = {target}
  Ref = {main}
  MaxSafeInteger = 2
  AnyVersion = AnyVersion
  Package = {a, b, c, d}
  Name = {a, b, c, d, other}
  Default <- Calls
  RepositoryOf <- Repositories
  Repository = {r1, r2, r3}
  Order <- ByName
  ContentAt <- Contents
  DeclaredBy <- Declared
  NoPackage = NoPackage
  Targets <- SmallTargets
  UserContents <- SmallContents
  States <- SmallStates
  Invocations <- SmallInvocations
  Answers <- AllAnswers
  Headers <- Documents
  ManagedTablesRead <- SmallManaged
  DetachedTablesRead <- SmallDetached
  Worlds <- SmallWorlds
  Requests <- Asked
  FetchWorlds <- Chains
  FetchRequests <- ChainAsked
  Texts <- SmallTexts
  Versions <- SmallVersions
SPECIFICATION Spec
INVARIANT TransfersKeepFacts ResolutionIsRight AcceptanceIsAsked MarkersKeepState
CHECK_DEADLOCK FALSE
