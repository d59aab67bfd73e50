SPECIFICATION FairSpec
CONSTANTS
  Client = {c1, c2}
  NoClient = NoClient
  Digest = {d1}
  Kinds = {"publish", "repair"}
  MaxFailures = 3
INVARIANTS
  StoreSound
PROPERTIES
  AppearsIntact
  OnlyUserHarms
  RepairHeals
