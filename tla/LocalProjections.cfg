CONSTANTS
  a = a
  b = b
  other = other
  Package = {a, b}
  Name = {a, b, other}
  Default <- Defaults
  DependsOn <- Edges
  InitialNames <- Defaults
  NoPackage = NoPackage
  MaxGeneration = 4
  MaxFailures = 2
  MaxEdits = 2
SPECIFICATION Spec
INVARIANT StateSound SuccessMeansAgreement
PROPERTY UserContentKept
CHECK_DEADLOCK FALSE
