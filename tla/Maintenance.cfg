SPECIFICATION DoctorSpec
CONSTANTS
  Path = {p1, p2}
  TargetId = {t1, t2}
  Package = {a}
  Version = {v1, v2}
  Nothing = Nothing
  Foreign = Foreign
  OldSchema = TRUE
  MaxGeneration = 2
  MaxMishaps = 2
  MaxBackups = 2
SYMMETRY Symmetry
CHECK_DEADLOCK FALSE
INVARIANTS TypeOK
PROPERTIES UserContentKept AcceptedNeverLost DoctorIsRight
