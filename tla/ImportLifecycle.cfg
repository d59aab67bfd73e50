CONSTANTS
  kept = kept
  added = added
  first = first
  second = second
  Kept = {kept}
  New = {added}
  Payload = {first, second}
  MaxFailures = 2
  MaxEdits = 2
SPECIFICATION FairSpec
INVARIANT ImportSound MarkerMeansComplete
PROPERTY UserContentKept Converges
CHECK_DEADLOCK FALSE
