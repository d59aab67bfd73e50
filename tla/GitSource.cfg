CONSTANTS
  t1 = t1
  t2 = t2
  t3 = t3
  Tag = {t1, t2, t3}
  Commit = {k1, k2}
  Unusable = {k2}
  NoCommit = NoCommit
  NoDocument = NoDocument
  Damaged = Damaged
  FirstReleases <- Lists
  PageSize = 1
  MaxPages = 3
  MaxAttempts = 2
  MaxChanges = 1
SPECIFICATION FairSpec
INVARIANT SourceIsTrue
INVARIANT ListingIsComplete
PROPERTY AcquisitionEnds
