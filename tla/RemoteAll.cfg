SPECIFICATION FairSpec
CONSTANTS
  Proc = {p1, p2}
  Tag = {t1}
  Digest = {s1, s2}
  None = None
  Commands <- AllCommands
  MaxStarts = 2
  MaxCrashes = 1
INVARIANTS
  TypeOK
  CacheWhole
  GCSparesReferenced
  PullsDoNotCollide
  PullDelivers
PROPERTY
  CommandsEnd
