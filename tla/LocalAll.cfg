SPECIFICATION FairSpec
CONSTANTS
  Proc = {p1, p2}
  a = a
  b = b
  Name = {a, b}
  Dir = {d1, d2, d3, d4, d5}
  Uuid = {u1, u2}
  None = None
  Pick <- PickAny
  InitialVMs <- DistinctVMs
  Commands <- AllCommands
  MaxStarts = 2
  MaxCrashes = 1
INVARIANTS
  TypeOK
  LockedIsNamed
  DeleteRemovesLocked
  HypervisorExclusive
  CloneIntact
  LoneGCCollectsAll
  GCSparesLocked
  PublishedComplete
PROPERTIES
  NamesVanishOnPurpose
  CommandsEnd
