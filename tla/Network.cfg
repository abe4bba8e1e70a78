SPECIFICATION Spec
CONSTANTS
  Sizes = {1, 2, 4, 8, 16}
  Space = 16
  Private <- TwoPrivate
  Want = 4
  Proc = {p1, p2}
  Foreign <- SomeForeign
  MaxKills = 1
  None = None
INVARIANTS
  FinderIsRight
  SubnetsDisjoint
  IpReachesVM
