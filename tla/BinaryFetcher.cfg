SPECIFICATION Spec
CONSTANTS
  Proc = {p1, p2, p3}
  Packaged = {"firmware"}
  Path = {f1, f2, f3}
  Parts = 2
  None = None
  MaxStarts = 3
  MaxCrashes = 1
SYMMETRY Symmetry
INVARIANTS
  CachedIsWhole
  FetchedIsUsable
  LeavesNothing
