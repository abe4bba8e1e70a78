SPECIFICATION Spec
CONSTANTS
  Proc = {p1, p2}
  Tag = {t1}
  Digest = {s1}
  None = None
  Commands <- AllCommands
  MaxStarts = 2
  MaxCrashes = 0
INVARIANT
  PulledByDigestIsMarked
