SPECIFICATION FairSpec
CONSTANTS
  Run = {r1, r2}
  Stop = {s1}
  Pid = {i1, i2}
  WaitDelay = 1
  Timeouts = {0, 1, 2}
  MaxKills = 1
  None = None
INVARIANTS
  StateIsTrue
  StopSparesOthers
  StoppedIsGone
  LongStopOrphansNone
  ReadsWholeConfig
PROPERTIES
  CancelledEnds
