SPECIFICATION Spec
CONSTANTS
  Disk = {sda, sdb}
  Block = {0, 1, 2}
  Concurrency = 2
  Manifests <- SmallManifests
INVARIANT
  NilMeansPulled
