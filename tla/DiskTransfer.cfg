SPECIFICATION TransferSpec
CONSTANTS
  Block = {0, 1, 2}
  ChunkSize = 1
  Disks <- SmallDisks
  Names <- TwoNames
  Concurrency = 2
INVARIANTS
  PushedIsWhole
PROPERTIES
  TransferEnds
  ArrivesWhole
