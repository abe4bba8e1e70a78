SPECIFICATION Spec
CONSTANTS
  Byte = {0, 1}
  Chunks <- SmallChunks
  MaxBlocks = 3
  Limit = 4
  Word = 16
  BlockSize = 2
INVARIANTS
  VerdictIsRight
  BufferIsBounded
PROPERTIES
  Delivers
