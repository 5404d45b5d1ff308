SPECIFICATION Spec
CONSTANTS
  a = a
  b = b
  c = c
  d = d
  NULL = NULL
  Junk = Junk
  Tok = {a, b, c, d}
  Width <- MCWidth
  Total = 64
  PtrSize = 4
  CountMod = 4
  Block <- MCBlock
  Aline = 12
  ArgSize = 8
  CacheSize = 20
  CacheMax = 28
  CachePoolSize = 1
  Extras = {4}
  Sizes = {20}
  MaxContent = 16
SYMMETRY MCSymmetry
INVARIANTS BuffersSafe RefsBalanced CellsExclusive HeapExact ArgsOwnCells
PROPERTIES IsLifo LostOnlyWhenCacheFull
CHECK_DEADLOCK FALSE
