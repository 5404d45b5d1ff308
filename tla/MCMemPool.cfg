\* 9 blocks, three callers.
SPECIFICATION FairSpec
CONSTANTS
  h1 = h1
  h2 = h2
  h3 = h3
  Handle <- Handle3
  Request <- SomeBytes
  aline = 8
  size = 72
  UintMax = 255
  NoMem = NoMem
INVARIANTS Exclusive BitmapExact InPool NullOnlyWhenFull
PROPERTIES AbstractSpec CallsReturn
