\* Mark and sweep while a caller holds an object on its stack.
SPECIFICATION Spec
CONSTANTS
  a = a
  b = b
  l = l
  x = x
  y = y
  Main = main
  Obj = {main, a, b, l}
  Local = {l}
  Name = {x, y}
  Slots <- MCSlots
  Builds = {TRUE}
  Threshold = 1
  FreeListSize = 1
  RefMod = 256
  MaxStack = 2
  None = None
CHECK_DEADLOCK FALSE
INVARIANT StackAlive
