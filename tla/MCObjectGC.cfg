\* Both builds: mark and sweep, and reference counts alone. The program may
\* stop, and does once the root object is gone.
SPECIFICATION Spec
CONSTANTS
  a = a
  b = b
  l = l
  x = x
  y = y
  Main = main
  Obj = {main, a, b, l}
  Local = {l}
  Name = {x, y}
  Slots <- MCSlots
  Builds = {TRUE, FALSE}
  Threshold = 1
  FreeListSize = 2
  RefMod = 256
  MaxStack = 2
  None = None
CHECK_DEADLOCK FALSE
INVARIANTS ArgsAlive RefcntExact NoDoubleFree StackKeeps
PROPERTY NothingLeaks
