SPECIFICATION FairSpec
CONSTANTS
  Main = m
  NoThread = NoThread
  w1 = w1
  w2 = w2
  s1 = s1
  e1 = e1
  e2 = e2
  Worker = {w1, w2}
  Native = {s1}
  EventThread = {e1, e2}
  Programs <- MCPrograms
  MaxPending = 1
CHECK_DEADLOCK FALSE
INVARIANTS GILHeld VMExclusive
PROPERTY DeinitCompletes
