\* With the event thread and the GIL, and on bare metal, where pickups nest.
SPECIFICATION Spec
CONSTANTS
  N = 3
  PickupMax = 2
  Builds = {TRUE, FALSE}
  MaxArg = 4
  MaxSignal = 3
  LaterArg = 2
  LaterSignal = 1
  MaxDeinit = 1
  Irq = irq
  Prog = prog
  None = None
CHECK_DEADLOCK FALSE
INVARIANTS ArgOrder SignalsStored
PROPERTIES EventsPickedUp CqResultNotLost
