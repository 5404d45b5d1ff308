\* Chains of calls, with no try below a try.
SPECIFICATION FairSpec
CONSTANTS
  Bodies <- Functions
  Raised = {16, 272}
  NestedTries = FALSE
  MaxFrames = 3
INVARIANTS TryStateNested RaiseUnderWay
PROPERTIES ErrorsAreHandled ExitUnwinds ExitEnds
