\* A function with a try, called in a try.
SPECIFICATION FairSpec
CONSTANTS
  Bodies <- Functions
  Raised = {16}
  NestedTries = TRUE
  MaxFrames = 3
PROPERTY ErrorsAreHandled
