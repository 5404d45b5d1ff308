\* A break after an inner loop of the same body.
SPECIFICATION FairSpec
CONSTANTS
  Families <- PastALoop
  MaxDepth = 3
  Admit = {"loopBeforeBreak"}
PROPERTY PySpec
