SPECIFICATION FairSpec
CONSTANTS
  N = 2
  Scenarios <- Hanging
PROPERTY ParentReturns
CHECK_DEADLOCK FALSE
