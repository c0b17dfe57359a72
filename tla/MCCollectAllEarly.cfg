SPECIFICATION Spec
CONSTANTS
  N = 2
  Scenarios <- InOneThread
INVARIANT ResultsComplete
CHECK_DEADLOCK FALSE
