SPECIFICATION Spec
CONSTANTS
  Promises = {p1, p2}
  First = p1
  InExecutor = {}
  CounterModulus = 256
  MaxSetters = 2
INVARIANT AssertInSetResult
CHECK_DEADLOCK FALSE
