SPECIFICATION MCSpec
CONSTANTS
  Coroutines = {c1, c2, c3, c4}
  LeastMaxValue = 3
  Kinds = {"semaphore", "latch"}
  N = 4
  Scenarios <- Working
  Forms = {"vector", "vector with callback", "variadic", "pairs"}
  Executors = {"e1", "e2"}
  Workers = {1, 2}
  MaxDepth = 4
  MaxAwaits = 5
  Programs <- SmallPrograms
  MaxStates = 5
INVARIANT TakenIsResult
CHECK_DEADLOCK FALSE
