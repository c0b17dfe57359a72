\* Three coroutines are enough for a holder, a newcomer racing its unlock and one
\* already in the line; four for two newcomers to be reversed behind a line.
SPECIFICATION FairSpec
CONSTANTS
  Coroutines = {c1, c2, c3, c4}
  Unlocked = Unlocked
  Null = Null
INVARIANTS MutualExclusion QueueIntact
PROPERTIES ImplementsFifoLock EveryWaiterServed
