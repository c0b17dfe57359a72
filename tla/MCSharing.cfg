SPECIFICATION MCSpec
CONSTANTS
  Components = {"SharedMutex", "FreeList", "ImplicitQueue", "ExplicitQueue", "ProducerHash", "QueueConsumers", "QueueOwners"}
  Coroutines = {"r1", "r2", "w"}
  MaxReaders = 2
  ListThreads = {l1, l2, l3}
  Nodes = {n1, n2}
  c1 = c1
  c2 = c2
  Consumers = {c1, c2}
  BlockSize = 2
  IndexRange = 16
  Excess = 15
  MaxExcess = 1
  ImplicitBlocks = {b1, b2}
  IndexCapacity = 2
  Start = 14
  ExplicitBlocks = {b3, b4, b5}
  IndexSize = 2
  MaxSubqueue = 4
  Failures = FALSE
  Counts = {3}
  MaxElements = 5
  HashThreads = {t1, t2}
  HashOf <- AllCollide
  Size = 1
  MaxEnds = 2
  Quota = 2
  OffsetRange = 4
  MaxProducers = 3
  MaxQueued = 3
  Queues = {q1, q2}
  Tokens = {k1, k2}
  OwnerThreads = {t1, t2}
  Producers = {p1, p2, p3}
  Tables = {h1}
INVARIANTS StateWord SleepersHaveReason NoNodeTwiceOrLost ElementsFoundOnce ProducerOfItsThread  OwnersAgree
PROPERTY ImplementsRWLock
