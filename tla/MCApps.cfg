SPECIFICATION MCSpec
CONSTANTS
  Promises = {p1, p2, p3}
  First = p1
  InExecutor = {p3}
  CounterModulus = 256
  MaxSetters = 1
  Users = {u1, u2}
  Collectors = {k1, k2}
  MaxCalls = 3
  MaxClear = 1
  Requests = {r1, r2}
  Detectors = {d1, d2}
  RetryCount = 1
  MaxRequests = 4
  Configs <- SmallConfigs
  Threads = {t1, t2}
  MaxFailures = 1
  Permits = {1, 3}
  Intervals = {2, 4}
  Burst = 4
  MaxGrants = 2
  MaxTime = 9
  PoolSize = 2
  Handlers = {h1, h2, h3}
  Stoppers = {s1, s2}
  Loggers = {1, 2}
  MaxFileSize = 1
  MaxFiles = 3
  MaxRecords = 4
  MaxRestarts = 1
  Callers = {c1, c2}
  Keys = {1, 2, 3}
  ShardNum = 2
  MaxMapCalls = 3
  Years = {1900, 1970, 2000, 2024, 2100}
  Months = {1, 2, 3, 4, 12, 13}
  Clocks <- SomeClocks
  Days = {0, 1, 28, 29, 30, 31, 32}
  IoCallers = {c1, c2, c3}
  Mixes = {{"send", "receive"}, {"sendfile"}, {"connect", "post"}, {"wait", "close"}}
  MaxIoCalls = 3
  Capacity = 1
  FileSize = 3
  SendSizes = {0, 3}
  SendChunk = 2
  FileUsers = {u1, u2}
  MaxFileCalls = 4
  Content <- SmallFiles
  OpenModes = {{"in"}, {"in", "out"}, {"in", "out", "app"}}
  Counts = {2}
  Offsets = {0, 1}
INVARIANTS CalledOnceThenDeleted
  OnePoolPerHost RateHolds FilesHoldTheTail
  SizeAndCopiesAreRight  AnswersAreOwn FilesAnswerTruly
PROPERTIES ImplementsOneShot EventuallyDeleted
  IdleClientsAreClosed HostComesBack WeightsRespected EarlyRunsAndAllReturn
CHECK_DEADLOCK FALSE
