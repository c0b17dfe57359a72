SPECIFICATION MCSpec
CONSTANTS
  N = 2
  Clients = {client}
  t1 = t1
  t2 = t2
  t3 = t3
  Tasks = {t1, t2, t3}
  Pools <- Nested
  Usages = {{"recv"}, {"send"}, {"accept"}, {"connect"}}
  ListenChoices = {{"in", "out"}, {"in"}, {"out"}}
  Requests = {r1, r2, r3}
  KMaxAio = 2
  Components = {"ThreadPool"}
INVARIANT NothingAcceptedIsLost
CHECK_DEADLOCK FALSE
