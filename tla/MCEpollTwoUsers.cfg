SPECIFICATION MCSpec
CONSTANTS
  N = 2
  Clients = {client}
  t1 = t1
  t2 = t2
  t3 = t3
  Tasks = {t1, t2, t3}
  Pools <- Working
  Usages = {{"recv", "send"}}
  ListenChoices = {{"in", "out"}}
  Requests = {r1, r2, r3}
  KMaxAio = 2
  Components = {"EpollSocket"}
INVARIANT ResumesASuspended
CHECK_DEADLOCK FALSE
