---------------------------- MODULE MCExecutors ----------------------------
(* Small instances of the executors and event loops.  An execution is one of *)
(* the component named by the variable component; the variables of the       *)
(* others keep the value they have at rest.                                  *)
EXTENDS ThreadPool

CONSTANTS t1, t2, t3,              \* ThreadPool
          Usages, ListenChoices,   \* EpollSocket
          Requests, KMaxAio,       \* SimpleIOExecutor
          Components               \* which of them

VARIABLES component,
          usage, listen, h, open, registered, ready, place, scheduled, loop,
          aio, shutdown, aioLoop, context

(* Two workers, because a function must be able to reach a queue that is not *)
(* its own, and as many functions as are needed for one to wait behind       *)
(* another and one to be scheduled from a worker.                            *)
Pool(steal, nesting, tasks) == [steal |-> steal, nesting |-> nesting, tasks |-> tasks]
Working == {Pool(TRUE, "anywhere", {t1, t2, t3}), Pool(FALSE, "own_queue", {t1, t2}),
            Pool(TRUE, "own_queue", {t1, t2})}
Nested  == {Pool(FALSE, "anywhere", {t1, t2})}

Socket == INSTANCE EpollSocket
Aio    == INSTANCE SimpleIOExecutor WITH place <- aio, loop <- aioLoop

socketVars == <<usage, listen, h, open, registered, ready, place, scheduled, loop>>
aioVars    == <<aio, shutdown, aioLoop, context>>

PoolAtRest ==
  /\ pool = Pool(TRUE, "own_queue", {}) /\ stop = TRUE
  /\ queue = [w \in Workers |-> <<>>] /\ stopped = [w \in Workers |-> TRUE]
  /\ wpc = [w \in Workers |-> "exited"] /\ item = [w \in Workers |-> NoTask]
  /\ call = [c \in Threads |-> NoCall] /\ main = [step |-> "destroyed", next |-> 0]
  /\ status = [t \in Tasks |-> "new"] /\ wanted = [t \in Tasks |-> Anywhere]
SocketAtRest ==
  /\ usage = {} /\ listen = {} /\ h = Socket!Nobody /\ open = FALSE /\ registered = FALSE
  /\ ready = {} /\ place = <<>> /\ scheduled = {} /\ loop = "wait"
AioAtRest == Aio!Init

MCInit ==
  /\ component \in Components
  /\ IF component = "ThreadPool" THEN Init ELSE PoolAtRest
  /\ IF component = "EpollSocket" THEN Socket!Init ELSE SocketAtRest
  /\ IF component = "SimpleIOExecutor" THEN Aio!Init ELSE AioAtRest

MCNext ==
  \/ component = "ThreadPool" /\ Next /\ UNCHANGED <<component, socketVars, aioVars>>
  \/ component = "EpollSocket" /\ Socket!Next /\ UNCHANGED <<component, vars, aioVars>>
  \/ component = "SimpleIOExecutor" /\ Aio!Next /\ UNCHANGED <<component, vars, socketVars>>

MCSpec ==
  /\ MCInit /\ [][MCNext]_<<component, vars, socketVars, aioVars>>
  /\ Fairness /\ Socket!Fairness /\ Aio!Fairness

(* A call on a socket that one coroutine uses returns when it can.           *)
CallReturns == Socket!CallReturns

(* "at most two threads may operate a socket, one that reads and one that    *)
(* writes" (Socket.h:18): the loop resumes a coroutine that is suspended.    *)
ResumesASuspended == component = "EpollSocket" => Socket!ResumesASuspended

(* The callback of an I/O request is called unless the executor is destroyed.*)
AnsweredUnlessShutDown == Aio!AnsweredUnlessShutDown
=============================================================================
