------------------------------- MODULE MCApps -------------------------------
(* Small instances of the components of coro_apps, and of the shared state   *)
(* of a promise and its future.  An execution is one of the component named  *)
(* by the variable component; the variables of the others keep the value     *)
(* they have at rest.                                                        *)
EXTENDS FutureState

CONSTANTS Users, Collectors, MaxCalls, MaxClear,               \* ClientQueue
          Requests, Detectors, RetryCount, MaxRequests,        \* ClientPool, LoadBlancer
          Configs, Threads, MaxFailures,                       \* LoadBlancer
          Permits, Intervals, Burst, MaxGrants, MaxTime,       \* RateLimiter
          PoolSize, Handlers, Stoppers,                        \* IoContextPool
          Loggers, MaxFileSize, MaxFiles, MaxRecords, MaxRestarts, \* Appender
          Callers, Keys, ShardNum, MaxMapCalls,                \* MapSharded
          Years, Months, Days, Clocks,                         \* TimeUtil
          IoCallers, Mixes, MaxIoCalls, Capacity, FileSize, SendSizes, SendChunk, \* CoroIo
          FileUsers, MaxFileCalls, Content, OpenModes, Counts, Offsets \* CoroFile

VARIABLES component,
          selected, size, clients, collecting, user, collector, alive, failed, calls,
          host, idle, isAlive, pool, request, detector, started, stuck,
          weights, algorithm, manager, asking, got, made, healthy, failures, index, current,
          weight, step, cnt, chosen, picks, sent,
          now, interval, stored, nextFree, due, grants,
          next, claimed, guarded, posted, loop, handler, runner, stopper, once, status,
          async, queue, stop, fileSize, files, written, writer, logger, owner, restarts,
          map, count, caller, copied, stayed, mapCalls,
          asked, result, last_sec, buf,
          kinds, begun, call, service, onExecutor, channel,
          class, disk, stream, fd, eof_, work, reader, fileCalls, opened, read, finished

(* Small configurations: one host, equal and unequal weights, none at all.   *)
SmallConfigs == {<<"RR", <<1>>>>, <<"RR", <<1, 1>>>>, <<"random", <<1, 1>>>>,
                 <<"WRR", <<4, 2>>>>, <<"WRR", <<2, 1, 1>>>>, <<"WRR", <<0, 0>>>>}

(* The ends of a day, and a minute and an hour too late. *)
SomeClocks == {<<0, 0, 0>>, <<23, 59, 59>>, <<24, 0, 0>>, <<23, 59, 60>>}

(* A file of three bytes, and none. *)
SmallFiles == {<<"missing">>, <<101, 102, 103>>}

Queue  == INSTANCE ClientQueue
Pool   == INSTANCE ClientPool
Lb     == INSTANCE LoadBlancer WITH alive <- healthy, request <- step
Rate   == INSTANCE RateLimiter
Io     == INSTANCE IoContextPool WITH queue <- posted, current <- handler
Log    == INSTANCE Appender
Shards == INSTANCE MapSharded WITH MaxCalls <- MaxMapCalls, calls <- mapCalls
Time   == INSTANCE TimeUtil
Await  == INSTANCE CoroIo WITH executor <- onExecutor
File   == INSTANCE CoroFile

(* The instance is among those that the proofs speak of. *)
ASSUME InstanceAssumption ==
  /\ FutureAssumption /\ Lb!LbAssumption /\ Rate!RateAssumption /\ Shards!MapAssumption
  /\ Log!AppenderAssumption /\ File!FileAssumption /\ Await!CoroIoAssumption
  /\ Time!TimeAssumption

queueVars == <<selected, size, clients, collecting, user, collector, alive, failed, calls>>
poolVars  == <<host, idle, isAlive, pool, request, detector, started, stuck>>
lbVars    == <<weights, algorithm, manager, asking, got, made, healthy, failures, index, current,
               weight, step, cnt, chosen, picks, sent>>
rateVars  == <<now, interval, stored, nextFree, due, grants>>
ioVars    == <<next, claimed, guarded, posted, loop, handler, runner, stopper, once, status>>
logVars   == <<async, queue, stop, fileSize, files, written, writer, logger, owner, restarts>>
mapVars   == <<map, count, caller, copied, stayed, mapCalls>>
timeVars  == <<asked, result, last_sec, buf>>
awaitVars == <<kinds, begun, call, service, onExecutor, channel>>
fileVars  == <<class, disk, stream, fd, eof_, work, reader, fileCalls, opened, read, finished>>

(* At rest a component has not begun, with as few initial states as there    *)
(* are, or has ended where it would begin without being called.              *)
IoAtRest ==
  /\ next = 0 /\ claimed = TRUE /\ guarded = {} /\ once = "called"
  /\ posted = [c \in 0..(PoolSize - 1) |-> <<>>]
  /\ loop = [c \in 0..(PoolSize - 1) |-> "stopped"]
  /\ handler = [c \in 0..(PoolSize - 1) |-> Io!Nothing]
  /\ runner = "returned" /\ stopper = [s \in Stoppers |-> "returned"]
  /\ status = [h \in Handlers |-> "new"]

(* The state of a promise has gone, and everybody who had it. *)
FutureAtRest ==
  /\ state = "START" /\ attached = 0 /\ continuationRef = 0 /\ promiseRef = 0
  /\ tryValue = "nothing" /\ continuation = "none" /\ deleted = TRUE
  /\ executor = FALSE /\ checkedOut = FALSE /\ forceSched = FALSE
  /\ pc = [a \in Actors |-> IF a = "worker" THEN "idle" ELSE "gone"] /\ after = pc
  /\ seen = [a \in Actors |-> "START"] /\ setters = 0 /\ runs = <<>>

MCInit ==
  /\ component \in {"ClientQueue", "ClientPool", "LoadBlancer", "RateLimiter",
                    "IoContextPool", "Appender", "MapSharded", "TimeUtil",
                    "CoroIo", "CoroFile", "FutureState"}
  /\ IF component = "FutureState" THEN Init ELSE FutureAtRest
  /\ Queue!Init /\ Rate!Init /\ Shards!Init /\ Time!Init
  /\ component # "ClientPool" => host = "up"
  /\ Pool!Init
  /\ component # "LoadBlancer" => algorithm = "RR" /\ weights = <<1>>
  /\ Lb!Init
  /\ IF component = "IoContextPool" THEN Io!Init ELSE IoAtRest
  /\ component # "Appender" => async = FALSE
  /\ Log!Init
  /\ component # "CoroIo" => kinds = {"send", "receive"}
  /\ Await!Init
  /\ component # "CoroFile" => class = "seq" /\ disk = <<"missing">>
  /\ File!Init

(* All but the future. *)
appVars == <<queueVars, poolVars, lbVars, rateVars, ioVars, logVars, mapVars,
             timeVars, awaitVars, fileVars>>

MCNext ==
  \/ component = "FutureState" /\ Next /\ UNCHANGED <<component, appVars>>
  \/ /\ component = "ClientQueue" /\ Queue!Next
     /\ UNCHANGED <<component, vars, poolVars, lbVars, rateVars, ioVars, logVars,
                    mapVars, timeVars, awaitVars, fileVars>>
  \/ /\ component = "ClientPool" /\ Pool!Next
     /\ UNCHANGED <<component, vars, queueVars, lbVars, rateVars, ioVars, logVars,
                    mapVars, timeVars, awaitVars, fileVars>>
  \/ /\ component = "LoadBlancer" /\ Lb!Next
     /\ UNCHANGED <<component, vars, queueVars, poolVars, rateVars, ioVars, logVars,
                    mapVars, timeVars, awaitVars, fileVars>>
  \/ /\ component = "RateLimiter" /\ Rate!Next
     /\ UNCHANGED <<component, vars, queueVars, poolVars, lbVars, ioVars, logVars,
                    mapVars, timeVars, awaitVars, fileVars>>
  \/ /\ component = "IoContextPool" /\ Io!Next
     /\ UNCHANGED <<component, vars, queueVars, poolVars, lbVars, rateVars, logVars,
                    mapVars, timeVars, awaitVars, fileVars>>
  \/ /\ component = "Appender" /\ Log!Next
     /\ UNCHANGED <<component, vars, queueVars, poolVars, lbVars, rateVars, ioVars,
                    mapVars, timeVars, awaitVars, fileVars>>
  \/ /\ component = "MapSharded" /\ Shards!Next
     /\ UNCHANGED <<component, vars, queueVars, poolVars, lbVars, rateVars, ioVars,
                    logVars, timeVars, awaitVars, fileVars>>
  \/ /\ component = "TimeUtil" /\ Time!Next
     /\ UNCHANGED <<component, vars, queueVars, poolVars, lbVars, rateVars, ioVars,
                    logVars, mapVars, awaitVars, fileVars>>
  \/ /\ component = "CoroIo" /\ Await!Next
     /\ UNCHANGED <<component, vars, queueVars, poolVars, lbVars, rateVars, ioVars,
                    logVars, mapVars, timeVars, fileVars>>
  \/ /\ component = "CoroFile" /\ File!Next
     /\ UNCHANGED <<component, vars, queueVars, poolVars, lbVars, rateVars, ioVars,
                    logVars, mapVars, timeVars, awaitVars>>

(* The fairness of each component, asked of the one that runs. *)
MCSpec ==
  /\ MCInit /\ [][MCNext]_<<component, vars, appVars>>
  /\ \A a \in Actors : WF_vars(component = "FutureState" /\ GoesOn(a))
  /\ \A u \in Users : WF_queueVars(component = "ClientQueue" /\ Queue!Use(u))
  /\ \A k \in Collectors : WF_queueVars(component = "ClientQueue" /\ Queue!Collect(k))
  /\ \A r \in Requests :
       WF_poolVars(component = "ClientPool" /\ ~Pool!Crashed /\ Pool!Serve(r))
  /\ \A d \in Detectors :
       WF_poolVars(component = "ClientPool" /\ ~Pool!Crashed /\ Pool!Detect(d))
  /\ \A c \in Io!Contexts : WF_ioVars(component = "IoContextPool" /\ Io!Loop(c))
  /\ WF_ioVars(component = "IoContextPool" /\ Io!RunGoesOn)
  /\ \A s \in Stoppers : WF_ioVars(component = "IoContextPool" /\ Io!Stop(s))

(* Idle clients are closed in the end, and the counts of the queue are zero. *)
IdleClientsAreClosed == Queue!IdleClientsAreClosed

(* A pool marked as dead is marked as alive when its host stays up.          *)
HostComesBack == Pool!HostComesBack

(* All balancers share a pool for each host; a balancer respects the weights.*)
OnePoolPerHost == Lb!OnePoolPerHost
WeightsRespected == Lb!WeightsRespected

(* Not more is granted than the rate and the burst allow. *)
RateHolds == Rate!RateHolds

(* What was scheduled before stop() runs, and run() and stop() return.       *)
EarlyRunsAndAllReturn == Io!EarlyRunsAndAllReturn

(* The files hold the end of what was written, in order. *)
FilesHoldTheTail == Log!FilesHoldTheTail

(* size() settles, and copy() has what was there all the time. *)
SizeAndCopiesAreRight == Shards!SizeAndCopiesAreRight

(* Dates are parsed to their time, those that do not exist are refused.      *)
DatesAreExact == Time!DatesAreExact

(* Operations of asio return their own answers, files are sent in order, and *)
(* a channel keeps its values.                                               *)
AnswersAreOwn == Await!AnswersAreOwn

(* A file read to its end is complete, and what was written is read.         *)
FilesAnswerTruly == File!FilesAnswerTruly
=============================================================================
