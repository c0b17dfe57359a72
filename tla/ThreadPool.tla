----------------------------- MODULE ThreadPool -----------------------------
(***************************************************************************)
(* The thread pool of util/ThreadPool.h over the queues of util/Queue.h,   *)
(* which SimpleExecutor uses as its executor.  Every worker owns a queue   *)
(* and, with work stealing, first looks at the queues of all.  The         *)
(* destructor raises stop_, stops the queues one after the other and joins *)
(* the workers, while functions that run on the workers may still call     *)
(* scheduleById().                                                         *)
(*                                                                         *)
(* A Queue operation holds its mutex throughout and is one action; the     *)
(* notification that push() and stop() send after they have unlocked is    *)
(* another.  A condition variable is the set of the workers asleep in it;  *)
(* a spurious wake-up would only test the same predicate again.            *)
(***************************************************************************)
EXTENDS Integers, Sequences

CONSTANTS N,        \* threadNum_
          Clients,  \* threads outside the pool that call scheduleById()
          Tasks,    \* the functions they schedule, each at most once
          Pools     \* the pools of the instance: enableWorkSteal_, where a running
                    \* function schedules others, and the functions of the program

ASSUME PoolAssumption ==
  /\ N \in Nat \ {0}
  /\ Clients \cap 0..(N - 1) = {}
  /\ Pools \subseteq [steal : BOOLEAN, nesting : {"own_queue", "anywhere"}, tasks : SUBSET Tasks]

Workers == 0..(N - 1)
Anywhere == -1       \* the default argument id = -1
NoTask == "no_task"  \* a WorkItem without function

ASSUME TasksAssumption == NoTask \notin Tasks

VARIABLES pool,     \* one of Pools
          stop,     \* stop_
          queue,    \* the elements of each Queue
          stopped,  \* Queue::stop_
          wpc,      \* where each worker is
          item,     \* workerItem of each worker
          call,     \* the scheduleById() call each thread is in
          main,     \* where the thread that owns the pool is
          status,   \* what scheduleById() and the workers did with each task
          wanted    \* the id each task was scheduled with

vars == <<pool, stop, queue, stopped, wpc, item, call, main, status, wanted>>

Threads == Workers \union Clients
NoCall == [step |-> "none"]

Init ==
  /\ pool \in Pools
  /\ stop = FALSE
  /\ queue = [w \in Workers |-> <<>>]
  /\ stopped = [w \in Workers |-> FALSE]
  /\ wpc = [w \in Workers |-> "looking"]
  /\ item = [w \in Workers |-> NoTask]
  /\ call = [c \in Threads |-> NoCall]
  /\ main = [step |-> "alive", next |-> 0]
  /\ status = [t \in Tasks |-> "new"]
  /\ wanted = [t \in Tasks |-> Anywhere]

-----------------------------------------------------------------------------
(* scheduleById() *)

(* Clients may use the pool until its destructor runs; a function that runs  *)
(* on a worker may use it as long as it runs.                                *)
MayCall(c, id) ==
  /\ call[c] = NoCall
  /\ \/ c \in Clients /\ main.step = "alive"
     \/ /\ c \in Workers /\ wpc[c] = "running"
        /\ \/ pool.nesting = "anywhere"
           \/ pool.nesting = "own_queue" /\ id = c

(* The test of stop_. *)
TestStop(c, t, id) ==
  /\ MayCall(c, id)
  /\ t \in pool.tasks /\ status[t] = "new"
  /\ IF stop THEN /\ status' = [status EXCEPT ![t] = "refused"]
                  /\ UNCHANGED <<pool, call, wanted>>
             ELSE /\ status' = [status EXCEPT ![t] = "passed"]
                  /\ wanted' = [wanted EXCEPT ![t] = id]
                  /\ call' = [call EXCEPT ![c] = [step |-> "push", task |-> t]]
  /\ UNCHANGED <<pool, stop, queue, stopped, wpc, item, main>>

(* Mutant: nobody is notified. *)
PushSilently(c, q) ==
  /\ call[c].step = "push"
  /\ wanted[call[c].task] \in {Anywhere, q}
  /\ queue' = [queue EXCEPT ![q] = Append(@, call[c].task)]
  /\ status' = [status EXCEPT ![call[c].task] = "accepted"]
  /\ call' = [call EXCEPT ![c] = NoCall]
  /\ UNCHANGED <<pool, stop, stopped, wpc, item, main, wanted>>

(* push() into the queue asked for, or into any: a random one, or, with work *)
(* stealing, the first whose try_push() gets the lock.                       *)
Push(c, q) ==
  /\ call[c].step = "push"
  /\ LET t == call[c].task
     IN /\ wanted[t] \in {Anywhere, q}
        /\ queue' = [queue EXCEPT ![q] = Append(@, t)]
        /\ status' = [status EXCEPT ![t] = "accepted"]
  /\ call' = [call EXCEPT ![c] = [step |-> "notify", queue |-> q]]
  /\ UNCHANGED <<pool, stop, stopped, wpc, item, main, wanted>>

Wake(w) == wpc' = IF wpc[w] = "asleep" THEN [wpc EXCEPT ![w] = "popping"] ELSE wpc

(* cond_.notify_one(), then the call returns ERROR_NONE. *)
NotifyOne(c) ==
  /\ call[c].step = "notify"
  /\ Wake(call[c].queue)
  /\ call' = [call EXCEPT ![c] = NoCall]
  /\ UNCHANGED <<pool, stop, queue, stopped, item, main, status, wanted>>

-----------------------------------------------------------------------------
(* The worker's loop. *)

Take(w, q) ==
  /\ item' = [item EXCEPT ![w] = Head(queue[q])]
  /\ queue' = [queue EXCEPT ![q] = Tail(@)]
  /\ wpc' = [wpc EXCEPT ![w] = "running"]
  /\ status' = [status EXCEPT ![Head(queue[q])] = "executed"]

(* try_pop_if() on the queues of all: every item may be stolen, since        *)
(* scheduleById() sets canSteal on all of them; the loop may also come home  *)
(* with nothing, because try_to_lock may fail.                               *)
StealItem(w, q) ==
  /\ pool.steal
  /\ wpc[w] = "looking"
  /\ queue[q] # <<>>
  /\ Take(w, q)
  /\ UNCHANGED <<pool, stop, stopped, call, main, wanted>>

StealNothing(w) ==
  /\ wpc[w] = "looking"
  /\ wpc' = [wpc EXCEPT ![w] = "popping"]
  /\ UNCHANGED <<pool, stop, queue, stopped, item, call, main, status, wanted>>

(* pop() of its own queue: an element, if there is one; the end, if the      *)
(* queue is stopped; otherwise to sleep.                                     *)
PopItem(w) ==
  /\ wpc[w] = "popping"
  /\ queue[w] # <<>>
  /\ Take(w, w)
  /\ UNCHANGED <<pool, stop, stopped, call, main, wanted>>

PopNothing(w) ==
  /\ wpc[w] = "popping"
  /\ queue[w] = <<>>
  /\ wpc' = [wpc EXCEPT ![w] = IF stopped[w] THEN "ending" ELSE "asleep"]
  /\ UNCHANGED <<pool, stop, queue, stopped, item, call, main, status, wanted>>

(* pop() returned false: break if stop_, else continue. *)
TestEnd(w) ==
  /\ wpc[w] = "ending"
  /\ wpc' = [wpc EXCEPT ![w] = IF stop THEN "exited" ELSE "looking"]
  /\ UNCHANGED <<pool, stop, queue, stopped, item, call, main, status, wanted>>

(* Mutant: the loop is while (!stop_). *)
FinishAndLeave(w) ==
  /\ wpc[w] = "running"
  /\ call[w] = NoCall
  /\ item' = [item EXCEPT ![w] = NoTask]
  /\ wpc' = [wpc EXCEPT ![w] = IF stop THEN "exited" ELSE "looking"]
  /\ UNCHANGED <<pool, stop, queue, stopped, call, main, status, wanted>>

(* The function returns. *)
FinishItem(w) ==
  /\ wpc[w] = "running"
  /\ call[w] = NoCall
  /\ item' = [item EXCEPT ![w] = NoTask]
  /\ wpc' = [wpc EXCEPT ![w] = "looking"]
  /\ UNCHANGED <<pool, stop, queue, stopped, call, main, status, wanted>>

-----------------------------------------------------------------------------
(* ~ThreadPool(), by the owner: no client is inside the pool any more. *)
RaiseStop ==
  /\ main.step = "alive"
  /\ \A c \in Clients : call[c] = NoCall
  /\ stop' = TRUE
  /\ main' = [step |-> "stop", next |-> 0]
  /\ UNCHANGED <<pool, queue, stopped, wpc, item, call, status, wanted>>

(* Queue::stop(), then its notify_all(). *)
StopQueue ==
  /\ main.step = "stop"
  /\ stopped' = [stopped EXCEPT ![main.next] = TRUE]
  /\ main' = [main EXCEPT !.step = "wake"]
  /\ UNCHANGED <<pool, stop, queue, wpc, item, call, status, wanted>>

(* Mutants: no notification, or one queue too many. *)
NotifyNobody ==
  /\ main.step = "wake"
  /\ main' = IF main.next = N - 1 THEN [step |-> "join", next |-> 0]
                                  ELSE [step |-> "stop", next |-> main.next + 1]
  /\ UNCHANGED <<pool, stop, queue, stopped, wpc, item, call, status, wanted>>

NotifyAll ==
  /\ main.step = "wake"
  /\ Wake(main.next)
  /\ main' = IF main.next = N - 1 THEN [step |-> "join", next |-> 0]
                                  ELSE [step |-> "stop", next |-> main.next + 1]
  /\ UNCHANGED <<pool, stop, queue, stopped, item, call, status, wanted>>

Join ==
  /\ main.step = "join"
  /\ wpc[main.next] = "exited"
  /\ main' = IF main.next = N - 1 THEN [step |-> "destroyed", next |-> 0]
                                  ELSE [main EXCEPT !.next = @ + 1]
  /\ UNCHANGED <<pool, stop, queue, stopped, wpc, item, call, status, wanted>>

-----------------------------------------------------------------------------
ScheduleById(c) ==
  \/ \E t \in Tasks, id \in Workers \union {Anywhere} : TestStop(c, t, id)
  \/ \E q \in Workers : Push(c, q)
  \/ NotifyOne(c)

Work(w) ==
  \/ \E q \in Workers : StealItem(w, q)
  \/ StealNothing(w) \/ PopItem(w) \/ PopNothing(w) \/ TestEnd(w) \/ FinishItem(w)

Destroy == RaiseStop \/ StopQueue \/ NotifyAll \/ Join

Next ==
  \/ \E c \in Threads : ScheduleById(c)
  \/ \E w \in Workers : Work(w)
  \/ Destroy

Spec == Init /\ [][Next]_vars

(* Threads that can move do; every function returns.  A call that has begun  *)
(* goes on; nothing makes a client call, or the owner destroy the pool.      *)
Fairness ==
  /\ \A w \in Workers : WF_vars(Work(w))
  /\ \A c \in Threads : WF_vars(NotifyOne(c) \/ \E q \in Workers : Push(c, q))
  /\ WF_vars(StopQueue \/ NotifyAll \/ Join)
-----------------------------------------------------------------------------
(* Properties. *)

Calls == {NoCall} \union [step : {"push"}, task : Tasks]
                  \union [step : {"notify"}, queue : Workers]
Mains == [step : {"alive", "stop", "wake", "join", "destroyed"}, next : Workers]

TypeOK ==
  /\ pool \in Pools
  /\ stop \in BOOLEAN
  /\ queue \in [Workers -> Seq(Tasks)]
  /\ stopped \in [Workers -> BOOLEAN]
  /\ wpc \in [Workers -> {"looking", "popping", "asleep", "running", "ending", "exited"}]
  /\ item \in [Workers -> Tasks \union {NoTask}]
  /\ \A w \in Workers : wpc[w] = "running" <=> item[w] # NoTask
  /\ call \in [Threads -> Calls]
  /\ main \in Mains
  /\ status \in [Tasks -> {"new", "refused", "passed", "accepted", "executed"}]
  /\ wanted \in [Tasks -> Workers \union {Anywhere}]

(* Every accepted task is in one queue, once, and nothing else is: pushes,   *)
(* pops and thefts neither lose nor duplicate it, and one scheduled by id    *)
(* waits at that worker.                                                     *)
Places(t) == UNION {{<<w, i>> : i \in {j \in DOMAIN queue[w] : queue[w][j] = t}} :
                    w \in Workers}
AcceptedIsQueuedOnce ==
  \A t \in Tasks :
    /\ status[t] = "accepted" =>
         \E place \in Places(t) : Places(t) = {place} /\ wanted[t] \in {Anywhere, place[1]}
    /\ status[t] # "accepted" => Places(t) = {}

(* No wake-up is lost: a worker sleeps next to work, or in a stopped queue,  *)
(* only while the notification is on its way.                                *)
SleeperWillBeWoken ==
  \A w \in Workers :
    wpc[w] = "asleep" =>
      /\ queue[w] # <<>> => \E c \in Threads : call[c] = [step |-> "notify", queue |-> w]
      /\ stopped[w] => main = [step |-> "wake", next |-> w]

(* The pool does not die on a function it accepted. *)
NothingAcceptedIsLost ==
  main.step = "destroyed" => \A t \in Tasks : status[t] # "accepted"

(* The queues neither lose nor duplicate nor forget a function: it lies in   *)
(* one of them, and next to it nobody sleeps for good.  Nor does it lie      *)
(* there when the pool is destroyed, if functions schedule to their own      *)
(* worker only: whoever leaves has emptied his queue.                        *)
EveryFunctionHasItsPlace ==
  /\ AcceptedIsQueuedOnce
  /\ SleeperWillBeWoken
  /\ pool.nesting = "own_queue" => NothingAcceptedIsLost

(* What a caller knows of each function. *)
Outcome == [t \in Tasks |-> IF status[t] = "passed" THEN "new" ELSE status[t]]

(* The pool is an executor in the sense of Executor.h: what it has accepted  *)
(* it executes, once, also while it is being destroyed, provided that        *)
(* functions schedule only to their own worker.                              *)
Contract == INSTANCE ExecutorContract WITH
  status <- IF pool.nesting = "anywhere" THEN [t \in Tasks |-> "new"] ELSE Outcome
ImplementsContract == Contract!Spec

(* The destructor returns: it wakes every sleeper and no worker misses stop. *)
DestructorReturns == main.step = "stop" ~> main.step = "destroyed"
=============================================================================
