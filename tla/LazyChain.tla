----------------------------- MODULE LazyChain -----------------------------
(***************************************************************************)
(* A chain of Lazy coroutines and the threads that run it: coro/Lazy.h     *)
(* with Dispatch.h, ViaCoroutine.h, Sleep.h, SyncAwait.h,                  *)
(* DetachedCoroutine.h and the scheduling calls of Executor.h and          *)
(* SimpleExecutor.h.                                                       *)
(*                                                                         *)
(* chain holds the promises of the coroutines that await each other, the   *)
(* one that runs (or will be resumed) last; a frame leaves it when its     *)
(* awaiter destroys the handle.  A coroutine body is any sequence of the   *)
(* awaits below.  A context is a worker of an executor, or Outside, a      *)
(* thread of the program.  An executor may refuse whatever it is given.    *)
(***************************************************************************)
EXTENDS Naturals, Sequences

CONSTANTS Executors,
          Workers,    \* of each executor
          MaxDepth,   \* bound on the coroutines that await each other
          MaxAwaits   \* bound on the awaits of a run

VARIABLES chain,     \* per coroutine: executor_ and lazy_local_, the latter as
                     \* the place in chain of the coroutine that keeps the object
          at,        \* the context that runs the last coroutine, or Suspended
          resumer,   \* what will resume it: the context it is queued at,
                     \* Event, Timer, or Nothing
          syncWait,  \* the context that blocks in syncAwait(), or Nobody
          delivered, \* how often the callback of start() was called
          refused,   \* an executor refused, and the answer was not looked at
          direct,    \* no suspension yet, after directlyStart() or setEx()
          awaits

vars == <<chain, at, resumer, syncWait, delivered, refused, direct, awaits>>

None      == "none"
Outside   == <<None, 0>>
Suspended == <<"suspended", 0>>
Nothing == <<"nothing", 0>>       \* the other values of resumer and syncWait
Event   == <<"event", 0>>
Timer   == <<"timer", 0>>
Nobody  == <<"nobody", 0>>
WorkersOf(ex) == {ex} \X Workers
Contexts  == {Outside} \union (Executors \X Workers)

LazyAssumption ==
  Executors \cap {None, Suspended[1], Nothing[1], Event[1], Timer[1], Nobody[1]} = {}

Top == Len(chain)
Running == at # Suspended /\ chain # <<>>
Stay == UNCHANGED <<at, resumer, refused, direct>>

(* Executor::schedule(), its result ignored: the function is queued at one   *)
(* of the workers, or refused for good.                                      *)
ScheduleOn(ex) ==
  /\ at' = Suspended /\ direct' = FALSE
  /\ \/ resumer' \in WorkersOf(ex) /\ UNCHANGED refused
     \/ resumer' = Nothing /\ refused' = TRUE

Suspend(until) == at' = Suspended /\ resumer' = until /\ direct' = FALSE /\ UNCHANGED refused

-----------------------------------------------------------------------------
(* Where the first coroutine begins.  Only a rescheduled Lazy asks its       *)
(* executor; the others run in the thread of their caller.                   *)
Starts(ex, reschedule, caller) ==
  IF reschedule
    THEN /\ at = Suspended /\ direct = FALSE
         /\ \/ resumer \in WorkersOf(ex) /\ refused = FALSE
            \/ resumer = Nothing /\ refused = TRUE
    ELSE at = caller /\ direct = TRUE /\ resumer = Nothing /\ refused = FALSE

(* Lazy::start(), directlyStart(), via(ex).start() and syncAwait() of any of *)
(* them, called in a context; syncAwait() refuses to be called on the        *)
(* executor of the Lazy.                                                     *)
Init ==
  \E ex \in Executors \union {None}, reschedule \in BOOLEAN, caller \in Contexts, wait \in BOOLEAN :
    /\ chain = <<[executor |-> ex, local |-> 0, keeper |-> FALSE]>>
    /\ reschedule => ex # None
    /\ Starts(ex, reschedule, caller)
    /\ wait => ex = None \/ caller[1] # ex
    /\ syncWait = IF wait THEN caller ELSE Nobody
    /\ delivered = 0
    /\ awaits = 0

(* A worker runs what is queued at it, unless it blocks in syncAwait(), as   *)
(* the calling thread does from the first suspension on.                     *)
Resume ==
  /\ resumer \in Contexts \ {syncWait}
  /\ at' = resumer
  /\ resumer' = Nothing
  /\ UNCHANGED <<chain, syncWait, delivered, refused, direct, awaits>>

Await == Running /\ awaits < MaxAwaits /\ awaits' = awaits + 1 /\ UNCHANGED <<syncWait, delivered>>

(* Mutant: the awaited Lazy keeps the executor it has. *)
AwaitLazyAsItIs ==
  /\ Await /\ Top < MaxDepth
  /\ chain' = Append(chain, [chain[Top] EXCEPT !.executor = None, !.keeper = FALSE])
  /\ Stay

(* co_await of a Lazy, or of its coAwaitTry(): the awaited coroutine         *)
(* inherits executor and local, and runs at once (symmetric transfer).       *)
AwaitLazy ==
  /\ Await /\ Top < MaxDepth
  /\ chain' = Append(chain, [chain[Top] EXCEPT !.keeper = FALSE])
  /\ Stay

(* co_await of a Lazy with setLazyLocal(): a coroutine that keeps the object *)
(* awaits the Lazy.  When its own caller has a local the logicAssert throws, *)
(* and the caller gets the exception.                                        *)
AwaitWithLocal ==
  /\ Await /\ Top + 1 < MaxDepth
  /\ LET ex == chain[Top].executor
         keeper == [executor |-> ex, local |-> 0, keeper |-> TRUE]
     IN  chain' = IF chain[Top].local # 0 THEN chain
                  ELSE chain \o <<keeper, [executor |-> ex, local |-> Top + 1, keeper |-> FALSE]>>
  /\ Stay

(* co_await Yield{}: the logicAssert throws when there is no executor.       *)
AwaitYield ==
  /\ Await
  /\ IF chain[Top].executor = None THEN Stay ELSE ScheduleOn(chain[Top].executor)
  /\ UNCHANGED chain

(* ChangeLaziessExecutorTo(): all coroutines up to the root. *)
Changed(ex) == [i \in DOMAIN chain |-> [chain[i] EXCEPT !.executor = ex]]

(* Mutants: the answer of the executor is ignored; only the coroutine itself *)
(* is changed.                                                               *)
DispatchUntested ==
  \E ex \in Executors :
    /\ Await
    /\ IF chain[Top].executor = ex THEN UNCHANGED chain /\ Stay
       ELSE /\ chain' = Changed(ex)
            /\ \E until \in WorkersOf(ex) \union {Nothing} : Suspend(until)

DispatchUnrestored ==
  \E ex \in Executors :
    /\ Await
    /\ IF chain[Top].executor = ex THEN UNCHANGED chain /\ Stay
       ELSE /\ chain' = Changed(ex)
            /\ \/ \E w \in WorkersOf(ex) : Suspend(w)
               \/ Stay

(* co_await dispatch(ex): nothing when the coroutine is on ex; else the whole *)
(* chain changes its executor and moves over.  A refusal changes it back and *)
(* throws, so that the coroutine goes on where it is.                        *)
AwaitDispatch ==
  \E ex \in Executors :
    /\ Await
    /\ \/ chain[Top].executor = ex /\ UNCHANGED chain /\ Stay
       \/ /\ chain[Top].executor # ex
          /\ chain' = Changed(ex)
          /\ \E w \in WorkersOf(ex) : Suspend(w)
       \/ /\ chain[Top].executor # ex
          /\ chain' = Changed(chain[Top].executor)
          /\ Stay

(* co_await sleep(): the thread itself sleeps when there is no executor; else *)
(* executor->after(), whose detached thread schedules the continuation.      *)
AwaitSleep ==
  /\ Await
  /\ IF chain[Top].executor = None THEN Stay ELSE Suspend(Timer)
  /\ UNCHANGED chain

TimerFires ==
  /\ resumer = Timer
  /\ ScheduleOn(chain[Top].executor)
  /\ UNCHANGED <<chain, syncWait, delivered, awaits>>

(* co_await of an awaiter that knows no executor, such as a lock: wrapped in *)
(* a ViaCoroutine, it suspends or not.                                       *)
AwaitOther ==
  /\ Await
  /\ Stay \/ Suspend(Event)
  /\ UNCHANGED chain

(* Mutant: the final awaiter resumes the coroutine on its own. *)
EventResumesDirectly ==
  \E caller \in (Contexts \ {syncWait}) \union {Outside} :
    /\ resumer = Event
    /\ at' = caller /\ resumer' = Nothing
    /\ UNCHANGED <<chain, syncWait, delivered, refused, direct, awaits>>

(* Somebody resumes the ViaCoroutine, whose final awaiter calls checkin()    *)
(* with an indeterminate context (it initialises ctx_ with itself): the      *)
(* coroutine is queued at any worker, or runs in place when that is the      *)
(* caller.  Without an executor it is resumed by the caller.                 *)
EventHappens ==
  \E caller \in (Contexts \ {syncWait}) \union {Outside} :
    /\ resumer = Event
    /\ LET ex == chain[Top].executor
       IN  \/ /\ ex = None \/ caller \in WorkersOf(ex)
              /\ at' = caller /\ resumer' = Nothing /\ UNCHANGED <<refused, direct>>
           \/ ex # None /\ ScheduleOn(ex)
    /\ UNCHANGED <<chain, syncWait, delivered, awaits>>

(* co_return, or an exception that leaves the body: FinalAwaiter transfers to *)
(* the awaiting coroutine, whose awaiter takes the result (or rethrows) and  *)
(* destroys the frame; a keeper returns with it.  The last one returns to    *)
(* the detached coroutine of start(), which calls the callback.              *)
Awaiting == IF Top > 1 /\ chain[Top - 1].keeper THEN Top - 2 ELSE Top - 1

Return ==
  /\ Running
  /\ LET n == Awaiting
     IN  /\ chain' = SubSeq(chain, 1, n)
         /\ delivered' = IF n = 0 THEN delivered + 1 ELSE delivered
         /\ syncWait' = IF n = 0 THEN Nobody ELSE syncWait
  /\ UNCHANGED <<at, resumer, refused, direct, awaits>>

-----------------------------------------------------------------------------
Step == \/ AwaitLazy \/ AwaitWithLocal \/ AwaitYield \/ AwaitDispatch \/ AwaitSleep
        \/ AwaitOther \/ Return

Next == Step \/ Resume \/ TimerFires \/ EventHappens

(* A thread that runs goes on, timers fire, and what a coroutine waits for   *)
(* happens.                                                                  *)
Fairness == WF_vars(Running /\ Next) /\ WF_vars(resumer # Nothing /\ Next)
-----------------------------------------------------------------------------
(* A coroutine runs on the executor that it has recorded, whatever it        *)
(* awaited, was refused or was dispatched to, until it ends, and so do those *)
(* that await it and to whom it returns.  Only one that was started directly *)
(* may run elsewhere, until its first suspension.                            *)
RunsOnItsExecutor ==
  /\ \A i \in DOMAIN chain : chain[i].executor = chain[1].executor
  /\ Running /\ chain[Top].executor # None /\ ~direct => at[1] = chain[Top].executor

(* Every coroutine sees the local of the caller that keeps one, as long as   *)
(* that caller is there, and nobody else's.                                  *)
LocalOfTheKeeper ==
  \A i \in DOMAIN chain :
    LET keepers == {j \in 1..(i - 1) : chain[j].keeper}
    IN  IF keepers = {} THEN chain[i].local = 0 ELSE keepers = {chain[i].local}

(* The callback of start() is called, and then never again, and syncAwait()  *)
(* returns, unless an executor refused a function, or the coroutine was      *)
(* queued at the very thread that waits for it: syncAwait() looks only at    *)
(* the executor of the start (SyncAwait.h:13).                               *)
CallbackRunsOnce ==
  <>[](IF delivered = 0 THEN refused \/ resumer = syncWait ELSE delivered = 1 /\ syncWait = Nobody)
=============================================================================
