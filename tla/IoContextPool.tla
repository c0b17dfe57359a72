--------------------------- MODULE IoContextPool ---------------------------
(***************************************************************************)
(* coro_io::io_context_pool and ExecutorWrapper, io_context_pool.hpp: run()*)
(* gives each io_context a thread and joins them; stop() takes the work    *)
(* guards away, so that the threads end when they have nothing left to do, *)
(* and drains the contexts itself when run() has not come first.           *)
(*                                                                         *)
(* asio is external: io_context::run() takes handlers in their order until *)
(* there are none and no guard, and leaves the context stopped; a stopped  *)
(* context keeps what is posted to it.                                     *)
(***************************************************************************)
EXTENDS Naturals, Sequences

CONSTANTS PoolSize,  \* contexts
          Handlers,  \* functions that are scheduled, by clients or each other
          Stoppers   \* threads that call stop(), among them the destructor's

VARIABLES next,     \* next_io_context_, modulo PoolSize
          claimed,  \* has_run_or_stop_
          guarded,  \* the contexts whose work guard is there
          queue,    \* the handlers of each context
          loop,     \* run() of each context: "none", "running" or "stopped"
          current,  \* the handler that each runs
          runner,   \* where run() of the pool is
          stopper,  \* where each stop() is
          once,     \* flag_: "fresh", "busy" or "called"
          status    \* "new", "early" (scheduled before stop()), "late" or "ran"

vars == <<next, claimed, guarded, queue, loop, current, runner, stopper, once, status>>

Contexts == 0..(PoolSize - 1)
Nothing == "nothing"

Init ==
  /\ next = 0
  /\ claimed = FALSE
  /\ guarded = Contexts
  /\ queue = [c \in Contexts |-> <<>>]
  /\ loop = [c \in Contexts |-> "none"]
  /\ current = [c \in Contexts |-> Nothing]
  /\ runner = "ready"
  /\ stopper = [s \in Stoppers |-> "ready"]
  /\ once = "fresh"
  /\ status = [h \in Handlers |-> "new"]

-----------------------------------------------------------------------------
(* get_executor() goes round; ExecutorWrapper::schedule() dispatches: inside *)
(* a handler of that context the function is called, else it is queued.      *)
Schedule(c, inside) ==
  /\ next' = (next + 1) % PoolSize
  /\ \E h \in Handlers :
       /\ status[h] = "new"
       /\ IF inside
            THEN status' = [status EXCEPT ![h] = "ran"] /\ UNCHANGED queue
            ELSE /\ status' = [status EXCEPT ![h] = IF once = "fresh" THEN "early" ELSE "late"]
                 /\ queue' = [queue EXCEPT ![c] = Append(@, h)]
  /\ UNCHANGED <<claimed, guarded, loop, current, runner, stopper, once>>

ScheduleByClient == Schedule(next, FALSE)
ScheduleByHandler == \E c \in Contexts : current[c] # Nothing /\ Schedule(next, next = c)

-----------------------------------------------------------------------------
(* io_context::run() *)

Take(c) ==
  /\ loop[c] = "running" /\ current[c] = Nothing /\ queue[c] # <<>>
  /\ current' = [current EXCEPT ![c] = Head(queue[c])]
  /\ queue' = [queue EXCEPT ![c] = Tail(@)]
  /\ UNCHANGED <<next, claimed, guarded, loop, runner, stopper, once, status>>

Finish(c) ==
  /\ current[c] # Nothing
  /\ current' = [current EXCEPT ![c] = Nothing]
  /\ status' = [status EXCEPT ![current[c]] = "ran"]
  /\ UNCHANGED <<next, claimed, guarded, queue, loop, runner, stopper, once>>

OutOfWork(c) ==
  /\ loop[c] = "running" /\ current[c] = Nothing /\ queue[c] = <<>> /\ c \notin guarded
  /\ loop' = [loop EXCEPT ![c] = "stopped"]
  /\ UNCHANGED <<next, claimed, guarded, queue, current, runner, stopper, once, status>>

-----------------------------------------------------------------------------
(* run() of the pool *)

Run ==
  /\ runner = "ready"
  /\ claimed' = TRUE
  /\ runner' = IF claimed THEN "returned" ELSE "starting"
  /\ UNCHANGED <<next, guarded, queue, loop, current, stopper, once, status>>

StartThread ==
  /\ runner = "starting"
  /\ \E c \in Contexts :
       /\ loop[c] = "none" /\ \A d \in Contexts : d < c => loop[d] # "none"
       /\ loop' = [loop EXCEPT ![c] = "running"]
  /\ UNCHANGED <<next, claimed, guarded, queue, current, runner, stopper, once, status>>

Join ==
  /\ runner = "starting" /\ \A c \in Contexts : loop[c] = "stopped"
  /\ runner' = "returned"
  /\ UNCHANGED <<next, claimed, guarded, queue, loop, current, stopper, once, status>>

-----------------------------------------------------------------------------
(* stop(): call_once() *)

Stopper(s, from, to) == stopper[s] = from /\ stopper' = [stopper EXCEPT ![s] = to]

CallOnce(s) ==
  /\ once = "fresh"
  /\ Stopper(s, "ready", "claiming")
  /\ once' = "busy"
  /\ UNCHANGED <<next, claimed, guarded, queue, loop, current, runner, status>>

CallAgain(s) ==
  /\ once = "called"
  /\ Stopper(s, "ready", "returned")
  /\ UNCHANGED <<next, claimed, guarded, queue, loop, current, runner, once, status>>

ClaimStop(s) ==
  /\ Stopper(s, "claiming", IF claimed THEN "clearing" ELSE "clearing to drain")
  /\ claimed' = TRUE
  /\ UNCHANGED <<next, guarded, queue, loop, current, runner, once, status>>

(* work_.clear(), a guard after the other. *)
DropGuard(s) ==
  /\ stopper[s] \in {"clearing", "clearing to drain"}
  /\ \E c \in guarded : /\ \A d \in guarded : c <= d
                        /\ guarded' = guarded \ {c}
  /\ UNCHANGED <<next, claimed, queue, loop, current, runner, stopper, once, status>>

(* Mutant: whoever stops leaves the contexts to run(), also when run() has   *)
(* not begun.                                                                *)
LeaveAtOnce(s) ==
  /\ guarded = {}
  /\ \/ Stopper(s, "clearing", "returned")
     \/ Stopper(s, "clearing to drain", "returned")
  /\ once' = "called"
  /\ UNCHANGED <<next, claimed, guarded, queue, loop, current, runner, status>>

Leave(s) ==
  /\ guarded = {}
  /\ \/ Stopper(s, "clearing", "returned")
     \/ /\ \A c \in Contexts : loop[c] = "stopped"
        /\ Stopper(s, "clearing to drain", "returned")
  /\ once' = "called"
  /\ UNCHANGED <<next, claimed, guarded, queue, loop, current, runner, status>>

(* e->run() for one context after the other, in the thread of stop(). *)
DrainNext(s) ==
  /\ stopper[s] = "clearing to drain" /\ guarded = {}
  /\ \E c \in Contexts :
       /\ loop[c] = "none" /\ \A d \in Contexts : d < c => loop[d] = "stopped"
       /\ loop' = [loop EXCEPT ![c] = "running"]
  /\ UNCHANGED <<next, claimed, guarded, queue, current, runner, stopper, once, status>>

-----------------------------------------------------------------------------
Loop(c) == Take(c) \/ Finish(c) \/ OutOfWork(c)
RunGoesOn == StartThread \/ Join
Stop(s) == CallOnce(s) \/ CallAgain(s) \/ ClaimStop(s) \/ DropGuard(s) \/ Leave(s) \/ DrainNext(s)

Next ==
  \/ ScheduleByClient \/ ScheduleByHandler
  \/ \E c \in Contexts : Loop(c)
  \/ Run \/ RunGoesOn
  \/ \E s \in Stoppers : Stop(s)

Spec == Init /\ [][Next]_vars

(* Threads go on and handlers return; the destructor calls stop() if nobody  *)
(* else does.  Nothing makes a program call run().                           *)
Fairness ==
  /\ \A c \in Contexts : WF_vars(Loop(c))
  /\ WF_vars(RunGoesOn)
  /\ \A s \in Stoppers : WF_vars(Stop(s))
-----------------------------------------------------------------------------
(* What was scheduled before stop() is called, and run() and stop() return,  *)
(* whichever of the two comes first and however they overlap.  (A function   *)
(* that is scheduled later may meet a context that has stopped and be lost,  *)
(* although schedule() says true.)                                           *)
EarlyRunsAndAllReturn ==
  <>[](/\ \A h \in Handlers : status[h] # "early"
       /\ \A s \in Stoppers : stopper[s] = "returned"
       /\ runner # "starting")
=============================================================================
