---------------------------- MODULE FutureChain ----------------------------
(***************************************************************************)
(* A future and what is chained to it: Future.h over LocalState.h, Try.h   *)
(* and Promise.h, with those who take the result of a future: get() and    *)
(* wait(), co_await (coro/FutureAwaiter.h, coro/ResumeBySchedule.h),       *)
(* uthread::await (uthread/Await.h) and collectAll (Collect.h).            *)
(*                                                                         *)
(* A shared state is the one-shot cell that FutureState implements: a      *)
(* result and a continuation, in either order, then one run of the         *)
(* continuation, in whichever thread (module OneShot).                     *)
(***************************************************************************)
EXTENDS Naturals, Sequences, FiniteSets

CONSTANT MaxStates   \* bound on the shared states of a run

VARIABLES states,  \* the shared states, each with its Try and its continuation
          future,  \* the future in the hands of the program: the number of a shared
                   \* state, or 0 and the Try of its LocalState
          taken,   \* the Tries that were taken out of it
          stopped  \* an assert() failed or a null pointer was used

vars == <<states, future, taken, stopped>>

(* A Try is empty, or a value or an error, of a promise that the program set *)
(* at some state, or of the function that was chained to it.                 *)
Empty == [is |-> "empty", of |-> 0]
Value(s) == [is |-> "value", of |-> s]
Error(s) == [is |-> "error", of |-> s]

(* What is chained with thenTry() or thenValue(): a function that returns a  *)
(* value, throws, or returns a future, which is ready with a value or an     *)
(* error, or whose promise is yet to be set.  Forward is the continuation    *)
(* that thenImpl() sets on that future.                                      *)
Functions == [isTry : BOOLEAN, does : {"value", "throw", "promise", "ready", "failed"}]
Forward   == [isTry |-> TRUE, does |-> "forward"]

(* A continuation sets the promise of state to.                              *)
NewState == [try |-> Empty, to |-> 0, fn |-> Forward, ran |-> FALSE]

Shared(s) == [shared |-> s, local |-> Empty]
Local(t)  == [shared |-> 0, local |-> t]
Gone      == Local(Empty)    \* moved from

(* The future of a promise, or one that was made ready.                      *)
Init ==
  /\ \/ future = Shared(1) /\ states = <<NewState>>
     \/ future \in {Local(Value(0)), Local(Error(0))} /\ states = <<>>
  /\ taken = {}
  /\ stopped = FALSE

Holding == ~stopped /\ future # Gone

(* The bound leaves room for the states that chained functions will return.  *)
Returning == {s \in DOMAIN states : states[s].fn.does = "promise" /\ ~states[s].ran}
RoomFor(n) == Len(states) + Cardinality(Returning) + n <= MaxStates

-----------------------------------------------------------------------------
(* Try::available(): an empty Try counts as a result, so that a future over  *)
(* a shared state is valid and has a result from the start, because its      *)
(* LocalState is empty.  A failed ready one has none, and hasResult() goes   *)
(* on to the shared state that it has not.                                   *)
available(t) == t.is # "error"
valid(f) == f.shared # 0 \/ available(f.local)
hasResultCrashes(f) == ~available(f.local) /\ f.shared = 0
getTry(f) == IF f.shared # 0 THEN states[f.shared].try ELSE f.local

(* The result is taken as it is found, the future is gone.                   *)
Take  == taken' = taken \union {getTry(future)} /\ future' = Gone /\ UNCHANGED <<states, stopped>>
Throw == future' = Gone /\ UNCHANGED <<states, taken, stopped>>
Stop  == stopped' = TRUE /\ UNCHANGED <<states, future, taken>>

(* get(): wait() finds a result; or "Future is broken".                      *)
Get == Holding /\ IF valid(future) THEN Take ELSE Throw

(* co_await of the future, or of ResumeBySchedule() of it: await_ready().    *)
CoAwait == Holding /\ IF hasResultCrashes(future) THEN Stop ELSE Take

(* uthread::await() *)
UthreadAwait == Holding /\ IF valid(future) THEN Take ELSE Throw

(* collectAll() of futures: every one has a result, so that the vector is    *)
(* filled and returned at once.                                              *)
CollectAll == Holding /\ IF hasResultCrashes(future) THEN Stop ELSE Take

-----------------------------------------------------------------------------
(* The states whose promise is with the program, and the one to which the    *)
(* promise of another one was chained.                                       *)
Sources(s) == {r \in DOMAIN states : states[r].to = s}
Owned == {s \in DOMAIN states : Sources(s) = {}}

(* Promise::setValue(), setException(), or the death of the last promise.    *)
SetResult(s) ==
  /\ ~stopped
  /\ s \in Owned /\ states[s].try = Empty
  /\ \E t \in {Value(s), Error(s)} : states' = [states EXCEPT ![s].try = t]
  /\ UNCHANGED <<future, taken, stopped>>

(* thenImpl() on a shared state: a new promise, and a continuation that will *)
(* set it.                                                                   *)
ThenShared(fn) ==
  /\ Holding /\ future.shared # 0 /\ RoomFor(IF fn.does = "promise" THEN 2 ELSE 1)
  /\ LET next == Len(states) + 1
     IN  /\ states' = Append([states EXCEPT ![future.shared].to = next, ![future.shared].fn = fn], NewState)
         /\ future' = Shared(next)
  /\ UNCHANGED <<taken, stopped>>

(* On a ready future the function is called at once, and a future that it    *)
(* returns is the result.  A failed one is not valid: logicAssert() throws.  *)
ThenLocal(fn) ==
  /\ Holding /\ future.shared = 0 /\ RoomFor(1)
  /\ IF valid(future) /\ fn.does = "promise"
       THEN states' = Append(states, NewState) /\ future' = Shared(Len(states) + 1)
       ELSE /\ UNCHANGED states
            /\ future' = IF ~valid(future) THEN Gone
                         ELSE IF fn.does \in {"throw", "failed"} THEN Local(Error(0))
                         ELSE Local(Value(0))
  /\ UNCHANGED <<taken, stopped>>

-----------------------------------------------------------------------------
(* Mutant: thenValue() calls its function on an error, too. *)
SkipsNever(s) == s \notin DOMAIN states

(* A continuation runs, where there is an executor at its worker.  What      *)
(* happens to its state s and to the promise it sets; value() of an error    *)
(* throws it again, so that the function of a thenValue() is not called.     *)
Runs(s) ==
  /\ ~stopped /\ states[s].to # 0 /\ ~states[s].ran /\ states[s].try # Empty
  /\ UNCHANGED <<future, taken>>
Skips(s) == ~states[s].fn.isTry /\ states[s].try.is = "error"
Sets(s, t) == states' = [states EXCEPT ![s].ran = TRUE, ![states[s].to].try = t] /\ UNCHANGED stopped

RunSkipping(s)   == Runs(s) /\ Skips(s) /\ Sets(s, states[s].try)
RunFunction(s)   == /\ Runs(s) /\ ~Skips(s)
                    /\ states[s].fn.does \in {"value", "throw", "ready"}
                    /\ Sets(s, IF states[s].fn.does = "throw" THEN Error(s) ELSE Value(s))

(* Mutant: the future that the function returned gets no continuation. *)
RunReturningUnchained(s) ==
  /\ Runs(s) /\ ~Skips(s) /\ states[s].fn.does = "promise"
  /\ states' = Append([states EXCEPT ![s].ran = TRUE], NewState)
  /\ UNCHANGED stopped

(* The function returns a future whose promise is to be set.                 *)
RunReturning(s) ==
  /\ Runs(s) /\ ~Skips(s) /\ states[s].fn.does = "promise"
  /\ states' = Append([states EXCEPT ![s].ran = TRUE], [NewState EXCEPT !.to = states[s].to])
  /\ UNCHANGED stopped

(* It returns a failed ready one: assert(valid()) of setContinuation() fails, *)
(* or, without assertions, the error is passed on.                           *)
RunReturningError(s) ==
  /\ Runs(s) /\ ~Skips(s) /\ states[s].fn.does = "failed"
  /\ Sets(s, Error(s)) \/ (stopped' = TRUE /\ UNCHANGED states)

RunForward(s) == Runs(s) /\ states[s].fn = Forward /\ Sets(s, states[s].try)

Run(s) == RunSkipping(s) \/ RunFunction(s) \/ RunReturning(s) \/ RunReturningError(s) \/ RunForward(s)
-----------------------------------------------------------------------------
Next ==
  \/ Get \/ CoAwait \/ UthreadAwait \/ CollectAll
  \/ \E fn \in Functions : ThenShared(fn) \/ ThenLocal(fn)
  \/ \E s \in DOMAIN states : SetResult(s) \/ Run(s)

Spec == Init /\ [][Next]_vars

(* An executor runs what it accepted; a promise is set, or dies.             *)
Fairness == WF_vars(\E s \in DOMAIN states : SetResult(s) \/ Run(s))
-----------------------------------------------------------------------------
(* What state s must hold: an error passes by every thenValue() up to the    *)
(* next thenTry(), and a function that returned a future stands for it.      *)
Chained(s) == {r \in Sources(s) : states[r].fn # Forward}
Meaning[s \in DOMAIN states] ==
  IF Chained(s) = {} THEN states[s].try
  ELSE LET r == CHOOSE r \in Chained(s) : TRUE
           returned == {i \in Sources(s) : states[i].fn = Forward}
           fn == states[r].fn
       IN  IF Meaning[r] = Empty THEN Empty
           ELSE IF Meaning[r].is = "error" /\ ~fn.isTry THEN Meaning[r]
           ELSE CASE fn.does \in {"throw", "failed"} -> Error(r)
                  [] fn.does \in {"value", "ready"}       -> Value(r)
                  [] fn.does = "promise" ->
                       IF returned = {} THEN Empty ELSE Meaning[CHOOSE i \in returned : TRUE]

(* However promises, continuations and the futures that functions return     *)
(* interleave, a result is that of the composed functions: the right value,  *)
(* or the error of the function that failed first and was not handled.       *)
ResultIsComposition ==
  \A s \in DOMAIN states : states[s].try # Empty => states[s].try = Meaning[s]

(* Every future of a chain gets its result when the promises are set, unless *)
(* an assertion stopped the program.                                         *)
ChainResolves == <>[](stopped \/ \A s \in DOMAIN states : states[s].try # Empty)

(* "Get value blocked thread when the future doesn't have a value"           *)
(* (Future.h:162): what is taken out of a future is a result.                *)
TakenIsResult == Empty \notin taken
=============================================================================
