---------------------------- MODULE MCCoroutines ----------------------------
(* Small instances of what coroutines and futures are combined with.  An     *)
(* execution is one of the component named by the variable component; the    *)
(* variables of the others keep the value they have at rest.                 *)
EXTENDS CoroSemaphore

CONSTANTS N, Scenarios,                            \* CollectAll
          Forms,                                   \* CollectAny (with N)
          Executors, Workers, MaxDepth, MaxAwaits, \* LazyChain
          Programs,                                \* Generator
          MaxStates                                \* FutureChain

VARIABLES component,
          setup, batches, walk, inputs, started, event, awaiting, output, resumed, given,
          form, parent, next, loop, task, inline, down, idx, value, got,
          chain, at, resumer, syncWait, delivered, refused, direct, awaits,
          bodies, frames, running, consumed, outcome,
          states, future, taken, stopped

allVars  == <<setup, batches, walk, inputs, started, event, awaiting, output, resumed, given>>
anyVars  == <<form, parent, next, loop, task, inline, down, idx, value, got>>
lazyVars == <<chain, at, resumer, syncWait, delivered, refused, direct, awaits>>
genVars  == <<bodies, frames, running, consumed, outcome>>
futVars  == <<states, future, taken, stopped>>

(* Every generator function of at most two statements, three deep.           *)
UpTo2(S) == {<<>>} \union {<<a>> : a \in S} \union (S \X S)
Y    == [does |-> "yield"]
T    == [does |-> "throw"]
E(g) == {[does |-> "nest", g |-> g, catches |-> c] : c \in BOOLEAN}
SmallPrograms == UpTo2({Y} \union E(2) \union {[does |-> "nest", g |-> 3, catches |-> FALSE]})
                   \X UpTo2({Y, T} \union E(3)) \X UpTo2({Y, T})

(* Calls of collectAll() that count the event down as often as it was armed: *)
(* a window in which exactly one input has no executor, then one of a single *)
(* input; and windows of one input each.                                     *)
Calling(entry, max, choices) ==
  {[entry |-> entry, maxConcurrency |-> max, exec |-> e] : e \in choices}
Working ==
  Calling("collectAllWindowed", 3, {S \in SUBSET {1, 2, 3} : Cardinality(S) = 2})
    \union Calling("collectAllWIndowedPara", 1, {{}, 1..N})

All  == INSTANCE CollectAll WITH parent <- batches, loop <- walk, task <- inputs, inline <- started,
                                 count <- event, taken <- given
Any  == INSTANCE CollectAny WITH count <- down
Lazy == INSTANCE LazyChain
Gen  == INSTANCE Generator
Fut  == INSTANCE FutureChain

(* The other calls of collectAll() are those of MCCollectAll.                *)
ASSUME InstanceAssumption ==
  /\ Lazy!LazyAssumption /\ Gen!GeneratorAssumption
  /\ All!CollectAssumption /\ \A call \in Scenarios : All!CountedOnce(call)

AllAtRest ==
  /\ setup = [entry |-> "collectAllWIndowedPara", maxConcurrency |-> 1, exec |-> {}]
  /\ batches = [at |-> "returned", batch |-> N] /\ walk = [b \in 1..N |-> [step |-> "left", i |-> b]]
  /\ inputs = [i \in 1..N |-> "finished"] /\ started = {}
  /\ event = <<>> /\ awaiting = <<>> /\ output = {} /\ resumed = {} /\ given = <<>>
AnyAtRest ==
  /\ form = "vector" /\ parent = "suspended" /\ next = 1 /\ loop = "left"
  /\ task = [i \in 1..N |-> "new"] /\ inline = {} /\ down = N + 1
  /\ idx = 0 /\ value = 0 /\ got = <<0, 0>>
LazyAtRest ==
  /\ chain = <<>> /\ at = Lazy!Suspended /\ resumer = Lazy!Nothing /\ syncWait = Lazy!Nobody
  /\ delivered = 1 /\ refused = FALSE /\ direct = FALSE /\ awaits = 0
GenAtRest ==
  /\ bodies = <<<<>>>> /\ frames = <<>> /\ running = 0 /\ consumed = <<>> /\ outcome = "dropped"
FutAtRest == states = <<>> /\ future = Fut!Gone /\ taken = {} /\ stopped = FALSE
SemaphoreAtRest ==
  /\ kind = "latch" /\ place = [c \in Coroutines |-> "idle"] /\ lock = Nobody /\ count = LeastMaxValue

MCInit ==
  \/ component = "semaphore" /\ Init /\ AllAtRest /\ AnyAtRest /\ LazyAtRest /\ GenAtRest /\ FutAtRest
  \/ component = "collectAll" /\ SemaphoreAtRest /\ All!Init /\ AnyAtRest /\ LazyAtRest /\ GenAtRest /\ FutAtRest
  \/ component = "collectAny" /\ SemaphoreAtRest /\ AllAtRest /\ Any!Init /\ LazyAtRest /\ GenAtRest /\ FutAtRest
  \/ component = "lazy" /\ SemaphoreAtRest /\ AllAtRest /\ AnyAtRest /\ Lazy!Init /\ GenAtRest /\ FutAtRest
  \/ component = "generator" /\ SemaphoreAtRest /\ AllAtRest /\ AnyAtRest /\ LazyAtRest /\ Gen!Init /\ FutAtRest
  \/ component = "future" /\ SemaphoreAtRest /\ AllAtRest /\ AnyAtRest /\ LazyAtRest /\ GenAtRest /\ Fut!Init

MCNext ==
  \/ component = "semaphore" /\ Next /\ UNCHANGED <<component, allVars, anyVars, lazyVars, genVars, futVars>>
  \/ component = "collectAll" /\ All!Next /\ UNCHANGED <<component, vars, anyVars, lazyVars, genVars, futVars>>
  \/ component = "collectAny" /\ Any!Next /\ UNCHANGED <<component, vars, allVars, lazyVars, genVars, futVars>>
  \/ component = "lazy" /\ Lazy!Next /\ UNCHANGED <<component, vars, allVars, anyVars, genVars, futVars>>
  \/ component = "generator" /\ Gen!Next /\ UNCHANGED <<component, vars, allVars, anyVars, lazyVars, futVars>>
  \/ component = "future" /\ Fut!Next /\ UNCHANGED <<component, vars, allVars, anyVars, lazyVars, genVars>>

MCSpec ==
  /\ MCInit /\ [][MCNext]_<<component, vars, allVars, anyVars, lazyVars, genVars, futVars>>
  /\ All!Fairness /\ Any!Fairness /\ Lazy!Fairness /\ Fut!Fairness

(* collectAll(): the parent returns, and with the result of every input.     *)
ResultsComplete == component = "collectAll" => All!ResultsComplete
ParentReturns == component = "collectAll" => All!ParentReturns

(* collectAny(): the first result arrives, and one only.                     *)
FirstResultArrives == Any!FirstResultArrives

(* Lazy: a coroutine runs on the executor it has recorded and sees the local *)
(* of the caller that keeps one; the callback of start() is called once.     *)
OwnExecutorAndLocal == Lazy!RunsOnItsExecutor /\ Lazy!LocalOfTheKeeper
CallbackRunsOnce == Lazy!CallbackRunsOnce

(* Generator: the elements of the recursive program, in its order.           *)
ElementsInOrder == Gen!ElementsInOrder

(* Future: a chained result is that of the composed functions, and arrives.  *)
ResultIsComposition == Fut!ResultIsComposition
ChainResolves == Fut!ChainResolves

(* "Get value blocked thread when the future doesn't have a value"           *)
(* (Future.h:162): what is taken out of a future is a result.                *)
TakenIsResult == Fut!TakenIsResult
=============================================================================
