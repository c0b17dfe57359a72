# Verification of the asynchronous framework

TLA+ models of the framework in `src/`: futures, executors, C++20 coroutines
with their synchronisation primitives and combinators, the applications on top
of them (`coro_apps`), and the lock-free queue that these use. TLC checks the
models on small instances; for most of the components TLAPS proves the safety
properties that the runs check for all instances.

Contents: [1 conventions](#1-how-the-code-is-read) ·
[2 inventory](#2-inventory) · [3 modules](#3-modules-and-the-code-they-model) ·
[4 runs](#4-runs-and-bounds) · [5 fairness](#5-fairness) ·
[6 disagreements](#6-where-code-and-documentation-disagree) ·
[7 proofs](#7-proofs) · [8 observations](#8-observations-without-a-run) ·
[9 limits](#9-what-is-not-shown) · [10 plan](#10-plan)

`PROJECT.json` lists, for every definition, the source lines it stands for; for
every property a mutation of the model that breaks it; and the hazards of the
code at their lines.

## 1. How the code is read

* An action is one access to an atomic variable, one critical section, or one
  run of code between two points at which another thread, a coroutine switch or
  a callback can be noticed. Plain data that only the acting thread can reach is
  read and written in the action next to it.
* Memory is sequentially consistent. The code's acquire/release pairs order
  what the properties look at; where a plain variable is read while another
  thread writes it (the result tested by the loop of `collectAny`), the reader
  may see it or not.
* Values are abstract: a result is "value", "broken" or nothing, a function is
  a model value, a coroutine its identity, an element of a queue its index, a
  record of a log its thread and number.
* Some headers do not compile as they stand (`SharedMutex.h:87-89`,
  `coro_io.hpp:176` and `:319`, `client_queue.hpp` and `client_pool.hpp`, which
  call one counter by two names, and others). The evident intention of a slip is
  modelled and not counted as behaviour.
* `ConditionVariable::notifyOne`, `notifyAll` and `resumeWaiters` are declared
  and called, and defined nowhere. They are external: a notification takes one
  waiter, or all, out of the list; a waiter tests its condition again as `wait`
  says. So are asio, the kernel, the stream library and the allocator, with the
  answers and failures that the code handles.
* Undefined behaviour is a nondeterministic choice where its outcomes can be
  listed (the context that `ViaCoroutine`'s final awaiter gives to `checkin()`),
  and a stop where they cannot (a callback that would use a destroyed awaiter).

## 2. Inventory

### The system

`Promise` and `Future` share a `FutureState`; its continuation runs in place or
through an `Executor` (`schedule`, or `checkin` with the context that `checkout`
gave). `SimpleExecutor` is the executor over `ThreadPool`, `SimpleIOExecutor`
the one over the kernel's asynchronous I/O. A `Lazy` carries its executor and
hands it to what it awaits; `dispatch` changes it for the whole chain, and
`ViaCoroutine` brings a coroutine back to it. The primitives (`Mutex`,
`SharedMutex`, `Semaphore`, `Latch`) suspend coroutines and resume them in the
thread of whoever releases. `collectAll` and `collectAny` start inputs as
coroutines of their own. In `coro_apps`, `coro_io` wraps asio in awaitable
operations, `io_context_pool` gives each context a thread, `client_pool` keeps
connections with background coroutines and two lock-free queues, `load_blancer`
spreads requests over pools, `coro_epoll` is an event loop of its own and
`easylog` a writer thread behind a lock-free queue.

| component | state | hard behaviour | what makes it correct | module |
|---|---|---|---|---|
| coro::Mutex | `state_`, a stack of new waiters, `waiters_` | lock-free; unlock decides between release and hand-over while others push | one owner; no waiter lost or resumed twice; order of arrival | CoroMutex |
| FutureState, Promise | `state_`, three counts, result, continuation | result and continuation race; the executor may refuse; the object deletes itself | one call, with the result; freed with the last reference | FutureState |
| Future, LocalState, Try, chaining, awaiting, collectAll over futures | result or state, the continuation that makes the next one | inner futures, errors that pass by; what counts as a result | the composition of the functions; a result taken is a result | FutureChain |
| ThreadPool, Queue, SimpleExecutor | a queue per worker, `stop_` | functions schedule while the destructor stops and joins | what is accepted runs once; no lost wake-up; the destructor returns | ThreadPool |
| SimpleIOExecutor | requests in flight, `shutdown_` | shutdown with requests in flight | callbacks called unless it is shut down; destroy returns | SimpleIOExecutor |
| coro_epoll | sockets, a saved handle each, the epoll set | reader and writer share a socket | who is resumed was suspended; calls return | EpollSocket |
| collectAll, CountEvent | event, outputs, parent | the last of several threads resumes the parent | all results before the parent; it returns | CollectAll |
| collectAny | event, shared result | several finish at once, some never | one winner, and it arrives | CollectAny |
| SharedMutex, SpinLock, ConditionVariable | flag and count, two gates | one notification for many waiters | readers xor writer; nobody sleeps without reason | SharedMutex |
| Semaphore, Latch | a count, a lock, a condition variable | units taken between notification and return | nobody sleeps while there are units | CoroSemaphore |
| Lazy, Dispatch, ViaCoroutine, Sleep, SyncAwait | a chain of promises | refused schedules; moves between executors | the recorded executor and local; one callback | LazyChain |
| Generator | nested frames, three pointers | nesting, exceptions, destruction in the middle | the elements of the recursive program | Generator |
| client_queue, client_pool | double queue, counts, `is_alive_` | background coroutines start and give up | idle clients are closed; a pool comes back | ClientQueue, ClientPool |
| client_pools, load_blancer | map of pools; index and weight | two threads make one pool; weights sink and skip | one pool per host; shares by weight | LoadBlancer |
| rate_limiter | stored permits, next ticket | rounding, change of rate | the rate over every window | RateLimiter |
| io_context_pool | contexts, guards, flags | run against stop | early functions run; both return | IoContextPool |
| coro_io | awaitors, channel | answers on other threads; a transfer in pieces | each call gets its answer; nothing lost in a channel | CoroIo |
| coro_file | stream bits, position, `eof_` | sticky bits after a short read | reading to the end is complete | CoroFile |
| easylog appender | queue, files, `stop_` | rolling and restart | the files hold the tail, in order | Appender |
| map_sharded | locked shards, a count beside them | count and copy are not atomic | exact when quiet | MapSharded |
| time_util | a buffered string | leap years, ends of months | dates are exact, false ones refused | TimeUtil |
| ConcurrentQueue | per-producer rings of blocks, free list, table of producers | lock-free throughout; wraps, growth, failures, exits | nothing lost or doubled | seven modules below |

### Not modelled

| part | why |
|---|---|
| uthread | `final_switch_out()` is declared, called and defined nowhere: no program with a uthread links. Its `await()` is in FutureChain |
| context-switch assembly, dragonbox, expected.hpp | third-party code without shared state: saving of registers, digits of a number, a sum type |
| PromiseAllocator, move_only_function, MoveWrapper, Traits, type_traits, magic_names, meta_string, string_finder | memory layout, type erasure and string helpers: no state that outlives a call |
| easylog record | formatting of one record, no shared state |
| util/Condition.h | a binary semaphore over a mutex and a condition variable; appears as the waiting of `syncAwait` in LazyChain and of `wait` in FutureChain |
| coro_file with io_uring or on Windows, close of a file with calls pending | native files of asio; two uses of an object that is not thread-safe |
| multithread_context_pool, TimeAwaitable, console and set_async() of the appender | small, independent; next in the plan |
| coro_epoll examples, tests, empty coro_http and coro_rpc | programs over the rest, or nothing |

## 3. Modules and the code they model

A module has one variable per field of the class and one action per access or
operation, under the source's names. Abstract specifications are `FifoLock`
(for CoroMutex), `OneShot` (FutureState), `ExecutorContract` (ThreadPool) and
`RWLock` (SharedMutex). Operators called *Mutant* in a comment are not part of a
specification: they are the plausible mistakes against which the properties are
tried. A module `MC...` instantiates several components, one of which takes
part in an execution (variable `component`); the variables of the others keep
the value they have at rest. It extends the component that has proofs and takes
the others by INSTANCE, so the run checks the very definitions that are proved.
That is why the future, whose behaviour is independent of the applications, is
an execution of `MCApps`. The mutex is checked by itself, with `MCCoroMutex.cfg`.

### Hand-over: `CoroMutex`, and `FutureState` in `MCApps`

**CoroMutex** (`coro/Mutex.h`). `state_` becomes `locked`, and `newcomers`, the
awaiters reachable from its pointer, head first. A compare-exchange succeeds
when the *head* is what it was, whatever is behind it, so the ABA case is in the
model. `LoadState`, `AcquireLate`, `Enqueue`, `CasFails` are the loop of
lockAsyncImpl; `UnlockBegin`, `Release`, `ReleaseFails`, `CollectNewcomers`,
`HandOver` are unlock in the order of its accesses.

**FutureState** (`FutureState.h`, `Promise.h`). The actors are threads that own
a promise each, the owner of the future, and a worker of the executor. The load
of `state_`, the store that follows and the fall-through of each `switch` are
steps of their own. `ScheduleInPlace`, `ScheduleAccepted` and `ScheduleRefused`
are the outcomes of scheduleContinuation with the references that guard and
closure take. The counters are 8 bits wide where the code's are.

### Executors: `MCExecutors`

**ThreadPool** (`util/ThreadPool.h`, `util/Queue.h`). Each operation of a Queue
holds its mutex and is one action; the notification after the unlock is another,
because a worker can go to sleep in between. Functions that run on workers call
scheduleById themselves.

**SimpleIOExecutor**. submitIO, the thread that takes events, and destroy, over
a kernel that may refuse a request and finishes the others in any order.

**EpollSocket** (`coro_epoll/Socket.*`, `IoContext.cpp`, `HookSysCall.hpp`). The
hooked calls try, attach the socket, save their handle and suspend; the loop
detaches the socket and schedules the handle; the call is then made again.

### Coroutines: `MCCoroutines`, `MCCollectAll`

**CollectAll** keeps the body of the loop as it is, with the `continue` for a
scheduled input and `setAwaitingCoro` and `down` inside the loop, because that is
what the findings are about. The six entry functions differ in the template
arguments that they pass (`Para`). **CollectAny** has `DownCount`, which selects
the winner, and the winner's stores in the order of each form.

**CoroSemaphore** is Semaphore and Latch over the condition variable; an
operation is the step that takes the lock and one that does the work, with the
notification while the lock is held.

**LazyChain** holds the promises of the coroutines that await each other, the
running one last. `AwaitLazy`, `AwaitWithLocal`, `AwaitYield`, `AwaitDispatch`,
`AwaitSleep` and `AwaitOther` are what a body can await, in any sequence;
executors may refuse whatever they are given, and the context of `checkin()`
from ViaCoroutine is any worker.

**Generator** runs a program of generator functions over `root_`, `top_` and
`parent_`. The property compares what the consumer gets with `Meaning`, the
recursive definition of what the program yields. A function that is nested has
a later number than the one that nests it (`IsProgram`). That excludes no
execution that ends: the instances that a run creates can be numbered in the
order of their creation, each as a function of its own, and a parent is created
before what it nests.

**FutureChain**. A shared state is the one-shot cell that FutureState
implements; thenTry and thenValue with functions that return values, errors or
futures; get(), co_await, uthread::await and collectAll over futures take what
`hasResult()` lets them take.

### What many threads share: `MCSharing`

**SharedMutex** (`coro/SharedMutex.h`). Everything happens under the spin lock:
`LockMut` takes it, and one action per operation does the work and lets go.

**The queue** (`coro_apps/util/concurrentqueue.h`), in seven modules, cut where
one part sees the other as a counter, a set or a function:

| module | part | the rest appears as |
|---|---|---|
| FreeList | the list of spare blocks, one action per access, with the reference counts that stop ABA | blocks are nodes |
| InnerQueue | how consumers reserve, check and claim indices through an optimistic count, an overcommit and headIndex; indices wrap | extended by the next two |
| ImplicitQueue | producer without a token: index ring of keys, growth under its readers, the last consumer of a block clears its entry; bulk calls, failures, destructor | the pool is a set |
| ExplicitQueue | producer with a token: ring of blocks used again, index of bases that is written over and replaced; rollback of a bulk call; destructor | the pool is a set |
| ProducerHash | from a thread id to a producer: insertion while the table is replaced, recycling, clean-up on exit | producers are numbers |
| QueueConsumers | which producer a consumer goes for: fullest of three, in order, with a token that rotates | a producer is a number of elements |
| QueueOwners | who points to whom when tokens, queues and threads are made, moved, swapped, destroyed | tables are functions |

`InnerQueue` has no instance of its own: both producers extend it. Block sizes
are 2 for 32, rings start with 2 entries for 32, and indices wrap at 16.

### Applications: `MCApps`

**ClientQueue** has one step per access to the shared atomics: calls count
before they put and after they take, the collector flips `selected_index_`,
sleeps, clears the other half and gives its slot back before it looks again.
**ClientPool** has requests with retries and detectors that hold the pool weakly
while they sleep. **LoadBlancer** has `FindPool`, `MakePool`, `EmplacePool` for
two threads and then one balancer's requests. **RateLimiter** counts in half
milliseconds, because the code cuts to milliseconds, and keeps stored permits as
the time they are worth. **IoContextPool** has run, stop, once-flag and guards.
**Appender** has both ways of writing, rolling and restarts. **MapSharded**
separates the change of a shard from that of the count. **TimeUtil** has the
parser over components in place of characters, and the calendar arithmetic.

**CoroIo** (`coro_io.hpp`). A call is a record with the awaitor's `arg_` in it:
`StoreHandle` and `StartOperation` are await_suspend in its order,
`SetValueThenResume` is the handler, `Resumed` what the coroutine does next
(async_connect awaits again, async_sendfile tries again). Sends and receives try
first and then wait. What one system call of async_sendfile sends, and whether
it is interrupted or would block, is a choice.

**CoroFile** (`coro_file.hpp`). Reads, writes and the opening of a stream are
functions in the executor of the file. A stream is its position, eofbit,
failbit and gcount, with the rules of the library for them; a descriptor is what
it was opened for. `to_flags` is translated as it is.

## 4. Runs and bounds

| run | instance | states | shows |
|---|---|---|---|
| `mutex` | 4 coroutines | 184 488 | one owner, queue intact, FifoLock, every waiter served |
| `executors` | pool: 2 workers, stealing or not, 3 functions; a socket with one user; 3 requests, 2 at a time | 218 327 | nothing lost or doubled, ExecutorContract, the destructor returns; calls return; callbacks called |
| `coroutines` | 4 coroutines on a semaphore and a latch; 4 inputs; chains of 4 over two executors; generators of three functions; 5 shared states | 246 657 | nobody sleeps on units; results complete, parent returns; first result; own executor and local, one callback; elements in order; composition |
| `sharing` | SharedMutex: limit 2, 3 coroutines; queue: 2 consumers, up to 5 elements, 2 threads per table | 1 069 499 | readers xor writer, RWLock; no node, element, producer or owner lost or doubled; no dequeue overlooks a producer |
| `apps` | future: 3 promise copies (one in the executor's thread), 1 setValue; ten applications, section 3 | 660 055 | one call with the result, OneShot, freed with the last reference, and freed in the end; the properties in the table of section 2 |
| `future_two_setters` | 2 copies, 2 setValue | – | violated: assertion of setResult |
| `future_get` | one future | – | violated: a result that is taken is a result |
| `pool_nested` | 2 workers, no stealing, nesting | – | violated: an accepted function is lost |
| `epoll_two_users` | a reader and a writer | – | violated: the loop resumes who is not suspended |
| `all_early`, `all_hangs` | 2 inputs | – | violated: parent early, parent never |
| `queue_index` | the explicit producer with failures | – | violated: an index entry in use is written over |

Why the bounds are enough to see the interesting cases:

* **mutex**: a holder inside unlock, one waiter in `waiters_`, and two newcomers
  whose order must be reversed behind it; coroutines lock again, so a pointer can
  come back to the top of the stack. **future**: a setter, a copy that dies at
  the same time, and one whose death is the last.
* **pool**: two workers for a function to reach a foreign queue and for one
  worker to end before the other; three functions for one to wait while another
  runs and schedules the third.
* **collectAll**: `ResultsComplete` holds only when the event is counted down as
  often as it was armed: in windows of which exactly one input has no executor,
  and in windows of one. The run has both, and a second window behind the first.
  The rest is the violation runs. **collectAny**: a winner, a loser started
  before it, an input the loop may or may not start, one it must not start.
* **shared_mutex**: two of three reach the limit, the third is a writer or one
  reader too many.
* **queue**: `FreeList` has three threads for two nodes, so that one can be
  taken, added and taken again under a third. `ImplicitQueue` starts at index 14
  of 16 with rings of two: five elements wrap the index, fill and grow the ring
  while a consumer walks it, and use a block again. dequeueOvercommit starts at
  15 there, so that it wraps with the first element that is given back. It would
  grow without end, and with it most of the states: when `MaxExcess` elements
  have been given back, calls overlap no more. The calls that are under way then
  go on, and may give back too. `ExplicitQueue` has three
  blocks, so that a bulk call takes some and then fails. `ProducerHash` begins
  with one slot and both ids collide: the table grows at the second insertion,
  and a thread exits and comes back. `QueueOwners` has one table beside those
  within the two queues, of which one grows before they are swapped.
  `QueueConsumers` has a consumer with a token
  and one without, and three producers. One consumer takes single elements, the
  other two at once.
* **apps**: two users, two collectors and a flip between the reads; two
  detectors for one to leave to the other; two threads for one host; weights
  equal, unequal, with a common divisor and all zero; three handlers over two
  contexts and two stop() calls; three files, four records and a restart; dates
  at the ends of months, in leap and centurial years, and ones that do not exist.
  CoroIo: three coroutines over a channel of one, so that a sender and a
  receiver both come to wait; a file of three bytes sent in pieces of two.
  CoroFile: three bytes read by twos, by two coroutines, over four calls.

Deadlock is checked in `mutex`, `sharing` and `queue_index`, whose components go
on for ever. The other systems may stop: a shared state is freed, a parent
returns, a pool is destroyed, a file is closed.

## 5. Fairness

Only what the code or its callers must do anyway is assumed, always weak.

* mutex: unlock's steps; a holder calls it some day. Nothing is assumed about
  coLock: a coroutine in the retry loop may lose its race for ever, which is why
  `EveryWaiterServed` speaks of those that are queued.
* future: calls that have begun go on; promises and the future are destroyed
  some day; an executor runs what it has accepted (Executor.h:81-84).
* pool, I/O loop, epoll loop: threads that can move do, functions return, begun
  calls finish, requests in the kernel finish. Nothing makes anybody call or
  destroy, nor a peer send.
* collectAll: every input ends. collectAny: none need to; `FirstResultArrives`
  starts at the first that did. Lazy and futures: a thread that runs goes on, a
  timer fires, an executor runs what it accepted, a promise is set or dies.
* client queue and pool, io_context_pool: timers fire, coroutines are resumed,
  handlers return. `HostComesBack` is about a host that stays up.
* semaphore, SharedMutex, the queue, the files: no liveness is claimed. The spin
  locks give no fairness, and the loops of the queue are lock-free only.

## 6. Where code and documentation disagree

Each row is a run that checks one property and is violated by what the code does.

| run, property | the code | what is said of it |
|---|---|---|
| `future_two_setters`, `AssertInSetResult` | two copies of a promise both pass the check in setResult; the loser falls through to DONE and calls a continuation that was never constructed (`FutureState.h:233`) | the assertion at `FutureState.h:237`; lines 38-39 promise thread safety |
| `future_get`, `TakenIsResult` | `Future::hasResult()` asks localState_ first, whose Try counts an empty value as available (`Future.h:98`, `Try.h:80`); get(), co_await, uthread::await and collectAll take an empty Try at once | "Get value blocked thread when the future doesn't have a value" (`Future.h:162`) |
| `pool_nested`, `NothingAcceptedIsLost` | a function that schedules another while the destructor joins can push into the queue of a worker that has left (`ThreadPool.h:148`) | "should guarantee that the func would be executed" (`Executor.h:81-84`) |
| `epoll_two_users`, `ResumesASuspended` | a socket keeps one handle and one registration, so that the second user overwrites the first (`IoContext.cpp:59`) | one reader and one writer may use a socket (`Socket.h:18`) |
| `all_early`, `ResultsComplete` | the loop's own down() is inside the loop; the parent is resumed before all results are there (`coro/Collect.h:470`) | "producing a vector of Try values containing each of the results" (728-730) |
| `all_hangs`, `ParentReturns` | `continue` skips the loop's down(), and the variadic awaiter has none (`coro/Collect.h:464`, 592); the parent is never resumed | lines 739-741 and 750-752 |
| `queue_index`, `IndexHasRoom` | a bulk call that fails leaves blocks in the ring which the next call takes without counting them; an index entry in use is written over (`concurrentqueue.h:2511`) | "guaranteed to be room" (2186-2188) |

Two more need no run. `SharedMutex::unlockShared` notifies the first gate only
when the count falls from max_readers, so a reader that waits behind it depends
on that one moment; `ReadersDoNotOversleep` says when it cannot be missed, and
with a limit of 2^31 - 1 it never is in practice. And the bodies of
`collectAllWindowed` and `collectAllWIndowedPara` have their `Para` flags
exchanged (`coro/Collect.h:783`, 797).

## 7. Proofs

All theorems are about the specification without fairness and hold for every
value of the constants that satisfies the module's assumptions.

**CoroMutexProofs** – any set of coroutines, assuming only that the two special
pointer values are not coroutines and differ (`PointersDiffer`).

| theorem | property |
|---|---|
| `TypeCorrect` | `Spec => []TypeOK` |
| `MutexExcludes` | at most one owner |
| `MutexKeepsWaiters` | the suspended lockers are the members of the two lists, once each |
| `UnlockAssertionsHold` | the assertions in unlock |
| `MutexImplementsFifoLock` | the first-come-first-served lock |

Mutual exclusion is not inductive. A coroutine in AcquireLate relies on
"unlocked means that nobody owns it and nobody is queued", and a hand-over on
"the holder's view of the lists is still right, since others only push". Hence

    IInv == TypeOK /\ LockWord /\ MutualExclusion /\ HolderView /\ QueueIntact

The proof has one step per action. Lemmas about sequences say that a push onto
the stack is an append to its reversal (`ReversePush`), so that `Enqueue` is
`Join` of `FifoLock`, and that taking the stack over leaves the line as it was,
so that `CollectNewcomers` is a stutter. The refinement maps `owners` to the
coroutines that own the lock and `line` to `waiters \o Reverse(newcomers)`.

**SharedMutexProofs** – any finite set of coroutines and any positive limit.

| theorem | property |
|---|---|
| `TypeCorrect` | `Spec => []TypeOK`; the count never exceeds the limit |
| `StateWordIsRight` | `state_` says who holds the lock |
| `WritersDoNotOversleep` | a sleeping writer has a reason |
| `ReadersDoNotOversleep` | with no more coroutines than the limit, so has a sleeping reader |
| `SleepersAreNotForgotten` | both, as the run checks it (`SleepersHaveReason`) |
| `SharedMutexImplementsRWLock` | the readers-writer lock |

    IInv == TypeOK /\ StateWord /\ WriterSleepsForReason

The word alone does not show exclusion: the invariant has to say that the flag
belongs to exactly one writer past gate1 and that the count *is* the number of
readers. Lemmas on cardinalities (`OneReaderMore`, `OneReaderLess`,
`NoReaders`) carry the count through coLockShared and unlockShared. That a
writer at gate2 always has readers before it is needed for the step in which
the last one leaves. `ReadersDoNotOversleep` uses in addition that a set of
readers as large as the set of coroutines leaves nobody to sleep.

**CoroutinesProofs, the semaphore and the latch** – any finite set of
coroutines, any greatest count.

| theorem | property |
|---|---|
| `SemaphoreTypeCorrect` | `Spec => []TypeOK`; the count stays within its bounds |
| `NobodySleeps` | while somebody sleeps, at least as many waiters are on their way as there are units; nobody sleeps at an open latch (`NobodySleepsOnUnits`) |

    SemaphoreInv == TypeOK /\ NobodySleepsOnUnits

The property is inductive together with the types: release() adds its units and
wakes for them in one critical section, all sleepers for more than one unit and
one for a single unit, and a waiter that is on its way takes at most one unit
with it (`LosesOneAtMost`).

**FutureStateProofs** – any finite set of promises that the counters can carry:
one closure, one guard, the future and two references per promise stay below the
modulus (`FutureAssumption`; 126 promises for the 8 bits of the code).

| theorem | property |
|---|---|
| `CountsReferences` | the three counters are the references that exist |
| `FreedWithLastReference` | the state is deleted with its last reference, and not before; for any number of setters |
| `CalledOnce` | the continuation runs once, with a result; at most one setter (`CalledOnceThenDeleted`) |
| `OneSetterPassesItsAssertion` | the assertion in setResult; one setter |
| `FutureImplementsOneShot` | the one-shot cell; at most one setter |

    IInv == CountInv /\ PromiseInv /\ SetterInv /\ FutureInv /\ RunsInv

`CountInv` is inductive by itself: `attached_` is the number of owners and
references and `promiseRef_` the number of promises alive. The rest is about who
may store. A promise is broken only by the last owner, so a breaker and a setter
never meet; the value of `state_` says which of result and continuation has
been stored, and each of the two parties knows which compare-exchange it lost.
`RunsInv` says that only one of them, or the executor's closure, is about to
call the continuation. With two setters the second part is false, which is what
the run `future_two_setters` shows, and why these theorems assume at most one.

**ThreadPoolProofs** – any number of workers, any clients that are not workers,
any functions.

| theorem | property |
|---|---|
| `PlacesKept` | each accepted function lies at one place, nobody sleeps next to it for good, and a pool whose functions schedule to their own worker only is not destroyed before it runs (`EveryFunctionHasItsPlace`) |
| `PoolKeepsPromises` | the safety part of `ExecutorContract`: nothing is executed twice, or after a refusal, or without having been accepted, wherever functions schedule others |

    IInv == TypeOK /\ CallInv /\ QueueInv /\ StopInv /\ SleeperWillBeWoken

That a function is pushed once needs `CallInv`: no two calls are about to push
the same function, and a worker that is in a call still runs a function. The
last part (`OwnQueueLosesNothing`) rests on `StopInv`: a worker leaves only after its queue was
stopped and found empty, and from then on nobody may push there: clients are
gone, and the other workers push into queues of their own. When functions may
schedule to any worker, that argument breaks where `pool_nested` breaks. The
refinement does not need it: a lost function stays "accepted" in the contract,
and it is the contract's liveness that such a pool fails.

The next three modules prove properties of the compositions `MCCoroutines`,
`MCSharing` and `MCApps`, as the runs check them. Each part starts with a lemma
that a step of the composition is a step of the component or leaves it alone.

**CoroutinesProofs**

| theorem | property | for any |
|---|---|---|
| `OwnExecutorAndLocalHold` | `OwnExecutorAndLocal` | executors, workers, depth of the chain |
| `ResultsAreComplete` | `ResultsComplete` | number of inputs, window and executors, in calls that count down as often as they were armed (`CountedOnce`) |
| `ResultsCompose` | `ResultIsComposition` | number of futures and of functions chained to them |
| `ElementsAlwaysInOrder` | `ElementsInOrder` | program of generators in the sense of `IsProgram` |

*Lazy.* All promises of a chain hold one executor, so it is enough to follow the
first: the thread that runs, or the worker that will resume the last coroutine,
belongs to it (`OnItsExecutor`). A coroutine that keeps a local is one that
awaits another (`KeepersAwait`).

*collectAll.* `AllInv` says of each batch where its loop is, which inputs it has
not reached, and that the event is at the number of those who will count it
down, inputs and the loop (`EventOK`). Who sees it reach zero therefore comes
after all results. Without `CountedOnce` that is false (section 6).

*Future.* `Links` says which continuation sets which promise, and that two set
one only when one is the function and the other that of the future which it
returned; `PassedOn` that what has run has passed its result on, and that until
then the promise is not set. What a state means is a recursive function; that
it exists is shown by taking the least state at which it would not.

*Generator.* The frames form a stack (`StackInv`): the parent of frame *k* is
*k* - 1, the root of every nested one is 1, the statement before the next one of
a frame nests the frame above, and an exception can only be leaving the last.
What was consumed is the concatenation of what the frames have done, from the
bottom up (`FramesHaveConsumed`), where a frame under another has done what
is before the statement that nests it. That `Meaning` exists, is typed, and
grows with the statements is proved first (`ProgramMeans`, `MeaningTyped`,
`MeaningGrows`), and from these that what was consumed is always a prefix
(`ConsumedIsPrefix`).

**SharingProofs**

| theorem | property | for any |
|---|---|---|
| `NoBlockTwiceOrLost` | `NoNodeTwiceOrLost` | nodes and finite set of threads |
| `NoProducerOverlooked` | `NothingOverlooked` | consumers, producers, sizes of a bulk call, offsets at which the walk of a token starts |
| `OwnersAlwaysAgree` | `OwnersAgree` | queues, tokens, threads, producers, finite set of tables |
| `ProducersStayWithThreads` | `ProducerOfItsThread` | threads, hash function, size of the first table, exits and failures |

*Free list.* There is a set S of nodes that the list links from its head
(`IsList`, a path that visits each once). Each node is in one place: in S, with
a thread that has it, is adding it or owns what was the list's reference, or it
has its flag set and those who still refer to it will find it (`OnePlace`). Its
count is the cardinality of a set, that of its referrers and the list
(`NodeOK`). A thread that refers to a node therefore finds the link that it has
read still true (`ThreadOK`), and ABA cannot happen.

*Consumers.* A producer that has had elements all through a call (`stayed`) is
still in front of the consumer: among those it has yet to score, among the ones
it has kept of three, or on the way that its walk or its token has yet to go.

*Owners.* The tables of a queue are a path that visits each once, from its
current table to the one within the queue (`IsChain`). The recursion by which
the code reaches them from the first reaches exactly these, since a path has no
more links than there are tables (`PathIsReached`). Four lemmas say what may
happen to such a path: nothing (`ChainKept`), a table before it (`ChainGrows`),
its last table moving to another queue (`ChainMoves`), a path of one table
(`ChainOfOne`); the paths of two queues have no table in common. `OwnersInv` says
this of places without a queue as well, since a queue that is constructed from
another one is then the same as a swap with an empty one, and one lemma
(`SwapKeeps`) has both. It is stronger than `OwnersAgree` in two more respects:
the listeners of two threads are disjoint, so that a thread that exits leaves no
entry behind that is not its own; and a producer that `recycle_or_create` finds
has no token and no listener (`GotIsUnused`), which is why it can be given away.

*Producers of threads.* What a thread holds is the producer of its calls, or the
one that a call has taken and not yet returned (`Held`). Its slots hold that and
nothing else, it is active, and no other thread holds it (`HashInv`). A thread
that seeks a producer is in no table (`Absent`), also when it was preceded by one
of its id: that one left the tables from the newest to the first, and those that
came meanwhile do not have it (`LeaveOK`); only then is the producer given back.
A larger table and a slot that another thread fills change nothing for a thread
(`SameFor`), since slots are only filled when empty or left. The size of the new
table comes from doubling; that the doubled numbers exist and are positive is
proved by the least one that would not be (`Doubling`, `Doubled`).

**AppsProofs** and, for the files and the operations of coro_io, **IoProofs**,
in addition to what is proved of the future

| theorem | property | for any |
|---|---|---|
| `OnePoolPerHostHolds` | `OnePoolPerHost` | hosts and threads |
| `WeightsAlwaysRespected` | `WeightsRespected`, an action property | number of hosts, weights |
| `RateHoldsAlways` | `RateHolds` | requests, rates, and changes of the rate |
| `SizeAndCopiesHold` | `SizeAndCopiesAreRight` | keys, callers, shards |
| `FilesAlwaysHoldTheTail` | `FilesHoldTheTail` | number and size of files, threads, restarts |
| `FilesAlwaysAnswerTruly` | `FilesAnswerTruly` | content, users, counts and offsets |
| `AnswersAreAlwaysOwn` | `AnswersAreOwn` | callers, capacity of the channel, sizes of files and of sends |
| `DatesAreAlwaysExact` | `DatesAreExact` | years, months, days and times of day, whether or not there is such a date |

*Pools.* What a thread remembers is what the manager has: `emplace` never
replaces an entry, so that who loses the race takes the winner's pool.

*Weights.* Since the last turn of the maximum, with g the common divisor and w
the weight that the round is at: a host of weight v that the round has looked at
was taken max(0, v - w + g) / g times, and one that it has yet to look at
max(0, v - w) / g times (`Counted`). All weights and w are multiples of g, so
that the steps of w meet each weight exactly. That the recursion of
`get_max_weight_gcd` has a value, and that it divides every weight, is proved
by the least index at which it would not.

*Rate.* `nextFree - stored` is the time up to which everything that was granted
has been paid for: resync() never lowers it and a grant raises it by its cost.
What was granted from any grant on is therefore paid from a full bucket and the
time since (`PaidFor`).

*map_sharded.* The size of the map is the count and what the callers between the
two changes owe it. The sum is kept as its partial sums along an enumeration of
the callers (`Totals`). `Copies` says that a copy has what stayed in the shards
behind it.

*Log.* A file holds what lies between two cuts of what was written (`Cuts`): the
newest ends at the last record, each older one where the one before it begins,
and before the last cut is only what was deleted when all files were there.
`RecordOrder` has the queue behind what was written.

*Files.* Calls that are pending are distinct and not answered; a read that asked
at an offset has bytes that were there then or were written since (`AllRecent`);
in a stream that was only read since it was opened, the position is the number
of bytes that were returned (`ReadSoFar`).

*coro_io.* Who will be resumed waits in one place only, and with the call that
the place is for (`CallsFit`, `AskedAsio`). For the channel, what was sent is
what came out, then what is in its buffer, then what senders wait with
(`InOrder`), each value once (`OnceEach`); a sender waits only if the buffer is
full and a receiver only if it is empty (`Room`); a value that came out is held
by one receiver (`Received`).

*Dates.* The calendar that the code is compared with counts: leap years one by
one, the days before a date as the dates before it. The leap years below y are
y/4 - y/100 + y/400 of them, each rounded down (`LeapYearsCounted`, by the least
year for which they would not be); the days before a month are those of the
months before it, which the table of the code counts; and days_since_epoch() is
that sum from year -399 on, so that the two differ by a constant. The weekday
follows modulo 7. `TimeInv` says that the buffer always holds the text of the last
second that was formatted, so that it may be left as it is when the second is the
same.

### Assumptions on constants

They are what the code or its callers give: finite sets where the code counts
members in an integer; positive limits; identities that differ from the special
values (`PointersDiffer`, `Null \notin Nodes`, the names of contexts in
`LazyAssumption`); the width of the counters (`FutureAssumption`); rates and
bursts whose intervals are whole milliseconds, of which the model counts halves
(`RateAssumption`); offsets and sizes that are natural numbers
(`FileAssumption`, `CoroIoAssumption`, `ConsumersAssumption`,
`AppenderAssumption`, `HashAssumption`); years, months, days and hours that are
natural numbers, since the parser reads digits only (`TimeAssumption`); weights
that are not negative (`LbAssumption`); places of queues, tokens, producers and
tables that are not the same (`OwnersAssumption`); ids of threads that are none
of the two that mark slots (`HashAssumption`).

Two are more than that. `GeneratorAssumption` numbers generators (section 3).
`CollectAssumption` with `CountedOnce` leaves out the calls of collectAll for
which the statement is false, which `all_early` and `all_hangs` show.

### Left to TLC

Liveness, since fairness and ENABLED are outside the prover's reach; and of the
safety properties that the runs check:

* `ElementsFoundOnce`: it is not true of every instance, in two ways.
  A consumer reads dequeueOvercommit when its call begins and uses it later
  (`Look`, `Check`). If the others give back more than half of `IndexRange`
  meanwhile, the difference wraps and it takes elements that are not there.
  TLC finds no such run with two consumers; with three and a range of 16,
  headIndex passes tailIndex after some sixty steps of the counters alone. An
  index_t has 64 bits, and no call sleeps that long; but a bound on what happens
  during a call is a condition on behaviours, not an assumption on constants, and
  a theorem would have to carry it. The run has two consumers, lets the indices
  wrap, and bounds what is given back (`MaxExcess`, section 4); it was also
  checked once without that bound.
  The part on tables of producers (`TablesKeepRoom`) fails otherwise. A
  thread that comes from an old table can use the slot of a thread that has
  exited and then take its own count back, while the next insertion goes to a
  newer table: then `implicitProducerHashCount` is below the number of slots in
  use. It takes many inserting threads for this to fill a table, more than the
  run has.

What a recursive definition computes can be proved when the recursion goes down
a finite set: the library's theorem that finite subsets are well-founded has no
operator among its parameters, and gives every non-empty set of natural numbers
a least element (`LeastNumber`). `Meaning` of futures and generators, `MaxGcd`
and the sums are treated this way.

## 8. Observations without a run

Read in the source while modelling. They concern behaviour that the modules
leave out, or represent without a property of its own.

*Coroutines and executors.*
- collectAll ignores the result of `exec->schedule()` (`coro/Collect.h:463`), and
  its loop reads input_ of an awaiter that may be gone (440).
- The variadic `select()` of coro_io is collectAll, and the break of
  map_sharded's for_each ends its shard only (`map_sharded.hpp:69`).
- uthread's `final_switch_out()` is called and not defined.
- The callbacks of IOExecutor (`IOExecutor.h:8-9`) do not come when the loop of
  SimpleIOExecutor is shut down with requests in flight.

*coro_epoll.*
- attach2IoContext releases its lock after the coroutine it resumed may have
  destroyed the Socket. `~Socket` sets fd_ to -1 before it closes it
  (`Socket.cpp:35`). addEvents modifies with a null data.ptr.

*Pools, timers, log.*
- A context that was stopped keeps functions scheduled to it, and the pool
  drops them (`io_context_pool.hpp:188`).
- reconnect() and alive_detect() use a null `self` after a sleep
  (`client_pool.hpp:139`, 198). client_queue declares `collect_cnt_`, and
  client_pool reads `collecter_cnt_`.
- The appender notifies without que_mtx_ (`appender.hpp:274`, 295, 301), so that
  a wake-up can fall between the test and the wait and join() can hang. The
  default appender of easylog has has_init_ false.
- get_local_time_str adds eight hours without a carry (`time_util.h:437`). The
  parser refuses the leap second (331) that its comment allows (31-32). The first
  second ever formatted finds the buffer empty.

*Files and channels.*
- After a short read the failbit of the stream stays: seek() and later reads
  fail. async_write after the end of the file answers "no error" with the count
  of the last read, and nothing is written. eof_ is not reset by seek, close or
  open. A zero-length read sets it.
- A second open of the same stream answers true and keeps the first file,
  though file_path_ changes. A blocking open() on the executor's own thread
  waits for itself. Closing a random file with a call pending dereferences null.
- A negative length comes back as a huge size_t together with io_error. The
  flags `app` alone give O_APPEND|O_RDONLY, and `out` has no O_CREAT.
- A receiver that takes a value at once can return before one that was handed
  an earlier value. post() catches only std::exception.

*The concurrent queue.* The repository uses enqueue and try_dequeue without
tokens (`client_queue.hpp:12`, 47; `easylog/appender.hpp:405`), with blocks of 32
and an index of 256; the models take smaller numbers and the bulk calls too.
- An exception in enqueue() leaves a block whose flags are all false
  (`concurrentqueue.h:2258-2259`): it is not used again, the ring is blocked
  behind it, and the destructor treats it as full (2120-2147). `LeftBehind` in
  the model excepts it.
- When a bulk call reuses blocks, grows the index and fails, front is set to
  slotsUsed and leaves a stale entry.
- `implicitProducerHashCount` can fall behind the slots in use (section 7,
  `TablesKeepRoom`), when the slot of an exited thread in an older table is
  used again (4158); the test for room in a table relies on it (4084).
- The claim at 4041-4043 that the current table of producers has room for an entry
  found in an older one is off by one at times, without harm. `~ThreadExitNotifier` reads ptr->next after the
  callback has given the producer away.
- A dequeue that fails beside another can make that one return false although an
  element is there; `NothingOverlooked` therefore takes a dequeue of one
  producer as one step.

## 9. What is not shown

* Liveness for other instances than those run.
* Weak memory: a relaxed load that returns an old value appears only where a
  failed compare-exchange or a lost race stands for it.
* Exceptions out of user code, except through the executor in FutureState and in
  the constructors of the queue's elements. Moves of promises and futures only
  transfer a pointer. What a thread-pool function throws ends the program.
* collectAll over an executor that refuses, see section 8. In collectAll the
  last `down` can come from the loop itself, and the parent then destroys the
  awaiter in which await_suspend still runs. The model goes on from there to
  "undefined"; what a build does there is open.
* ThreadPool's CPU binding and size queries, SpinLock's number of spins.
* Negative weights of the load balancer and a rate of zero.
* A channel of coro_io is used by one thread. Files are moved and closed only
  when no call is pending. The blocking read, write, accept and connect of
  coro_io are left out.

## 10. What is open

Modules: multithread_context_pool; set_async() of the appender under way; the
native files of asio, modelled from their use; TimeAwaitable.

Theorems: that a claimed element is an enqueued one (`ElementsFoundOnce`), of
behaviours in which no call outlasts half the range of the counters (section 7);
`OneWinner` of collectAny; the counts of `ClientQueue`.
