-------------------------- MODULE ThreadPoolProofs --------------------------
(***************************************************************************)
(* Proofs about ThreadPool, for any number of workers and any clients and  *)
(* functions: no queue loses, duplicates or forgets a function, and a pool *)
(* whose functions schedule to their own worker only does not die on one.  *)
(***************************************************************************)
EXTENDS ThreadPool, TLAPS

(* Past the test of stop_, and not yet in a queue. *)
Pushing(c) == call[c].step = "push"

(* The calls of scheduleById() under way. *)
CallInv ==
  /\ \A c \in Threads : Pushing(c) => status[call[c].task] = "passed"
  /\ \A c, d \in Threads :
       Pushing(c) /\ Pushing(d) /\ call[c].task = call[d].task => c = d
  /\ \A c \in Workers : call[c] # NoCall => wpc[c] = "running"
  /\ \A c \in Clients : call[c] # NoCall => main.step = "alive"
  /\ pool.nesting = "own_queue" =>
       \A c \in Workers : Pushing(c) => wanted[call[c].task] = c

(* What lies in the queues. *)
QueueInv ==
  /\ \A w \in Workers : \A i \in 1..Len(queue[w]) :
       status[queue[w][i]] = "accepted" /\ wanted[queue[w][i]] \in {Anywhere, w}
  /\ \A v, w \in Workers : \A i \in 1..Len(queue[v]), j \in 1..Len(queue[w]) :
       queue[v][i] = queue[w][j] => v = w /\ i = j
  /\ \A t \in Tasks : status[t] = "accepted" =>
       \E w \in Workers : \E i \in 1..Len(queue[w]) : queue[w][i] = t

(* How the pool ends. *)
StopInv ==
  /\ stop <=> main.step # "alive"
  /\ \A w \in Workers : stopped[w] => stop
  /\ \A w \in Workers : wpc[w] \in {"ending", "exited"} => stopped[w]
  /\ pool.nesting = "own_queue" =>
       \A w \in Workers : wpc[w] \in {"ending", "exited"} => queue[w] = <<>>
  /\ main.step = "join" => \A w \in 0..(main.next - 1) : wpc[w] = "exited"
  /\ main.step = "destroyed" => \A w \in Workers : wpc[w] = "exited"

(* The inductive invariant. *)
IInv == TypeOK /\ CallInv /\ QueueInv /\ StopInv /\ SleeperWillBeWoken

-----------------------------------------------------------------------------
(* The values of call and main, and the sequences *)

(* The three forms of a call. *)
LEMMA CallForms ==
  /\ NoCall \in Calls /\ NoCall.step = "none"
  /\ \A t \in Tasks : [step |-> "push", task |-> t] \in Calls
  /\ \A q \in Workers : [step |-> "notify", queue |-> q] \in Calls
  /\ \A x \in Calls : /\ x.step \in {"none", "push", "notify"}
                      /\ x.step = "none" <=> x = NoCall
                      /\ x.step = "push" => x.task \in Tasks
                      /\ x.step = "notify" => x.queue \in Workers
                      /\ \A q \in Workers :
                           x = [step |-> "notify", queue |-> q] <=>
                             x.step = "notify" /\ x.queue = q
BY DEF Calls, NoCall

(* What the owner does next. *)
LEMMA MainForms ==
  /\ \A m \in Mains : /\ m.step \in {"alive", "stop", "wake", "join", "destroyed"}
                      /\ m.next \in Workers
                      /\ \A w \in Workers : m = [step |-> "wake", next |-> w] <=>
                                              m.step = "wake" /\ m.next = w
  /\ \A s \in {"alive", "stop", "wake", "join", "destroyed"}, n \in Workers :
       [step |-> s, next |-> n] \in Mains
BY DEF Mains

(* The first worker, and the one after another. *)
LEMMA NextWorker ==
  /\ 0 \in Workers
  /\ \A w \in Workers : w \in Int /\ 0 <= w /\ w <= N - 1
  /\ \A w \in Workers : w # N - 1 => w + 1 \in Workers
  /\ Workers \cap Clients = {}
BY PoolAssumption DEF Workers

(* What is left of a queue without its first element. *)
LEMMA TailOfQueue ==
  ASSUME NEW s \in Seq(Tasks), s # <<>>
  PROVE  /\ Head(s) = s[1] /\ Head(s) \in Tasks
         /\ Tail(s) \in Seq(Tasks) /\ Len(Tail(s)) = Len(s) - 1
         /\ Len(s) \in Nat /\ Len(s) > 0
         /\ \A i \in 1..Len(Tail(s)) : Tail(s)[i] = s[i + 1]
OBVIOUS

-----------------------------------------------------------------------------
(* The types *)

(* Taking an element out of a queue. *)
LEMMA TakeTypes ==
  ASSUME TypeOK, NEW w \in Workers, NEW q \in Workers, queue[q] # <<>>, Take(w, q),
         wpc[w] # "running",
         UNCHANGED <<pool, stop, stopped, call, main, wanted>>
  PROVE  TypeOK'
<1>1. /\ queue[q] \in Seq(Tasks) /\ Head(queue[q]) \in Tasks
      /\ Tail(queue[q]) \in Seq(Tasks) /\ Head(queue[q]) # NoTask
  BY TailOfQueue, TasksAssumption DEF TypeOK
<1>2. queue' \in [Workers -> Seq(Tasks)]
  BY <1>1 DEF Take, TypeOK
<1>3. /\ item' \in [Workers -> Tasks \union {NoTask}]
      /\ status' \in [Tasks -> {"new", "refused", "passed", "accepted", "executed"}]
      /\ wpc' \in [Workers -> {"looking", "popping", "asleep", "running", "ending", "exited"}]
      /\ \A v \in Workers : wpc'[v] = "running" <=> item'[v] # NoTask
  BY <1>1 DEF Take, TypeOK
<1> QED
  BY <1>2, <1>3 DEF TypeOK

(* Every step keeps the types. *)
LEMMA TypeStep ==
  ASSUME TypeOK, [Next]_vars
  PROVE  TypeOK'
<1>1. ASSUME NEW c \in Threads, NEW t \in Tasks, NEW id \in Workers \union {Anywhere},
             TestStop(c, t, id)
       PROVE  TypeOK'
  <2>1. call' \in [Threads -> Calls]
    BY <1>1, CallForms DEF TestStop, TypeOK
  <2>2. /\ status' \in [Tasks -> {"new", "refused", "passed", "accepted", "executed"}]
        /\ wanted' \in [Tasks -> Workers \union {Anywhere}]
    BY <1>1 DEF TestStop, TypeOK
  <2> QED
    BY <1>1, <2>1, <2>2 DEF TestStop, TypeOK, MayCall
<1>2. ASSUME NEW c \in Threads, NEW q \in Workers, Push(c, q) PROVE TypeOK'
  <2>1. call' \in [Threads -> Calls] /\ call[c].task \in Tasks
    BY <1>2, CallForms DEF Push, TypeOK
  <2>2. queue' \in [Workers -> Seq(Tasks)]
    BY <1>2, <2>1 DEF Push, TypeOK
  <2>3. status' \in [Tasks -> {"new", "refused", "passed", "accepted", "executed"}]
    BY <1>2, <2>1 DEF Push, TypeOK
  <2> QED
    BY <1>2, <2>1, <2>2, <2>3 DEF Push, TypeOK
<1>3. ASSUME NEW c \in Threads, NotifyOne(c) PROVE TypeOK'
  BY <1>3, CallForms DEF NotifyOne, Wake, TypeOK
<1>4. ASSUME NEW w \in Workers, NEW q \in Workers, StealItem(w, q) PROVE TypeOK'
  BY <1>4, TakeTypes DEF StealItem, TypeOK
<1>5. ASSUME NEW w \in Workers, StealNothing(w) PROVE TypeOK'
  BY <1>5 DEF StealNothing, TypeOK
<1>6. ASSUME NEW w \in Workers, PopItem(w) PROVE TypeOK'
  BY <1>6, TakeTypes DEF PopItem, TypeOK
<1>7. ASSUME NEW w \in Workers, PopNothing(w) PROVE TypeOK'
  BY <1>7 DEF PopNothing, TypeOK
<1>8. ASSUME NEW w \in Workers, TestEnd(w) PROVE TypeOK'
  BY <1>8 DEF TestEnd, TypeOK
<1>9. ASSUME NEW w \in Workers, FinishItem(w) PROVE TypeOK'
  BY <1>9 DEF FinishItem, TypeOK
<1>10. ASSUME RaiseStop PROVE TypeOK'
  BY <1>10, MainForms, NextWorker DEF RaiseStop, TypeOK
<1>11. ASSUME StopQueue PROVE TypeOK'
  BY <1>11, MainForms DEF StopQueue, TypeOK, Mains
<1>12. ASSUME NotifyAll PROVE TypeOK'
  <2>1. main' \in Mains
    BY <1>12, MainForms, NextWorker DEF NotifyAll, TypeOK
  <2>2. wpc' \in [Workers -> {"looking", "popping", "asleep", "running", "ending", "exited"}]
        /\ \A w \in Workers : wpc'[w] = "running" <=> wpc[w] = "running"
    BY <1>12 DEF NotifyAll, Wake, TypeOK
  <2> QED
    BY <1>12, <2>1, <2>2 DEF NotifyAll, TypeOK
<1>13. ASSUME Join PROVE TypeOK'
  <2>1. main' \in Mains
    BY <1>13, MainForms, NextWorker DEF Join, TypeOK, Mains
  <2> QED
    BY <1>13, <2>1 DEF Join, TypeOK
<1>14. CASE UNCHANGED vars
  BY <1>14 DEF vars, TypeOK
<1> QED
  BY <1>1, <1>2, <1>3, <1>4, <1>5, <1>6, <1>7, <1>8, <1>9, <1>10, <1>11, <1>12,
     <1>13, <1>14 DEF Next, ScheduleById, Work, Destroy

(* Taking an element out of a queue touches no call. *)
LEMMA TakeKeepsCalls ==
  ASSUME TypeOK, CallInv, QueueInv, NEW w \in Workers, NEW q \in Workers, queue[q] # <<>>,
         Take(w, q), wpc[w] # "running", UNCHANGED <<pool, call, main, wanted>>
  PROVE  CallInv'
<1>1. /\ Head(queue[q]) \in Tasks /\ Head(queue[q]) = queue[q][1] /\ 1 \in 1..Len(queue[q])
  BY TailOfQueue DEF TypeOK
<1>2. status[Head(queue[q])] = "accepted"
  BY <1>1 DEF QueueInv
<1>3. \A t \in Tasks : status[t] = "passed" => status'[t] = "passed"
  BY <1>1, <1>2 DEF Take, TypeOK
<1>4. \A v \in Workers : wpc[v] = "running" => wpc'[v] = "running"
  BY DEF Take, TypeOK
<1>5. \A c \in Threads : Pushing(c) => call[c].task \in Tasks
  BY CallForms DEF TypeOK, Pushing
<1> QED
  BY <1>3, <1>4, <1>5 DEF CallInv, Pushing

(* Every step keeps what is known of the calls under way. *)
LEMMA CallStep ==
  ASSUME TypeOK, CallInv, QueueInv, StopInv, [Next]_vars
  PROVE  CallInv'
<1> USE DEF TypeOK, CallInv, Pushing, StopInv, Threads
<1>1. ASSUME NEW c \in Threads, NEW t \in Tasks, NEW id \in Workers \union {Anywhere},
             TestStop(c, t, id)
       PROVE  CallInv'
  <2>1. /\ call \in [Threads -> Calls] /\ status[t] = "new" /\ call[c].step = "none"
        /\ \A d \in Threads : Pushing(d) => call[d].task \in Tasks /\ call[d].task # t
    BY <1>1, CallForms DEF TestStop, MayCall, TypeOK, CallInv, Pushing
  <2>2. CASE stop
    BY <1>1, <2>1, <2>2 DEF TestStop, TypeOK, CallInv, Pushing
  <2>3. CASE ~stop
    <3>1. /\ call'[c].step = "push" /\ call'[c].task = t /\ wanted'[t] = id
          /\ \A d \in Threads \ {c} : call'[d] = call[d]
          /\ \A u \in Tasks \ {t} : status'[u] = status[u] /\ wanted'[u] = wanted[u]
          /\ status'[t] = "passed" /\ wpc' = wpc /\ main' = main /\ pool' = pool
      BY <1>1, <2>1, <2>3 DEF TestStop, TypeOK
    <3>2. /\ c \in Workers => wpc[c] = "running" /\ (pool.nesting = "own_queue" => id = c)
          /\ c \in Clients => main.step = "alive"
      BY <1>1, NextWorker DEF TestStop, MayCall, Threads
    <3> HIDE DEF TypeOK, StopInv
    <3>3. \A d \in Threads : call'[d].step = "push" =>
            \/ d = c /\ call'[d].task = t
            \/ d # c /\ Pushing(d) /\ call'[d] = call[d] /\ call[d].task \in Tasks \ {t}
      BY <2>1, <3>1
    <3>4. \A d \in Threads : call'[d].step = "push" => status'[call'[d].task] = "passed"
      BY <3>1, <3>3
    <3>5. \A d, e \in Threads :
            call'[d].step = "push" /\ call'[e].step = "push" /\ call'[d].task = call'[e].task
              => d = e
      BY <3>3
    <3>6. /\ \A d \in Workers : call'[d] # NoCall => wpc'[d] = "running"
          /\ \A d \in Clients : call'[d] # NoCall => main'.step = "alive"
      BY <3>1, <3>2
    <3>7. pool'.nesting = "own_queue" =>
            \A d \in Workers : call'[d].step = "push" => wanted'[call'[d].task] = d
      BY <3>1, <3>2, <3>3
    <3> QED
      BY <3>4, <3>5, <3>6, <3>7
  <2> QED
    BY <2>2, <2>3
<1>2. ASSUME NEW c \in Threads, NEW q \in Workers, Push(c, q) PROVE CallInv'
  <2>1. /\ call[c].task \in Tasks /\ call \in [Threads -> Calls] /\ Pushing(c)
        /\ \A d \in Threads : Pushing(d) => call[d].task \in Tasks
    BY <1>2, CallForms DEF Push, TypeOK, Pushing
  <2>2. /\ call'[c].step = "notify" /\ call[c] # NoCall /\ wpc' = wpc /\ wanted' = wanted
        /\ \A d \in Threads \ {c} : call'[d] = call[d]
        /\ \A u \in Tasks : u # call[c].task => status'[u] = status[u]
        /\ main' = main /\ pool' = pool
    BY <1>2, <2>1, CallForms DEF Push, TypeOK
  <2> HIDE DEF TypeOK, StopInv
  <2>3. \A d \in Threads : call'[d].step = "push" =>
          Pushing(d) /\ call'[d] = call[d] /\ call[d].task \in Tasks \ {call[c].task}
    BY <2>1, <2>2
  <2>4. \A d \in Threads : call'[d].step = "push" => status'[call'[d].task] = "passed"
    BY <2>2, <2>3
  <2>5. \A d, e \in Threads :
          call'[d].step = "push" /\ call'[e].step = "push" /\ call'[d].task = call'[e].task
            => d = e
    BY <2>3
  <2>6. /\ \A d \in Workers : call'[d] # NoCall => wpc'[d] = "running"
        /\ \A d \in Clients : call'[d] # NoCall => main'.step = "alive"
    BY <2>2
  <2>7. pool'.nesting = "own_queue" =>
          \A d \in Workers : call'[d].step = "push" => wanted'[call'[d].task] = d
    BY <2>2, <2>3
  <2> QED
    BY <2>4, <2>5, <2>6, <2>7
<1>3. ASSUME NEW c \in Threads, NotifyOne(c) PROVE CallInv'
  <2>1. /\ call'[c].step = "none" /\ call'[c] = NoCall
        /\ \A d \in Threads \ {c} : call'[d] = call[d]
        /\ \A w \in Workers : wpc[w] = "running" => wpc'[w] = "running"
    BY <1>3, CallForms DEF NotifyOne, Wake, TypeOK
  <2> QED
    BY <1>3, <2>1 DEF NotifyOne, CallInv, Pushing, Threads
<1>4. ASSUME NEW w \in Workers, NEW q \in Workers, StealItem(w, q) PROVE CallInv'
  BY <1>4, TakeKeepsCalls DEF StealItem
<1>5. ASSUME NEW w \in Workers, StealNothing(w) PROVE CallInv'
  BY <1>5 DEF StealNothing
<1>6. ASSUME NEW w \in Workers, PopItem(w) PROVE CallInv'
  BY <1>6, TakeKeepsCalls DEF PopItem
<1>7. ASSUME NEW w \in Workers, PopNothing(w) PROVE CallInv'
  BY <1>7 DEF PopNothing
<1>8. ASSUME NEW w \in Workers, TestEnd(w) PROVE CallInv'
  BY <1>8 DEF TestEnd
<1>9. ASSUME NEW w \in Workers, FinishItem(w) PROVE CallInv'
  BY <1>9 DEF FinishItem
<1>10. ASSUME RaiseStop PROVE CallInv'
  BY <1>10 DEF RaiseStop
<1>11. ASSUME StopQueue PROVE CallInv'
  BY <1>11 DEF StopQueue
<1>12. ASSUME NotifyAll PROVE CallInv'
  BY <1>12 DEF NotifyAll, Wake
<1>13. ASSUME Join PROVE CallInv'
  BY <1>13 DEF Join
<1>14. CASE UNCHANGED vars
  BY <1>14 DEF vars
<1> QED
  BY <1>1, <1>2, <1>3, <1>4, <1>5, <1>6, <1>7, <1>8, <1>9, <1>10, <1>11, <1>12,
     <1>13, <1>14 DEF Next, ScheduleById, Work, Destroy

(* Every step keeps the order of the end: stop_, the queues, the workers. *)
LEMMA StopStep ==
  ASSUME TypeOK, CallInv, QueueInv, StopInv, [Next]_vars
  PROVE  StopInv'
<1> USE DEF TypeOK, CallInv, StopInv, Pushing, NoCall, Threads, Workers, Anywhere
<1>1. ASSUME NEW c \in Threads, NEW t \in Tasks, NEW id \in Workers \union {Anywhere},
             TestStop(c, t, id)
       PROVE  StopInv'
  BY <1>1 DEF TestStop, MayCall
<1>2. ASSUME NEW c \in Threads, NEW q \in Workers, Push(c, q) PROVE StopInv'
  BY <1>2 DEF Push
<1>3. ASSUME NEW c \in Threads, NotifyOne(c) PROVE StopInv'
  BY <1>3 DEF NotifyOne, Wake
<1>4. ASSUME NEW w \in Workers, NEW q \in Workers, StealItem(w, q) PROVE StopInv'
  BY <1>4 DEF StealItem, Take
<1>5. ASSUME NEW w \in Workers, StealNothing(w) PROVE StopInv'
  BY <1>5 DEF StealNothing
<1>6. ASSUME NEW w \in Workers, PopItem(w) PROVE StopInv'
  BY <1>6 DEF PopItem, Take
<1>7. ASSUME NEW w \in Workers, PopNothing(w) PROVE StopInv'
  BY <1>7 DEF PopNothing
<1>8. ASSUME NEW w \in Workers, TestEnd(w) PROVE StopInv'
  BY <1>8 DEF TestEnd
<1>9. ASSUME NEW w \in Workers, FinishItem(w) PROVE StopInv'
  BY <1>9 DEF FinishItem
<1>10. ASSUME RaiseStop PROVE StopInv'
  BY <1>10 DEF RaiseStop
<1>11. ASSUME StopQueue PROVE StopInv'
  BY <1>11 DEF StopQueue
<1>12. ASSUME NotifyAll PROVE StopInv'
  BY <1>12 DEF NotifyAll, Wake
<1>13. ASSUME Join PROVE StopInv'
  <2>1. main.next \in Workers /\ main.next \in Int /\ N \in Int
    BY NextWorker, MainForms, PoolAssumption DEF TypeOK
  <2>2. CASE main.next = N - 1
    <3>1. main'.step = "destroyed"
      BY <1>13, <2>2 DEF Join
    <3>2. \A w \in Workers : wpc[w] = "exited"
      BY <1>13, <2>1, <2>2, NextWorker DEF Join, StopInv
    <3> QED
      BY <1>13, <3>1, <3>2 DEF Join, StopInv
  <2>3. CASE main.next # N - 1
    <3>1. main'.step = "join" /\ main'.next = main.next + 1
      BY <1>13, <2>3 DEF Join, TypeOK, Mains
    <3>2. \A w \in 0..main.next : wpc[w] = "exited"
      BY <1>13, <2>1 DEF Join, StopInv
    <3> QED
      BY <1>13, <2>1, <3>1, <3>2 DEF Join, StopInv
  <2> QED
    BY <2>2, <2>3
<1>14. CASE UNCHANGED vars
  BY <1>14 DEF vars
<1> QED
  BY <1>1, <1>2, <1>3, <1>4, <1>5, <1>6, <1>7, <1>8, <1>9, <1>10, <1>11, <1>12,
     <1>13, <1>14 DEF Next, ScheduleById, Work, Destroy

(* A worker that takes an element is awake, and the queues get shorter. *)
LEMMA TakeKeepsSleepers ==
  ASSUME TypeOK, SleeperWillBeWoken, NEW w \in Workers, NEW q \in Workers, queue[q] # <<>>,
         Take(w, q), UNCHANGED <<stopped, call, main>>
  PROVE  SleeperWillBeWoken'
<1>1. \A v \in Workers : /\ wpc'[v] = "asleep" => wpc[v] = "asleep"
                         /\ queue'[v] # <<>> => queue[v] # <<>>
  BY DEF Take, TypeOK
<1> QED
  BY <1>1 DEF SleeperWillBeWoken

(* Every step keeps the notification that each sleeper is owed. *)
LEMMA SleepStep ==
  ASSUME TypeOK, SleeperWillBeWoken, [Next]_vars
  PROVE  SleeperWillBeWoken'
<1>1. ASSUME NEW c \in Threads, NEW t \in Tasks, NEW id \in Workers \union {Anywhere},
             TestStop(c, t, id)
       PROVE  SleeperWillBeWoken'
  <2>1. \A d \in Threads, w \in Workers :
          call[d] = [step |-> "notify", queue |-> w] => call'[d] = call[d]
    BY <1>1, CallForms DEF TestStop, MayCall, TypeOK
  <2> QED
    BY <1>1, <2>1 DEF TestStop, SleeperWillBeWoken
<1>2. ASSUME NEW c \in Threads, NEW q \in Workers, Push(c, q)
       PROVE  SleeperWillBeWoken'
  <2>1. \A d \in Threads, w \in Workers :
          call[d] = [step |-> "notify", queue |-> w] => call'[d] = call[d]
    BY <1>2, CallForms DEF Push, TypeOK
  <2>2. /\ call'[c] = [step |-> "notify", queue |-> q]
        /\ \A w \in Workers \ {q} : queue'[w] = queue[w]
    BY <1>2 DEF Push, TypeOK
  <2>3. UNCHANGED <<wpc, stopped, main>>
    BY <1>2 DEF Push
  <2>4. ASSUME NEW w \in Workers, wpc'[w] = "asleep", queue'[w] # <<>>
        PROVE  \E d \in Threads : call'[d] = [step |-> "notify", queue |-> w]
    <3>1. CASE w = q
      BY <2>2, <3>1
    <3>2. CASE w # q
      <4>1. PICK d \in Threads : call[d] = [step |-> "notify", queue |-> w]
        BY <2>2, <2>3, <2>4, <3>2 DEF SleeperWillBeWoken
      <4> QED
        BY <2>1, <4>1
    <3> QED
      BY <3>1, <3>2
  <2>5. \A w \in Workers :
          wpc'[w] = "asleep" /\ stopped'[w] => main' = [step |-> "wake", next |-> w]
    BY <2>3 DEF SleeperWillBeWoken
  <2> QED
    BY <2>4, <2>5 DEF SleeperWillBeWoken
<1>3. ASSUME NEW c \in Threads, NotifyOne(c) PROVE SleeperWillBeWoken'
  <2> DEFINE q == call[c].queue
  <2>1. q \in Workers /\ wpc'[q] # "asleep"
        /\ \A w \in Workers : wpc'[w] = "asleep" => wpc[w] = "asleep"
    BY <1>3, CallForms DEF NotifyOne, Wake, TypeOK
  <2>2. \A d \in Threads, w \in Workers \ {q} :
          call[d] = [step |-> "notify", queue |-> w] => call'[d] = call[d]
    BY <1>3, CallForms DEF NotifyOne, TypeOK
  <2>3. UNCHANGED <<queue, stopped, main>>
    BY <1>3 DEF NotifyOne
  <2> HIDE DEF q
  <2>4. ASSUME NEW w \in Workers, wpc'[w] = "asleep", queue'[w] # <<>>
        PROVE  \E d \in Threads : call'[d] = [step |-> "notify", queue |-> w]
    <3>1. w # q /\ wpc[w] = "asleep" /\ queue[w] # <<>>
      BY <2>1, <2>3, <2>4
    <3>2. PICK d \in Threads : call[d] = [step |-> "notify", queue |-> w]
      BY <3>1 DEF SleeperWillBeWoken
    <3> QED
      BY <2>2, <3>1, <3>2
  <2>5. \A w \in Workers :
          wpc'[w] = "asleep" /\ stopped'[w] => main' = [step |-> "wake", next |-> w]
    BY <2>1, <2>3 DEF SleeperWillBeWoken
  <2> QED
    BY <2>4, <2>5 DEF SleeperWillBeWoken
<1>4. ASSUME NEW w \in Workers, NEW q \in Workers, StealItem(w, q)
       PROVE  SleeperWillBeWoken'
  BY <1>4, TakeKeepsSleepers DEF StealItem, PopItem
<1>5. ASSUME NEW w \in Workers, StealNothing(w) PROVE SleeperWillBeWoken'
  BY <1>5 DEF StealNothing, TypeOK, SleeperWillBeWoken
<1>6. ASSUME NEW w \in Workers, PopItem(w) PROVE SleeperWillBeWoken'
  BY <1>6, TakeKeepsSleepers DEF StealItem, PopItem
<1>7. ASSUME NEW w \in Workers, PopNothing(w) PROVE SleeperWillBeWoken'
  BY <1>7 DEF PopNothing, TypeOK, SleeperWillBeWoken
<1>8. ASSUME NEW w \in Workers, TestEnd(w) PROVE SleeperWillBeWoken'
  BY <1>8 DEF TestEnd, TypeOK, SleeperWillBeWoken
<1>9. ASSUME NEW w \in Workers, FinishItem(w) PROVE SleeperWillBeWoken'
  BY <1>9 DEF FinishItem, TypeOK, SleeperWillBeWoken
<1>10. ASSUME RaiseStop PROVE SleeperWillBeWoken'
  <2>1. \A w \in Workers : wpc[w] = "asleep" => ~stopped[w]
    BY <1>10, MainForms DEF RaiseStop, SleeperWillBeWoken, TypeOK
  <2> QED
    BY <1>10, <2>1 DEF RaiseStop, SleeperWillBeWoken
<1>11. ASSUME StopQueue PROVE SleeperWillBeWoken'
  <2>1. \A w \in Workers : wpc[w] = "asleep" => ~stopped[w]
    BY <1>11, MainForms DEF StopQueue, SleeperWillBeWoken, TypeOK
  <2>2. /\ main' = [step |-> "wake", next |-> main.next] /\ main.next \in Workers
        /\ \A w \in Workers \ {main.next} : stopped'[w] = stopped[w]
    BY <1>11 DEF StopQueue, TypeOK, Mains
  <2> QED
    BY <1>11, <2>1, <2>2 DEF StopQueue, SleeperWillBeWoken
<1>12. ASSUME NotifyAll PROVE SleeperWillBeWoken'
  <2>1. ASSUME NEW w \in Workers, wpc[w] = "asleep", stopped[w] PROVE w = main.next
    <3>1. main = [step |-> "wake", next |-> w]
      BY <2>1 DEF SleeperWillBeWoken
    <3> QED
      BY <3>1
  <2>2. /\ main.next \in Workers /\ wpc'[main.next] # "asleep"
        /\ \A w \in Workers : wpc'[w] = "asleep" => wpc[w] = "asleep"
    BY <1>12, MainForms DEF NotifyAll, Wake, TypeOK
  <2> QED
    BY <1>12, <2>1, <2>2 DEF NotifyAll, SleeperWillBeWoken
<1>13. ASSUME Join PROVE SleeperWillBeWoken'
  <2>1. \A w \in Workers : wpc[w] = "asleep" => ~stopped[w]
    BY <1>13, MainForms DEF Join, SleeperWillBeWoken, TypeOK
  <2> QED
    BY <1>13, <2>1 DEF Join, SleeperWillBeWoken
<1>14. CASE UNCHANGED vars
  BY <1>14 DEF vars, SleeperWillBeWoken
<1> QED
  BY <1>1, <1>2, <1>3, <1>4, <1>5, <1>6, <1>7, <1>8, <1>9, <1>10, <1>11, <1>12,
     <1>13, <1>14 DEF Next, ScheduleById, Work, Destroy

(* Taking an element out of a queue: the others keep their order. *)
LEMMA TakeKeepsQueues ==
  ASSUME TypeOK, QueueInv, NEW w \in Workers, NEW q \in Workers, queue[q] # <<>>,
         Take(w, q), wanted' = wanted
  PROVE  QueueInv'
<1> DEFINE s == queue[q]
           h == Head(s)
<1>1. /\ s \in Seq(Tasks) /\ h = s[1] /\ h \in Tasks /\ Len(s) \in Nat /\ Len(s) > 0
      /\ Len(Tail(s)) = Len(s) - 1 /\ \A i \in 1..Len(Tail(s)) : Tail(s)[i] = s[i + 1]
  BY TailOfQueue DEF TypeOK
<1>2. /\ queue'[q] = Tail(s) /\ \A v \in Workers \ {q} : queue'[v] = queue[v]
      /\ status'[h] = "executed" /\ \A t \in Tasks \ {h} : status'[t] = status[t]
  BY <1>1 DEF Take, TypeOK
<1> DEFINE at(v, i) == IF v = q THEN i + 1 ELSE i
<1>3. \A v \in Workers :
        Len(queue[v]) \in Nat /\ \A i \in 1..Len(queue[v]) : queue[v][i] \in Tasks
  BY DEF TypeOK
<1>4. \A v \in Workers : \A i \in 1..Len(queue'[v]) :
        /\ at(v, i) \in 1..Len(queue[v]) /\ queue'[v][i] = queue[v][at(v, i)]
        /\ queue'[v][i] # h
  <2>1. \A v \in Workers : \A i \in 1..Len(queue'[v]) :
          at(v, i) \in 1..Len(queue[v]) /\ queue'[v][i] = queue[v][at(v, i)]
    <3> SUFFICES ASSUME NEW v \in Workers, NEW i \in 1..Len(queue'[v])
                 PROVE  at(v, i) \in 1..Len(queue[v]) /\ queue'[v][i] = queue[v][at(v, i)]
      OBVIOUS
    <3>1. CASE v = q
      <4>1. i \in 1..Len(Tail(s)) /\ i \in Nat
        <5>1. queue'[v] = Tail(s)
          BY <1>2, <3>1
        <5>2. i \in 1..Len(Tail(s))
          BY <5>1
        <5> QED
          BY <1>1, <5>2
      <4>2. i + 1 \in 1..Len(s) /\ Tail(s)[i] = s[i + 1]
        BY <1>1, <4>1
      <4> QED
        BY <1>2, <3>1, <4>2
    <3>2. CASE v # q
      BY <1>2, <3>2
    <3> QED
      BY <3>1, <3>2
  <2>2. \A v \in Workers : \A i \in 1..Len(queue[v]) : queue[v][i] = h => v = q /\ i = 1
    BY <1>1 DEF QueueInv
  <2>3. \A i \in 1..Len(queue'[q]) : at(q, i) # 1
    BY <1>1, <1>2
  <2> QED
    BY <2>1, <2>2, <2>3
<1>5. \A v \in Workers : \A i \in 1..Len(queue[v]) : queue[v][i] # h =>
        \E j \in 1..Len(queue'[v]) : queue'[v][j] = queue[v][i]
  <2>1. ASSUME NEW i \in 1..Len(s), s[i] # h
        PROVE  \E j \in 1..Len(queue'[q]) : queue'[q][j] = s[i]
    <3>1. i - 1 \in 1..Len(Tail(s)) /\ Tail(s)[i - 1] = s[i]
      BY <1>1, <2>1
    <3>2. i - 1 \in 1..Len(queue'[q]) /\ queue'[q][i - 1] = s[i]
      BY <1>2, <3>1
    <3> HIDE DEF s
    <3> QED
      BY <3>2
  <2>2. \A v \in Workers \ {q} : \A i \in 1..Len(queue[v]) :
          i \in 1..Len(queue'[v]) /\ queue'[v][i] = queue[v][i]
    BY <1>2
  <2> SUFFICES ASSUME NEW v \in Workers, NEW i \in 1..Len(queue[v]), queue[v][i] # h
               PROVE  \E j \in 1..Len(queue'[v]) : queue'[v][j] = queue[v][i]
    OBVIOUS
  <2>3. CASE v = q
    BY <2>1, <2>3
  <2>4. CASE v # q
    BY <2>2, <2>4
  <2> QED
    BY <2>3, <2>4
<1> HIDE DEF s, h
<1>6. \A v \in Workers : \A i \in 1..Len(queue'[v]) :
        status'[queue'[v][i]] = "accepted" /\ wanted'[queue'[v][i]] \in {Anywhere, v}
  <2> SUFFICES ASSUME NEW v \in Workers, NEW i \in 1..Len(queue'[v])
               PROVE  /\ status'[queue'[v][i]] = "accepted"
                      /\ wanted'[queue'[v][i]] \in {Anywhere, v}
    OBVIOUS
  <2>1. PICK j \in 1..Len(queue[v]) : queue'[v][i] = queue[v][j] /\ queue[v][j] # h
    BY <1>4
  <2>2. /\ queue[v][j] \in Tasks \ {h} /\ status[queue[v][j]] = "accepted"
        /\ wanted[queue[v][j]] \in {Anywhere, v}
    BY <1>3, <2>1 DEF QueueInv
  <2> QED
    BY <1>2, <2>1, <2>2
<1>7. \A u, v \in Workers : \A i \in 1..Len(queue'[u]), j \in 1..Len(queue'[v]) :
        queue'[u][i] = queue'[v][j] => u = v /\ i = j
  <2> SUFFICES ASSUME NEW u \in Workers, NEW v \in Workers, NEW i \in 1..Len(queue'[u]),
                      NEW j \in 1..Len(queue'[v]), queue'[u][i] = queue'[v][j]
               PROVE  u = v /\ i = j
    OBVIOUS
  <2>1. /\ at(u, i) \in 1..Len(queue[u]) /\ at(v, j) \in 1..Len(queue[v])
        /\ queue[u][at(u, i)] = queue[v][at(v, j)]
    BY <1>4
  <2> HIDE DEF at
  <2>2. u = v /\ at(u, i) = at(v, j)
    BY <2>1 DEF QueueInv
  <2> USE DEF at
  <2>3. i \in Int /\ j \in Int
    OBVIOUS
  <2> QED
    BY <2>2, <2>3
<1>8. \A t \in Tasks : status'[t] = "accepted" =>
        \E v \in Workers : \E i \in 1..Len(queue'[v]) : queue'[v][i] = t
  <2> SUFFICES ASSUME NEW t \in Tasks, status'[t] = "accepted"
               PROVE  \E v \in Workers : \E i \in 1..Len(queue'[v]) : queue'[v][i] = t
    OBVIOUS
  <2>1. t # h /\ status[t] = "accepted"
    BY <1>2
  <2>2. PICK v \in Workers : \E i \in 1..Len(queue[v]) : queue[v][i] = t
    BY <2>1 DEF QueueInv
  <2> QED
    BY <1>5, <2>1, <2>2
<1> QED
  BY <1>6, <1>7, <1>8 DEF QueueInv

(* Every step keeps each accepted function at one place of one queue. *)
LEMMA QueueStep ==
  ASSUME TypeOK, CallInv, QueueInv, [Next]_vars
  PROVE  QueueInv'
<1>1. ASSUME NEW c \in Threads, NEW t \in Tasks, NEW id \in Workers \union {Anywhere},
             TestStop(c, t, id)
       PROVE  QueueInv'
  <2>1. /\ \A u \in Tasks : status[u] = "accepted" <=> status'[u] = "accepted"
        /\ \A u \in Tasks : status[u] = "accepted" => wanted'[u] = wanted[u]
        /\ queue' = queue
    BY <1>1 DEF TestStop, TypeOK
  <2>2. \A v \in Workers :
        Len(queue[v]) \in Nat /\ \A i \in 1..Len(queue[v]) : queue[v][i] \in Tasks
    BY DEF TypeOK
  <2> QED
    BY <2>1, <2>2 DEF QueueInv
<1>2. ASSUME NEW c \in Threads, NEW q \in Workers, Push(c, q) PROVE QueueInv'
  <2> DEFINE t == call[c].task
             n == Len(queue[q])
  <2>1. /\ t \in Tasks /\ status[t] = "passed" /\ wanted[t] \in {Anywhere, q}
        /\ queue[q] \in Seq(Tasks)
    BY <1>2, CallForms DEF Push, TypeOK, CallInv, Pushing
  <2>2. /\ \A v \in Workers \ {q} : queue'[v] = queue[v]
        /\ Len(queue'[q]) = n + 1 /\ n \in Nat /\ queue'[q][n + 1] = t
        /\ \A i \in 1..n : queue'[q][i] = queue[q][i]
    BY <1>2, <2>1 DEF Push, TypeOK
  <2>3. /\ status'[t] = "accepted" /\ \A u \in Tasks \ {t} : status'[u] = status[u]
        /\ wanted' = wanted
    BY <1>2, <2>1 DEF Push, TypeOK
  <2>4. \A v \in Workers : Len(queue[v]) \in Nat /\ \A i \in 1..Len(queue[v]) :
          queue[v][i] \in Tasks /\ queue[v][i] # t
    BY <2>1 DEF TypeOK, QueueInv
  <2> HIDE DEF t, n
  <2>5. \A v \in Workers : \A i \in 1..Len(queue'[v]) :
          \/ v = q /\ i = n + 1 /\ queue'[v][i] = t
          \/ i \in 1..Len(queue[v]) /\ queue'[v][i] = queue[v][i]
    BY <2>2 DEF n
  <2>6. \A v \in Workers : \A i \in 1..Len(queue[v]) :
          i \in 1..Len(queue'[v]) /\ queue'[v][i] = queue[v][i]
    BY <2>2 DEF n
  <2>7. \A v \in Workers : \A i \in 1..Len(queue'[v]) :
          status'[queue'[v][i]] = "accepted" /\ wanted'[queue'[v][i]] \in {Anywhere, v}
    <3> SUFFICES ASSUME NEW v \in Workers, NEW i \in 1..Len(queue'[v])
                 PROVE  /\ status'[queue'[v][i]] = "accepted"
                        /\ wanted'[queue'[v][i]] \in {Anywhere, v}
      OBVIOUS
    <3>1. CASE v = q /\ i = n + 1 /\ queue'[v][i] = t
      BY <2>1, <2>3, <3>1
    <3>2. CASE i \in 1..Len(queue[v]) /\ queue'[v][i] = queue[v][i]
      <4>1. /\ queue[v][i] \in Tasks \ {t} /\ status[queue[v][i]] = "accepted"
            /\ wanted[queue[v][i]] \in {Anywhere, v}
        BY <2>4, <3>2 DEF QueueInv
      <4> QED
        BY <2>3, <3>2, <4>1
    <3> QED
      BY <2>5, <3>1, <3>2
  <2>8. \A u, v \in Workers : \A i \in 1..Len(queue'[u]), j \in 1..Len(queue'[v]) :
          queue'[u][i] = queue'[v][j] => u = v /\ i = j
    <3> SUFFICES ASSUME NEW u \in Workers, NEW v \in Workers, NEW i \in 1..Len(queue'[u]),
                        NEW j \in 1..Len(queue'[v]), queue'[u][i] = queue'[v][j]
                 PROVE  u = v /\ i = j
      OBVIOUS
    <3>1. CASE queue'[u][i] = t
      <4>1. u = q /\ i = n + 1
        <5>1. \/ u = q /\ i = n + 1
              \/ i \in 1..Len(queue[u]) /\ queue[u][i] = t
          BY <2>5, <3>1
        <5> QED
          BY <2>4, <5>1
      <4>2. v = q /\ j = n + 1
        <5>1. \/ v = q /\ j = n + 1
              \/ j \in 1..Len(queue[v]) /\ queue[v][j] = t
          BY <2>5, <3>1
        <5> QED
          BY <2>4, <5>1
      <4> QED
        BY <4>1, <4>2
    <3>2. CASE queue'[u][i] # t
      <4>1. i \in 1..Len(queue[u]) /\ queue'[u][i] = queue[u][i]
        BY <2>5, <3>2
      <4>2. j \in 1..Len(queue[v]) /\ queue'[v][j] = queue[v][j]
        BY <2>5, <3>2
      <4>3. queue[u][i] = queue[v][j]
        BY <4>1, <4>2
      <4> QED
        BY <4>1, <4>2, <4>3 DEF QueueInv
    <3> QED
      BY <3>1, <3>2
  <2>9. \A u \in Tasks : status'[u] = "accepted" =>
          \E v \in Workers : \E i \in 1..Len(queue'[v]) : queue'[v][i] = u
    <3>1. n + 1 \in 1..Len(queue'[q])
      BY <2>2
    <3> QED
      BY <2>2, <2>3, <2>6, <3>1 DEF QueueInv
  <2> QED
    BY <2>7, <2>8, <2>9 DEF QueueInv
<1>3. ASSUME NEW c \in Threads, NotifyOne(c) PROVE QueueInv'
  BY <1>3 DEF NotifyOne, QueueInv
<1>4. ASSUME NEW w \in Workers, NEW q \in Workers, StealItem(w, q) PROVE QueueInv'
  BY <1>4, TakeKeepsQueues DEF StealItem, PopItem
<1>5. ASSUME NEW w \in Workers, StealNothing(w) PROVE QueueInv'
  BY <1>5 DEF StealNothing, QueueInv
<1>6. ASSUME NEW w \in Workers, PopItem(w) PROVE QueueInv'
  BY <1>6, TakeKeepsQueues DEF StealItem, PopItem
<1>7. ASSUME NEW w \in Workers, PopNothing(w) PROVE QueueInv'
  BY <1>7 DEF PopNothing, QueueInv
<1>8. ASSUME NEW w \in Workers, TestEnd(w) PROVE QueueInv'
  BY <1>8 DEF TestEnd, QueueInv
<1>9. ASSUME NEW w \in Workers, FinishItem(w) PROVE QueueInv'
  BY <1>9 DEF FinishItem, QueueInv
<1>10. ASSUME RaiseStop PROVE QueueInv'
  BY <1>10 DEF RaiseStop, QueueInv
<1>11. ASSUME StopQueue PROVE QueueInv'
  BY <1>11 DEF StopQueue, QueueInv
<1>12. ASSUME NotifyAll PROVE QueueInv'
  BY <1>12 DEF NotifyAll, QueueInv
<1>13. ASSUME Join PROVE QueueInv'
  BY <1>13 DEF Join, QueueInv
<1>14. CASE UNCHANGED vars
  BY <1>14 DEF vars, QueueInv
<1> QED
  BY <1>1, <1>2, <1>3, <1>4, <1>5, <1>6, <1>7, <1>8, <1>9, <1>10, <1>11, <1>12,
     <1>13, <1>14 DEF Next, ScheduleById, Work, Destroy

-----------------------------------------------------------------------------
(* The theorems *)

(* Before any call the queues are empty and everybody looks for work. *)
LEMMA Initially == Init => IInv
<1> SUFFICES ASSUME Init PROVE IInv
  OBVIOUS
<1>1. TypeOK
  <2>1. call \in [Threads -> Calls] /\ main \in Mains
    BY CallForms, MainForms, NextWorker DEF Init
  <2>2. queue \in [Workers -> Seq(Tasks)] /\ item \in [Workers -> Tasks \union {NoTask}]
    BY DEF Init
  <2>3. \A w \in Workers : wpc[w] # "running" /\ item[w] = NoTask
    BY DEF Init
  <2>4. /\ pool \in Pools /\ stop \in BOOLEAN /\ stopped \in [Workers -> BOOLEAN]
        /\ wpc \in [Workers -> {"looking", "popping", "asleep", "running", "ending", "exited"}]
        /\ status \in [Tasks -> {"new", "refused", "passed", "accepted", "executed"}]
        /\ wanted \in [Tasks -> Workers \union {Anywhere}]
    BY DEF Init
  <2> QED
    BY <2>1, <2>2, <2>3, <2>4 DEF TypeOK
<1>2. \A c \in Threads : call[c] = NoCall /\ ~Pushing(c)
  BY CallForms DEF Init, Pushing
<1>3. CallInv
  BY <1>2 DEF CallInv, Threads
<1>4. QueueInv
  <2>1. \A w \in Workers : Len(queue[w]) = 0
    BY DEF Init
  <2> QED
    BY <2>1 DEF Init, QueueInv
<1>5. StopInv /\ SleeperWillBeWoken
  BY DEF Init, StopInv, SleeperWillBeWoken
<1> QED
  BY <1>1, <1>3, <1>4, <1>5 DEF IInv

(* The invariant from which the two results follow. *)
THEOREM Invariance == Spec => []IInv
<1>1. IInv /\ [Next]_vars => IInv'
  BY TypeStep, CallStep, QueueStep, StopStep, SleepStep DEF IInv
<1> QED
  BY Initially, <1>1, PTL DEF Spec

(* A pool whose running functions schedule to their own worker only is not   *)
(* destroyed while a function it has accepted still waits.                   *)
LEMMA OwnQueueLosesNothing ==
  IInv /\ pool.nesting = "own_queue" => NothingAcceptedIsLost
<1> SUFFICES ASSUME IInv, pool.nesting = "own_queue", main.step = "destroyed",
                    NEW t \in Tasks, status[t] = "accepted"
             PROVE  FALSE
  BY DEF NothingAcceptedIsLost
<1>1. PICK w \in Workers : \E i \in 1..Len(queue[w]) : queue[w][i] = t
  BY DEF IInv, QueueInv
<1>2. queue[w] = <<>>
  BY DEF IInv, StopInv
<1> QED
  BY <1>1, <1>2

(* What scheduleById() has accepted lies in one queue, at one place, and at  *)
(* the worker asked for; nobody sleeps next to it for good, and the pool     *)
(* does not die on it unless functions schedule to other workers.            *)
THEOREM PlacesKept == Spec => []EveryFunctionHasItsPlace
<1>1. IInv => EveryFunctionHasItsPlace
  <2> SUFFICES ASSUME IInv PROVE EveryFunctionHasItsPlace
    OBVIOUS
  <2>1. \A t \in Tasks : \A x \in Places(t) :
          \E w \in Workers : \E i \in 1..Len(queue[w]) : x = <<w, i>> /\ queue[w][i] = t
    BY DEF Places, IInv, TypeOK
  <2>2. \A t \in Tasks, w \in Workers : \A i \in 1..Len(queue[w]) :
          queue[w][i] = t => <<w, i>> \in Places(t)
    BY DEF Places, IInv, TypeOK
  <2>3. ASSUME NEW t \in Tasks, status[t] = "accepted"
        PROVE  \E place \in Places(t) :
                 Places(t) = {place} /\ wanted[t] \in {Anywhere, place[1]}
    <3>1. PICK w \in Workers : \E i \in 1..Len(queue[w]) : queue[w][i] = t
      BY <2>3 DEF IInv, QueueInv
    <3>2. PICK i \in 1..Len(queue[w]) : queue[w][i] = t
      BY <3>1
    <3>3. <<w, i>> \in Places(t)
      BY <2>2, <3>2
    <3>4. \A x \in Places(t) : x = <<w, i>>
      BY <2>1, <3>2 DEF IInv, QueueInv
    <3>5. wanted[t] \in {Anywhere, w}
      BY <3>2 DEF IInv, QueueInv
    <3> QED
      BY <3>3, <3>4, <3>5
  <2>4. ASSUME NEW t \in Tasks, status[t] # "accepted" PROVE Places(t) = {}
    BY <2>1, <2>4 DEF IInv, QueueInv
  <2> QED
    BY <2>3, <2>4, OwnQueueLosesNothing
       DEF EveryFunctionHasItsPlace, AcceptedIsQueuedOnce, IInv
<1> QED
  BY Invariance, <1>1, PTL

-----------------------------------------------------------------------------
(* The contract of Executor.h, for all pools *)

Promised == INSTANCE ExecutorContract WITH status <- Outcome

(* What changes with the status of one function. *)
LEMMA OutcomeOf ==
  ASSUME NEW t \in Tasks, NEW s,
         status \in [Tasks -> {"new", "refused", "passed", "accepted", "executed"}],
         status' = [status EXCEPT ![t] = s]
  PROVE  Outcome' = [Outcome EXCEPT ![t] = IF s = "passed" THEN "new" ELSE s]
BY DEF Outcome

(* A step that leaves the functions alone leaves their outcome alone. *)
LEMMA OutcomeStays ==
  ASSUME status' = status
  PROVE  Outcome' = Outcome
BY DEF Outcome

(* What is taken out of a queue had been accepted. *)
LEMMA TakeImplements ==
  ASSUME IInv, NEW w \in Workers, NEW q \in Workers, queue[q] # <<>>,
         Take(w, q)
  PROVE  Promised!Next \/ UNCHANGED Outcome
<1> DEFINE t == Head(queue[q])
<1>1. queue[q] \in Seq(Tasks) /\ Len(queue[q]) > 0
  BY DEF IInv, TypeOK
<1>2. t \in Tasks /\ status[t] = "accepted"
  BY <1>1 DEF IInv, QueueInv
<1>3. status' = [status EXCEPT ![t] = "executed"]
  BY DEF Take
<1> QED
  BY <1>2, <1>3, OutcomeOf DEF IInv, TypeOK, Outcome, Promised!Next, Promised!Execute

(* Each step of the pool is one of the contract, or none. *)
LEMMA StepImplements == IInv /\ [Next]_vars => [Promised!Next]_Outcome
<1> SUFFICES ASSUME IInv, [Next]_vars PROVE Promised!Next \/ UNCHANGED Outcome
  OBVIOUS
<1> USE DEF IInv, TypeOK
<1>1. ASSUME NEW c \in Threads, NEW t \in Tasks, NEW id \in Workers \union {Anywhere},
             TestStop(c, t, id)
      PROVE  Promised!Next \/ UNCHANGED Outcome
  <2>1. status[t] = "new"
    BY <1>1 DEF TestStop
  <2>2. CASE status' = [status EXCEPT ![t] = "refused"]
    BY <2>1, <2>2, OutcomeOf DEF Outcome, Promised!Next, Promised!Refuse
  <2>3. CASE status' = [status EXCEPT ![t] = "passed"]
    BY <2>1, <2>3, OutcomeOf DEF Outcome
  <2> QED
    BY <1>1, <2>2, <2>3 DEF TestStop
<1>2. ASSUME NEW c \in Threads, NEW q \in Workers, Push(c, q)
      PROVE  Promised!Next \/ UNCHANGED Outcome
  <2>1. PICK t : t = call[c].task
    OBVIOUS
  <2>2. t \in Tasks /\ status[t] = "passed"
    BY <1>2, <2>1, CallForms DEF Push, CallInv, Pushing
  <2>3. status' = [status EXCEPT ![t] = "accepted"]
    BY <1>2, <2>1 DEF Push
  <2> QED
    BY <2>2, <2>3, OutcomeOf DEF Outcome, Promised!Next, Promised!Accept
<1>3. ASSUME NEW w \in Workers, NEW q \in Workers, StealItem(w, q)
      PROVE  Promised!Next \/ UNCHANGED Outcome
  BY <1>3, TakeImplements DEF StealItem
<1>4. ASSUME NEW w \in Workers, PopItem(w)
      PROVE  Promised!Next \/ UNCHANGED Outcome
  BY <1>4, TakeImplements DEF PopItem
<1>5. ASSUME NEW c \in Threads, NotifyOne(c) PROVE UNCHANGED Outcome
  BY <1>5, OutcomeStays DEF NotifyOne
<1>6. ASSUME NEW w \in Workers, StealNothing(w) \/ PopNothing(w) \/ TestEnd(w) \/ FinishItem(w)
      PROVE  UNCHANGED Outcome
  BY <1>6, OutcomeStays DEF StealNothing, PopNothing, TestEnd, FinishItem
<1>7. CASE Destroy
  BY <1>7, OutcomeStays DEF Destroy, RaiseStop, StopQueue, NotifyAll, Join
<1>8. CASE UNCHANGED vars
  BY <1>8, OutcomeStays DEF vars
<1> QED
  BY <1>1, <1>2, <1>3, <1>4, <1>5, <1>6, <1>7, <1>8 DEF Next, ScheduleById, Work

(* The pool never executes a function that it has refused, nor one twice,    *)
(* nor one that it has not accepted, wherever functions schedule others and  *)
(* also while it is destroyed: the part of the contract of Executor.h that   *)
(* says what may not happen.                                                 *)
THEOREM PoolKeepsPromises == Spec => Promised!Safety
<1>1. Init => Promised!Init
  BY DEF Init, Outcome, Promised!Init
<1> QED
  BY <1>1, StepImplements, Invariance, PTL DEF Spec, Promised!Safety
=============================================================================
