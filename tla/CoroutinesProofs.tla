-------------------------- MODULE CoroutinesProofs --------------------------
(***************************************************************************)
(* Proofs about what coroutines are combined with, as MCCoroutines         *)
(* composes it: what a step of the composition is to a component, and for  *)
(* each component an inductive invariant.                                  *)
(***************************************************************************)
EXTENDS MCCoroutines, Integers, Sequences, FiniteSets, FiniteSetTheorems, SequenceTheorems, TLAPS

-----------------------------------------------------------------------------
(* CoroSemaphore, by itself.  That nobody sleeps on a unit is inductive      *)
(* together with the types: release() counts its units and wakes for them in *)
(* one critical section, and a waiter that is on its way takes at most one   *)
(* unit with it.                                                             *)

SemaphoreInv == TypeOK /\ NobodySleepsOnUnits

-----------------------------------------------------------------------------
(* How many are on their way *)

(* A set of coroutines has a number of members. *)
LEMMA CoroutinesCount ==
  ASSUME NEW S \in SUBSET Coroutines
  PROVE  IsFiniteSet(S) /\ Cardinality(S) \in Nat
BY CoroSemaphoreAssumption, FS_Subset, FS_CardinalityType

(* One that leaves the set makes it smaller by at most one. *)
LEMMA LosesOneAtMost ==
  ASSUME NEW S \in SUBSET Coroutines, NEW c
  PROVE  Cardinality(S \ {c}) >= Cardinality(S) - 1
<1>1. CASE c \in S
  BY <1>1, CoroutinesCount, FS_RemoveElement
<1>2. CASE c \notin S
  <2>1. S \ {c} = S
    BY <1>2
  <2> QED
    BY <2>1, CoroutinesCount
<1> QED
  BY <1>1, <1>2

-----------------------------------------------------------------------------
(* The initial states *)

THEOREM SemaphoreInit == Init => SemaphoreInv
<1> SUFFICES ASSUME Init PROVE SemaphoreInv
  OBVIOUS
<1>1. TypeOK
  <2>1. count \in 0..LeastMaxValue
    BY CoroSemaphoreAssumption DEF Init
  <2> QED
    BY <2>1, CoroSemaphoreAssumption DEF Init, TypeOK
<1>2. Asleep = {}
  BY DEF Init, Asleep
<1> QED
  BY <1>1, <1>2 DEF SemaphoreInv, NobodySleepsOnUnits

-----------------------------------------------------------------------------
(* One lemma for each action *)

(* Where everybody is after a critical section. *)
LEMMA AfterLeave ==
  ASSUME TypeOK, NEW c \in Coroutines, NEW to, NEW S \in SUBSET Coroutines,
         place[c] \notin {"asleep"}, to # "woken", Leave(c, to, S)
  PROVE  /\ Asleep' = (Asleep \ S) \union (IF to = "asleep" THEN {c} ELSE {})
         /\ Woken' = (Woken \ {c}) \union (S \ {c})
BY DEF Leave, Asleep, Woken

(* The types after a critical section. *)
LEMMA LeaveKeepsTypes ==
  ASSUME TypeOK, NEW c \in Coroutines, NEW to \in Calls \union {"idle", "asleep", "woken"},
         NEW S, UNCHANGED kind, lock' = Nobody, count' \in 0..LeastMaxValue, Leave(c, to, S)
  PROVE  TypeOK'
<1>1. Calls' = Calls
  BY DEF Calls
<1>2. place' \in [Coroutines -> Calls \union {"idle", "asleep", "woken"}]
  BY DEF Leave, TypeOK
<1> QED
  BY <1>1, <1>2 DEF TypeOK

LEMMA CallKeeps ==
  ASSUME SemaphoreInv, NEW c \in Coroutines, Call(c)
  PROVE  SemaphoreInv'
<1> USE DEF SemaphoreInv
<1>1. PICK op \in Calls : place' = [place EXCEPT ![c] = op]
  BY DEF Call
<1>2. op \notin {"idle", "asleep", "woken"}
  BY DEF Calls
<1>3. Calls' = Calls
  BY DEF Call, Calls
<1>4. TypeOK'
  <2>1. place' \in [Coroutines -> Calls' \union {"idle", "asleep", "woken"}]
    BY <1>1, <1>3 DEF TypeOK
  <2>2. lock' \in {Nobody} \union {d \in Coroutines : place'[d] \notin {"idle", "asleep"}}
    BY <1>1, <1>2 DEF TypeOK, Call
  <2> QED
    BY <2>1, <2>2 DEF TypeOK, Call
<1>5. Asleep' = Asleep /\ Woken' = Woken
  BY <1>1, <1>2 DEF Call, TypeOK, Asleep, Woken
<1> QED
  BY <1>4, <1>5 DEF Call, NobodySleepsOnUnits

LEMMA TakeLockKeeps ==
  ASSUME SemaphoreInv, NEW c \in Coroutines, TakeLock(c)
  PROVE  SemaphoreInv'
<1> USE DEF SemaphoreInv
<1>1. TypeOK'
  <2>1. Calls' = Calls
    BY DEF TakeLock, Calls
  <2> QED
    BY <2>1 DEF TakeLock, TypeOK
<1>2. Asleep' = Asleep /\ Woken' = Woken
  BY DEF TakeLock, Asleep, Woken
<1> QED
  BY <1>1, <1>2 DEF TakeLock, NobodySleepsOnUnits

LEMMA WaitKeeps ==
  ASSUME SemaphoreInv, NEW c \in Coroutines, Wait(c)
  PROVE  SemaphoreInv'
<1> USE DEF SemaphoreInv
<1>1. place[c] \in Waiting /\ lock' = Nobody /\ UNCHANGED kind
  BY DEF Wait, Does
<1>2. CASE Ready
  <2>1. Leave(c, "idle", {}) /\ count' = IF kind = "latch" THEN 0 ELSE count - 1
    BY <1>2 DEF Wait
  <2>2. count' \in 0..LeastMaxValue
    BY <1>2, <2>1, CoroSemaphoreAssumption DEF Ready, TypeOK
  <2>3. TypeOK'
    BY <1>1, <2>1, <2>2, LeaveKeepsTypes
  <2>4. Asleep' = Asleep /\ Woken' = Woken \ {c}
    <3>1. Asleep' = (Asleep \ {}) \union {} /\ Woken' = (Woken \ {c}) \union ({} \ {c})
      BY <1>1, <2>1, AfterLeave DEF Waiting
    <3> QED
      BY <3>1
  <2>5. Cardinality(Woken') >= Cardinality(Woken) - 1 /\ Cardinality(Woken) \in Nat
        /\ Cardinality(Woken') \in Nat
    BY <2>4, LosesOneAtMost, CoroutinesCount DEF Woken
  <2>6. CASE kind = "latch"
    BY <1>2, <2>3, <2>4, <2>6 DEF NobodySleepsOnUnits, Ready
  <2>7. CASE kind # "latch"
    BY <1>1, <2>1, <2>3, <2>4, <2>5, <2>7 DEF NobodySleepsOnUnits, TypeOK
  <2> QED
    BY <2>6, <2>7
<1>3. CASE ~Ready
  <2>1. Leave(c, "asleep", {}) /\ UNCHANGED count
    BY <1>3 DEF Wait
  <2>2. TypeOK'
    BY <1>1, <2>1, LeaveKeepsTypes DEF TypeOK
  <2>3. Cardinality(Woken') \in Nat
    <3>1. Woken' \in SUBSET Coroutines
      BY DEF Woken
    <3> QED
      BY <3>1, CoroutinesCount
  <2> QED
    BY <1>1, <1>3, <2>1, <2>2, <2>3, CoroSemaphoreAssumption DEF Ready, NobodySleepsOnUnits, TypeOK
<1> QED
  BY <1>2, <1>3

LEMMA TryAcquireKeeps ==
  ASSUME SemaphoreInv, NEW c \in Coroutines, TryAcquire(c)
  PROVE  SemaphoreInv'
<1> USE DEF SemaphoreInv
<1>1. place[c] = "try_acquire" /\ lock' = Nobody /\ UNCHANGED kind /\ Leave(c, "idle", {})
  BY DEF TryAcquire, Does
<1>2. kind # "latch"
  BY <1>1 DEF TypeOK, Calls
<1>3. count' \in 0..LeastMaxValue /\ count' <= count
  BY CoroSemaphoreAssumption DEF TryAcquire, TypeOK
<1>4. TypeOK'
  BY <1>1, <1>3, LeaveKeepsTypes
<1>5. Asleep' = Asleep /\ Woken' = Woken
  BY <1>1 DEF Leave, Asleep, Woken, TypeOK
<1>6. Cardinality(Woken) \in Nat
  BY CoroutinesCount DEF Woken
<1> QED
  BY <1>1, <1>2, <1>3, <1>4, <1>5, <1>6 DEF NobodySleepsOnUnits, TypeOK

LEMMA ReleaseKeeps ==
  ASSUME SemaphoreInv, NEW c \in Coroutines, Release(c)
  PROVE  SemaphoreInv'
<1> USE DEF SemaphoreInv
<1>1. place[c] = "release" /\ lock' = Nobody /\ UNCHANGED kind
  BY DEF Release, Does
<1>2. kind # "latch"
  BY <1>1 DEF TypeOK, Calls
<1>3. PICK update \in 1..(LeastMaxValue - count - Cardinality(Releasing \ {c})) :
        /\ count' = count + update
        /\ IF update > 1 \/ Asleep = {} THEN Leave(c, "idle", Asleep)
                                        ELSE \E w \in Asleep : Leave(c, "idle", {w})
  BY DEF Release
<1>4. count' \in 0..LeastMaxValue
  <2>1. Cardinality(Releasing \ {c}) \in Nat
    BY CoroutinesCount DEF Releasing
  <2> QED
    BY <1>3, <2>1, CoroSemaphoreAssumption DEF TypeOK
<1>5. CASE update > 1 \/ Asleep = {}
  <2>1. Leave(c, "idle", Asleep)
    BY <1>3, <1>5
  <2>2. Asleep' = {}
    BY <2>1 DEF Leave, Asleep
  <2> QED
    BY <1>1, <1>4, <2>1, <2>2, LeaveKeepsTypes DEF NobodySleepsOnUnits
<1>6. CASE ~(update > 1 \/ Asleep = {})
  <2>1. PICK w \in Asleep : Leave(c, "idle", {w})
    BY <1>3, <1>6
  <2>2. w \in Coroutines /\ w # c /\ w \notin Woken /\ c \notin Woken
    BY <1>1 DEF Asleep, Woken
  <2>3. Woken' = Woken \union {w}
    BY <1>1, <2>1, <2>2 DEF Leave, Woken
  <2>4. Cardinality(Woken') = Cardinality(Woken) + 1 /\ Cardinality(Woken) \in Nat
    BY <2>2, <2>3, CoroutinesCount, FS_AddElement DEF Woken
  <2>5. count' = count + 1
    BY <1>3, <1>6
  <2>6. count <= Cardinality(Woken)
    BY <1>2, <1>6 DEF NobodySleepsOnUnits
  <2>7. count' <= Cardinality(Woken')
    BY <2>4, <2>5, <2>6 DEF TypeOK
  <2> QED
    BY <1>1, <1>2, <1>4, <2>1, <2>7, LeaveKeepsTypes DEF NobodySleepsOnUnits
<1> QED
  BY <1>5, <1>6

LEMMA CountDownKeeps ==
  ASSUME SemaphoreInv, NEW c \in Coroutines, CountDown(c)
  PROVE  SemaphoreInv'
<1> USE DEF SemaphoreInv
<1>1. place[c] \in {"count_down", "arrive_and_wait"} /\ lock' = Nobody /\ UNCHANGED kind
  BY DEF CountDown, Does
<1>2. kind = "latch"
  BY <1>1 DEF TypeOK, Calls
<1> DEFINE to == IF place[c] = "count_down" THEN "idle" ELSE "wait"
<1>3. PICK update \in 0..count :
        count' = count - update /\ Leave(c, to, IF count = update THEN Asleep ELSE {})
  BY DEF CountDown
<1>4. count' \in 0..LeastMaxValue
  BY <1>3, CoroSemaphoreAssumption DEF TypeOK
<1>5. to \in Calls \union {"idle", "asleep", "woken"}
  BY <1>2 DEF Calls
<1>6. TypeOK'
  BY <1>1, <1>3, <1>4, <1>5, LeaveKeepsTypes
<1>7. Asleep' # {} => count' > 0
  <2>1. CASE count = update
    <3>1. to # "asleep"
      OBVIOUS
    <3>2. Asleep' = {}
      BY <1>3, <2>1, <3>1 DEF Leave, Asleep
    <3> QED
      BY <3>2
  <2>2. CASE count # update
    BY <1>3, <2>2 DEF TypeOK
  <2> QED
    BY <2>1, <2>2
<1> QED
  BY <1>1, <1>2, <1>6, <1>7 DEF NobodySleepsOnUnits

LEMMA TryWaitKeeps ==
  ASSUME SemaphoreInv, NEW c \in Coroutines, TryWait(c)
  PROVE  SemaphoreInv'
<1> USE DEF SemaphoreInv
<1>1. /\ place[c] = "try_wait" /\ lock' = Nobody /\ UNCHANGED <<kind, count>>
      /\ Leave(c, "idle", {})
  BY DEF TryWait, Does
<1>2. TypeOK'
  BY <1>1, LeaveKeepsTypes DEF TypeOK
<1>3. Asleep' = Asleep /\ Woken' = Woken
  BY <1>1 DEF Leave, Asleep, Woken, TypeOK
<1> QED
  BY <1>1, <1>2, <1>3 DEF NobodySleepsOnUnits

-----------------------------------------------------------------------------
(* The specification *)

THEOREM SemaphoreStep == SemaphoreInv /\ [Next]_vars => SemaphoreInv'
<1> SUFFICES ASSUME SemaphoreInv, [Next]_vars PROVE SemaphoreInv'
  OBVIOUS
<1>1. CASE UNCHANGED vars
  BY <1>1 DEF vars, SemaphoreInv, TypeOK, Calls, NobodySleepsOnUnits, Asleep, Woken
<1>2. CASE Next
  <2>1. PICK c \in Coroutines : Call(c) \/ TakeLock(c) \/ Locked(c)
    BY <1>2 DEF Next
  <2> QED
    BY <2>1, CallKeeps, TakeLockKeeps, WaitKeeps, TryAcquireKeeps, ReleaseKeeps,
       CountDownKeeps, TryWaitKeeps DEF Locked
<1> QED
  BY <1>1, <1>2

THEOREM SemaphoreInvariance == Spec => []SemaphoreInv
BY SemaphoreInit, SemaphoreStep, PTL DEF Spec

(* Every variable keeps its type: only a coroutine inside an operation holds *)
(* the lock, and the count stays between zero and its greatest value.        *)
THEOREM SemaphoreTypeCorrect == Spec => []TypeOK
<1>1. SemaphoreInv => TypeOK
  BY DEF SemaphoreInv
<1> QED
  BY <1>1, SemaphoreInvariance, PTL

(* acquire() never sleeps on units that nobody is on the way to take, and    *)
(* wait() never sleeps at an open latch.                                     *)
THEOREM NobodySleeps == Spec => []NobodySleepsOnUnits
<1>1. SemaphoreInv => NobodySleepsOnUnits
  BY DEF SemaphoreInv
<1> QED
  BY <1>1, SemaphoreInvariance, PTL

-----------------------------------------------------------------------------
(* LazyChain: all coroutines of a chain have recorded one executor, and what *)
(* runs or will resume the last one belongs to it.                           *)

Promise == [executor : Executors \union {Lazy!None}, local : Nat, keeper : BOOLEAN]

LazyTypeOK ==
  /\ chain \in Seq(Promise)
  /\ at \in Lazy!Contexts \union {Lazy!Suspended}
  /\ resumer \in Lazy!Contexts \union {Lazy!Event, Lazy!Timer, Lazy!Nothing}
  /\ direct \in BOOLEAN

(* Where the last coroutine runs, or what it waits for.  After the last one  *)
(* has returned nothing will resume any.                                     *)
OnItsExecutor ==
  /\ \A i \in 1..Len(chain) : chain[i].executor = chain[1].executor
  /\ chain # <<>> /\ chain[1].executor # Lazy!None /\ ~direct /\ at # Lazy!Suspended
       => at[1] = chain[1].executor
  /\ at = Lazy!Suspended => ~direct
  /\ resumer # Lazy!Nothing => at = Lazy!Suspended /\ chain # <<>>
  /\ resumer \in Lazy!Contexts => resumer \in Lazy!WorkersOf(chain[1].executor)
  /\ resumer = Lazy!Timer => chain[1].executor # Lazy!None

(* A coroutine that keeps a local awaits another one and sees none itself.   *)
KeepersAwait ==
  /\ \A i \in 1..Len(chain) : chain[i].keeper => chain[i].local = 0
  /\ chain # <<>> => ~chain[Len(chain)].keeper

LazyInv == LazyTypeOK /\ OnItsExecutor /\ KeepersAwait /\ Lazy!LocalOfTheKeeper

(* A step of the composition is a step of the chain, or leaves it alone; at  *)
(* rest there is no coroutine in it.                                         *)
LEMMA LazyRuns ==
  /\ MCInit => LazyAtRest \/ Lazy!Init
  /\ [MCNext]_<<component, vars, allVars, anyVars, lazyVars, genVars, futVars>>
       => [Lazy!Next]_lazyVars
BY DEF MCInit, MCNext, lazyVars

(* The names of the contexts are apart from those of the other values. *)
LEMMA ContextsApart ==
  /\ Lazy!None \notin Executors
  /\ {Lazy!Suspended, Lazy!Event, Lazy!Timer, Lazy!Nothing} \cap Lazy!Contexts = {}
  /\ \A ex \in Executors : Lazy!WorkersOf(ex) \subseteq Lazy!Contexts
  /\ \A ex, w : w \in Lazy!WorkersOf(ex) => w[1] = ex
  /\ Lazy!Event # Lazy!Timer /\ Lazy!Event # Lazy!Nothing /\ Lazy!Timer # Lazy!Nothing
BY InstanceAssumption DEF Lazy!LazyAssumption, Lazy!None, Lazy!Suspended, Lazy!Event, Lazy!Timer,
   Lazy!Nothing, Lazy!Nobody, Lazy!Contexts, Lazy!Outside, Lazy!WorkersOf

(* Every way to start a coroutine, and none, satisfies the invariant. *)
LEMMA LazyInit == LazyAtRest \/ Lazy!Init => LazyInv
  <1>1. ASSUME LazyAtRest PROVE LazyInv
    <2>1. Len(chain) = 0 /\ chain \in Seq(Promise) /\ DOMAIN chain = {} /\ chain = <<>>
      BY <1>1 DEF LazyAtRest
    <2>2. LazyTypeOK
      BY <1>1, <2>1 DEF LazyAtRest, LazyTypeOK
    <2>3. OnItsExecutor
      BY <1>1, <2>1, ContextsApart DEF LazyAtRest, OnItsExecutor
    <2>4. KeepersAwait /\ Lazy!LocalOfTheKeeper
      BY <2>1 DEF KeepersAwait, Lazy!LocalOfTheKeeper
    <2> QED
      BY <2>2, <2>3, <2>4 DEF LazyInv
  <1>2. ASSUME Lazy!Init PROVE LazyInv
    <2> PICK ex \in Executors \union {Lazy!None}, reschedule \in BOOLEAN,
             caller \in Lazy!Contexts :
          /\ chain = <<[executor |-> ex, local |-> 0, keeper |-> FALSE]>>
          /\ reschedule => ex # Lazy!None
          /\ Lazy!Starts(ex, reschedule, caller)
      BY <1>2 DEF Lazy!Init
    <2> DEFINE first == [executor |-> ex, local |-> 0, keeper |-> FALSE]
    <2>1. first \in Promise
      BY DEF Promise
    <2>2. chain \in Seq(Promise) /\ Len(chain) = 1 /\ chain[1] = first /\ chain # <<>>
      BY <2>1
    <2>3. first.executor = ex /\ first.local = 0 /\ ~first.keeper
      OBVIOUS
    <2> HIDE DEF first
    <2>4. LazyTypeOK
      BY <2>2, ContextsApart DEF LazyTypeOK, Lazy!Starts
    <2>5. OnItsExecutor
      BY <2>2, <2>3, ContextsApart DEF OnItsExecutor, Lazy!Starts
    <2>6. KeepersAwait /\ Lazy!LocalOfTheKeeper
      <3>1. \A i \in DOMAIN chain : i = 1
        BY <2>2
      <3> QED
        BY <2>2, <2>3, <3>1 DEF KeepersAwait, Lazy!LocalOfTheKeeper
    <2> QED
      BY <2>4, <2>5, <2>6 DEF LazyInv
  <1> QED
    BY <1>1, <1>2

(* What does not touch the chain does not touch the locals. *)
LEMMA SameChain ==
  ASSUME LazyInv, chain' = chain, (LazyTypeOK /\ OnItsExecutor)'
  PROVE  LazyInv'
BY DEF LazyInv, KeepersAwait, Lazy!LocalOfTheKeeper

(* Where a step leaves the last coroutine when the executor of the chain is  *)
(* ex: it goes on in place, waits, or is queued at a worker of ex.           *)
Placed(ex) ==
  \/ Lazy!Stay
  \/ Lazy!Suspend(Lazy!Event)
  \/ /\ ex # Lazy!None
     /\ \/ Lazy!Suspend(Lazy!Timer)
        \/ \E w \in Lazy!WorkersOf(ex) : Lazy!Suspend(w)
        \/ Lazy!ScheduleOn(ex)

(* A step that leaves the executor of the chain as it is.                    *)
LEMMA StaysOnExecutor ==
  ASSUME LazyInv, chain # <<>>, chain' \in Seq(Promise), Placed(chain[1].executor),
         chain' # <<>>,
         \A i \in 1..Len(chain') : chain'[i].executor = chain[1].executor
  PROVE  (LazyTypeOK /\ OnItsExecutor)'
  <1> DEFINE ex == chain[1].executor
  <1>1. ex \in Executors \union {Lazy!None}
    <2>1. chain \in Seq(Promise) /\ 1 \in 1..Len(chain)
      BY DEF LazyInv, LazyTypeOK
    <2>2. chain[1] \in Promise
      BY <2>1
    <2> QED
      BY <2>2 DEF Promise
  <1>2. chain'[1].executor = ex /\ \A i \in 1..Len(chain') : chain'[i].executor = chain'[1].executor
    <2>1. 1 \in 1..Len(chain')
      OBVIOUS
    <2> QED
      BY <2>1
  <1> HIDE DEF ex
  <1>3. CASE Lazy!Stay
    BY <1>1, <1>2, <1>3, ContextsApart DEF LazyInv, LazyTypeOK, OnItsExecutor, Lazy!Stay, ex
  <1>4. CASE ex # Lazy!None /\ Lazy!ScheduleOn(ex)
    BY <1>1, <1>2, <1>4, ContextsApart DEF LazyTypeOK, OnItsExecutor, Lazy!ScheduleOn
  <1>5. CASE Lazy!Suspend(Lazy!Event)
    BY <1>1, <1>2, <1>5, ContextsApart DEF LazyTypeOK, OnItsExecutor, Lazy!Suspend
  <1>6. CASE ex # Lazy!None /\ Lazy!Suspend(Lazy!Timer)
    BY <1>1, <1>2, <1>6, ContextsApart DEF LazyTypeOK, OnItsExecutor, Lazy!Suspend
  <1>7. CASE ex # Lazy!None /\ \E w \in Lazy!WorkersOf(ex) : Lazy!Suspend(w)
    BY <1>1, <1>2, <1>7, ContextsApart DEF LazyTypeOK, OnItsExecutor, Lazy!Suspend
  <1> QED
    BY <1>3, <1>4, <1>5, <1>6, <1>7 DEF Placed, ex

(* A coroutine that awaits a Lazy. *)
LEMMA AwaitsLazy == ASSUME LazyInv, Lazy!AwaitLazy PROVE LazyInv'
  <1> DEFINE n == Len(chain)
             awaited == [chain[n] EXCEPT !.keeper = FALSE]
  <1>1. n \in Nat /\ n # 0 /\ chain # <<>> /\ chain \in Seq(Promise) /\ chain[n] \in Promise
    BY DEF LazyInv, LazyTypeOK, Lazy!AwaitLazy, Lazy!Await, Lazy!Running
  <1>2. /\ awaited \in Promise
        /\ awaited.executor = chain[n].executor /\ awaited.local = chain[n].local /\ ~awaited.keeper
    BY <1>1 DEF Promise
  <1> HIDE DEF awaited
  <1>3. chain' = Append(chain, awaited) /\ Lazy!Stay
    BY DEF Lazy!AwaitLazy, Lazy!Top, awaited
  <1>4. /\ chain' \in Seq(Promise) /\ Len(chain') = n + 1 /\ chain' # <<>>
        /\ \A i \in 1..n : chain'[i] = chain[i]
        /\ chain'[n + 1] = awaited
    BY <1>1, <1>2, <1>3
  <1>5. \A i \in 1..(n + 1) : i \in 1..n \/ i = n + 1
    BY <1>1
  <1>6. (LazyTypeOK /\ OnItsExecutor)'
    <2>1. \A i \in 1..Len(chain') : chain'[i].executor = chain[1].executor
      BY <1>1, <1>2, <1>4, <1>5 DEF LazyInv, OnItsExecutor
    <2> QED
      BY <1>1, <1>3, <1>4, <2>1, StaysOnExecutor DEF Placed
  <1>7. KeepersAwait'
    BY <1>1, <1>2, <1>4, <1>5 DEF LazyInv, KeepersAwait
  <1>8. Lazy!LocalOfTheKeeper'
    <2> SUFFICES ASSUME NEW i \in 1..(n + 1)
                 PROVE  LET keepers == {j \in 1..(i - 1) : chain'[j].keeper}
                        IN  IF keepers = {} THEN chain'[i].local = 0
                            ELSE keepers = {chain'[i].local}
      BY <1>1, <1>4 DEF Lazy!LocalOfTheKeeper
    <2>1. CASE i \in 1..n
      <3>1. {j \in 1..(i - 1) : chain'[j].keeper} = {j \in 1..(i - 1) : chain[j].keeper}
        BY <1>1, <1>4, <2>1
      <3> QED
        BY <1>1, <1>4, <2>1, <3>1 DEF LazyInv, Lazy!LocalOfTheKeeper
    <2>2. CASE i = n + 1
      <3>1. {j \in 1..(i - 1) : chain'[j].keeper} = {j \in 1..(n - 1) : chain[j].keeper}
        BY <1>1, <1>4, <2>2 DEF LazyInv, KeepersAwait
      <3>2. chain'[i].local = chain[n].local /\ n \in DOMAIN chain
        BY <1>1, <1>2, <1>4, <2>2
      <3> QED
        BY <3>1, <3>2 DEF LazyInv, Lazy!LocalOfTheKeeper
    <2> QED
      BY <1>5, <2>1, <2>2
  <1> QED
    BY <1>6, <1>7, <1>8 DEF LazyInv

(* A coroutine that awaits a Lazy with a local: without one of its own it    *)
(* gets a keeper and the Lazy after it; with one the step does nothing.      *)
LEMMA AwaitsWithLocal == ASSUME LazyInv, Lazy!AwaitWithLocal PROVE LazyInv'
  <1> DEFINE n == Len(chain)
             ex == chain[n].executor
             keeper == [executor |-> ex, local |-> 0, keeper |-> TRUE]
             last == [executor |-> ex, local |-> n + 1, keeper |-> FALSE]
  <1>1. n \in Nat /\ n # 0 /\ chain # <<>> /\ chain \in Seq(Promise) /\ chain[n] \in Promise
    BY DEF LazyInv, LazyTypeOK, Lazy!AwaitWithLocal, Lazy!Await, Lazy!Running
  <1>2. /\ Lazy!Stay
        /\ chain' = IF chain[n].local # 0 THEN chain ELSE chain \o <<keeper, last>>
    BY DEF Lazy!AwaitWithLocal, Lazy!Top
  <1>3. CASE chain[n].local # 0
    <2>1. chain' = chain /\ \A i \in 1..n : chain[i].executor = chain[1].executor
      BY <1>2, <1>3 DEF LazyInv, OnItsExecutor
    <2>2. (LazyTypeOK /\ OnItsExecutor)'
      BY <1>1, <1>2, <2>1, StaysOnExecutor DEF Placed
    <2> QED
      BY <2>1, <2>2, SameChain
  <1>4. CASE chain[n].local = 0
    <2>1. ex \in Executors \union {Lazy!None}
      BY <1>1 DEF Promise
    <2>2. /\ keeper \in Promise /\ keeper.executor = ex /\ keeper.local = 0 /\ keeper.keeper
          /\ last \in Promise /\ last.executor = ex /\ last.local = n + 1 /\ ~last.keeper
      BY <1>1, <2>1 DEF Promise
    <2> HIDE DEF ex, keeper, last
    <2>3. chain' = chain \o <<keeper, last>>
      BY <1>2, <1>4
    <2>4. /\ chain' \in Seq(Promise) /\ Len(chain') = n + 2 /\ chain' # <<>>
          /\ \A i \in 1..n : chain'[i] = chain[i]
          /\ chain'[n + 1] = keeper /\ chain'[n + 2] = last
      BY <1>1, <2>2, <2>3
    <2>5. \A i \in 1..(n + 2) : i \in 1..n \/ i = n + 1 \/ i = n + 2
      BY <1>1
    <2>6. (LazyTypeOK /\ OnItsExecutor)'
      <3>1. \A i \in 1..Len(chain') : chain'[i].executor = chain[1].executor
        BY <1>1, <2>2, <2>4, <2>5 DEF LazyInv, OnItsExecutor, ex
      <3> QED
        BY <1>1, <1>2, <2>4, <3>1, StaysOnExecutor DEF Placed
    <2>7. KeepersAwait'
      BY <1>1, <2>2, <2>4, <2>5 DEF LazyInv, KeepersAwait
    <2>8. \A j \in 1..n : ~chain[j].keeper
      <3>1. ~chain[n].keeper /\ n \in DOMAIN chain
        BY <1>1 DEF LazyInv, KeepersAwait
      <3>2. {j \in 1..(n - 1) : chain[j].keeper} = {} \/ {j \in 1..(n - 1) : chain[j].keeper} = {0}
        BY <1>4, <3>1 DEF LazyInv, Lazy!LocalOfTheKeeper
      <3>3. {j \in 1..(n - 1) : chain[j].keeper} = {}
        BY <1>1, <3>2
      <3> QED
        BY <1>1, <3>1, <3>3
    <2>9. Lazy!LocalOfTheKeeper'
      <3> SUFFICES ASSUME NEW i \in 1..(n + 2)
                   PROVE  LET keepers == {j \in 1..(i - 1) : chain'[j].keeper}
                          IN  IF keepers = {} THEN chain'[i].local = 0
                              ELSE keepers = {chain'[i].local}
        BY <1>1, <2>4 DEF Lazy!LocalOfTheKeeper
      <3>1. CASE i \in 1..n
        <4>1. {j \in 1..(i - 1) : chain'[j].keeper} = {}
          BY <1>1, <2>4, <2>8, <3>1
        <4>2. {j \in 1..(i - 1) : chain[j].keeper} = {} /\ i \in DOMAIN chain
          BY <1>1, <2>8, <3>1
        <4>3. chain[i].local = 0
          BY <4>2 DEF LazyInv, Lazy!LocalOfTheKeeper
        <4> QED
          BY <2>4, <3>1, <4>1, <4>3
      <3>2. CASE i = n + 1
        <4>1. {j \in 1..(i - 1) : chain'[j].keeper} = {}
          BY <1>1, <2>4, <2>8, <3>2
        <4> QED
          BY <2>2, <2>4, <3>2, <4>1
      <3>3. CASE i = n + 2
        <4>1. {j \in 1..(i - 1) : chain'[j].keeper} = {n + 1}
          BY <1>1, <2>2, <2>4, <2>8, <3>3
        <4> QED
          BY <2>2, <2>4, <3>3, <4>1
      <3> QED
        BY <2>5, <3>1, <3>2, <3>3
    <2> QED
      BY <2>6, <2>7, <2>9 DEF LazyInv
  <1> QED
    BY <1>3, <1>4

(* A coroutine that yields, sleeps or awaits something else. *)
LEMMA AwaitsInPlace ==
  ASSUME LazyInv, Lazy!AwaitYield \/ Lazy!AwaitSleep \/ Lazy!AwaitOther
  PROVE  LazyInv'
  <1>1. /\ chain # <<>> /\ chain' = chain /\ chain \in Seq(Promise) /\ Len(chain) \in 1..Len(chain)
        /\ Lazy!Top = Len(chain)
    BY DEF LazyInv, LazyTypeOK, Lazy!AwaitYield, Lazy!AwaitSleep, Lazy!AwaitOther, Lazy!Await,
       Lazy!Running, Lazy!Top
  <1>2. \A i \in 1..Len(chain) : chain[i].executor = chain[1].executor
    BY DEF LazyInv, OnItsExecutor
  <1>3. chain[Lazy!Top].executor = chain[1].executor
    BY <1>1, <1>2
  <1>4. Placed(chain[1].executor)
    BY <1>3 DEF Placed, Lazy!AwaitYield, Lazy!AwaitSleep, Lazy!AwaitOther
  <1>5. (LazyTypeOK /\ OnItsExecutor)'
    BY <1>1, <1>2, <1>4, StaysOnExecutor
  <1> QED
    BY <1>1, <1>5, SameChain

(* ChangeLaziessExecutorTo() changes no local and no keeper. *)
LEMMA ChainChanged ==
  ASSUME LazyInv, NEW ex \in Executors \union {Lazy!None}, chain' = Lazy!Changed(ex)
  PROVE  /\ chain' \in Seq(Promise) /\ Len(chain') = Len(chain)
         /\ \A i \in 1..Len(chain) : chain'[i].executor = ex
         /\ KeepersAwait' /\ Lazy!LocalOfTheKeeper'
  <1>1. chain \in Seq(Promise) /\ DOMAIN chain = 1..Len(chain) /\ Len(chain) \in Nat
    BY DEF LazyInv, LazyTypeOK
  <1>2. ASSUME NEW i \in 1..Len(chain)
        PROVE  /\ chain'[i] \in Promise /\ chain'[i].executor = ex
               /\ chain'[i].local = chain[i].local /\ chain'[i].keeper = chain[i].keeper
    <2>1. chain[i] \in Promise
      BY <1>1
    <2>2. chain'[i] = [chain[i] EXCEPT !.executor = ex]
      BY <1>1 DEF Lazy!Changed
    <2> QED
      BY <2>1, <2>2 DEF Promise
  <1>3. DOMAIN chain' = 1..Len(chain)
    BY <1>1 DEF Lazy!Changed
  <1>4. chain' \in Seq(Promise) /\ Len(chain') = Len(chain)
    <2>1. chain' = [i \in 1..Len(chain) |-> chain'[i]]
      BY <1>1 DEF Lazy!Changed
    <2>2. chain' \in [1..Len(chain) -> Promise]
      BY <1>2, <2>1
    <2>3. chain' \in Seq(Promise)
      BY <1>1, <2>2
    <2> QED
      BY <1>1, <1>3, <2>3
  <1>5. KeepersAwait'
    <2>1. chain' # <<>> => chain # <<>> /\ Len(chain) \in 1..Len(chain)
      BY <1>1, <1>4
    <2> QED
      BY <1>2, <1>4, <2>1 DEF LazyInv, KeepersAwait
  <1>6. Lazy!LocalOfTheKeeper'
    <2> SUFFICES ASSUME NEW i \in 1..Len(chain)
                 PROVE  LET keepers == {j \in 1..(i - 1) : chain'[j].keeper}
                        IN  IF keepers = {} THEN chain'[i].local = 0
                            ELSE keepers = {chain'[i].local}
      BY <1>3 DEF Lazy!LocalOfTheKeeper
    <2>1. {j \in 1..(i - 1) : chain'[j].keeper} = {j \in 1..(i - 1) : chain[j].keeper}
      BY <1>1, <1>2
    <2> QED
      BY <1>1, <1>2, <2>1 DEF LazyInv, Lazy!LocalOfTheKeeper
  <1> QED
    BY <1>2, <1>4, <1>5, <1>6

(* A coroutine that is dispatched: the whole chain moves, or stays. *)
LEMMA IsDispatched == ASSUME LazyInv, Lazy!AwaitDispatch PROVE LazyInv'
  <1>1. /\ chain # <<>> /\ chain \in Seq(Promise) /\ Len(chain) \in 1..Len(chain)
        /\ Lazy!Top = Len(chain)
    BY DEF LazyInv, LazyTypeOK, Lazy!AwaitDispatch, Lazy!Await, Lazy!Running, Lazy!Top
  <1>2. \A i \in 1..Len(chain) : chain[i].executor = chain[1].executor
    BY DEF LazyInv, OnItsExecutor
  <1>3. chain[Lazy!Top].executor = chain[1].executor
    BY <1>1, <1>2
  <1>4. chain[1].executor \in Executors \union {Lazy!None}
    <2>1. chain[1] \in Promise
      BY <1>1
    <2> QED
      BY <2>1 DEF Promise
  <1>5. CASE chain' = chain /\ Lazy!Stay
    <2>1. (LazyTypeOK /\ OnItsExecutor)'
      BY <1>1, <1>2, <1>5, StaysOnExecutor DEF Placed
    <2> QED
      BY <1>5, <2>1, SameChain
  <1>6. CASE chain' = Lazy!Changed(chain[1].executor) /\ Lazy!Stay
    <2>1. /\ chain' \in Seq(Promise) /\ Len(chain') = Len(chain)
          /\ \A i \in 1..Len(chain) : chain'[i].executor = chain[1].executor
          /\ KeepersAwait' /\ Lazy!LocalOfTheKeeper'
      BY <1>4, <1>6, ChainChanged
    <2>2. (LazyTypeOK /\ OnItsExecutor)'
      BY <1>1, <1>6, <2>1, StaysOnExecutor DEF Placed
    <2> QED
      BY <2>1, <2>2 DEF LazyInv
  <1>7. ASSUME NEW ex \in Executors, NEW w \in Lazy!WorkersOf(ex),
               chain' = Lazy!Changed(ex), Lazy!Suspend(w)
        PROVE  LazyInv'
    <2>1. /\ chain' \in Seq(Promise) /\ Len(chain') = Len(chain)
          /\ \A i \in 1..Len(chain) : chain'[i].executor = ex
          /\ KeepersAwait' /\ Lazy!LocalOfTheKeeper'
      BY <1>7, ChainChanged
    <2>2. chain' # <<>> /\ chain'[1].executor = ex
      BY <1>1, <2>1
    <2>3. w \in Lazy!Contexts /\ w # Lazy!Timer
      BY ContextsApart
    <2>4. LazyTypeOK'
      BY <1>7, <2>1, <2>3 DEF LazyTypeOK, Lazy!Suspend
    <2>5. OnItsExecutor'
      BY <1>7, <2>1, <2>2, <2>3 DEF OnItsExecutor, Lazy!Suspend
    <2> QED
      BY <2>1, <2>4, <2>5 DEF LazyInv
  <1> QED
    BY <1>3, <1>5, <1>6, <1>7 DEF Lazy!AwaitDispatch

(* What was queued, timed or waited for goes on at a worker of the executor. *)
LEMMA GoesOn ==
  ASSUME LazyInv, Lazy!Resume \/ Lazy!TimerFires \/ Lazy!EventHappens
  PROVE  LazyInv'
  <1>1. chain' = chain
    BY DEF Lazy!Resume, Lazy!TimerFires, Lazy!EventHappens
  <1>2. chain \in Seq(Promise)
    BY DEF LazyInv, LazyTypeOK
  <1>3. chain # <<>> /\ Lazy!Top = Len(chain) /\ at = Lazy!Suspended /\ ~direct
    BY ContextsApart DEF LazyInv, OnItsExecutor, Lazy!Resume, Lazy!TimerFires, Lazy!EventHappens, Lazy!Top
  <1>4. \A i \in 1..Len(chain) : chain[i].executor = chain[1].executor
    BY DEF LazyInv, OnItsExecutor
  <1>5. Len(chain) \in 1..Len(chain) /\ 1 \in 1..Len(chain)
    BY <1>2, <1>3
  <1> DEFINE ex == chain[1].executor
  <1>6. chain[Lazy!Top].executor = ex /\ ex \in Executors \union {Lazy!None}
    <2>1. chain[1] \in Promise
      BY <1>2, <1>5
    <2> QED
      BY <1>3, <1>4, <1>5, <2>1 DEF Promise
  <1> SUFFICES (LazyTypeOK /\ OnItsExecutor)'
    BY <1>1, SameChain
  <1>7. CASE ex # Lazy!None /\ Lazy!ScheduleOn(ex)
    <2>1. Placed(ex)
      BY <1>7 DEF Placed
    <2> QED
      BY <1>1, <1>2, <1>3, <1>4, <2>1, StaysOnExecutor
  <1>8. ASSUME NEW caller \in Lazy!Contexts, at' = caller, resumer' = Lazy!Nothing, direct' = direct,
               ex = Lazy!None \/ caller \in Lazy!WorkersOf(ex)
        PROVE  (LazyTypeOK /\ OnItsExecutor)'
    <2>1. ex # Lazy!None => caller[1] = ex
      BY <1>6, <1>8, ContextsApart
    <2>2. LazyTypeOK'
      BY <1>1, <1>2, <1>8 DEF LazyInv, LazyTypeOK
    <2>3. OnItsExecutor'
      BY <1>1, <1>3, <1>4, <1>8, <2>1, ContextsApart DEF OnItsExecutor
    <2> QED
      BY <2>2, <2>3
  <1>9. CASE Lazy!Resume
    <2>1. resumer \in Lazy!Contexts /\ resumer \in Lazy!WorkersOf(ex)
      BY <1>9 DEF Lazy!Resume, LazyInv, OnItsExecutor
    <2> QED
      BY <1>8, <1>9, <2>1 DEF Lazy!Resume
  <1>10. CASE Lazy!TimerFires
    BY <1>6, <1>7, <1>10 DEF Lazy!TimerFires, LazyInv, OnItsExecutor
  <1>11. CASE Lazy!EventHappens
    <2>1. Lazy!Outside \in Lazy!Contexts
      BY DEF Lazy!Contexts
    <2>2. PICK caller \in Lazy!Contexts :
            \/ /\ ex = Lazy!None \/ caller \in Lazy!WorkersOf(ex)
               /\ at' = caller /\ resumer' = Lazy!Nothing /\ UNCHANGED <<refused, direct>>
            \/ ex # Lazy!None /\ Lazy!ScheduleOn(ex)
      BY <1>6, <1>11, <2>1 DEF Lazy!EventHappens
    <2> QED
      BY <1>7, <1>8, <2>2
  <1> QED
    BY <1>9, <1>10, <1>11

(* A coroutine that ends leaves the chain, and so does its keeper: before    *)
(* them there is no other keeper.                                            *)
LEMMA Returns == ASSUME LazyInv, Lazy!Return PROVE LazyInv'
  <1> DEFINE n == Len(chain)
             m == Lazy!Awaiting
  <1>1. n \in Nat /\ n # 0 /\ chain # <<>> /\ chain \in Seq(Promise) /\ at # Lazy!Suspended
    BY DEF LazyInv, LazyTypeOK, Lazy!Return, Lazy!Running
  <1>2. m = IF n > 1 /\ chain[n - 1].keeper THEN n - 2 ELSE n - 1
    BY DEF Lazy!Awaiting, Lazy!Top
  <1>3. m \in 0..(n - 1)
    BY <1>1, <1>2
  <1>4. chain' = SubSeq(chain, 1, m) /\ UNCHANGED <<at, resumer, direct>>
    BY DEF Lazy!Return
  <1>5. m # 0 => ~chain[m].keeper
    <2> SUFFICES ASSUME m # 0, chain[m].keeper PROVE FALSE
      OBVIOUS
    <2>1. CASE ~(n > 1 /\ chain[n - 1].keeper)
      <3>1. m = n - 1 /\ n > 1
        BY <1>1, <1>2, <2>1, SMTT(20)
      <3> QED
        BY <2>1, <3>1
    <2> SUFFICES ASSUME n > 1, chain[n - 1].keeper, m = n - 2 PROVE FALSE
      BY <1>2, <2>1
    <2> DEFINE S == {j \in 1..(n - 1) : chain[j].keeper}
    <2>2. n - 2 \in S /\ n - 1 \in S /\ n - 2 # n - 1
      BY <1>1, <1>3
    <2>3. S = {} \/ S = {chain[n].local}
      BY <1>1 DEF LazyInv, Lazy!LocalOfTheKeeper
    <2> HIDE DEF S
    <2> QED
      BY <2>2, <2>3
  <1> HIDE DEF m
  <1>6. /\ chain' \in Seq(Promise) /\ Len(chain') = m
        /\ \A i \in 1..m : chain'[i] = chain[i] /\ i \in 1..n
    BY <1>1, <1>3, <1>4
  <1>7. LazyTypeOK'
    BY <1>4, <1>6 DEF LazyInv, LazyTypeOK
  <1>8. resumer = Lazy!Nothing
    BY <1>1 DEF LazyInv, OnItsExecutor
  <1>9. OnItsExecutor'
    <2>1. chain' # <<>> => 1 \in 1..m
      BY <1>3, <1>6
    <2>2. \A i \in 1..m : chain'[i].executor = chain'[1].executor
      BY <1>3, <1>6 DEF LazyInv, OnItsExecutor
    <2>3. chain' # <<>> => chain'[1] = chain[1]
      BY <1>6, <2>1
    <2> QED
      BY <1>1, <1>4, <1>6, <1>8, <2>2, <2>3, ContextsApart DEF LazyInv, OnItsExecutor
  <1>10. KeepersAwait'
    <2>1. chain' # <<>> => m \in 1..m /\ m # 0
      BY <1>3, <1>6
    <2> QED
      BY <1>5, <1>6, <2>1 DEF LazyInv, KeepersAwait
  <1>11. Lazy!LocalOfTheKeeper'
    <2> SUFFICES ASSUME NEW i \in 1..m
                 PROVE  LET keepers == {j \in 1..(i - 1) : chain'[j].keeper}
                        IN  IF keepers = {} THEN chain'[i].local = 0
                            ELSE keepers = {chain'[i].local}
      BY <1>6 DEF Lazy!LocalOfTheKeeper
    <2>1. {j \in 1..(i - 1) : chain'[j].keeper} = {j \in 1..(i - 1) : chain[j].keeper}
      BY <1>3, <1>6
    <2>2. chain'[i] = chain[i] /\ i \in DOMAIN chain
      BY <1>1, <1>6
    <2> QED
      BY <2>1, <2>2 DEF LazyInv, Lazy!LocalOfTheKeeper
  <1> QED
    BY <1>7, <1>9, <1>10, <1>11 DEF LazyInv

(* Every step of a chain preserves the invariant. *)
LEMMA LazyStep == LazyInv /\ [Lazy!Next]_lazyVars => LazyInv'
  <1>1. LazyInv /\ UNCHANGED lazyVars => LazyInv'
    BY DEF lazyVars, LazyInv, LazyTypeOK, OnItsExecutor, KeepersAwait, Lazy!LocalOfTheKeeper
  <1> QED
    BY <1>1, AwaitsLazy, AwaitsWithLocal, AwaitsInPlace, IsDispatched, GoesOn, Returns
       DEF Lazy!Next, Lazy!Step

(* A coroutine runs on the executor that it has recorded, and so do those    *)
(* that await it, through refusals, moves between executors and the          *)
(* indeterminate context of checkin(); and it sees the local of the caller   *)
(* that keeps one, for any executors, workers and depth.                     *)
THEOREM OwnExecutorAndLocalHold == MCSpec => []OwnExecutorAndLocal
  <1>1. MCInit => LazyInv
    BY LazyRuns, LazyInit
  <1>2. LazyInv /\ [MCNext]_<<component, vars, allVars, anyVars, lazyVars, genVars, futVars>> => LazyInv'
    BY LazyRuns, LazyStep
  <1>3. LazyInv => OwnExecutorAndLocal
    <2> SUFFICES ASSUME LazyInv PROVE OwnExecutorAndLocal
      OBVIOUS
    <2>1. chain \in Seq(Promise) /\ DOMAIN chain = 1..Len(chain)
      BY DEF LazyInv, LazyTypeOK
    <2>2. chain # <<>> => chain[Len(chain)].executor = chain[1].executor
      BY <2>1 DEF LazyInv, OnItsExecutor
    <2> QED
      BY <2>1, <2>2 DEF LazyInv, OnItsExecutor, OwnExecutorAndLocal, Lazy!RunsOnItsExecutor,
         Lazy!Running, Lazy!Top
  <1> QED
    BY <1>1, <1>2, <1>3, PTL DEF MCSpec

-----------------------------------------------------------------------------
(* CollectAll: who still has to count the event of a batch down.             *)

(* The place of i when windows of w follow each other. *)
LEMMA PlaceInWindows ==
  ASSUME NEW w \in Nat \ {0}, NEW i \in Nat \ {0}
  PROVE  /\ All!PlaceIn(w, i) \in Nat \ {0}
         /\ (All!PlaceIn(w, i) - 1) * w < i /\ i <= All!PlaceIn(w, i) * w
  <1> DEFINE x == i + w - 1
             q == x \div w
             r == x % w
  <1>1. x = w * q + r /\ q \in Int /\ r \in 0..(w - 1)
    OBVIOUS
  <1>2. x >= w
    OBVIOUS
  <1> HIDE DEF x, q, r
  <1>3. q * w = w * q /\ (q - 1) * w = w * q - w /\ w * q \in Int
    BY <1>1
  <1>4. x = i + w - 1
    BY DEF x
  <1>5. (q - 1) * w < i /\ i <= q * w
    <2> DEFINE p == w * q
    <2>1. p \in Int /\ x = p + r /\ (q - 1) * w = p - w /\ q * w = p
      BY <1>1, <1>3
    <2> HIDE DEF p
    <2> QED
      BY <1>1, <1>4, <2>1
  <1>6. q >= 1
    BY <1>1, <1>2
  <1> QED
    BY <1>1, <1>5, <1>6 DEF All!PlaceIn, x, q

(* Nothing else is the place of i. *)
LEMMA OnePlace ==
  ASSUME NEW w \in Nat \ {0}, NEW i \in Nat \ {0}, NEW b \in Nat \ {0},
         (b - 1) * w < i, i <= b * w
  PROVE  All!PlaceIn(w, i) = b
  <1> DEFINE p == All!PlaceIn(w, i)
  <1>1. p \in Nat \ {0} /\ (p - 1) * w < i /\ i <= p * w
    BY PlaceInWindows
  <1> HIDE DEF p
  <1>2. \A m, n \in Nat : m <= n => m * w <= n * w
    OBVIOUS
  <1>3. ~(b < p)
    <2> SUFFICES ASSUME b < p PROVE FALSE
      OBVIOUS
    <2>1. b * w <= (p - 1) * w
      BY <1>1, <1>2
    <2>2. b * w \in Int /\ (p - 1) * w \in Int
      BY <1>1
    <2> QED
      BY <1>1, <2>1, <2>2
  <1>4. ~(p < b)
    <2> SUFFICES ASSUME p < b PROVE FALSE
      OBVIOUS
    <2>1. p * w <= (b - 1) * w
      BY <1>1, <1>2
    <2>2. p * w \in Int /\ (b - 1) * w \in Int
      BY <1>1
    <2> QED
      BY <1>1, <2>1, <2>2
  <1> QED
    BY <1>1, <1>3, <1>4 DEF p

Members(b) == {i \in All!Inputs : All!BatchOf(i) = b}

(* The inputs of a batch are the numbers that await_suspend() walks over. *)
LEMMA BatchesAreWindows ==
  ASSUME setup \in Scenarios
  PROVE  /\ \A i \in All!Inputs : All!BatchOf(i) \in All!Batches
         /\ All!LastBatch \in Nat
         /\ \A b \in All!Batches :
              /\ All!First(b) \in Int /\ All!Last(b) \in Int
              /\ All!First(b) <= All!Last(b)
              /\ 1 <= All!First(b) /\ All!Last(b) <= N
              /\ Members(b) = All!First(b)..All!Last(b)
  <1> DEFINE w == All!Window
             L == All!LastBatch
  <1>1. w \in Nat \ {0} /\ N \in Nat \ {0} /\ N \in All!Inputs
    BY InstanceAssumption DEF All!CollectAssumption, All!Window, All!WindowOf, All!Inputs
  <1>2. \A i \in All!Inputs : i \in Nat \ {0} /\ i <= N
    BY <1>1 DEF All!Inputs
  <1>3. \A i : All!BatchOf(i) = All!PlaceIn(w, i)
    BY DEF All!BatchOf
  <1>4. L = All!PlaceIn(w, N)
    BY DEF All!LastBatch, All!BatchOf
  <1> HIDE DEF w, L
  <1>5. L \in Nat \ {0} /\ (L - 1) * w < N /\ N <= L * w
    BY <1>1, <1>4, PlaceInWindows
  <1>6. \A m, n \in Nat : m <= n => m * w <= n * w
    BY <1>1
  <1>7. ASSUME NEW i \in All!Inputs PROVE All!PlaceIn(w, i) \in 1..L
    <2> DEFINE p == All!PlaceIn(w, i)
    <2>1. p \in Nat \ {0} /\ (p - 1) * w < i /\ i <= N /\ i \in Nat
      BY <1>1, <1>2, PlaceInWindows
    <2> HIDE DEF p
    <2>2. ~(L < p)
      <3> SUFFICES ASSUME L < p PROVE FALSE
        OBVIOUS
      <3>1. L * w <= (p - 1) * w
        BY <1>5, <1>6, <2>1
      <3>2. L * w \in Int /\ (p - 1) * w \in Int
        BY <1>1, <1>5, <2>1
      <3> QED
        BY <1>1, <1>5, <2>1, <3>1, <3>2
    <2> QED
      BY <1>5, <2>1, <2>2 DEF p
  <1>8. ASSUME NEW b \in 1..L
        PROVE  /\ All!First(b) \in Int /\ All!Last(b) \in Int
               /\ All!First(b) <= All!Last(b)
               /\ 1 <= All!First(b) /\ All!Last(b) <= N
               /\ Members(b) = All!First(b)..All!Last(b)
    <2> DEFINE before == (b - 1) * w
    <2>1. before \in Nat /\ b * w = before + w
      BY <1>1, <1>5
    <2>2. All!First(b) = before + 1 /\ All!Last(b) = IF b = L THEN N ELSE b * w
      BY DEF All!First, All!Last, w, L
    <2>3. b = L => before < N /\ N <= before + w
      BY <1>5, <2>1
    <2>4. b # L => before + w < N
      <3> SUFFICES ASSUME b # L PROVE before + w < N
        OBVIOUS
      <3>1. b * w <= (L - 1) * w
        BY <1>5, <1>6
      <3>2. (L - 1) * w \in Int
        BY <1>1, <1>5
      <3> QED
        BY <1>1, <1>5, <2>1, <3>1, <3>2
    <2>5. ASSUME NEW i \in All!Inputs
          PROVE  All!BatchOf(i) = b <=> before < i /\ i <= before + w
      <3>1. i \in Nat \ {0} /\ b \in Nat \ {0}
        BY <1>2, <1>5
      <3>2. All!BatchOf(i) = b => before < i /\ i <= before + w
        BY <1>1, <1>3, <2>1, <3>1, PlaceInWindows
      <3>3. before < i /\ i <= before + w => All!BatchOf(i) = b
        BY <1>1, <1>3, <2>1, <3>1, OnePlace
      <3> QED
        BY <3>2, <3>3
    <2> HIDE DEF before
    <2>6. All!Last(b) \in Int /\ before + 1 <= All!Last(b) /\ All!Last(b) <= N
      BY <1>1, <2>1, <2>2, <2>3, <2>4
    <2>7. \A i : i \in Members(b) <=> i \in All!First(b)..All!Last(b)
      <3> SUFFICES ASSUME NEW i PROVE i \in Members(b) <=> i \in All!First(b)..All!Last(b)
        OBVIOUS
      <3>1. i \in Members(b) <=> i \in All!Inputs /\ before < i /\ i <= before + w
        BY <2>5 DEF Members
      <3>2. i \in All!Inputs <=> i \in 1..N
        BY DEF All!Inputs
      <3> QED
        BY <1>1, <2>1, <2>2, <2>3, <2>4, <3>1, <3>2
    <2>8. Members(b) = All!First(b)..All!Last(b)
      BY <2>7
    <2>9. All!First(b) = before + 1
      BY <2>2
    <2> QED
      BY <2>1, <2>6, <2>8, <2>9
  <1> QED
    BY <1>3, <1>5, <1>7, <1>8 DEF All!Batches, L

AllTypeOK ==
  /\ setup \in Scenarios
  /\ batches \in [at : {"between", "suspended", "returned"}, batch : 0..All!LastBatch]
  /\ walk \in [All!Batches -> [step : {"none", "test", "func", "set", "down", "resume", "left",
                                       "undefined"}, i : Int]]
  /\ inputs \in [All!Inputs -> {"new", "scheduled", "running", "stored", "last", "finished"}]
  /\ event \in [All!Batches -> Int]
  /\ awaiting \in [All!Batches -> BOOLEAN]
  /\ output \subseteq All!Inputs
  /\ resumed \subseteq All!Batches
  /\ given \in [All!Inputs -> {"nothing", "result"}]

(* The loop has counted down for itself, when it has passed an input that it *)
(* started in place.                                                         *)
LoopCounted(b) ==
  /\ ~All!Variadic
  /\ \E i \in Members(b) :
       /\ ~All!OnExecutor(b, i)
       /\ i < walk[b].i \/ (i = walk[b].i /\ walk[b].step = "resume")

(* Who will still count the event of batch b down: inputs, and 0, the loop.  *)
ToCount(b) ==
  {i \in Members(b) : inputs[i] \notin {"last", "finished"}}
    \union (IF LoopCounted(b) THEN {} ELSE {0})

(* Where the loop over batch b is, and what it has not reached yet.          *)
LoopOK(b) ==
  /\ walk[b].i >= All!First(b)
  /\ walk[b].step = "none" => walk[b].i = All!First(b)
  /\ walk[b].step \in {"func", "set", "down", "resume"} =>
       walk[b].i \in Members(b) /\ ~All!OnExecutor(b, walk[b].i)
  /\ walk[b].step \in {"set", "down", "resume"} => ~All!Variadic
  /\ \A i \in Members(b) :
       i > walk[b].i \/ (i = walk[b].i /\ walk[b].step \in {"none", "test"}) => inputs[i] = "new"

(* The event is at the number of those who will count it down.  Who sees it  *)
(* reach zero, and the parent behind it, come after all of them.             *)
EventOK(b) ==
  /\ event[b] = Cardinality(ToCount(b))
  /\ \/ walk[b].step = "resume" \/ b \in resumed \/ \E i \in Members(b) : inputs[i] = "last"
     => ToCount(b) = {}

(* The parent takes one batch after the other, and does not come back to one. *)
ParentOK(b) ==
  /\ b > batches.batch => walk[b].step = "none"
  /\ b < batches.batch \/ (b = batches.batch /\ batches.at # "suspended") => b \in resumed
  /\ b \in resumed => ~awaiting[b]

BatchOK(b) == LoopOK(b) /\ EventOK(b)

AllInv ==
  /\ AllTypeOK
  /\ \A b \in All!Batches : BatchOK(b) /\ ParentOK(b)
  /\ \A i \in All!Inputs : inputs[i] \in {"stored", "last", "finished"} => i \in output

(* A step of the composition is a step of collectAll() where it runs. *)
LEMMA AllRuns ==
  /\ MCInit /\ component = "collectAll" => All!Init
  /\ [MCNext]_<<component, vars, allVars, anyVars, lazyVars, genVars, futVars>> =>
       /\ component' = component
       /\ component = "collectAll" => [All!Next]_allVars
BY DEF MCInit, MCNext, allVars

(* What is made of the setup and the number of inputs alone does not change. *)
LEMMA SameCall ==
  ASSUME setup' = setup
  PROVE  /\ All!Batches' = All!Batches /\ All!LastBatch' = All!LastBatch
         /\ All!Variadic' = All!Variadic
         /\ \A b : /\ (All!First(b))' = All!First(b) /\ (All!Last(b))' = All!Last(b)
                   /\ Members(b)' = Members(b)
                   /\ \A i : All!OnExecutor(b, i)' <=> All!OnExecutor(b, i)
BY DEF All!Batches, All!LastBatch, All!BatchOf, All!Window, All!Variadic, All!First, All!Last,
   Members, All!OnExecutor, All!Para, All!Size

(* In no batch but a variadic one are two inputs started in place. *)
LEMMA OneInPlace ==
  ASSUME setup \in Scenarios, ~All!Variadic, NEW b \in All!Batches,
         NEW i \in Members(b), NEW j \in Members(b),
         ~All!OnExecutor(b, i), ~All!OnExecutor(b, j)
  PROVE  i = j
  <1> SUFFICES ASSUME i # j PROVE FALSE
    OBVIOUS
  <1>1. i \in All!Inputs /\ j \in All!Inputs /\ All!BatchOf(i) = All!BatchOf(j)
    BY DEF Members
  <1>2. All!Para /\ (i \in setup.exec \/ j \in setup.exec)
    <2>1. All!CountedOnce(setup) /\ ~All!IsVariadic(setup)
      BY InstanceAssumption DEF All!Variadic
    <2> QED
      BY <1>1, <2>1 DEF All!CountedOnce, All!BatchOf, All!Window, All!Para
  <1>3. All!Size(b) > 1
    <2>1. /\ Members(b) = All!First(b)..All!Last(b)
          /\ All!First(b) \in Int /\ All!Last(b) \in Int
      BY BatchesAreWindows
    <2>2. i \in All!First(b)..All!Last(b) /\ j \in All!First(b)..All!Last(b)
      BY <2>1
    <2> QED
      BY <2>1, <2>2 DEF All!Size
  <1> QED
    BY <1>2, <1>3 DEF All!OnExecutor

(* Those who will count down are finitely many. *)
LEMMA ToCountIsFinite ==
  ASSUME AllTypeOK, NEW b
  PROVE  IsFiniteSet(ToCount(b)) /\ Cardinality(ToCount(b)) \in Nat
  <1>1. N \in Nat
    BY InstanceAssumption DEF All!CollectAssumption
  <1>2. IsFiniteSet(0..N)
    BY <1>1, FS_Interval
  <1>3. ToCount(b) \subseteq 0..N
    BY <1>1 DEF ToCount, Members, All!Inputs
  <1>4. IsFiniteSet(ToCount(b))
    BY <1>2, <1>3, FS_Subset
  <1> QED
    BY <1>4, FS_CardinalityType

(* The event of every batch is armed with its inputs and the loop. *)
LEMMA AllInit == All!Init => AllInv
  <1> SUFFICES ASSUME All!Init PROVE AllInv
    OBVIOUS
  <1>1. setup \in Scenarios
    BY DEF All!Init
  <1>2. /\ All!LastBatch \in Nat
        /\ \A b \in All!Batches :
              /\ All!First(b) \in Int /\ All!Last(b) \in Int
              /\ All!First(b) <= All!Last(b)
              /\ 1 <= All!First(b) /\ All!Last(b) <= N
              /\ Members(b) = All!First(b)..All!Last(b)
    BY <1>1, BatchesAreWindows
  <1>3. AllTypeOK
    BY <1>1, <1>2 DEF AllTypeOK, All!Init, All!Size
  <1>4. ASSUME NEW b \in All!Batches PROVE BatchOK(b) /\ ParentOK(b)
    <2>1. walk[b] = [step |-> "none", i |-> All!First(b)]
      BY DEF All!Init
    <2>2. LoopOK(b)
      BY <1>2, <2>1 DEF LoopOK, All!Init, Members
    <2>3. ~LoopCounted(b)
      BY <1>2, <2>1 DEF LoopCounted
    <2>4. \A i \in Members(b) : inputs[i] = "new"
      BY DEF All!Init, Members
    <2>5. ToCount(b) = Members(b) \union {0}
      BY <2>3, <2>4 DEF ToCount
    <2>6. /\ IsFiniteSet(Members(b)) /\ Cardinality(Members(b)) = All!Size(b)
          /\ 0 \notin Members(b)
      <3>1. 0 \notin Members(b)
        BY <1>2
      <3> QED
        BY <1>2, <3>1, FS_Interval DEF All!Size
    <2>7. Cardinality(ToCount(b)) = All!Size(b) + 1
      BY <2>5, <2>6, FS_AddElement
    <2>8. event[b] = All!Size(b) + 1
      BY DEF All!Init
    <2>9. EventOK(b)
      BY <2>1, <2>4, <2>7, <2>8 DEF EventOK, All!Init
    <2>10. ParentOK(b)
      BY <1>2, <2>1 DEF ParentOK, All!Init, All!Batches
    <2> QED
      BY <2>2, <2>9, <2>10 DEF BatchOK
  <1>5. \A i \in All!Inputs : inputs[i] = "new"
    BY DEF All!Init
  <1> QED
    BY <1>3, <1>4, <1>5 DEF AllInv

Steps == {"none", "test", "func", "set", "down", "resume", "left", "undefined"}

(* The loop over b goes to another step and nowhere else. *)
LEMMA GoesTo ==
  ASSUME AllTypeOK, NEW b \in All!Batches, NEW s \in Steps, All!Goto(b, s)
  PROVE  /\ walk' \in [All!Batches -> [step : Steps, i : Int]]
         /\ walk'[b].step = s /\ walk'[b].i = walk[b].i
         /\ \A c \in All!Batches \ {b} : walk'[c] = walk[c]
  <1> DEFINE r == [walk[b] EXCEPT !.step = s]
  <1>1. walk[b] \in [step : Steps, i : Int]
    BY DEF AllTypeOK, Steps
  <1>2. r \in [step : Steps, i : Int] /\ r.step = s /\ r.i = walk[b].i
    BY <1>1
  <1> HIDE DEF r
  <1>3. walk' = [walk EXCEPT ![b] = r]
    BY DEF All!Goto, r
  <1> QED
    BY <1>2, <1>3 DEF AllTypeOK, Steps

(* The loop over b goes on with its next input. *)
LEMMA GoesToNext ==
  ASSUME AllTypeOK, NEW b \in All!Batches, All!NextInput(b)
  PROVE  /\ walk' \in [All!Batches -> [step : Steps, i : Int]]
         /\ walk'[b].step = "test" /\ walk'[b].i = walk[b].i + 1
         /\ \A c \in All!Batches \ {b} : walk'[c] = walk[c]
  <1> DEFINE r == [step |-> "test", i |-> walk[b].i + 1]
  <1>1. walk[b] \in [step : Steps, i : Int]
    BY DEF AllTypeOK, Steps
  <1>2. r \in [step : Steps, i : Int] /\ r.step = "test" /\ r.i = walk[b].i + 1
    BY <1>1 DEF Steps
  <1> HIDE DEF r
  <1>3. walk' = [walk EXCEPT ![b] = r]
    BY DEF All!NextInput, r
  <1> QED
    BY <1>2, <1>3 DEF AllTypeOK, Steps

(* A batch that a step does not touch is as it was. *)
LEMMA SameBatch ==
  ASSUME setup' = setup, NEW b \in All!Batches, BatchOK(b),
         walk'[b] = walk[b], event'[b] = event[b], b \in resumed' <=> b \in resumed,
         \A i \in Members(b) : inputs'[i] = inputs[i]
  PROVE  BatchOK(b)'
  <1>1. Members(b)' = Members(b) /\ (All!First(b))' = All!First(b) /\ (All!Variadic' <=> All!Variadic)
    BY SameCall
  <1>2. \A i : All!OnExecutor(b, i)' <=> All!OnExecutor(b, i)
    BY SameCall
  <1>3. LoopCounted(b)' <=> LoopCounted(b)
    BY <1>1, <1>2 DEF LoopCounted
  <1>4. ToCount(b)' = ToCount(b)
    BY <1>1, <1>3 DEF ToCount
  <1>5. LoopOK(b)'
    BY <1>1, <1>2 DEF BatchOK, LoopOK
  <1>6. EventOK(b)'
    BY <1>1, <1>4 DEF BatchOK, EventOK
  <1> QED
    BY <1>5, <1>6 DEF BatchOK

(* Nor is the parent elsewhere. *)
LEMMA SameParent ==
  ASSUME NEW b, ParentOK(b), batches' = batches, b \in resumed' <=> b \in resumed,
         awaiting'[b] = awaiting[b], walk[b].step # "none" => walk'[b].step # "none",
         walk[b].step = "none" => walk'[b] = walk[b]
  PROVE  ParentOK(b)'
BY DEF ParentOK

(* A step in which nobody counts: the loop over b or an input of b moves.    *)
LEMMA NobodyCounts ==
  ASSUME setup' = setup, event' = event, resumed' = resumed, NEW b \in All!Batches, EventOK(b),
         LoopCounted(b)' <=> LoopCounted(b), walk'[b].step = "resume" => walk[b].step = "resume",
         \A i \in Members(b) : /\ inputs'[i] \in {"last", "finished"} <=> inputs[i] \in {"last", "finished"}
                               /\ inputs'[i] = "last" => inputs[i] = "last"
  PROVE  EventOK(b)'
  <1>1. Members(b)' = Members(b)
    BY SameCall
  <1>2. ToCount(b)' = ToCount(b)
    BY <1>1 DEF ToCount
  <1> QED
    BY <1>1, <1>2 DEF EventOK

(* The event goes down by one with every one who counts, and is at one when  *)
(* nobody else is left.                                                      *)
LEMMA CountsDown ==
  ASSUME AllTypeOK, NEW b \in All!Batches, EventOK(b), NEW x \in ToCount(b),
         ToCount(b)' = ToCount(b) \ {x}, event' = [event EXCEPT ![b] = @ - 1],
         setup' = setup
  PROVE  /\ event'[b] = Cardinality(ToCount(b))'
         /\ event[b] = 1 <=> ToCount(b)' = {}
         /\ \A c \in All!Batches \ {b} : event'[c] = event[c]
         /\ event' \in [All!Batches -> Int]
  <1>1. IsFiniteSet(ToCount(b)) /\ Cardinality(ToCount(b)) \in Nat
    BY ToCountIsFinite
  <1>2. event[b] = Cardinality(ToCount(b)) /\ event \in [All!Batches -> Int]
    BY DEF EventOK, AllTypeOK
  <1>3. IsFiniteSet(ToCount(b) \ {x}) /\ Cardinality(ToCount(b) \ {x}) = Cardinality(ToCount(b)) - 1
    BY <1>1, FS_RemoveElement
  <1>4. Cardinality(ToCount(b) \ {x}) = 0 <=> ToCount(b) \ {x} = {}
    BY <1>3, FS_EmptySet
  <1>5. event'[b] = event[b] - 1
    BY <1>2
  <1>6. Cardinality(ToCount(b))' = Cardinality(ToCount(b)) - 1
    BY <1>3
  <1> QED
    BY <1>1, <1>2, <1>3, <1>4, <1>5, <1>6

(* The inputs of different batches are different numbers. *)
LEMMA MembersApart ==
  ASSUME AllTypeOK, NEW b \in All!Batches
  PROVE  /\ Members(b) \subseteq All!Inputs /\ Members(b) \subseteq Int
         /\ \A i \in Members(b) : \A c : c # b => i \notin Members(c)
         /\ \A i \in Members(b) : i # 0 /\ i >= All!First(b)
         /\ All!First(b) \in Int /\ All!Last(b) \in Int
         /\ \A i \in Int : i \in Members(b) <=> All!First(b) <= i /\ i <= All!Last(b)
         /\ walk[b].i \in Int /\ walk[b].step \in Steps
  <1>1. Members(b) \subseteq All!Inputs /\ \A i \in Members(b) : \A c : c # b => i \notin Members(c)
    BY DEF Members
  <1>2. /\ Members(b) = All!First(b)..All!Last(b) /\ All!First(b) \in Int /\ All!Last(b) \in Int
        /\ 1 <= All!First(b)
    BY BatchesAreWindows DEF AllTypeOK
  <1>3. walk[b].i \in Int /\ walk[b].step \in Steps
    <2>1. walk[b] \in [step : Steps, i : Int]
      BY DEF AllTypeOK, Steps
    <2> QED
      BY <2>1
  <1> QED
    BY <1>1, <1>2, <1>3

(* A step of the loop over b, or of an input of b, that leaves the parent.   *)
LEMMA OneBatchMoves ==
  ASSUME AllInv, NEW b \in All!Batches, setup' = setup, batches' = batches, resumed' = resumed,
         AllTypeOK', BatchOK(b)', walk[b].step # "none", walk'[b].step # "none",
         awaiting'[b] = awaiting[b] \/ b \notin resumed,
         \A c \in All!Batches \ {b} :
           walk'[c] = walk[c] /\ event'[c] = event[c] /\ awaiting'[c] = awaiting[c],
         \A i \in All!Inputs \ Members(b) : inputs'[i] = inputs[i],
         \A i \in All!Inputs : inputs'[i] \in {"stored", "last", "finished"} => i \in output'
  PROVE  AllInv'
  <1>1. All!Batches' = All!Batches /\ All!Inputs' = All!Inputs
    BY SameCall DEF All!Inputs
  <1>2. ParentOK(b)'
    BY DEF AllInv, ParentOK
  <1>3. ASSUME NEW c \in All!Batches \ {b} PROVE BatchOK(c)' /\ ParentOK(c)'
    <2>1. \A i \in Members(c) : inputs'[i] = inputs[i]
      BY MembersApart DEF AllInv
    <2>2. BatchOK(c)'
      BY <2>1, SameBatch DEF AllInv
    <2>3. ParentOK(c)'
      BY SameParent DEF AllInv
    <2> QED
      BY <2>2, <2>3
  <1> QED
    BY <1>1, <1>2, <1>3 DEF AllInv

(* The loop leaves: it is over, or the awaiter is gone. *)
LEMMA LoopLeaves ==
  ASSUME AllInv, NEW b \in All!Batches, All!Leave(b) PROVE AllInv'
  <1> DEFINE s == IF All!Gone(b) THEN "undefined" ELSE "left"
  <1>1. AllTypeOK /\ BatchOK(b) /\ walk[b].step = "test" /\ s \in {"undefined", "left"}
    BY DEF AllInv, All!Leave
  <1>2. All!Goto(b, s) /\ UNCHANGED <<setup, batches, inputs, started, event, awaiting, output, resumed, given>>
    BY DEF All!Leave
  <1> HIDE DEF s
  <1>3. /\ walk' \in [All!Batches -> [step : Steps, i : Int]]
        /\ walk'[b].step = s /\ walk'[b].i = walk[b].i
        /\ \A c \in All!Batches \ {b} : walk'[c] = walk[c]
    BY <1>1, <1>2, GoesTo DEF Steps
  <1>4. Members(b)' = Members(b) /\ (All!First(b))' = All!First(b) /\ (All!Variadic' <=> All!Variadic)
    BY <1>2, SameCall
  <1>5. \A i : All!OnExecutor(b, i)' <=> All!OnExecutor(b, i)
    BY <1>2, SameCall
  <1>6. All!Batches' = All!Batches /\ All!LastBatch' = All!LastBatch
    BY <1>2, SameCall
  <1>7. AllTypeOK'
    BY <1>1, <1>2, <1>3, <1>6 DEF AllTypeOK, Steps, All!Inputs
  <1>8. LoopOK(b)'
    BY <1>1, <1>2, <1>3, <1>4 DEF BatchOK, LoopOK
  <1>9. LoopCounted(b)' <=> LoopCounted(b)
    BY <1>1, <1>3, <1>4, <1>5 DEF LoopCounted
  <1>10. EventOK(b)'
    BY <1>1, <1>2, <1>3, <1>9, NobodyCounts DEF BatchOK
  <1> QED
    BY <1>1, <1>2, <1>3, <1>7, <1>8, <1>10, OneBatchMoves DEF BatchOK, AllInv

(* An input is scheduled. *)
LEMMA LoopSchedules ==
  ASSUME AllInv, NEW b \in All!Batches, All!Schedule(b) PROVE AllInv'
  <1> DEFINE n == walk[b].i
  <1>1. AllTypeOK /\ BatchOK(b) /\ walk[b].step = "test"
    BY DEF AllInv, All!Schedule, All!AtInput
  <1>2. /\ All!NextInput(b) /\ inputs' = [inputs EXCEPT ![n] = "scheduled"]
        /\ n <= All!Last(b) /\ All!OnExecutor(b, n)
        /\ UNCHANGED <<setup, batches, started, event, awaiting, output, resumed, given>>
    BY DEF All!Schedule, All!AtInput
  <1>3. /\ walk' \in [All!Batches -> [step : Steps, i : Int]]
        /\ walk'[b].step = "test" /\ walk'[b].i = n + 1
        /\ \A c \in All!Batches \ {b} : walk'[c] = walk[c]
    BY <1>1, <1>2, GoesToNext
  <1>4. Members(b)' = Members(b) /\ (All!First(b))' = All!First(b) /\ (All!Variadic' <=> All!Variadic)
    BY <1>2, SameCall
  <1>5. \A i : All!OnExecutor(b, i)' <=> All!OnExecutor(b, i)
    BY <1>2, SameCall
  <1>6. All!Batches' = All!Batches /\ All!LastBatch' = All!LastBatch
    BY <1>2, SameCall
  <1>7. n \in Int /\ n >= All!First(b)
    BY <1>1, MembersApart DEF BatchOK, LoopOK
  <1> HIDE DEF n
  <1>8. n \in Members(b) /\ n \in All!Inputs /\ All!First(b) \in Int
    BY <1>1, <1>2, <1>7, MembersApart
  <1>9. inputs[n] = "new"
    BY <1>1, <1>8 DEF BatchOK, LoopOK, n
  <1>10. \A i \in All!Inputs : inputs'[i] = IF i = n THEN "scheduled" ELSE inputs[i]
    BY <1>1, <1>2, <1>8 DEF AllTypeOK
  <1>11. AllTypeOK'
    BY <1>1, <1>2, <1>3, <1>6, <1>8 DEF AllTypeOK, Steps, All!Inputs
  <1>12. Members(b) \subseteq Int /\ Members(b) \subseteq All!Inputs
    BY <1>1, MembersApart
  <1>13. LoopOK(b)'
    <2>1. \A i \in Members(b) : i > n + 1 \/ i = n + 1 => inputs'[i] = "new"
      <3> SUFFICES ASSUME NEW i \in Members(b), i > n + 1 \/ i = n + 1 PROVE inputs'[i] = "new"
        OBVIOUS
      <3>1. i > n /\ i # n
        BY <1>7, <1>12
      <3> QED
        BY <1>1, <1>10, <1>12, <3>1 DEF BatchOK, LoopOK, n
    <2>2. n + 1 >= All!First(b)
      BY <1>7, <1>8
    <2> QED
      BY <1>3, <1>4, <2>1, <2>2 DEF LoopOK
  <1>14. LoopCounted(b)' <=> LoopCounted(b)
    <2>1. \A i \in Members(b) : ~All!OnExecutor(b, i) => (i < n + 1 <=> i < n)
      <3> SUFFICES ASSUME NEW i \in Members(b), ~All!OnExecutor(b, i) PROVE i < n + 1 <=> i < n
        OBVIOUS
      <3>1. i # n
        BY <1>2
      <3> QED
        BY <1>7, <1>12, <3>1
    <2> QED
      BY <1>1, <1>3, <1>4, <1>5, <2>1 DEF LoopCounted, n
  <1>15. EventOK(b)'
    BY <1>1, <1>2, <1>3, <1>9, <1>10, <1>12, <1>14, NobodyCounts DEF BatchOK
  <1>16. \A i \in All!Inputs : inputs'[i] \in {"stored", "last", "finished"} => i \in output'
    BY <1>2, <1>10 DEF AllInv
  <1>17. \A i \in All!Inputs \ Members(b) : inputs'[i] = inputs[i]
    BY <1>8, <1>10
  <1> QED
    BY <1>1, <1>2, <1>3, <1>11, <1>13, <1>15, <1>16, <1>17, OneBatchMoves DEF BatchOK

(* An input is started in place. *)
LEMMA LoopCalls ==
  ASSUME AllInv, NEW b \in All!Batches, All!CallFunc(b) PROVE AllInv'
  <1> DEFINE n == walk[b].i
  <1>1. AllTypeOK /\ BatchOK(b) /\ walk[b].step = "test"
    BY DEF AllInv, All!CallFunc, All!AtInput
  <1>2. /\ All!Goto(b, "func") /\ inputs' = [inputs EXCEPT ![n] = "running"]
        /\ n <= All!Last(b) /\ ~All!OnExecutor(b, n)
        /\ UNCHANGED <<setup, batches, event, awaiting, output, resumed, given>>
    BY DEF All!CallFunc, All!AtInput
  <1>3. /\ walk' \in [All!Batches -> [step : Steps, i : Int]]
        /\ walk'[b].step = "func" /\ walk'[b].i = n
        /\ \A c \in All!Batches \ {b} : walk'[c] = walk[c]
    BY <1>1, <1>2, GoesTo DEF Steps
  <1>4. Members(b)' = Members(b) /\ (All!First(b))' = All!First(b) /\ (All!Variadic' <=> All!Variadic)
    BY <1>2, SameCall
  <1>5. \A i : All!OnExecutor(b, i)' <=> All!OnExecutor(b, i)
    BY <1>2, SameCall
  <1>6. All!Batches' = All!Batches /\ All!LastBatch' = All!LastBatch
    BY <1>2, SameCall
  <1>7. n \in Int /\ n >= All!First(b)
    BY <1>1, MembersApart DEF BatchOK, LoopOK
  <1> HIDE DEF n
  <1>8. n \in Members(b) /\ n \in All!Inputs /\ All!First(b) \in Int
    BY <1>1, <1>2, <1>7, MembersApart
  <1>9. inputs[n] = "new"
    BY <1>1, <1>8 DEF BatchOK, LoopOK, n
  <1>10. \A i \in All!Inputs : inputs'[i] = IF i = n THEN "running" ELSE inputs[i]
    BY <1>1, <1>2, <1>8 DEF AllTypeOK
  <1>11. AllTypeOK'
    BY <1>1, <1>2, <1>3, <1>6, <1>8 DEF AllTypeOK, Steps, All!Inputs
  <1>12. Members(b) \subseteq Int /\ Members(b) \subseteq All!Inputs
    BY <1>1, MembersApart
  <1>13. LoopOK(b)'
    <2>1. \A i \in Members(b) : i > n => inputs'[i] = "new"
      <3> SUFFICES ASSUME NEW i \in Members(b), i > n PROVE inputs'[i] = "new"
        OBVIOUS
      <3>1. i # n
        BY <1>7, <1>12
      <3> QED
        BY <1>1, <1>10, <1>12, <3>1 DEF BatchOK, LoopOK, n
    <2> QED
      BY <1>2, <1>3, <1>4, <1>5, <1>7, <1>8, <2>1 DEF LoopOK
  <1>14. LoopCounted(b)' <=> LoopCounted(b)
    BY <1>1, <1>3, <1>4, <1>5 DEF LoopCounted, n
  <1>15. EventOK(b)'
    BY <1>1, <1>2, <1>3, <1>9, <1>10, <1>12, <1>14, NobodyCounts DEF BatchOK
  <1>16. \A i \in All!Inputs : inputs'[i] \in {"stored", "last", "finished"} => i \in output'
    BY <1>2, <1>10 DEF AllInv
  <1>17. \A i \in All!Inputs \ Members(b) : inputs'[i] = inputs[i]
    BY <1>8, <1>10
  <1> QED
    BY <1>1, <1>2, <1>3, <1>11, <1>13, <1>15, <1>16, <1>17, OneBatchMoves DEF BatchOK

(* The start() of an input returns to the loop. *)
LEMMA LoopGoesOn ==
  ASSUME AllInv, NEW b \in All!Batches, All!FuncReturns(b) PROVE AllInv'
  <1> DEFINE n == walk[b].i
  <1>1. /\ AllTypeOK /\ BatchOK(b) /\ walk[b].step = "func"
        /\ n \in Int /\ n \in Members(b) /\ ~All!OnExecutor(b, n)
    BY MembersApart DEF AllInv, All!FuncReturns, BatchOK, LoopOK
  <1>2. /\ IF All!Variadic THEN All!NextInput(b) ELSE All!Goto(b, "set")
        /\ UNCHANGED <<setup, batches, inputs, event, awaiting, output, resumed, given>>
    BY DEF All!FuncReturns
  <1>3. /\ walk' \in [All!Batches -> [step : Steps, i : Int]]
        /\ walk'[b].step = IF All!Variadic THEN "test" ELSE "set"
        /\ walk'[b].i = IF All!Variadic THEN n + 1 ELSE n
        /\ \A c \in All!Batches \ {b} : walk'[c] = walk[c]
    BY <1>1, <1>2, GoesTo, GoesToNext DEF Steps
  <1>4. Members(b)' = Members(b) /\ (All!First(b))' = All!First(b) /\ (All!Variadic' <=> All!Variadic)
    BY <1>2, SameCall
  <1>5. \A i : All!OnExecutor(b, i)' <=> All!OnExecutor(b, i)
    BY <1>2, SameCall
  <1>6. All!Batches' = All!Batches /\ All!LastBatch' = All!LastBatch
    BY <1>2, SameCall
  <1>7. Members(b) \subseteq Int /\ n >= All!First(b) /\ All!First(b) \in Int
    BY <1>1, MembersApart DEF BatchOK, LoopOK
  <1>8. \A i \in Members(b) : i > n => inputs[i] = "new"
    BY <1>1 DEF BatchOK, LoopOK
  <1> HIDE DEF n
  <1>9. AllTypeOK'
    BY <1>1, <1>2, <1>3, <1>6 DEF AllTypeOK, Steps, All!Inputs
  <1>10. LoopOK(b)'
    <2>1. \A i \in Members(b) : i > n + 1 \/ i = n + 1 => i > n
      BY <1>1, <1>7
    <2>2. CASE All!Variadic
      <3>1. walk'[b].step = "test" /\ walk'[b].i = n + 1 /\ n + 1 >= All!First(b)
        BY <1>1, <1>3, <1>7, <2>2
      <3> QED
        BY <1>2, <1>4, <1>8, <2>1, <3>1 DEF LoopOK
    <2>3. CASE ~All!Variadic
      <3>1. walk'[b].step = "set" /\ walk'[b].i = n
        BY <1>3, <2>3
      <3> QED
        BY <1>1, <1>2, <1>4, <1>5, <1>7, <1>8, <2>3, <3>1 DEF LoopOK
    <2> QED
      BY <2>2, <2>3
  <1>11. LoopCounted(b)' <=> LoopCounted(b)
    BY <1>1, <1>3, <1>4, <1>5 DEF LoopCounted, n
  <1>12. EventOK(b)'
    BY <1>1, <1>2, <1>3, <1>11, NobodyCounts DEF BatchOK
  <1>13. walk'[b].step # "none"
    BY <1>3
  <1> QED
    BY <1>1, <1>2, <1>3, <1>9, <1>10, <1>12, <1>13, OneBatchMoves DEF BatchOK, AllInv

(* The event learns of the coroutine, whose awaiter is still there. *)
LEMMA LoopSetsCoroutine ==
  ASSUME AllInv, NEW b \in All!Batches, All!SetAwaitingCoro(b) PROVE AllInv'
  <1> DEFINE n == walk[b].i
  <1>1. /\ AllTypeOK /\ BatchOK(b) /\ walk[b].step = "set"
        /\ n \in Int /\ n \in Members(b) /\ ~All!OnExecutor(b, n) /\ ~All!Variadic
    BY MembersApart DEF AllInv, All!SetAwaitingCoro, BatchOK, LoopOK
  <1>a. Members(b) \subseteq Int
    BY <1>1, MembersApart
  <1>b. ~LoopCounted(b)
    <2> SUFFICES ASSUME NEW i \in Members(b), ~All!OnExecutor(b, i), i < n PROVE FALSE
      BY <1>1 DEF LoopCounted
    <2>1. i = n
      BY <1>1, OneInPlace DEF AllTypeOK
    <2> QED
      BY <1>1, <2>1
  <1>c. b \notin resumed
    BY <1>1, <1>b DEF BatchOK, EventOK, ToCount
  <1>2. /\ All!Goto(b, "down") /\ awaiting' = [awaiting EXCEPT ![b] = TRUE]
        /\ UNCHANGED <<setup, batches, inputs, event, output, resumed, given>>
    BY <1>c DEF All!SetAwaitingCoro, All!Gone
  <1>3. /\ walk' \in [All!Batches -> [step : Steps, i : Int]]
        /\ walk'[b].step = "down" /\ walk'[b].i = n
        /\ \A c \in All!Batches \ {b} : walk'[c] = walk[c]
    BY <1>1, <1>2, GoesTo DEF Steps
  <1>4. Members(b)' = Members(b) /\ (All!First(b))' = All!First(b) /\ (All!Variadic' <=> All!Variadic)
    BY <1>2, SameCall
  <1>5. \A i : All!OnExecutor(b, i)' <=> All!OnExecutor(b, i)
    BY <1>2, SameCall
  <1>6. All!Batches' = All!Batches /\ All!LastBatch' = All!LastBatch
    BY <1>2, SameCall
  <1> HIDE DEF n
  <1>7. AllTypeOK' /\ \A c \in All!Batches \ {b} : awaiting'[c] = awaiting[c]
    BY <1>1, <1>2, <1>3, <1>6 DEF AllTypeOK, Steps, All!Inputs
  <1>8. LoopOK(b)'
    BY <1>1, <1>2, <1>3, <1>4, <1>5 DEF BatchOK, LoopOK, n
  <1>9. LoopCounted(b)' <=> LoopCounted(b)
    BY <1>1, <1>3, <1>4, <1>5 DEF LoopCounted, n
  <1>10. EventOK(b)'
    BY <1>1, <1>2, <1>3, <1>9, NobodyCounts DEF BatchOK
  <1>11. walk'[b].step # "none"
    BY <1>3
  <1> QED
    BY <1>1, <1>c, <1>2, <1>3, <1>7, <1>8, <1>10, <1>11, OneBatchMoves DEF BatchOK, AllInv

(* The loop counts down for itself. *)
LEMMA LoopCounts ==
  ASSUME AllInv, NEW b \in All!Batches, All!LoopDown(b) PROVE AllInv'
  <1> DEFINE n == walk[b].i
  <1>1. /\ AllTypeOK /\ BatchOK(b) /\ walk[b].step = "down"
        /\ n \in Int /\ n \in Members(b) /\ ~All!OnExecutor(b, n) /\ ~All!Variadic
    BY MembersApart DEF AllInv, All!LoopDown, BatchOK, LoopOK
  <1>a. Members(b) \subseteq Int /\ 0 \notin Members(b)
    BY <1>1, MembersApart
  <1>b. ~LoopCounted(b)
    <2> SUFFICES ASSUME NEW i \in Members(b), ~All!OnExecutor(b, i), i < n PROVE FALSE
      BY <1>1 DEF LoopCounted
    <2>1. i = n
      BY <1>1, OneInPlace DEF AllTypeOK
    <2> QED
      BY <1>1, <2>1
  <1>c. b \notin resumed
    BY <1>1, <1>b DEF BatchOK, EventOK, ToCount
  <1>2. /\ event' = [event EXCEPT ![b] = @ - 1]
        /\ IF event[b] = 1 THEN All!Goto(b, "resume") ELSE All!NextInput(b)
        /\ UNCHANGED <<setup, batches, inputs, awaiting, output, resumed, given>>
    BY <1>c DEF All!LoopDown, All!Gone
  <1>3. /\ walk' \in [All!Batches -> [step : Steps, i : Int]]
        /\ walk'[b].step = IF event[b] = 1 THEN "resume" ELSE "test"
        /\ walk'[b].i = IF event[b] = 1 THEN n ELSE n + 1
        /\ \A c \in All!Batches \ {b} : walk'[c] = walk[c]
    BY <1>1, <1>2, GoesTo, GoesToNext DEF Steps
  <1>4. Members(b)' = Members(b) /\ (All!First(b))' = All!First(b) /\ (All!Variadic' <=> All!Variadic)
    BY <1>2, SameCall
  <1>5. \A i : All!OnExecutor(b, i)' <=> All!OnExecutor(b, i)
    BY <1>2, SameCall
  <1>6. All!Batches' = All!Batches /\ All!LastBatch' = All!LastBatch
    BY <1>2, SameCall
  <1>7. n >= All!First(b) /\ All!First(b) \in Int
    BY <1>1, MembersApart DEF BatchOK, LoopOK
  <1>8. \A i \in Members(b) : i > n => inputs[i] = "new"
    BY <1>1 DEF BatchOK, LoopOK
  <1> HIDE DEF n
  <1>9. LoopCounted(b)'
    <2>1. n < n + 1
      BY <1>1
    <2> QED
      BY <1>1, <1>3, <1>4, <1>5, <2>1 DEF LoopCounted
  <1>10. 0 \in ToCount(b) /\ ToCount(b)' = ToCount(b) \ {0}
    BY <1>a, <1>b, <1>2, <1>4, <1>9 DEF ToCount
  <1>11. /\ event'[b] = Cardinality(ToCount(b))'
         /\ event[b] = 1 <=> ToCount(b)' = {}
         /\ \A c \in All!Batches \ {b} : event'[c] = event[c]
         /\ event' \in [All!Batches -> Int]
    BY <1>1, <1>2, <1>10, CountsDown DEF BatchOK
  <1>12. AllTypeOK'
    BY <1>1, <1>2, <1>3, <1>6, <1>11 DEF AllTypeOK, Steps, All!Inputs
  <1>13. LoopOK(b)'
    <2>1. \A i \in Members(b) : i > n + 1 \/ i = n + 1 => i > n
      BY <1>1, <1>a
    <2>2. CASE event[b] # 1
      <3>1. walk'[b].step = "test" /\ walk'[b].i = n + 1 /\ n + 1 >= All!First(b)
        BY <1>1, <1>3, <1>7, <2>2
      <3> QED
        BY <1>2, <1>4, <1>8, <2>1, <3>1 DEF LoopOK
    <2>3. CASE event[b] = 1
      <3>1. walk'[b].step = "resume" /\ walk'[b].i = n
        BY <1>3, <2>3
      <3> QED
        BY <1>1, <1>2, <1>4, <1>5, <1>7, <1>8, <3>1 DEF LoopOK
    <2> QED
      BY <2>2, <2>3
  <1>14. EventOK(b)'
    <2>1. walk'[b].step = "resume" => ToCount(b)' = {}
      BY <1>3, <1>11
    <2>2. \A i \in Members(b) : inputs'[i] = "last" => ToCount(b)' = {}
      BY <1>1, <1>2, <1>10 DEF BatchOK, EventOK
    <2> QED
      BY <1>c, <1>2, <1>4, <1>11, <2>1, <2>2 DEF EventOK
  <1>15. walk'[b].step # "none"
    BY <1>3
  <1> QED
    BY <1>1, <1>2, <1>3, <1>11, <1>12, <1>13, <1>14, <1>15, OneBatchMoves DEF BatchOK, AllInv

(* The parent is resumed when everybody has counted: it gets every result,   *)
(* and it is still in the batch that it is resumed from.                     *)
LEMMA ParentResumes ==
  ASSUME AllInv, NEW b \in All!Batches, ToCount(b) = {}, All!ResumeParent(b),
         walk[b].step # "none", setup' = setup,
         \A c \in All!Batches : /\ walk[c].step # "none" => walk'[c].step # "none"
                                /\ walk[c].step = "none" => walk'[c] = walk[c]
  PROVE  /\ batches' \in [at : {"between", "suspended", "returned"}, batch : 0..All!LastBatch]
         /\ resumed' \subseteq All!Batches
         /\ given' \in [All!Inputs -> {"nothing", "result"}]
         /\ awaiting' \in [All!Batches -> BOOLEAN]
         /\ \A c \in All!Batches \ {b} : c \in resumed' <=> c \in resumed
         /\ \A c \in All!Batches : ParentOK(c)'
  <1>1. AllTypeOK /\ (\A c \in All!Batches : ParentOK(c)) /\ ParentOK(b)
    BY DEF AllInv
  <1>2. /\ awaiting' \in [All!Batches -> BOOLEAN] /\ ~awaiting'[b]
        /\ \A c \in All!Batches \ {b} : awaiting'[c] = awaiting[c]
    BY <1>1 DEF All!ResumeParent, AllTypeOK
  <1>3. All!LastBatch \in Nat /\ All!Batches = 1..All!LastBatch
    BY <1>1, BatchesAreWindows DEF AllTypeOK, All!Batches
  <1>4. batches.batch \in Int /\ b \in Int
    BY <1>1, <1>3 DEF AllTypeOK
  <1>5. CASE awaiting[b]
    <2>1. /\ batches' = [at |-> "between", batch |-> b] /\ resumed' = resumed \union {b}
          /\ given' = [i \in All!Inputs |-> IF All!BatchOf(i) # b THEN given[i]
                                            ELSE IF i \in output THEN "result" ELSE "empty"]
      BY <1>5 DEF All!ResumeParent
    <2>2. batches.batch = b
      BY <1>1, <1>4, <1>5 DEF ParentOK
    <2>3. \A i \in All!Inputs : All!BatchOf(i) = b => i \in output
      <3> SUFFICES ASSUME NEW i \in All!Inputs, All!BatchOf(i) = b PROVE i \in output
        OBVIOUS
      <3>1. i \in Members(b)
        BY DEF Members
      <3>2. inputs[i] \in {"last", "finished"}
        BY <3>1 DEF ToCount
      <3> QED
        BY <3>2 DEF AllInv
    <2>4. given' \in [All!Inputs -> {"nothing", "result"}]
      BY <1>1, <2>1, <2>3 DEF AllTypeOK
    <2>5. batches' \in [at : {"between", "suspended", "returned"}, batch : 0..All!LastBatch]
      BY <1>3, <2>1
    <2>6. ASSUME NEW c \in All!Batches PROVE ParentOK(c)'
      <3>1. batches'.batch = b /\ batches'.at = "between"
        BY <2>1
      <3>2. c > b => walk'[c].step = "none"
        BY <1>1, <2>2 DEF ParentOK
      <3>3. c < b => c \in resumed
        BY <1>1, <2>2 DEF ParentOK
      <3>4. c \in resumed' => ~awaiting'[c]
        BY <1>1, <1>2, <2>1 DEF ParentOK
      <3> QED
        BY <2>1, <3>1, <3>2, <3>3, <3>4 DEF ParentOK
    <2> QED
      BY <1>1, <1>2, <2>1, <2>4, <2>5, <2>6 DEF AllTypeOK
  <1>6. CASE ~awaiting[b]
    <2>1. UNCHANGED <<batches, resumed, given>>
      BY <1>6 DEF All!ResumeParent
    <2>2. ASSUME NEW c \in All!Batches PROVE ParentOK(c)'
      <3>1. awaiting'[c] = awaiting[c]
        BY <1>1, <1>2, <1>6 DEF AllTypeOK
      <3> QED
        BY <1>1, <2>1, <3>1, SameParent
    <2> QED
      BY <1>1, <1>2, <2>1, <2>2 DEF AllTypeOK
  <1> QED
    BY <1>5, <1>6

(* The loop was the last to count. *)
LEMMA LoopResumesParent ==
  ASSUME AllInv, NEW b \in All!Batches, All!LoopResumes(b) PROVE AllInv'
  <1> DEFINE n == walk[b].i
  <1>1. /\ AllTypeOK /\ BatchOK(b) /\ walk[b].step = "resume"
        /\ n \in Int /\ n \in Members(b) /\ ~All!OnExecutor(b, n) /\ ~All!Variadic
    BY MembersApart DEF AllInv, All!LoopResumes, BatchOK, LoopOK
  <1>2. /\ All!ResumeParent(b) /\ All!NextInput(b)
        /\ UNCHANGED <<setup, inputs, event, output>>
    BY DEF All!LoopResumes
  <1>3. /\ walk' \in [All!Batches -> [step : Steps, i : Int]]
        /\ walk'[b].step = "test" /\ walk'[b].i = n + 1
        /\ \A c \in All!Batches \ {b} : walk'[c] = walk[c]
    BY <1>1, <1>2, GoesToNext
  <1>4. Members(b)' = Members(b) /\ (All!First(b))' = All!First(b) /\ (All!Variadic' <=> All!Variadic)
    BY <1>2, SameCall
  <1>5. \A i : All!OnExecutor(b, i)' <=> All!OnExecutor(b, i)
    BY <1>2, SameCall
  <1>6. All!Batches' = All!Batches /\ All!LastBatch' = All!LastBatch
    BY <1>2, SameCall
  <1>7. Members(b) \subseteq Int /\ n >= All!First(b) /\ All!First(b) \in Int
    BY <1>1, MembersApart DEF BatchOK, LoopOK
  <1>8. \A i \in Members(b) : i > n => inputs[i] = "new"
    BY <1>1 DEF BatchOK, LoopOK
  <1>9. ToCount(b) = {}
    BY <1>1 DEF BatchOK, EventOK
  <1>10. /\ batches' \in [at : {"between", "suspended", "returned"}, batch : 0..All!LastBatch]
         /\ resumed' \subseteq All!Batches
         /\ given' \in [All!Inputs -> {"nothing", "result"}]
         /\ awaiting' \in [All!Batches -> BOOLEAN]
         /\ \A c \in All!Batches \ {b} : c \in resumed' <=> c \in resumed
         /\ \A c \in All!Batches : ParentOK(c)'
    BY <1>1, <1>2, <1>3, <1>9, ParentResumes
  <1> HIDE DEF n
  <1>11. AllTypeOK'
    BY <1>1, <1>2, <1>3, <1>6, <1>10 DEF AllTypeOK, Steps, All!Inputs
  <1>12. LoopOK(b)'
    <2>1. \A i \in Members(b) : i > n + 1 \/ i = n + 1 => i > n
      BY <1>1, <1>7
    <2>2. n + 1 >= All!First(b)
      BY <1>1, <1>7
    <2> QED
      BY <1>2, <1>3, <1>4, <1>8, <2>1, <2>2 DEF LoopOK
  <1>13. LoopCounted(b) /\ LoopCounted(b)'
    <2>1. n < n + 1
      BY <1>1
    <2> QED
      BY <1>1, <1>3, <1>4, <1>5, <2>1 DEF LoopCounted, n
  <1>14. ToCount(b)' = ToCount(b)
    BY <1>2, <1>4, <1>13 DEF ToCount
  <1>15. EventOK(b)'
    BY <1>1, <1>2, <1>9, <1>14 DEF BatchOK, EventOK
  <1>16. ASSUME NEW c \in All!Batches \ {b} PROVE BatchOK(c)'
    BY <1>2, <1>3, <1>10, <1>16, SameBatch DEF AllInv
  <1> QED
    BY <1>2, <1>6, <1>10, <1>11, <1>12, <1>15, <1>16 DEF AllInv, BatchOK, All!Inputs

(* The parent goes into the next batch, or returns. *)
LEMMA ParentGoesOn == ASSUME AllInv, All!AwaitSuspend \/ All!Return PROVE AllInv'
  <1>1. AllTypeOK /\ setup' = setup
    BY DEF AllInv, All!AwaitSuspend, All!Return
  <1>2. All!Batches' = All!Batches /\ All!LastBatch' = All!LastBatch
    BY <1>1, SameCall
  <1>3. All!LastBatch \in Nat /\ All!Batches = 1..All!LastBatch
    BY <1>1, BatchesAreWindows DEF AllTypeOK, All!Batches
  <1>4. CASE All!Return
    <2>1. /\ batches.at = "between" /\ batches' = [batches EXCEPT !.at = "returned"]
          /\ UNCHANGED <<setup, walk, inputs, event, awaiting, output, resumed, given>>
      BY <1>4 DEF All!Return
    <2>2. /\ batches'.batch = batches.batch /\ batches'.at = "returned"
          /\ batches' \in [at : {"between", "suspended", "returned"}, batch : 0..All!LastBatch]
      BY <1>1, <2>1 DEF AllTypeOK
    <2>3. AllTypeOK'
      BY <1>1, <1>2, <2>1, <2>2 DEF AllTypeOK, All!Inputs
    <2>4. ASSUME NEW c \in All!Batches PROVE BatchOK(c)' /\ ParentOK(c)'
      <3>1. BatchOK(c)'
        BY <2>1, SameBatch DEF AllInv
      <3>2. ParentOK(c)'
        BY <2>1, <2>2 DEF AllInv, ParentOK
      <3> QED
        BY <3>1, <3>2
    <2> QED
      BY <1>2, <2>1, <2>3, <2>4 DEF AllInv, All!Inputs
  <1>5. CASE All!AwaitSuspend
    <2>a. batches.batch \in Int
      BY <1>1, <1>3 DEF AllTypeOK
    <2>b. PICK b \in Int : b = batches.batch + 1
      BY <2>a
    <2>1. /\ batches.at = "between" /\ b \in All!Batches
          /\ batches' = [at |-> "suspended", batch |-> b]
          /\ walk' = [walk EXCEPT ![b].step = "test"]
          /\ awaiting' = [awaiting EXCEPT ![b] = All!Variadic]
          /\ UNCHANGED <<setup, inputs, event, output, resumed, given>>
      BY <1>5, <2>b DEF All!AwaitSuspend
    <2>2. batches.batch \in Int /\ b \in Int /\ b = batches.batch + 1
      BY <2>a, <2>b
    <2>3. BatchOK(b) /\ ParentOK(b) /\ walk[b].step = "none"
      BY <2>1, <2>2 DEF AllInv, ParentOK
    <2>4. walk[b].i = All!First(b) /\ b \notin resumed
      <3>1. walk[b].i = All!First(b)
        BY <2>3 DEF BatchOK, LoopOK
      <3>2. ~LoopCounted(b)
        <4>1. \A i \in Members(b) : ~(i < All!First(b)) /\ i \in Int
          BY <1>1, <2>1, MembersApart
        <4> QED
          BY <2>3, <3>1, <4>1 DEF LoopCounted
      <3>3. b \notin resumed
        BY <2>3, <3>2 DEF BatchOK, EventOK, ToCount
      <3> QED
        BY <3>1, <3>3
    <2>5. All!Goto(b, "test")
      BY <2>1 DEF All!Goto
    <2>6. /\ walk' \in [All!Batches -> [step : Steps, i : Int]]
          /\ walk'[b].step = "test" /\ walk'[b].i = walk[b].i
          /\ \A c \in All!Batches \ {b} : walk'[c] = walk[c]
      BY <1>1, <2>1, <2>5, GoesTo DEF Steps
    <2>7. /\ Members(b)' = Members(b) /\ (All!First(b))' = All!First(b)
          /\ (All!Variadic' <=> All!Variadic)
          /\ \A i : All!OnExecutor(b, i)' <=> All!OnExecutor(b, i)
      BY <1>1, SameCall
    <2>8. AllTypeOK'
      <3>1. awaiting' \in [All!Batches -> BOOLEAN]
        <4>1. All!Variadic \in BOOLEAN
          BY DEF All!Variadic, All!IsVariadic
        <4>2. awaiting \in [All!Batches -> BOOLEAN]
          BY <1>1 DEF AllTypeOK
        <4> QED
          BY <2>1, <4>1, <4>2
      <3>2. batches' \in [at : {"between", "suspended", "returned"}, batch : 0..All!LastBatch]
        BY <1>3, <2>1
      <3> QED
        BY <1>1, <1>2, <2>1, <2>6, <3>1, <3>2 DEF AllTypeOK, Steps, All!Inputs
    <2>9. BatchOK(b)'
      <3>1. LoopOK(b)'
        BY <2>1, <2>3, <2>6, <2>7 DEF BatchOK, LoopOK
      <3>2. LoopCounted(b)' <=> LoopCounted(b)
        BY <2>3, <2>6, <2>7 DEF LoopCounted
      <3>3. EventOK(b)'
        BY <2>1, <2>3, <2>6, <3>2, NobodyCounts DEF BatchOK
      <3> QED
        BY <3>1, <3>3 DEF BatchOK
    <2>10. ASSUME NEW c \in All!Batches \ {b} PROVE BatchOK(c)'
      BY <2>1, <2>6, <2>10, SameBatch DEF AllInv
    <2>11. ASSUME NEW c \in All!Batches PROVE ParentOK(c)'
      <3>1. ParentOK(c) /\ c \in Int /\ batches'.batch = b /\ batches'.at = "suspended"
        BY <1>3, <2>1 DEF AllInv
      <3>2. c > b => walk'[c].step = "none"
        BY <2>2, <2>6, <3>1 DEF ParentOK
      <3>3. c < b => c \in resumed
        BY <2>1, <2>2, <3>1 DEF ParentOK
      <3>4. c \in resumed => ~awaiting'[c]
        BY <1>1, <2>1, <2>4, <3>1 DEF ParentOK, AllTypeOK
      <3> QED
        BY <2>1, <3>1, <3>2, <3>3, <3>4 DEF ParentOK
    <2> QED
      BY <1>2, <2>1, <2>8, <2>9, <2>10, <2>11 DEF AllInv, All!Inputs
  <1> QED
    BY <1>4, <1>5

(* An input that has begun belongs to a batch that the loop has entered. *)
LEMMA BatchOfInput ==
  ASSUME AllInv, NEW i \in All!Inputs
  PROVE  /\ All!BatchOf(i) \in All!Batches /\ i \in Members(All!BatchOf(i))
         /\ i \in Int /\ i # 0
         /\ inputs[i] # "new" => walk[All!BatchOf(i)].step # "none"
         /\ inputs[i] \notin {"last", "finished"} => All!BatchOf(i) \notin resumed
  <1> DEFINE b == All!BatchOf(i)
  <1>1. AllTypeOK /\ b \in All!Batches /\ i \in Members(b)
    BY BatchesAreWindows DEF AllInv, AllTypeOK, Members
  <1>2. BatchOK(b) /\ i \in Int /\ i >= All!First(b) /\ i # 0 /\ All!First(b) \in Int
    BY <1>1, MembersApart DEF AllInv
  <1> HIDE DEF b
  <1>3. walk[b].step = "none" => inputs[i] = "new"
    <2> SUFFICES ASSUME walk[b].step = "none" PROVE inputs[i] = "new"
      OBVIOUS
    <2>1. walk[b].i = All!First(b)
      BY <1>2 DEF BatchOK, LoopOK
    <2>2. i > walk[b].i \/ i = walk[b].i
      BY <1>2, <2>1
    <2> QED
      BY <1>1, <1>2, <2>2 DEF BatchOK, LoopOK
  <1>4. inputs[i] \notin {"last", "finished"} => b \notin resumed
    BY <1>1, <1>2 DEF BatchOK, EventOK, ToCount
  <1> QED
    BY <1>1, <1>2, <1>3, <1>4 DEF b

(* An input goes on, and whoever has begun does not begin anew. *)
LEMMA InputMoves ==
  ASSUME AllInv, NEW i \in All!Inputs, inputs[i] # "new",
         NEW s \in {"running", "stored", "last", "finished"}, All!Now(i, s), setup' = setup,
         walk' = walk
  PROVE  /\ inputs' \in [All!Inputs -> {"new", "scheduled", "running", "stored", "last", "finished"}]
         /\ inputs'[i] = s /\ \A j \in All!Inputs \ {i} : inputs'[j] = inputs[j]
         /\ LoopOK(All!BatchOf(i))'
  <1> PICK b \in All!Batches : b = All!BatchOf(i)
    BY BatchOfInput
  <1>1. All!BatchOf(i)' = All!BatchOf(i)
    BY DEF All!BatchOf, All!Window
  <1>2. AllTypeOK /\ BatchOK(b)
    BY DEF AllInv
  <1>3. /\ inputs' \in [All!Inputs -> {"new", "scheduled", "running", "stored", "last", "finished"}]
        /\ inputs'[i] = s /\ \A j \in All!Inputs \ {i} : inputs'[j] = inputs[j]
    BY <1>2 DEF All!Now, AllTypeOK
  <1>4. Members(b)' = Members(b) /\ (All!First(b))' = All!First(b) /\ (All!Variadic' <=> All!Variadic)
    BY SameCall
  <1>5. \A j : All!OnExecutor(b, j)' <=> All!OnExecutor(b, j)
    BY SameCall
  <1>6. Members(b) \subseteq All!Inputs
    BY <1>2, MembersApart
  <1>7. LoopOK(b)'
    <2>1. \A j \in Members(b) :
            j > walk[b].i \/ (j = walk[b].i /\ walk[b].step \in {"none", "test"}) => inputs'[j] = "new"
      BY <1>2, <1>3, <1>6 DEF BatchOK, LoopOK
    <2> QED
      BY <1>2, <1>4, <1>5, <2>1 DEF BatchOK, LoopOK
  <1> QED
    BY <1>1, <1>3, <1>7

(* An input that an executor begins, or that stores its result. *)
LEMMA InputRuns ==
  ASSUME AllInv, NEW i \in All!Inputs, All!Begin(i) \/ All!Detach(i) \/ All!Store(i)
  PROVE  AllInv'
  <1> PICK b \in All!Batches : b = All!BatchOf(i)
    BY BatchOfInput
  <1>1. AllTypeOK /\ BatchOK(b) /\ i \in Members(b)
    BY BatchOfInput DEF AllInv
  <1>2. UNCHANGED <<setup, batches, walk, event, awaiting, resumed, given>>
    BY DEF All!Begin, All!Detach, All!Store
  <1>3. \/ inputs' = inputs /\ output' = output
        \/ All!Now(i, "running") /\ inputs[i] = "scheduled" /\ output' = output
        \/ All!Now(i, "stored") /\ inputs[i] = "running" /\ output' = output \union {i}
    BY BatchOfInput DEF All!Begin, All!Detach, All!Store, All!Gone
  <1>4. All!Batches' = All!Batches /\ All!LastBatch' = All!LastBatch /\ Members(b)' = Members(b)
    BY <1>2, SameCall
  <1>5. CASE inputs' = inputs /\ output' = output
    <2>1. AllTypeOK'
      BY <1>1, <1>2, <1>4, <1>5 DEF AllTypeOK, All!Inputs
    <2>2. ASSUME NEW c \in All!Batches PROVE BatchOK(c)' /\ ParentOK(c)'
      BY <1>2, <1>5, SameBatch, SameParent DEF AllInv
    <2> QED
      BY <1>2, <1>4, <1>5, <2>1, <2>2 DEF AllInv, All!Inputs
  <1>6. ASSUME NEW s \in {"running", "stored"}, All!Now(i, s), inputs[i] \in {"scheduled", "running"},
               output' = IF s = "stored" THEN output \union {i} ELSE output
        PROVE  AllInv'
    <2>1. /\ inputs' \in [All!Inputs -> {"new", "scheduled", "running", "stored", "last", "finished"}]
          /\ inputs'[i] = s /\ \A j \in All!Inputs \ {i} : inputs'[j] = inputs[j]
          /\ LoopOK(All!BatchOf(i))'
      BY <1>2, <1>6, InputMoves
    <2>2. All!BatchOf(i)' = All!BatchOf(i)
      BY <1>2 DEF All!BatchOf, All!Window
    <2>3. AllTypeOK'
      BY <1>1, <1>2, <1>4, <1>6, <2>1 DEF AllTypeOK, All!Inputs
    <2>4. Members(b) \subseteq All!Inputs /\ \A j : All!OnExecutor(b, j)' <=> All!OnExecutor(b, j)
      BY <1>1, <1>2, SameCall, MembersApart
    <2>5. LoopCounted(b)' <=> LoopCounted(b)
      <3>1. All!Variadic' <=> All!Variadic
        BY <1>2, SameCall
      <3> QED
        BY <1>2, <1>4, <2>4, <3>1 DEF LoopCounted
    <2>6. \A j \in Members(b) :
            /\ inputs'[j] \in {"last", "finished"} <=> inputs[j] \in {"last", "finished"}
            /\ inputs'[j] = "last" => inputs[j] = "last"
      BY <1>6, <2>1, <2>4
    <2>7. EventOK(b)'
      BY <1>1, <1>2, <2>5, <2>6, NobodyCounts DEF BatchOK
    <2>8. LoopOK(b)'
      BY <2>1, <2>2
    <2>9. walk[b].step # "none"
      BY <1>6, BatchOfInput
    <2>10. \A j \in All!Inputs : inputs'[j] \in {"stored", "last", "finished"} => j \in output'
      BY <1>6, <2>1 DEF AllInv
    <2>11. \A j \in All!Inputs \ Members(b) : inputs'[j] = inputs[j]
      BY <1>1, <2>1
    <2> QED
      BY <1>2, <2>3, <2>7, <2>8, <2>9, <2>10, <2>11, OneBatchMoves DEF BatchOK
  <1> QED
    BY <1>3, <1>5, <1>6

(* An input counts down. *)
LEMMA InputCounts == ASSUME AllInv, NEW i \in All!Inputs, All!Down(i) PROVE AllInv'
  <1> PICK b \in All!Batches : b = All!BatchOf(i)
    BY BatchOfInput
  <1> DEFINE s == IF event[b] = 1 THEN "last" ELSE "finished"
  <1>1. /\ AllTypeOK /\ BatchOK(b) /\ i \in Members(b) /\ i # 0
        /\ inputs[i] = "stored" /\ b \notin resumed /\ walk[b].step # "none"
    BY BatchOfInput DEF AllInv, All!Down
  <1>2. /\ All!Now(i, s) /\ event' = [event EXCEPT ![b] = @ - 1]
        /\ UNCHANGED <<setup, batches, walk, awaiting, output, resumed, given>>
    BY <1>1 DEF All!Down, All!Gone
  <1>3. s \in {"last", "finished"} /\ (s = "last" <=> event[b] = 1)
    OBVIOUS
  <1> HIDE DEF s
  <1>4. /\ inputs' \in [All!Inputs -> {"new", "scheduled", "running", "stored", "last", "finished"}]
        /\ inputs'[i] = s /\ \A j \in All!Inputs \ {i} : inputs'[j] = inputs[j]
        /\ LoopOK(All!BatchOf(i))'
    BY <1>1, <1>2, <1>3, InputMoves
  <1>5. All!BatchOf(i)' = All!BatchOf(i)
    BY <1>2 DEF All!BatchOf, All!Window
  <1>6. All!Batches' = All!Batches /\ All!LastBatch' = All!LastBatch /\ Members(b)' = Members(b)
    BY <1>2, SameCall
  <1>7. Members(b) \subseteq All!Inputs /\ \A j : All!OnExecutor(b, j)' <=> All!OnExecutor(b, j)
    BY <1>1, <1>2, SameCall, MembersApart
  <1>8. LoopCounted(b)' <=> LoopCounted(b)
    <2>1. All!Variadic' <=> All!Variadic
      BY <1>2, SameCall
    <2> QED
      BY <1>2, <1>6, <1>7, <2>1 DEF LoopCounted
  <1>9. i \in ToCount(b) /\ ToCount(b)' = ToCount(b) \ {i}
    <2>1. i \in ToCount(b)
      BY <1>1 DEF ToCount
    <2>2. \A j : j \in ToCount(b)' <=> j \in ToCount(b) \ {i}
      BY <1>1, <1>3, <1>4, <1>6, <1>7, <1>8 DEF ToCount
    <2> QED
      BY <2>1, <2>2
  <1>10. /\ event'[b] = Cardinality(ToCount(b))'
         /\ event[b] = 1 <=> ToCount(b)' = {}
         /\ \A c \in All!Batches \ {b} : event'[c] = event[c]
         /\ event' \in [All!Batches -> Int]
    BY <1>1, <1>2, <1>9, CountsDown DEF BatchOK
  <1>11. AllTypeOK'
    BY <1>1, <1>2, <1>4, <1>6, <1>10 DEF AllTypeOK, All!Inputs
  <1>12. EventOK(b)'
    <2>1. \A j \in Members(b) : inputs'[j] = "last" => ToCount(b)' = {}
      <3> SUFFICES ASSUME NEW j \in Members(b), inputs'[j] = "last" PROVE ToCount(b)' = {}
        OBVIOUS
      <3>1. CASE j = i
        BY <1>3, <1>4, <1>10, <3>1
      <3>2. CASE j # i
        <4>1. inputs[j] = "last"
          BY <1>4, <1>7, <3>2
        <4> QED
          BY <1>1, <1>9, <4>1 DEF BatchOK, EventOK
      <3> QED
        BY <3>1, <3>2
    <2>2. walk[b].step # "resume"
      BY <1>1, <1>9 DEF BatchOK, EventOK
    <2> QED
      BY <1>1, <1>2, <1>6, <1>10, <2>1, <2>2 DEF EventOK
  <1>13. LoopOK(b)'
    BY <1>4, <1>5
  <1>14. \A j \in All!Inputs : inputs'[j] \in {"stored", "last", "finished"} => j \in output'
    BY <1>1, <1>2, <1>4 DEF AllInv
  <1>15. \A j \in All!Inputs \ Members(b) : inputs'[j] = inputs[j]
    BY <1>1, <1>4
  <1> QED
    BY <1>1, <1>2, <1>10, <1>11, <1>12, <1>13, <1>14, <1>15, OneBatchMoves DEF BatchOK

(* An input was the last to count. *)
LEMMA InputResumesParent == ASSUME AllInv, NEW i \in All!Inputs, All!TaskResumes(i) PROVE AllInv'
  <1> PICK b \in All!Batches : b = All!BatchOf(i)
    BY BatchOfInput
  <1>1. /\ AllTypeOK /\ BatchOK(b) /\ i \in Members(b)
        /\ inputs[i] = "last" /\ walk[b].step # "none"
    BY BatchOfInput DEF AllInv, All!TaskResumes
  <1>2. /\ All!ResumeParent(b) /\ All!Now(i, "finished")
        /\ UNCHANGED <<setup, walk, event, output>>
    BY DEF All!TaskResumes
  <1>3. /\ inputs' \in [All!Inputs -> {"new", "scheduled", "running", "stored", "last", "finished"}]
        /\ inputs'[i] = "finished" /\ \A j \in All!Inputs \ {i} : inputs'[j] = inputs[j]
        /\ LoopOK(All!BatchOf(i))'
    BY <1>1, <1>2, InputMoves
  <1>4. All!BatchOf(i)' = All!BatchOf(i)
    BY <1>2 DEF All!BatchOf, All!Window
  <1>5. All!Batches' = All!Batches /\ All!LastBatch' = All!LastBatch /\ Members(b)' = Members(b)
    BY <1>2, SameCall
  <1>6. Members(b) \subseteq All!Inputs /\ \A j : All!OnExecutor(b, j)' <=> All!OnExecutor(b, j)
    BY <1>1, <1>2, SameCall, MembersApart
  <1>7. ToCount(b) = {}
    BY <1>1 DEF BatchOK, EventOK
  <1>8. /\ batches' \in [at : {"between", "suspended", "returned"}, batch : 0..All!LastBatch]
        /\ resumed' \subseteq All!Batches
        /\ given' \in [All!Inputs -> {"nothing", "result"}]
        /\ awaiting' \in [All!Batches -> BOOLEAN]
        /\ \A c \in All!Batches \ {b} : c \in resumed' <=> c \in resumed
        /\ \A c \in All!Batches : ParentOK(c)'
    BY <1>1, <1>2, <1>7, ParentResumes
  <1>9. AllTypeOK'
    BY <1>1, <1>2, <1>3, <1>5, <1>8 DEF AllTypeOK, All!Inputs
  <1>10. LoopCounted(b)' <=> LoopCounted(b)
    <2>1. All!Variadic' <=> All!Variadic
      BY <1>2, SameCall
    <2> QED
      BY <1>2, <1>5, <1>6, <2>1 DEF LoopCounted
  <1>11. ToCount(b)' = ToCount(b)
    BY <1>1, <1>3, <1>5, <1>6, <1>10 DEF ToCount
  <1>12. EventOK(b)'
    BY <1>1, <1>2, <1>7, <1>11 DEF BatchOK, EventOK
  <1>13. BatchOK(b)'
    BY <1>3, <1>4, <1>12 DEF BatchOK
  <1>14. ASSUME NEW c \in All!Batches \ {b} PROVE BatchOK(c)'
    <2>1. \A j \in Members(c) : j \in All!Inputs /\ j # i
      BY <1>1, MembersApart
    <2> QED
      BY <1>2, <1>3, <1>8, <1>14, <2>1, SameBatch DEF AllInv
  <1>15. \A j \in All!Inputs : inputs'[j] \in {"stored", "last", "finished"} => j \in output'
    BY <1>1, <1>2, <1>3 DEF AllInv
  <1> QED
    BY <1>5, <1>8, <1>9, <1>13, <1>14, <1>15 DEF AllInv, All!Inputs

(* Every step of collectAll() preserves the invariant. *)
LEMMA AllStep == AllInv /\ [All!Next]_allVars => AllInv'
  <1>1. ASSUME AllInv, UNCHANGED allVars PROVE AllInv'
    <2>1. All!Batches' = All!Batches /\ All!LastBatch' = All!LastBatch
      BY <1>1, SameCall DEF allVars
    <2>2. ASSUME NEW c \in All!Batches PROVE BatchOK(c)' /\ ParentOK(c)'
      BY <1>1, SameBatch, SameParent DEF AllInv, allVars
    <2>3. AllTypeOK'
      BY <1>1, <2>1 DEF AllInv, AllTypeOK, allVars, All!Inputs
    <2> QED
      BY <1>1, <2>1, <2>2, <2>3 DEF AllInv, allVars, All!Inputs
  <1>2. ASSUME AllInv, All!Next PROVE AllInv'
    <2>1. ASSUME NEW b \in All!Batches, All!Loop(b) PROVE AllInv'
      BY <1>2, <2>1, LoopLeaves, LoopSchedules, LoopCalls, LoopGoesOn, LoopSetsCoroutine, LoopCounts,
         LoopResumesParent DEF All!Loop
    <2>2. ASSUME NEW i \in All!Inputs, All!Run(i) \/ All!Detach(i) PROVE AllInv'
      BY <1>2, <2>2, InputRuns, InputCounts, InputResumesParent DEF All!Run
    <2> QED
      BY <1>2, <2>1, <2>2, ParentGoesOn DEF All!Next
  <1> QED
    BY <1>1, <1>2

(* collectAll(): the parent gets the result of every input it awaited, and   *)
(* no callback runs after its awaiter is gone, for any number of inputs and  *)
(* any windows, in all calls in which the loop starts at most one input of a *)
(* window in place.                                                          *)
THEOREM ResultsAreComplete == MCSpec => []ResultsComplete
  <1> DEFINE Inv == component = "collectAll" => AllInv
  <1>1. MCInit => Inv
    BY AllRuns, AllInit
  <1>2. Inv /\ [MCNext]_<<component, vars, allVars, anyVars, lazyVars, genVars, futVars>> => Inv'
    BY AllRuns, AllStep
  <1>3. Inv => ResultsComplete
    BY DEF AllInv, AllTypeOK, ResultsComplete, All!ResultsComplete
  <1> QED
    BY <1>1, <1>2, <1>3, PTL DEF MCSpec
-----------------------------------------------------------------------------
(* FutureChain: what the continuations have passed on, and to whom.          *)

(* A set of natural numbers that is not empty has a least element.           *)
LEMMA LeastNumber ==
  ASSUME NEW Few \in SUBSET Nat, Few # {}
  PROVE  \E m \in Few : \A k \in Few : m <= k
  <1> DEFINE R == StrictSubsetOrdering(Nat)
             F == FiniteSubsetsOf(Nat)
             U == {0..t : t \in Few}
  <1>1. IsWellFoundedOn(R, F)
    BY FS_StrictSubsetOrderingWellFounded
  <1>2. U \subseteq F
    <2> SUFFICES ASSUME NEW t \in Few PROVE 0..t \in F
      OBVIOUS
    <2>1. IsFiniteSet(0..t)
      BY FS_Interval
    <2> QED
      BY <2>1 DEF FiniteSubsetsOf
  <1>3. U # {}
    OBVIOUS
  <1>4. PICK x \in U : \A y \in U : <<y, x>> \notin R
    <2> HIDE DEF R, F, U
    <2> QED
      BY <1>1, <1>2, <1>3, WFMin
  <1>5. PICK m \in Few : x = 0..m
    OBVIOUS
  <1>6. ASSUME NEW k \in Few, k < m PROVE FALSE
    <2>1. 0..k \subseteq 0..m /\ 0..k # 0..m
      BY <1>6
    <2>2. <<0..k, 0..m>> \in R
      BY <2>1 DEF StrictSubsetOrdering
    <2> QED
      BY <2>2, <1>4, <1>5
  <1> QED
    BY <1>6

Tries == [is : {"empty", "value", "error"}, of : Nat]
SharedState == [try : Tries, to : Nat, fn : Fut!Functions \union {Fut!Forward}, ran : BOOLEAN]

FutTypeOK ==
  /\ states \in Seq(SharedState)
  /\ future.shared \in Nat /\ future.local \in Tries

Forwards(s) == states[s].fn = Fut!Forward

(* A chained function sets the promise of a later state.  A future that a    *)
(* function returned is nobody's to chain to, and neither is a state that    *)
(* has a continuation; two continuations set one promise only when one of    *)
(* them is the function and the other that of the future that it returned.   *)
Links ==
  /\ \A s \in DOMAIN states :
       /\ states[s].to <= Len(states)
       /\ states[s].to = 0 => Forwards(s) /\ ~states[s].ran
       /\ ~Forwards(s) => s < states[s].to
       /\ Forwards(s) /\ states[s].to # 0 => \A r \in DOMAIN states : states[r].to # s
  /\ \A r, s \in DOMAIN states :
       r # s /\ states[r].to = states[s].to /\ states[r].to # 0 => (Forwards(r) <=> ~Forwards(s))
  /\ future.shared # 0 => future.shared \in DOMAIN states /\ states[future.shared].to = 0

(* Functions that have returned a future which stands for them.              *)
Stands(s) == states[s].ran /\ states[s].fn.does = "promise" /\ ~Fut!Skips(s)

(* What a function that has run has set, when no future stands for it.       *)
Outcome(s) ==
  IF Fut!Skips(s) THEN states[s].try
  ELSE IF states[s].fn.does \in {"throw", "failed"} THEN Fut!Error(s) ELSE Fut!Value(s)

(* What has run has had a result, and has passed on what it should; until    *)
(* then the promise is not set.                                              *)
PassedOn ==
  \A s \in DOMAIN states :
    /\ states[s].ran => states[s].try # Fut!Empty
    /\ states[s].to # 0 /\ ~states[s].ran => states[states[s].to].try = Fut!Empty
    /\ Forwards(s) /\ states[s].ran => states[states[s].to].try = states[s].try
    /\ ~Forwards(s) /\ ~Stands(s) =>
         /\ states[s].ran => states[states[s].to].try = Outcome(s)
         /\ \A r \in DOMAIN states : states[r].to = states[s].to => r = s
    /\ ~Forwards(s) /\ Stands(s) =>
         \E r \in DOMAIN states : Forwards(r) /\ states[r].to = states[s].to

FutInv == FutTypeOK /\ Links /\ PassedOn

(* The definition of what a state means, with the meanings of the others f.  *)
MeaningFrom(f, s) ==
  IF Fut!Chained(s) = {} THEN states[s].try
  ELSE LET r == CHOOSE r \in Fut!Chained(s) : TRUE
           returned == {i \in Fut!Sources(s) : states[i].fn = Fut!Forward}
           fn == states[r].fn
       IN  IF f[r] = Fut!Empty THEN Fut!Empty
           ELSE IF f[r].is = "error" /\ ~fn.isTry THEN f[r]
           ELSE CASE fn.does \in {"throw", "failed"} -> Fut!Error(r)
                  [] fn.does \in {"value", "ready"}  -> Fut!Value(r)
                  [] fn.does = "promise" ->
                       IF returned = {} THEN Fut!Empty ELSE f[CHOOSE i \in returned : TRUE]

(* States mean something, because what they mean depends on earlier ones     *)
(* and on those to which nothing is chained.                                 *)
LEMMA MeaningExists ==
  ASSUME FutInv
  PROVE  \A s \in DOMAIN states : Fut!Meaning[s] = MeaningFrom(Fut!Meaning, s)
  <1> DEFINE n == Len(states)
             D == DOMAIN states
             Solves(f, k) ==
               /\ f = [s \in D |-> f[s]]
               /\ \A s \in D : s <= k \/ Fut!Chained(s) = {} => f[s] = MeaningFrom(f, s)
             Unsolved == {k \in 0..n : ~ \E f : Solves(f, k)}
  <1>1. n \in Nat /\ D = 1..n
    BY DEF FutInv, FutTypeOK
  <1>2. \E f : Solves(f, 0)
    <2>1. Solves([s \in D |-> states[s].try], 0)
      BY <1>1 DEF MeaningFrom
    <2> QED
      BY <2>1
  <1>3. ASSUME NEW k \in 0..n, k < n, NEW f, Solves(f, k) PROVE \E g : Solves(g, k + 1)
    <2>1. CASE Fut!Chained(k + 1) = {}
      <3>1. Solves(f, k + 1)
        BY <2>1, <1>1, <1>3
      <3> QED
        BY <3>1
    <2>2. CASE Fut!Chained(k + 1) # {}
      <3> DEFINE g == [s \in D |-> IF s = k + 1 THEN MeaningFrom(f, k + 1) ELSE f[s]]
      <3>1. \A s \in D : s # k + 1 => g[s] = f[s]
        OBVIOUS
      <3>2. g[k + 1] = MeaningFrom(f, k + 1) /\ g = [s \in D |-> g[s]]
        BY <1>1, <1>3
      <3> HIDE DEF g
      <3>3. ASSUME NEW s \in D, s <= k + 1 \/ Fut!Chained(s) = {}
            PROVE  MeaningFrom(g, s) = MeaningFrom(f, s)
        <4>1. CASE Fut!Chained(s) = {}
          BY <4>1 DEF MeaningFrom
        <4>2. CASE Fut!Chained(s) # {}
          <5>1. PICK r \in Fut!Chained(s) : r = CHOOSE q \in Fut!Chained(s) : TRUE
            BY <4>2
          <5>2. r \in D /\ r < s /\ r # k + 1
            BY <5>1, <4>2, <3>3, <1>1, <1>3 DEF Fut!Chained, Fut!Sources, FutInv, Links, Forwards
          <5>3. g[r] = f[r]
            BY <5>2, <3>1
          <5> DEFINE returned == {i \in Fut!Sources(s) : states[i].fn = Fut!Forward}
          <5>4. ASSUME returned # {}
                PROVE  g[CHOOSE i \in returned : TRUE] = f[CHOOSE i \in returned : TRUE]
            <6>1. PICK i \in returned : i = CHOOSE h \in returned : TRUE
              BY <5>4
            <6>2. i \in D /\ states[i].fn = Fut!Forward /\ states[i].to = s
              BY <6>1 DEF Fut!Sources
            <6>3. Fut!Chained(i) = {}
              BY <6>2, <1>1 DEF Fut!Chained, Fut!Sources, FutInv, Links, Forwards
            <6>4. i # k + 1
              BY <6>3, <2>2
            <6> QED
              BY <6>1, <6>2, <6>4, <3>1
          <5> QED
            BY <5>1, <5>3, <5>4 DEF MeaningFrom
        <4> QED
          BY <4>1, <4>2
      <3>4. Solves(g, k + 1)
        <4> SUFFICES ASSUME NEW s \in D, s <= k + 1 \/ Fut!Chained(s) = {}
                     PROVE  g[s] = MeaningFrom(g, s)
          BY <3>2
        <4>1. CASE s = k + 1
          BY <4>1, <3>2, <3>3
        <4>2. CASE s # k + 1
          <5>1. s <= k \/ Fut!Chained(s) = {}
            BY <4>2, <1>1, <1>3
          <5>2. f[s] = MeaningFrom(f, s)
            BY <5>1, <1>3
          <5> QED
            BY <4>2, <5>2, <3>1, <3>3
        <4> QED
          BY <4>1, <4>2
      <3> QED
        BY <3>4
    <2> QED
      BY <2>1, <2>2
  <1> HIDE DEF Solves
  <1>4. Unsolved = {}
    <2> SUFFICES ASSUME Unsolved # {} PROVE FALSE
      OBVIOUS
    <2>1. Unsolved \in SUBSET Nat
      BY <1>1
    <2>2. PICK k \in Unsolved : \A j \in Unsolved : k <= j
      BY <2>1, LeastNumber
    <2>3. k \in 0..n /\ k # 0 /\ ~ \E f : Solves(f, k)
      BY <2>2, <1>2
    <2>4. k - 1 \in 0..n /\ k - 1 < n /\ (k - 1) + 1 = k /\ k - 1 \notin Unsolved
      BY <2>2, <2>3, <1>1
    <2>5. PICK f : Solves(f, k - 1)
      BY <2>4
    <2> QED
      BY <2>3, <2>4, <2>5, <1>3
  <1>5. PICK f : Solves(f, n)
    BY <1>4, <1>1
  <1>6. f = [s \in D |-> MeaningFrom(f, s)]
    <2>1. f = [s \in D |-> f[s]] /\ \A s \in D : f[s] = MeaningFrom(f, s)
      BY <1>5, <1>1 DEF Solves
    <2> QED
      BY <2>1
  <1>7. Fut!Meaning = CHOOSE h : h = [s \in D |-> MeaningFrom(h, s)]
    BY DEF Fut!Meaning, MeaningFrom
  <1>8. Fut!Meaning = [s \in D |-> MeaningFrom(Fut!Meaning, s)]
    <2> DEFINE Right(h) == h = [s \in D |-> MeaningFrom(h, s)]
    <2>1. Right(f)
      BY <1>6
    <2>2. Right(CHOOSE h : Right(h))
      BY <2>1
    <2> QED
      BY <2>2, <1>7
  <1> QED
    BY <1>8

(* The result of a state is what it means. *)
LEMMA ResultsMean == FutInv => Fut!ResultIsComposition
  <1> SUFFICES ASSUME FutInv PROVE Fut!ResultIsComposition
    OBVIOUS
  <1> DEFINE m == Fut!Meaning
             Wrong == {s \in DOMAIN states : states[s].try # Fut!Empty /\ states[s].try # m[s]}
  <1>1. \A s \in DOMAIN states : m[s] = MeaningFrom(m, s)
    BY MeaningExists
  <1>2. DOMAIN states = 1..Len(states) /\ \A s \in DOMAIN states : states[s] \in SharedState
    BY DEF FutInv, FutTypeOK
  <1> HIDE DEF m
  <1>3. ASSUME NEW s \in Wrong, \A r \in Wrong : s <= r PROVE FALSE
    <2>1. Fut!Chained(s) # {}
      BY <1>1, <1>3 DEF MeaningFrom
    <2>2. PICK r \in Fut!Chained(s) : r = CHOOSE q \in Fut!Chained(s) : TRUE
      BY <2>1
    <2>3. /\ r \in DOMAIN states /\ s \in DOMAIN states /\ states[r].to = s
          /\ ~Forwards(r) /\ states[r].fn \in Fut!Functions
      BY <2>2, <1>2 DEF Fut!Chained, Fut!Sources, Forwards, SharedState
    <2>4. r < s /\ r \notin Wrong
      BY <2>3, <1>2, <1>3 DEF FutInv, Links
    <2>5. states[r].ran /\ states[r].try # Fut!Empty /\ s # 0
      BY <2>3, <1>2, <1>3 DEF FutInv, PassedOn
    <2>6. m[r] = states[r].try
      BY <2>3, <2>4, <2>5
    <2> DEFINE returned == {i \in Fut!Sources(s) : states[i].fn = Fut!Forward}
               fn == states[r].fn
    <2>7. m[s] = IF m[r] = Fut!Empty THEN Fut!Empty
                 ELSE IF m[r].is = "error" /\ ~fn.isTry THEN m[r]
                 ELSE CASE fn.does \in {"throw", "failed"} -> Fut!Error(r)
                        [] fn.does \in {"value", "ready"}  -> Fut!Value(r)
                        [] fn.does = "promise" ->
                             IF returned = {} THEN Fut!Empty ELSE m[CHOOSE i \in returned : TRUE]
      BY <1>1, <2>1, <2>2, <2>3 DEF MeaningFrom
    <2>8. fn.does \in {"value", "throw", "promise", "ready", "failed"}
      BY <2>3 DEF Fut!Functions
    <2>9. CASE ~Stands(r)
      <3>1. states[s].try = Outcome(r)
        BY <2>3, <2>5, <2>9 DEF FutInv, PassedOn
      <3>2. m[s] = Outcome(r)
        BY <2>5, <2>6, <2>7, <2>8, <2>9 DEF Outcome, Stands, Fut!Skips
      <3> QED
        BY <3>1, <3>2, <1>3
    <2>10. CASE Stands(r)
      <3>1. PICK j \in DOMAIN states : Forwards(j) /\ states[j].to = s
        BY <2>3, <2>10 DEF FutInv, PassedOn
      <3>2. returned # {}
        BY <3>1 DEF Fut!Sources, Forwards
      <3>3. PICK i \in returned : i = CHOOSE h \in returned : TRUE
        BY <3>2
      <3>4. i \in DOMAIN states /\ Forwards(i) /\ states[i].to = s
        BY <3>3 DEF Fut!Sources, Forwards
      <3>5. Fut!Chained(i) = {}
        BY <3>4, <2>5 DEF Fut!Chained, Fut!Sources, FutInv, Links
      <3>6. m[i] = states[i].try
        BY <3>4, <3>5, <1>1 DEF MeaningFrom
      <3>7. states[s].try = states[i].try
        BY <3>4, <2>5, <1>3 DEF FutInv, PassedOn
      <3>8. m[s] = m[i]
        BY <2>5, <2>6, <2>7, <2>10, <3>2, <3>3 DEF Stands, Fut!Skips
      <3> QED
        BY <3>6, <3>7, <3>8, <1>3
    <2> QED
      BY <2>9, <2>10
  <1>4. Wrong = {}
    <2>1. Wrong \in SUBSET Nat
      BY <1>2
    <2> QED
      BY <2>1, <1>3, LeastNumber
  <1> QED
    BY <1>4 DEF Fut!ResultIsComposition, m

(* Results arrive at a promise that was not set, so that nothing that has    *)
(* run loses what it has passed on.                                          *)
LEMMA SetsResult == ASSUME FutInv, NEW s \in DOMAIN states, Fut!SetResult(s) PROVE FutInv'
  <1>1. PICK t \in Tries \ {Fut!Empty} : states' = [states EXCEPT ![s].try = t]
    <2>1. s \in Nat
      BY DEF FutInv, FutTypeOK
    <2>2. PICK t \in {Fut!Value(s), Fut!Error(s)} : states' = [states EXCEPT ![s].try = t]
      BY DEF Fut!SetResult
    <2>3. t \in Tries \ {Fut!Empty}
      BY <2>1 DEF Fut!Value, Fut!Error, Fut!Empty, Tries
    <2> QED
      BY <2>2, <2>3
  <1>2. /\ DOMAIN states = 1..Len(states) /\ Len(states) \in Nat
        /\ \A r \in DOMAIN states : states[r] \in SharedState
    BY DEF FutInv, FutTypeOK
  <1>3. /\ DOMAIN states' = DOMAIN states
        /\ \A r \in DOMAIN states : r # s => states'[r] = states[r]
        /\ states'[s] = [states[s] EXCEPT !.try = t]
    BY <1>1
  <1>4. /\ states'[s] \in SharedState /\ states'[s].try = t
        /\ states'[s].to = states[s].to /\ states'[s].fn = states[s].fn
        /\ states'[s].ran = states[s].ran
    BY <1>2, <1>3 DEF SharedState
  <1>5. states' \in Seq(SharedState) /\ Len(states') = Len(states)
    <2>1. \A r \in 1..Len(states) : states'[r] \in SharedState
      BY <1>2, <1>3, <1>4
    <2>2. states' = [r \in 1..Len(states) |-> states'[r]]
      BY <1>1, <1>2
    <2> QED
      BY <2>1, <2>2, <1>2
  <1>6. /\ states[s].try = Fut!Empty /\ \A r \in DOMAIN states : states[r].to # s
        /\ UNCHANGED future
    BY DEF Fut!SetResult, Fut!Owned, Fut!Sources
  <1>7. FutTypeOK' /\ Links'
    <2>1. \A r \in DOMAIN states : /\ states'[r].to = states[r].to /\ states'[r].fn = states[r].fn
                                   /\ states'[r].ran = states[r].ran
      BY <1>3, <1>4
    <2>2. \A r \in DOMAIN states : Forwards(r)' <=> Forwards(r)
      BY <2>1 DEF Forwards
    <2>3. FutTypeOK'
      BY <1>5, <1>6 DEF FutInv, FutTypeOK
    <2>4. Links'
      BY <2>1, <2>2, <1>3, <1>5, <1>6 DEF FutInv, Links
    <2> QED
      BY <2>3, <2>4
  <1>8. ~states[s].ran
    BY <1>6 DEF FutInv, PassedOn
  <1>9. ASSUME NEW r \in DOMAIN states
        PROVE  /\ Forwards(r)' <=> Forwards(r)
               /\ Stands(r)' <=> Stands(r)
               /\ states'[r].ran <=> states[r].ran
               /\ states'[r].to = states[r].to
               /\ states[r].ran => Outcome(r)' = Outcome(r) /\ states'[r].try = states[r].try
               /\ states[r].to # 0 => states'[states[r].to] = states[states[r].to]
    <2>1. states[r].to # 0 => states[r].to \in DOMAIN states /\ states[r].to # s
      BY <1>2, <1>6 DEF FutInv, Links, SharedState
    <2>2. CASE r = s
      BY <2>1, <2>2, <1>3, <1>4, <1>8 DEF Forwards, Stands
    <2>3. CASE r # s
      BY <2>1, <2>3, <1>3 DEF Forwards, Stands, Outcome, Fut!Skips
    <2> QED
      BY <2>2, <2>3
  <1>10. PassedOn'
    BY <1>3, <1>9 DEF FutInv, PassedOn, Links
  <1> QED
    BY <1>7, <1>10 DEF FutInv

(* A continuation that sets its promise. *)
LEMMA Sets ==
  ASSUME FutInv, NEW s \in DOMAIN states, Fut!Runs(s), NEW t \in Tries \ {Fut!Empty}, Fut!Sets(s, t),
         Forwards(s) => t = states[s].try,
         ~Forwards(s) => t = Outcome(s) /\ (Fut!Skips(s) \/ states[s].fn.does # "promise")
  PROVE  FutInv'
  <1> DEFINE d == states[s].to
  <1>1. /\ DOMAIN states = 1..Len(states) /\ Len(states) \in Nat
        /\ \A r \in DOMAIN states : states[r] \in SharedState
    BY DEF FutInv, FutTypeOK
  <1>2. /\ d # 0 /\ ~states[s].ran /\ states[s].try # Fut!Empty /\ UNCHANGED future
        /\ d \in DOMAIN states
    BY <1>1 DEF Fut!Runs, FutInv, Links, SharedState
  <1>3. d # s /\ states[d].try = Fut!Empty /\ ~states[d].ran
    BY <1>1, <1>2 DEF FutInv, Links, PassedOn
  <1>4. states' = [states EXCEPT ![s].ran = TRUE, ![d].try = t]
    BY DEF Fut!Sets
  <1> HIDE DEF d
  <1>5. /\ DOMAIN states' = DOMAIN states
        /\ \A r \in DOMAIN states : r # s /\ r # d => states'[r] = states[r]
        /\ states'[s] = [states[s] EXCEPT !.ran = TRUE]
        /\ states'[d] = [states[d] EXCEPT !.try = t]
    BY <1>2, <1>3, <1>4
  <1>6. /\ states'[s] \in SharedState /\ states'[s].try = states[s].try
        /\ states'[s].to = states[s].to /\ states'[s].fn = states[s].fn /\ states'[s].ran = TRUE
    BY <1>1, <1>5 DEF SharedState
  <1>7. /\ states'[d] \in SharedState /\ states'[d].try = t
        /\ states'[d].to = states[d].to /\ states'[d].fn = states[d].fn
        /\ states'[d].ran = states[d].ran
    BY <1>1, <1>2, <1>5 DEF SharedState
  <1>8. states' \in Seq(SharedState) /\ Len(states') = Len(states)
    <2>1. \A r \in 1..Len(states) : states'[r] \in SharedState
      BY <1>1, <1>5, <1>6, <1>7
    <2>2. states' = [r \in 1..Len(states) |-> states'[r]]
      BY <1>1, <1>4
    <2> QED
      BY <2>1, <2>2, <1>1
  <1>9. ASSUME NEW r \in DOMAIN states
        PROVE  /\ states'[r].to = states[r].to /\ states'[r].fn = states[r].fn
               /\ states'[r].ran <=> states[r].ran \/ r = s
               /\ r # d => states'[r].try = states[r].try
               /\ states[r].ran /\ r # s => r # d
    <2>1. CASE r = s
      BY <2>1, <1>3, <1>6
    <2>2. CASE r = d
      BY <2>2, <1>3, <1>7
    <2>3. CASE r # s /\ r # d
      BY <2>3, <1>5
    <2> QED
      BY <2>1, <2>2, <2>3
  <1>11. \A r \in DOMAIN states : Forwards(r)' <=> Forwards(r)
    BY <1>9 DEF Forwards
  <1>10. FutTypeOK' /\ Links'
    <2>1. FutTypeOK'
      BY <1>2, <1>8 DEF FutInv, FutTypeOK
    <2>2. states[s].to # 0
      BY <1>2 DEF d
    <2>4. /\ \A r \in DOMAIN states : states'[r].to = states[r].to
          /\ \A r \in DOMAIN states : states[r].to = 0 => (states'[r].ran <=> states[r].ran)
          /\ DOMAIN states' = DOMAIN states /\ Len(states') = Len(states) /\ future' = future
      BY <2>2, <1>2, <1>5, <1>8, <1>9
    <2>3. Links'
      BY <2>4, <1>11 DEF FutInv, Links
    <2> QED
      BY <2>1, <2>3
  <1>12. Forwards(s) => \A r \in DOMAIN states : r # s /\ states[r].to = d => ~Forwards(r) /\ Stands(r)
    BY <1>2 DEF FutInv, Links, PassedOn, d
  <1>13. ~Forwards(s) => \A r \in DOMAIN states : r # s => states[r].to # d
    BY <1>2 DEF FutInv, PassedOn, d, Stands
  <1>14. ~Forwards(s) => ~Stands(s)' /\ Outcome(s)' = t
    BY <1>3, <1>6 DEF Stands, Outcome, Fut!Skips
  <1>15. ASSUME NEW r \in DOMAIN states, r # s
         PROVE  /\ Stands(r)' <=> Stands(r)
                /\ states[r].ran => Outcome(r)' = Outcome(r) /\ states'[r].try = states[r].try
    BY <1>9, <1>15 DEF Stands, Outcome, Fut!Skips
  <1>16. ASSUME NEW r \in DOMAIN states
         PROVE  /\ states'[r].ran => states'[r].try # Fut!Empty
                /\ states'[r].to # 0 /\ ~states'[r].ran => states'[states'[r].to].try = Fut!Empty
                /\ Forwards(r)' /\ states'[r].ran => states'[states'[r].to].try = states'[r].try
                /\ ~Forwards(r)' /\ ~Stands(r)' =>
                     /\ states'[r].ran => states'[states'[r].to].try = Outcome(r)'
                     /\ \A q \in DOMAIN states : states'[q].to = states'[r].to => q = r
                /\ ~Forwards(r)' /\ Stands(r)' =>
                     \E q \in DOMAIN states : Forwards(q)' /\ states'[q].to = states'[r].to
    <2>1. CASE r = s
      <3>1. states'[d].try = t /\ states'[s].to = d
        BY <1>6, <1>7 DEF d
      <3> QED
        BY <2>1, <3>1, <1>2, <1>3, <1>6, <1>9, <1>11, <1>13, <1>14 DEF FutInv, PassedOn
    <2>2. CASE r # s /\ states[r].to = d
      <3>1. ~Forwards(r) /\ Stands(r) /\ states[r].ran
        BY <2>2, <1>12, <1>13 DEF Stands
      <3>2. Stands(r)' /\ ~Forwards(r)' /\ states'[r].try # Fut!Empty /\ states'[r].ran
        BY <2>2, <3>1, <1>11, <1>15, <1>9 DEF FutInv, PassedOn
      <3>3. PICK q \in DOMAIN states : Forwards(q) /\ states[q].to = states[r].to
        BY <3>1 DEF FutInv, PassedOn
      <3>4. Forwards(q)' /\ states'[q].to = states'[r].to
        BY <3>3, <1>9, <1>11
      <3> QED
        BY <3>2, <3>4
    <2>3. CASE r # s /\ states[r].to # d
      <3>1. states[r].to # 0 => states'[states[r].to].try = states[states[r].to].try
        BY <2>3, <1>1, <1>9 DEF FutInv, Links, SharedState
      <3>2. ~Forwards(r) => states[r].to # 0
        BY DEF FutInv, Links
      <3>3. states[r].ran => states[r].to # 0
        BY DEF FutInv, Links
      <3>4. /\ states'[r].ran <=> states[r].ran
            /\ states'[r].to = states[r].to
        BY <2>3, <1>9, <1>1 DEF SharedState
      <3>5. \A q \in DOMAIN states : states'[q].to = states[q].to
        BY <1>9
      <3> QED
        BY <2>3, <3>1, <3>2, <3>3, <3>4, <3>5, <1>11, <1>15 DEF FutInv, PassedOn
    <2> QED
      BY <2>1, <2>2, <2>3
  <1>17. PassedOn'
    BY <1>5, <1>16 DEF PassedOn
  <1> QED
    BY <1>10, <1>17 DEF FutInv

(* The new state that a future gets when it is made ready or returned.       *)
LEMMA Appends ==
  ASSUME FutInv, NEW e \in SharedState, e.fn = Fut!Forward, ~e.ran, e.try = Fut!Empty,
         NEW s \in 0..Len(states),
         s = 0 => e.to = 0 /\ states' = Append(states, e) /\ future' = Fut!Shared(Len(states) + 1),
         s # 0 => /\ states' = Append([states EXCEPT ![s].ran = TRUE], e) /\ UNCHANGED future
                  /\ Fut!Runs(s) /\ ~Fut!Skips(s) /\ states[s].fn.does = "promise"
                  /\ ~Forwards(s) /\ e.to = states[s].to
  PROVE  FutInv'
  <1> DEFINE n == Len(states)
  <1>1. /\ DOMAIN states = 1..n /\ n \in Nat
        /\ \A r \in DOMAIN states : states[r] \in SharedState
    BY DEF FutInv, FutTypeOK
  <1>2. \A r \in DOMAIN states : [states[r] EXCEPT !.ran = TRUE] \in SharedState
    BY <1>1 DEF SharedState
  <1>3. PICK old : /\ old = IF s = 0 THEN states ELSE [states EXCEPT ![s].ran = TRUE]
                   /\ old \in Seq(SharedState) /\ Len(old) = n /\ states' = Append(old, e)
    <2>1. CASE s = 0
      BY <2>1 DEF FutInv, FutTypeOK
    <2>2. CASE s # 0
      <3>1. [states EXCEPT ![s].ran = TRUE] \in Seq(SharedState)
        BY <2>2, <1>1, <1>2 DEF FutInv, FutTypeOK
      <3>2. DOMAIN [states EXCEPT ![s].ran = TRUE] = 1..n
        BY <1>1
      <3>3. Len([states EXCEPT ![s].ran = TRUE]) = n
        BY <3>1, <3>2, <1>1
      <3>4. states' = Append([states EXCEPT ![s].ran = TRUE], e)
        BY <2>2
      <3> QED
        BY <2>2, <3>1, <3>3, <3>4, Zenon
    <2> QED
      BY <2>1, <2>2
  <1>4. /\ states' \in Seq(SharedState) /\ Len(states') = n + 1 /\ DOMAIN states' = 1..(n + 1)
        /\ states'[n + 1] = e /\ \A r \in 1..n : states'[r] = old[r]
    BY <1>1, <1>3
  <1>5. ASSUME NEW r \in 1..n
        PROVE  /\ states'[r].to = states[r].to /\ states'[r].fn = states[r].fn
               /\ states'[r].try = states[r].try
               /\ states'[r].ran <=> states[r].ran \/ r = s
    <2>1. CASE r = s
      <3>1. states'[r] = [states[r] EXCEPT !.ran = TRUE]
        BY <2>1, <1>1, <1>3, <1>4
      <3> QED
        BY <2>1, <3>1, <1>1 DEF SharedState
    <2>2. CASE r # s
      <3>1. states'[r] = states[r]
        BY <2>2, <1>1, <1>3, <1>4
      <3> QED
        BY <2>2, <3>1, <1>1 DEF SharedState
    <2> QED
      BY <2>1, <2>2
  <1>6. s # 0 => /\ states[s].to # 0 /\ ~states[s].ran /\ states[s].try # Fut!Empty
                 /\ ~Forwards(s) /\ ~Stands(s) /\ s \in 1..n
    BY <1>1 DEF Fut!Runs, Stands
  <1>7. s # 0 => \A r \in 1..n : states[r].to = states[s].to => r = s
    BY <1>1, <1>6 DEF FutInv, PassedOn
  <1>8. \A r \in 1..n : states[r].to \in 0..n
    BY <1>1 DEF FutInv, Links, SharedState
  <1>9. e.to \in 0..n
    BY <1>8, <1>6
  <1>a. \A r \in 1..n : (Forwards(r)' <=> Forwards(r)) /\ (Fut!Skips(r)' <=> Fut!Skips(r))
    BY <1>5 DEF Forwards, Fut!Skips
  <1>b. PICK m \in 1..(n + 1) : m = n + 1 /\ m \notin 1..n
    BY <1>1
  <1>c. states'[m] = e /\ Forwards(m)'
    BY <1>4, <1>b DEF Forwards
  <1>10. \A r \in 1..n : (Forwards(r)' <=> Forwards(r)) /\ (Fut!Skips(r)' <=> Fut!Skips(r))
    BY <1>a
  <1>11. FutTypeOK'
    <2>1. CASE s = 0
      BY <2>1, <1>1, <1>4 DEF FutTypeOK, Fut!Shared, Fut!Empty, Tries
    <2>2. CASE s # 0
      BY <2>2, <1>4 DEF FutTypeOK, FutInv
    <2> QED
      BY <2>1, <2>2
  <1>12. Links'
    <2>1. ASSUME NEW r \in 1..(n + 1)
          PROVE  /\ states'[r].to <= n + 1
                 /\ states'[r].to = 0 => Forwards(r)' /\ ~states'[r].ran
                 /\ ~Forwards(r)' => r < states'[r].to
                 /\ Forwards(r)' /\ states'[r].to # 0 =>
                      \A q \in 1..(n + 1) : states'[q].to # r
      <3>1. CASE r = m
        <4>1. states'[r].to <= n + 1
          BY <3>1, <1>1, <1>9, <1>c
        <4>2. \A q \in 1..(n + 1) : states'[q].to # r
          BY <3>1, <1>1, <1>4, <1>5, <1>8, <1>9, <1>b
        <4> QED
          BY <3>1, <4>1, <4>2, <1>c
      <3>2. CASE r \in 1..n
        <4>1. /\ states'[r].to <= n + 1
              /\ states'[r].to = 0 => Forwards(r)' /\ ~states'[r].ran
              /\ ~Forwards(r)' => r < states'[r].to
          BY <3>2, <1>1, <1>5, <1>6, <1>8, <1>10 DEF FutInv, Links
        <4>2. ASSUME Forwards(r)', states'[r].to # 0, NEW q \in 1..n PROVE states'[q].to # r
          BY <4>2, <3>2, <1>1, <1>5, <1>10 DEF FutInv, Links
        <4>3. ASSUME Forwards(r)', states'[r].to # 0 PROVE e.to # r
          BY <4>3, <3>2, <1>1, <1>5, <1>6, <1>10 DEF FutInv, Links
        <4> QED
          BY <4>1, <4>2, <4>3, <1>1, <1>4
      <3> QED
        BY <3>1, <3>2, <1>1, <1>b
    <2>2. ASSUME NEW q \in 1..(n + 1), NEW r \in 1..(n + 1),
                 q # r, states'[q].to = states'[r].to, states'[q].to # 0
          PROVE  Forwards(q)' <=> ~Forwards(r)'
      <3>1. CASE q \in 1..n /\ r \in 1..n
        BY <3>1, <2>2, <1>1, <1>5, <1>10 DEF FutInv, Links
      <3>2. CASE q = m /\ r \in 1..n
        BY <3>2, <2>2, <1>5, <1>6, <1>7, <1>10, <1>c
      <3>3. CASE q \in 1..n /\ r = m
        BY <3>3, <2>2, <1>5, <1>6, <1>7, <1>10, <1>c
      <3> QED
        BY <3>1, <3>2, <3>3, <2>2, <1>1, <1>b
    <2>3. future'.shared # 0 => future'.shared \in 1..(n + 1) /\ states'[future'.shared].to = 0
      BY <1>1, <1>4, <1>5 DEF FutInv, Links, Fut!Shared
    <2> QED
      BY <2>1, <2>2, <2>3, <1>4 DEF Links
  <1>13. PassedOn'
    <2>1. ASSUME NEW r \in 1..n, r # s
          PROVE  (Stands(r)' <=> Stands(r)) /\ Outcome(r)' = Outcome(r)
      BY <2>1, <1>5, <1>10 DEF Stands, Outcome
    <2>2. s # 0 => Stands(s)'
      BY <1>5, <1>6, <1>10 DEF Stands
    <2>3. ASSUME NEW r \in 1..(n + 1)
          PROVE  /\ states'[r].ran => states'[r].try # Fut!Empty
                 /\ states'[r].to # 0 /\ ~states'[r].ran => states'[states'[r].to].try = Fut!Empty
                 /\ Forwards(r)' /\ states'[r].ran => states'[states'[r].to].try = states'[r].try
                 /\ ~Forwards(r)' /\ ~Stands(r)' =>
                      /\ states'[r].ran => states'[states'[r].to].try = Outcome(r)'
                      /\ \A q \in 1..(n + 1) : states'[q].to = states'[r].to => q = r
                 /\ ~Forwards(r)' /\ Stands(r)' =>
                      \E q \in 1..(n + 1) : Forwards(q)' /\ states'[q].to = states'[r].to
      <3>1. CASE r = m
        <4>1. e.to # 0 => s # 0 /\ e.to \in 1..n
          BY <1>1, <1>9
        <4>2. e.to # 0 => states[e.to].try = Fut!Empty
          BY <4>1, <1>1, <1>6 DEF FutInv, PassedOn
        <4>3. e.to # 0 => states'[e.to].try = Fut!Empty
          BY <4>1, <4>2, <1>5
        <4> QED
          BY <3>1, <4>3, <1>c
      <3>2. CASE r = s
        <4>1. Stands(r)' /\ ~Forwards(r)' /\ states'[r].try # Fut!Empty /\ states'[r].ran
          BY <3>2, <2>2, <1>1, <1>5, <1>6, <1>10
        <4>2. Forwards(m)' /\ states'[m].to = states'[r].to
          BY <3>2, <1>1, <1>5, <1>6, <1>c
        <4> QED
          BY <4>1, <4>2
      <3>3. CASE r \in 1..n /\ r # s
        <4>1. /\ states'[r].to = states[r].to /\ states'[r].try = states[r].try
              /\ states'[r].ran <=> states[r].ran
          BY <3>3, <1>1, <1>5 DEF SharedState
        <4>2. states[r].to # 0 => states'[states[r].to].try = states[states[r].to].try
          BY <3>3, <1>5, <1>8
        <4>3. ~Forwards(r) \/ states[r].ran => states[r].to # 0
          BY <3>3, <1>1 DEF FutInv, Links
        <4>4. ~Forwards(r) => e.to # states[r].to
          BY <3>3, <4>3, <1>6, <1>7
        <4>5. ~Forwards(r) /\ ~Stands(r) =>
                \A q \in 1..(n + 1) : states'[q].to = states'[r].to => q = r
          <5>1. ~Forwards(r) /\ ~Stands(r) => \A q \in 1..n : states[q].to = states[r].to => q = r
            BY <3>3, <1>1 DEF FutInv, PassedOn
          <5> QED
            BY <5>1, <3>3, <4>1, <4>4, <1>1, <1>5, <1>b, <1>c
        <4>6. ~Forwards(r) /\ Stands(r) =>
                \E q \in 1..(n + 1) : Forwards(q)' /\ states'[q].to = states'[r].to
          BY <3>3, <4>1, <1>1, <1>5, <1>10 DEF FutInv, PassedOn
        <4> QED
          BY <3>3, <4>1, <4>2, <4>3, <4>5, <4>6, <2>1, <1>1, <1>10 DEF FutInv, PassedOn
      <3> QED
        BY <3>1, <3>2, <3>3, <1>1, <1>b
    <2> QED
      BY <2>3, <1>4 DEF PassedOn
  <1> QED
    BY <1>11, <1>12, <1>13 DEF FutInv

(* A function is chained to the state whose future is in hand, which nobody  *)
(* else can chain to.                                                        *)
LEMMA ChainsOn == ASSUME FutInv, NEW fn \in Fut!Functions, Fut!ThenShared(fn) PROVE FutInv'
  <1> DEFINE n == Len(states)
  <1>1. /\ DOMAIN states = 1..n /\ n \in Nat
        /\ \A r \in DOMAIN states : states[r] \in SharedState
    BY DEF FutInv, FutTypeOK
  <1>2. PICK m \in 1..(n + 1) : m = n + 1 /\ m \notin 1..n /\ m # 0
    BY <1>1
  <1>3. PICK f \in 1..n : f = future.shared
    BY <1>1 DEF Fut!ThenShared, FutInv, Links
  <1>4. states[f].to = 0 /\ Forwards(f) /\ ~states[f].ran
    BY <1>1, <1>3 DEF FutInv, Links
  <1>5. PICK old : /\ old = [states EXCEPT ![f].to = m, ![f].fn = fn]
                   /\ states' = Append(old, Fut!NewState)
    BY <1>2, <1>3 DEF Fut!ThenShared
  <1>6. /\ DOMAIN old = 1..n /\ \A r \in 1..n : r # f => old[r] = states[r]
        /\ old[f] = [states[f] EXCEPT !.to = m, !.fn = fn]
    BY <1>1, <1>5
  <1>7. /\ old[f] \in SharedState /\ old[f].to = m /\ old[f].fn = fn
        /\ old[f].try = states[f].try /\ old[f].ran = states[f].ran
    <2>1. states[f] \in SharedState /\ m \in Nat /\ fn \in Fut!Functions \union {Fut!Forward}
      BY <1>1, <1>2
    <2>2. old[f] = [try |-> states[f].try, to |-> m, fn |-> fn, ran |-> states[f].ran]
      BY <2>1, <1>6 DEF SharedState
    <2>3. states[f].try \in Tries /\ states[f].ran \in BOOLEAN
      BY <2>1 DEF SharedState
    <2> QED
      BY <2>1, <2>2, <2>3 DEF SharedState
  <1>8. old \in Seq(SharedState) /\ Len(old) = n
    <2>1. \A r \in 1..n : old[r] \in SharedState
      BY <1>1, <1>6, <1>7
    <2>2. old = [r \in 1..n |-> old[r]]
      BY <1>1, <1>5
    <2> QED
      BY <2>1, <2>2, <1>1
  <1>9. /\ Fut!NewState \in SharedState /\ Fut!NewState.to = 0 /\ Fut!NewState.try = Fut!Empty
        /\ Fut!NewState.fn = Fut!Forward /\ ~Fut!NewState.ran
    BY DEF Fut!NewState, SharedState, Tries, Fut!Empty
  <1>10. /\ states' \in Seq(SharedState) /\ Len(states') = m /\ DOMAIN states' = 1..m
         /\ states'[m] = Fut!NewState /\ \A r \in 1..n : states'[r] = old[r]
    BY <1>1, <1>2, <1>5, <1>8, <1>9
  <1>11. /\ \A r \in 1..n : r # f => states'[r] = states[r]
         /\ states'[f].to = m /\ states'[f].fn = fn
         /\ states'[f].try = states[f].try /\ ~states'[f].ran
    BY <1>4, <1>6, <1>7, <1>10
  <1>12. /\ ~Forwards(f)' /\ Forwards(m)' /\ ~Stands(f)'
         /\ \A r \in 1..n : r # f => (Forwards(r)' <=> Forwards(r))
    <2>1. fn # Fut!Forward
      BY DEF Fut!Functions, Fut!Forward
    <2> QED
      BY <2>1, <1>9, <1>10, <1>11 DEF Forwards, Stands
  <1>13. \A r \in 1..n : states[r].to \in 0..n
    BY <1>1 DEF FutInv, Links, SharedState
  <1>14. future'.shared = m /\ FutTypeOK'
    BY <1>2, <1>10 DEF Fut!ThenShared, Fut!Shared, FutTypeOK, Fut!Empty, Tries
  <1>15. Links'
    <2>1. ASSUME NEW r \in 1..m
          PROVE  /\ states'[r].to <= m
                 /\ states'[r].to = 0 => Forwards(r)' /\ ~states'[r].ran
                 /\ ~Forwards(r)' => r < states'[r].to
                 /\ Forwards(r)' /\ states'[r].to # 0 => \A q \in 1..m : states'[q].to # r
      <3>1. CASE r = m
        BY <3>1, <1>1, <1>2, <1>9, <1>10, <1>12
      <3>2. CASE r = f
        BY <3>2, <1>1, <1>2, <1>11, <1>12
      <3>3. CASE r \in 1..n /\ r # f
        <4>1. /\ states'[r].to = states[r].to /\ states[r].to <= m
              /\ states'[r].ran = states[r].ran
          BY <3>3, <1>1, <1>2, <1>11, <1>13
        <4>2. /\ states[r].to = 0 => Forwards(r) /\ ~states[r].ran
              /\ ~Forwards(r) => r < states[r].to
              /\ Forwards(r) /\ states[r].to # 0 => \A q \in 1..n : states[q].to # r
          BY <3>3, <1>1 DEF FutInv, Links
        <4>3. Forwards(r) /\ states[r].to # 0 => \A q \in 1..m : states'[q].to # r
          BY <3>3, <4>2, <1>1, <1>2, <1>9, <1>10, <1>11
        <4> QED
          BY <3>3, <4>1, <4>2, <4>3, <1>12
      <3> QED
        BY <3>1, <3>2, <3>3, <1>1, <1>2
    <2>2. ASSUME NEW q \in 1..m, NEW r \in 1..m,
                 q # r, states'[q].to = states'[r].to, states'[q].to # 0
          PROVE  Forwards(q)' <=> ~Forwards(r)'
      <3>1. q \in 1..n /\ r \in 1..n
        BY <2>2, <1>1, <1>2, <1>9, <1>10
      <3>2. q # f /\ r # f
        BY <3>1, <2>2, <1>1, <1>2, <1>11, <1>13
      <3> QED
        BY <3>1, <3>2, <2>2, <1>1, <1>11, <1>12 DEF FutInv, Links
    <2> QED
      BY <2>1, <2>2, <1>2, <1>9, <1>10, <1>14 DEF Links
  <1>16. PassedOn'
    <2>1. ASSUME NEW r \in 1..m
          PROVE  /\ states'[r].ran => states'[r].try # Fut!Empty
                 /\ states'[r].to # 0 /\ ~states'[r].ran => states'[states'[r].to].try = Fut!Empty
                 /\ Forwards(r)' /\ states'[r].ran => states'[states'[r].to].try = states'[r].try
                 /\ ~Forwards(r)' /\ ~Stands(r)' =>
                      /\ states'[r].ran => states'[states'[r].to].try = Outcome(r)'
                      /\ \A q \in 1..m : states'[q].to = states'[r].to => q = r
                 /\ ~Forwards(r)' /\ Stands(r)' =>
                      \E q \in 1..m : Forwards(q)' /\ states'[q].to = states'[r].to
      <3>1. CASE r = m
        BY <3>1, <1>9, <1>10, <1>12
      <3>2. CASE r = f
        <4>1. \A q \in 1..m : states'[q].to = m => q = f
          BY <1>1, <1>2, <1>9, <1>10, <1>11, <1>13
        <4> QED
          BY <3>2, <4>1, <1>9, <1>10, <1>11, <1>12
      <3>3. CASE r \in 1..n /\ r # f
        <4>1. /\ states'[r] = states[r] /\ (Stands(r)' <=> Stands(r)) /\ Outcome(r)' = Outcome(r)
              /\ Forwards(r)' <=> Forwards(r)
          BY <3>3, <1>11, <1>12 DEF Stands, Outcome, Fut!Skips
        <4>2. states[r].to # 0 => states'[states[r].to].try = states[states[r].to].try
          BY <3>3, <1>11, <1>13
        <4>3. ~Forwards(r) \/ states[r].ran => states[r].to # 0
          BY <3>3, <1>1 DEF FutInv, Links
        <4>4. ASSUME ~Forwards(r), ~Stands(r), NEW q \in 1..m, states'[q].to = states[r].to
              PROVE  q = r
          <5>1. q # m /\ q # f
            BY <4>3, <4>4, <3>3, <1>1, <1>2, <1>9, <1>10, <1>11, <1>13
          <5>2. q \in 1..n /\ states'[q] = states[q]
            BY <5>1, <1>1, <1>2, <1>11
          <5> QED
            BY <5>2, <4>4, <3>3, <1>1 DEF FutInv, PassedOn
        <4>5. ASSUME ~Forwards(r), Stands(r)
              PROVE  \E q \in 1..m : Forwards(q)' /\ states'[q].to = states[r].to
          <5>1. PICK q \in 1..n : Forwards(q) /\ states[q].to = states[r].to
            BY <4>5, <3>3, <1>1 DEF FutInv, PassedOn
          <5>2. q # f /\ q \in 1..m
            BY <5>1, <4>3, <4>5, <1>1, <1>2, <1>4
          <5> QED
            BY <5>1, <5>2, <1>11, <1>12
        <4> QED
          BY <3>3, <4>1, <4>2, <4>3, <4>4, <4>5, <1>1 DEF FutInv, PassedOn
      <3> QED
        BY <3>1, <3>2, <3>3, <1>1, <1>2
    <2> QED
      BY <2>1, <1>10 DEF PassedOn
  <1> QED
    BY <1>14, <1>15, <1>16 DEF FutInv

(* What leaves the states as they are, and the future, or lets go of it.     *)
LEMMA LetsGo ==
  ASSUME FutInv, UNCHANGED states, UNCHANGED future \/ future' \in {Fut!Local(t) : t \in Tries}
  PROVE  FutInv'
  <1>1. FutTypeOK' /\ Links'
    <2>1. UNCHANGED future \/ (future'.shared = 0 /\ future'.local \in Tries)
      BY DEF Fut!Local
    <2> QED
      BY <2>1 DEF FutInv, FutTypeOK, Links, Forwards
  <1>2. PassedOn'
    BY DEF FutInv, PassedOn, Forwards, Stands, Outcome, Fut!Skips
  <1> QED
    BY <1>1, <1>2 DEF FutInv

(* The two ways to chain. *)
LEMMA Chains ==
  ASSUME FutInv, NEW fn \in Fut!Functions, Fut!ThenShared(fn) \/ Fut!ThenLocal(fn)
  PROVE  FutInv'
  <1>1. CASE Fut!ThenShared(fn)
    BY <1>1, ChainsOn
  <1>2. CASE Fut!ThenLocal(fn)
    <2>1. CASE Fut!valid(future) /\ fn.does = "promise"
      <3>1. states' = Append(states, Fut!NewState) /\ future' = Fut!Shared(Len(states) + 1)
        BY <1>2, <2>1 DEF Fut!ThenLocal
      <3>2. /\ Fut!NewState \in SharedState /\ Fut!NewState.to = 0 /\ Fut!NewState.try = Fut!Empty
            /\ Fut!NewState.fn = Fut!Forward /\ ~Fut!NewState.ran
        BY DEF Fut!NewState, SharedState, Tries, Fut!Empty
      <3>3. 0 \in 0..Len(states)
        BY DEF FutInv, FutTypeOK
      <3> QED
        BY <3>1, <3>2, <3>3, Appends
    <2>2. CASE ~(Fut!valid(future) /\ fn.does = "promise")
      <3>1. UNCHANGED states /\ future' \in {Fut!Gone, Fut!Local(Fut!Error(0)), Fut!Local(Fut!Value(0))}
        BY <1>2, <2>2 DEF Fut!ThenLocal
      <3>2. Fut!Empty \in Tries /\ Fut!Error(0) \in Tries /\ Fut!Value(0) \in Tries
        BY DEF Fut!Empty, Fut!Error, Fut!Value, Tries
      <3> QED
        BY <3>1, <3>2, LetsGo DEF Fut!Gone
    <2> QED
      BY <2>1, <2>2
  <1> QED
    BY <1>1, <1>2

(* A continuation runs. *)
LEMMA ContinuationRuns == ASSUME FutInv, NEW s \in DOMAIN states, Fut!Run(s) PROVE FutInv'
  <1>1. /\ s \in Nat /\ s \in 0..Len(states) /\ s # 0 /\ states[s] \in SharedState
        /\ DOMAIN states = 1..Len(states)
    BY DEF FutInv, FutTypeOK
  <1>2. states[s].try \in Tries /\ Fut!Forward.isTry = TRUE /\ Fut!Forward.does = "forward"
    BY <1>1 DEF SharedState, Fut!Forward
  <1>3. Fut!Error(s) \in Tries \ {Fut!Empty} /\ Fut!Value(s) \in Tries \ {Fut!Empty}
    BY <1>1 DEF Fut!Error, Fut!Value, Fut!Empty, Tries
  <1>4. CASE Fut!RunSkipping(s)
    <2>1. /\ Fut!Runs(s) /\ Fut!Sets(s, states[s].try) /\ Fut!Skips(s)
          /\ states[s].try # Fut!Empty
      BY <1>4 DEF Fut!RunSkipping, Fut!Runs
    <2>2. ~Forwards(s) /\ Outcome(s) = states[s].try
      BY <2>1, <1>2 DEF Forwards, Fut!Skips, Outcome
    <2> QED
      BY <2>1, <2>2, <1>2, Sets
  <1>5. CASE Fut!RunFunction(s) \/ (Fut!RunReturningError(s) /\ UNCHANGED stopped)
    <2>1. PICK t \in {Fut!Error(s), Fut!Value(s)} : Fut!Runs(s) /\ Fut!Sets(s, t) /\ t = Outcome(s)
      BY <1>5 DEF Fut!RunFunction, Fut!RunReturningError, Outcome, Fut!Runs
    <2>2. ~Forwards(s) /\ states[s].fn.does # "promise"
      BY <1>5, <1>2 DEF Fut!RunFunction, Fut!RunReturningError, Forwards
    <2> QED
      BY <2>1, <2>2, <1>3, Sets
  <1>6. CASE Fut!RunReturningError(s) /\ stopped' # stopped
    <2>1. UNCHANGED <<states, future>>
      BY <1>6 DEF Fut!RunReturningError, Fut!Runs, Fut!Sets
    <2> QED
      BY <2>1, LetsGo
  <1>7. CASE Fut!RunForward(s)
    <2>1. /\ Fut!Runs(s) /\ Fut!Sets(s, states[s].try) /\ Forwards(s) /\ states[s].try # Fut!Empty
      BY <1>7 DEF Fut!RunForward, Fut!Runs, Forwards
    <2> QED
      BY <2>1, <1>2, Sets
  <1>8. CASE Fut!RunReturning(s)
    <2> DEFINE e == [Fut!NewState EXCEPT !.to = states[s].to]
    <2>1. /\ states' = Append([states EXCEPT ![s].ran = TRUE], e) /\ UNCHANGED future
          /\ Fut!Runs(s) /\ ~Fut!Skips(s) /\ states[s].fn.does = "promise"
      BY <1>8 DEF Fut!RunReturning, Fut!Runs
    <2>2. /\ e \in SharedState /\ e.fn = Fut!Forward /\ ~e.ran /\ e.try = Fut!Empty
          /\ e.to = states[s].to
      BY <1>1 DEF Fut!NewState, SharedState, Tries, Fut!Empty
    <2>3. ~Forwards(s)
      BY <2>1, <1>2 DEF Forwards
    <2> HIDE DEF e
    <2> QED
      BY <2>1, <2>2, <2>3, <1>1, Appends
  <1> QED
    BY <1>4, <1>5, <1>6, <1>7, <1>8 DEF Fut!Run

(* Every step of futures preserves the invariant. *)
LEMMA FutStep == FutInv /\ [Fut!Next]_futVars => FutInv'
  <1>1. ASSUME FutInv, UNCHANGED futVars PROVE FutInv'
    BY <1>1, LetsGo DEF futVars
  <1>2. ASSUME FutInv, Fut!Next PROVE FutInv'
    <2>1. CASE Fut!Get \/ Fut!CoAwait \/ Fut!UthreadAwait \/ Fut!CollectAll
      <3>1. UNCHANGED states /\ (UNCHANGED future \/ future' = Fut!Gone)
        BY <2>1 DEF Fut!Get, Fut!CoAwait, Fut!UthreadAwait, Fut!CollectAll, Fut!Take, Fut!Throw, Fut!Stop
      <3>2. Fut!Empty \in Tries
        BY DEF Fut!Empty, Tries
      <3> QED
        BY <3>1, <3>2, <1>2, LetsGo DEF Fut!Gone
    <2>2. ASSUME NEW fn \in Fut!Functions, Fut!ThenShared(fn) \/ Fut!ThenLocal(fn) PROVE FutInv'
      BY <2>2, <1>2, Chains
    <2>3. ASSUME NEW s \in DOMAIN states, Fut!SetResult(s) \/ Fut!Run(s) PROVE FutInv'
      BY <2>3, <1>2, SetsResult, ContinuationRuns
    <2> QED
      BY <1>2, <2>1, <2>2, <2>3 DEF Fut!Next
  <1> QED
    BY <1>1, <1>2

(* What a step of the composition is to the futures. *)
LEMMA FutRuns ==
  /\ MCInit => Fut!Init \/ FutAtRest
  /\ [MCNext]_<<component, vars, allVars, anyVars, lazyVars, genVars, futVars>> => [Fut!Next]_futVars
  BY DEF MCInit, MCNext, futVars

(* Where futures begin, and where they are while others run. *)
LEMMA FutInit == Fut!Init \/ FutAtRest => FutInv
  <1>1. ASSUME states = <<>>, future \in {Fut!Local(t) : t \in Tries} PROVE FutInv
    <2>1. /\ states \in Seq(SharedState) /\ DOMAIN states = {}
          /\ future.shared = 0 /\ future.local \in Tries
      BY <1>1 DEF Fut!Local
    <2> QED
      BY <2>1 DEF FutInv, FutTypeOK, Links, PassedOn
  <1>2. ASSUME states = <<Fut!NewState>>, future = Fut!Shared(1) PROVE FutInv
    <2>1. /\ Fut!NewState \in SharedState /\ Fut!NewState.to = 0 /\ Fut!NewState.try = Fut!Empty
          /\ Fut!NewState.fn = Fut!Forward /\ ~Fut!NewState.ran
      BY DEF Fut!NewState, SharedState, Tries, Fut!Empty
    <2>2. /\ states \in Seq(SharedState) /\ Len(states) = 1 /\ DOMAIN states = {1}
          /\ states[1] = Fut!NewState
      BY <1>2, <2>1
    <2>3. future.shared = 1 /\ future.local \in Tries
      BY <1>2 DEF Fut!Shared, Fut!Empty, Tries
    <2> QED
      BY <2>1, <2>2, <2>3 DEF FutInv, FutTypeOK, Links, PassedOn, Forwards, Stands
  <1>3. Fut!Empty \in Tries /\ Fut!Error(0) \in Tries /\ Fut!Value(0) \in Tries
    BY DEF Fut!Empty, Fut!Error, Fut!Value, Tries
  <1> QED
    BY <1>1, <1>2, <1>3 DEF Fut!Init, FutAtRest, Fut!Gone

(* Future: whatever is chained to a future, in whichever order promises are  *)
(* set and continuations run, a result is that of the composed functions.    *)
THEOREM ResultsCompose == MCSpec => []ResultIsComposition
  <1>1. MCInit => FutInv
    BY FutRuns, FutInit
  <1>2. FutInv /\ [MCNext]_<<component, vars, allVars, anyVars, lazyVars, genVars, futVars>> => FutInv'
    BY FutRuns, FutStep
  <1>3. FutInv => ResultIsComposition
    BY ResultsMean DEF ResultIsComposition
  <1> QED
    BY <1>1, <1>2, <1>3, PTL DEF MCSpec
-----------------------------------------------------------------------------
(* Generator: what the frames on the stack have done.                        *)

Element == Nat \X Nat
Seen == [seen : Seq(Element), threw : BOOLEAN]

(* Places from which the meaning of p is made: those of later generators,    *)
(* and earlier ones of its own.                                              *)
Below(q, p) == q[1] > p[1] \/ (q[1] = p[1] /\ q[2] < p[2])

(* What holds of a place if it holds of those below it holds of every place. *)
LEMMA PlacesInduction ==
  ASSUME Gen!IsProgram(bodies), NEW Q \in SUBSET Gen!Places,
         \A p \in Gen!Places : (\A q \in Gen!Places : Below(q, p) => q \in Q) => p \in Q
  PROVE  Q = Gen!Places
  <1> DEFINE n == Len(bodies)
             Wrong == {m \in 0..n : \E p \in Gen!Places \ Q : p[1] = n - m}
  <1>1. n \in Nat /\ DOMAIN bodies = 1..n /\ \A g \in 1..n : Len(bodies[g]) \in Nat
    BY DEF Gen!IsProgram
  <1>2. \A p \in Gen!Places : p[1] \in 1..n /\ p[2] \in Nat
    BY <1>1 DEF Gen!Places
  <1> HIDE DEF n
  <1>3. SUFFICES ASSUME Gen!Places \ Q # {} PROVE FALSE
    OBVIOUS
  <1>4. PICK p \in Gen!Places \ Q : TRUE
    BY <1>3
  <1>5. Wrong \in SUBSET Nat /\ Wrong # {}
    <2>1. n - p[1] \in 0..n /\ p[1] = n - (n - p[1])
      BY <1>1, <1>2, <1>4
    <2> QED
      BY <2>1, <1>1, <1>4
  <1>6. PICK m \in Wrong : \A k \in Wrong : m <= k
    BY <1>5, LeastNumber
  <1> DEFINE U == {q[2] : q \in {r \in Gen!Places \ Q : r[1] = n - m}}
  <1>7. U \in SUBSET Nat /\ U # {}
    BY <1>2, <1>6
  <1>8. PICK i \in U : \A k \in U : i <= k
    BY <1>7, LeastNumber
  <1>9. PICK r \in Gen!Places \ Q : r[1] = n - m /\ r[2] = i
    BY <1>8
  <1>10. ASSUME NEW q \in Gen!Places, Below(q, r) PROVE q \in Q
    <2>1. CASE q[1] > r[1]
      <3>1. n - q[1] \in 0..n /\ n - q[1] < m /\ q[1] = n - (n - q[1]) /\ m \in 0..n
        BY <2>1, <1>1, <1>2, <1>9, <1>6
      <3>2. n - q[1] \notin Wrong
        <4> HIDE DEF Wrong
        <4>1. n - q[1] \in Wrong => m <= n - q[1]
          BY <1>6
        <4> QED
          BY <3>1, <4>1, <1>1
      <3> QED
        BY <3>1, <3>2
    <2>2. CASE q[1] = r[1] /\ q[2] < r[2]
      <3>1. q[2] \notin U
        <4> HIDE DEF U
        <4>1. q[2] \in U => i <= q[2]
          BY <1>8
        <4> QED
          BY <2>2, <4>1, <1>2, <1>9
      <3> QED
        BY <2>2, <3>1, <1>9
    <2> QED
      BY <1>10, <2>1, <2>2 DEF Below
  <1> QED
    BY <1>9, <1>10

(* The definition of what a program means, with the meanings of others f.    *)
SeenFrom(f, p) ==
  LET sofar == f[<<p[1], p[2] - 1>>]
      s == bodies[p[1]][p[2]]
      now == IF s.does = "nest" THEN f[<<s.g, Len(bodies[s.g])>>]
             ELSE [seen |-> IF s.does = "yield" THEN <<p>> ELSE <<>>, threw |-> s.does = "throw"]
  IN  IF p[2] = 0 THEN [seen |-> <<>>, threw |-> FALSE]
      ELSE IF sofar.threw THEN sofar
      ELSE [seen |-> sofar.seen \o now.seen, threw |-> now.threw /\ (s.does = "nest" => ~s.catches)]

(* A statement, and the places that its meaning is made from.                *)
LEMMA StatementAt ==
  ASSUME Gen!IsProgram(bodies), NEW g \in DOMAIN bodies, NEW i \in 1..Len(bodies[g]),
         NEW s, s = bodies[g][i]
  PROVE  /\ <<g, i>> \in Gen!Places /\ <<g, i - 1>> \in Gen!Places
         /\ Below(<<g, i - 1>>, <<g, i>>)
         /\ s.does \in {"yield", "throw", "nest"}
         /\ s.does = "nest" =>
              /\ s.catches \in BOOLEAN /\ s.g \in DOMAIN bodies /\ s.g > g
              /\ <<s.g, Len(bodies[s.g])>> \in Gen!Places
              /\ Below(<<s.g, Len(bodies[s.g])>>, <<g, i>>)
  <1>1. /\ DOMAIN bodies = 1..Len(bodies) /\ Len(bodies) \in Nat
        /\ \A h \in DOMAIN bodies : Len(bodies[h]) \in Nat /\ bodies[h] \in Seq(Gen!Statements(h, Len(bodies)))
    BY DEF Gen!IsProgram
  <1>2. /\ g \in Nat /\ i \in 0..Len(bodies[g]) /\ i - 1 \in 0..Len(bodies[g])
    BY <1>1
  <1>3. /\ <<g, i>> \in Gen!Places /\ <<g, i - 1>> \in Gen!Places
    BY <1>2 DEF Gen!Places
  <1>4. Below(<<g, i - 1>>, <<g, i>>)
    BY <1>2 DEF Below
  <1>5. s \in Gen!Statements(g, Len(bodies))
    BY <1>1
  <1>6. s.does \in {"yield", "throw", "nest"}
    BY <1>5 DEF Gen!Statements
  <1>7. ASSUME s.does = "nest"
        PROVE  s.catches \in BOOLEAN /\ s.g \in DOMAIN bodies /\ s.g > g
    <2>1. PICK h \in (g + 1)..Len(bodies), c \in BOOLEAN : s = [does |-> "nest", g |-> h, catches |-> c]
      BY <1>5, <1>7 DEF Gen!Statements
    <2> QED
      BY <2>1, <1>1, <1>2
  <1>8. ASSUME s.does = "nest"
        PROVE  /\ <<s.g, Len(bodies[s.g])>> \in Gen!Places
               /\ Below(<<s.g, Len(bodies[s.g])>>, <<g, i>>)
    <2>1. Len(bodies[s.g]) \in 0..Len(bodies[s.g])
      BY <1>7, <1>8, <1>1
    <2> QED
      BY <2>1, <1>7, <1>8 DEF Gen!Places, Below
  <1> QED
    BY <1>3, <1>4, <1>6, <1>7, <1>8

(* A meaning depends on those below only.                                    *)
LEMMA SameBelow ==
  ASSUME Gen!IsProgram(bodies), NEW p \in Gen!Places, NEW f, NEW h,
         \A q \in Gen!Places : Below(q, p) => f[q] = h[q]
  PROVE  SeenFrom(f, p) = SeenFrom(h, p)
  <1>0. PICK g \in DOMAIN bodies : p \in {<<g, i>> : i \in 0..Len(bodies[g])}
    BY DEF Gen!Places
  <1>1. PICK i \in 0..Len(bodies[g]) : p = <<g, i>>
    BY <1>0
  <1>2. p[1] = g /\ p[2] = i
    BY <1>1
  <1>3. CASE i = 0
    BY <1>2, <1>3 DEF SeenFrom
  <1>4. CASE i # 0
    <2>1. i \in 1..Len(bodies[g])
      <3>1. Len(bodies[g]) \in Nat
        BY DEF Gen!IsProgram
      <3> QED
        BY <1>4, <3>1
    <2>2. PICK s : s = bodies[g][i]
      OBVIOUS
    <2>3. f[<<g, i - 1>>] = h[<<g, i - 1>>]
      BY <2>1, <2>2, <1>1, StatementAt
    <2>4. s.does = "nest" => f[<<s.g, Len(bodies[s.g])>>] = h[<<s.g, Len(bodies[s.g])>>]
      BY <2>1, <2>2, <1>1, StatementAt
    <2> QED
      BY <1>2, <2>2, <2>3, <2>4 DEF SeenFrom
  <1> QED
    BY <1>3, <1>4

(* A program means something, because its nesting ends.                      *)
LEMMA ProgramMeans ==
  ASSUME Gen!IsProgram(bodies)
  PROVE  \A p \in Gen!Places : Gen!Meaning[p] = SeenFrom(Gen!Meaning, p)
  <1> DEFINE P == Gen!Places
             n == Len(bodies)
             Right(f, q) == f[q] = SeenFrom(f, q)
             Solves(f, p) == f = [q \in P |-> f[q]] /\ \A q \in P : ~Below(p, q) => Right(f, q)
             Q == {p \in P : \E f : Solves(f, p)}
  <1>1. /\ n \in Nat /\ n > 0 /\ DOMAIN bodies = 1..n
        /\ \A g \in 1..n : Len(bodies[g]) \in Nat
    BY DEF Gen!IsProgram
  <1>2. \A q \in P : q[1] \in 1..n /\ q[2] \in 0..Len(bodies[q[1]]) /\ q = <<q[1], q[2]>>
    BY <1>1 DEF Gen!Places
  <1>3. \A g \in 1..n : \A i \in 0..Len(bodies[g]) : <<g, i>> \in P
    BY <1>1 DEF Gen!Places
  <1> HIDE DEF P, n
  <1>4. ASSUME NEW p \in P, \A q \in P : Below(q, p) => q \in Q PROVE p \in Q
    <2>1. \E f : f = [q \in P |-> f[q]] /\ \A q \in P : Below(q, p) => Right(f, q)
      <3>1. ASSUME NEW r \in P, Below(r, p), \A q \in P : Below(q, p) => ~Below(r, q)
            PROVE  \E f : f = [q \in P |-> f[q]] /\ \A q \in P : Below(q, p) => Right(f, q)
        <4>1. PICK f : Solves(f, r)
          BY <3>1, <1>4
        <4> QED
          BY <4>1, <3>1
      <3>2. CASE p[2] # 0
        <4> DEFINE r == <<p[1], p[2] - 1>>
        <4>1. r \in P /\ Below(r, p) /\ \A q \in P : Below(q, p) => ~Below(r, q)
          BY <1>1, <1>2, <1>3, <3>2 DEF Below
        <4> QED
          BY <4>1, <3>1
      <3>3. CASE p[2] = 0 /\ p[1] # n
        <4> DEFINE r == <<p[1] + 1, Len(bodies[p[1] + 1])>>
        <4>1. p[1] + 1 \in 1..n
          BY <1>1, <1>2, <3>3
        <4>2. r \in P /\ Below(r, p)
          BY <4>1, <1>1, <1>2, <1>3, <3>3 DEF Below
        <4>3. ASSUME NEW q \in P, Below(q, p) PROVE ~Below(r, q)
          BY <4>1, <4>3, <1>1, <1>2, <3>3 DEF Below
        <4> QED
          BY <4>2, <4>3, <3>1
      <3>4. CASE p[2] = 0 /\ p[1] = n
        <4>1. \A q \in P : ~Below(q, p)
          BY <1>1, <1>2, <3>4 DEF Below
        <4> DEFINE f == [q \in P |-> 0]
        <4>2. f = [q \in P |-> f[q]]
          OBVIOUS
        <4> QED
          BY <4>1, <4>2
      <3> QED
        BY <3>2, <3>3, <3>4
    <2>2. PICK f : f = [q \in P |-> f[q]] /\ \A q \in P : Below(q, p) => Right(f, q)
      BY <2>1
    <2> DEFINE h == [q \in P |-> IF q = p THEN SeenFrom(f, p) ELSE f[q]]
    <2>3. h = [q \in P |-> h[q]] /\ h[p] = SeenFrom(f, p) /\ \A q \in P : q # p => h[q] = f[q]
      OBVIOUS
    <2> HIDE DEF h
    <2>4. ASSUME NEW q \in P, ~Below(p, q) PROVE Right(h, q)
      <3>1. \A r \in P : Below(r, q) => r # p
        BY <2>4
      <3>2. \A r \in P : Below(r, q) => f[r] = h[r]
        BY <3>1, <2>3
      <3>3. SeenFrom(f, q) = SeenFrom(h, q)
        <4> HIDE DEF Right
        <4> QED
          BY <3>2, SameBelow DEF P
      <3>4. q = p \/ Below(q, p)
        BY <2>4, <1>2 DEF Below
      <3>5. CASE q = p
        BY <3>5, <3>3, <2>3
      <3>6. CASE q # p
        BY <3>6, <3>4, <3>3, <2>2, <2>3
      <3> QED
        BY <3>5, <3>6
    <2>5. Solves(h, p)
      BY <2>3, <2>4
    <2> QED
      BY <2>5
  <1> HIDE DEF Q
  <1>5. Q = P
    <2>1. Q \in SUBSET P
      BY DEF Q
    <2> QED
      BY <2>1, <1>4, PlacesInduction DEF P
  <1> DEFINE last == <<1, Len(bodies[1])>>
  <1>6. last \in P /\ \A q \in P : ~Below(last, q)
    BY <1>1, <1>2, <1>3 DEF Below
  <1>7. PICK f : f = [q \in P |-> f[q]] /\ \A q \in P : f[q] = SeenFrom(f, q)
    BY <1>5, <1>6 DEF Q
  <1>8. f = [q \in P |-> SeenFrom(f, q)]
    BY <1>7
  <1>9. Gen!Meaning = CHOOSE h : h = [q \in P |-> SeenFrom(h, q)]
    BY DEF Gen!Meaning, SeenFrom, P
  <1>10. Gen!Meaning = [q \in P |-> SeenFrom(Gen!Meaning, q)]
    <2> DEFINE Fits(h) == h = [q \in P |-> SeenFrom(h, q)]
    <2>1. Fits(f)
      BY <1>8
    <2>2. Fits(CHOOSE h : Fits(h))
      BY <2>1
    <2> QED
      BY <2>2, <1>9
  <1> QED
    BY <1>10 DEF P

(* What the elements of a program are. *)
LEMMA MeaningTyped ==
  ASSUME Gen!IsProgram(bodies)
  PROVE  \A p \in Gen!Places : Gen!Meaning[p] \in Seen
  <1> DEFINE Q == {p \in Gen!Places : Gen!Meaning[p] \in Seen}
  <1>1. ASSUME NEW p \in Gen!Places, \A q \in Gen!Places : Below(q, p) => q \in Q
        PROVE  p \in Q
    <2>0. PICK g \in DOMAIN bodies : p \in {<<g, i>> : i \in 0..Len(bodies[g])}
      BY DEF Gen!Places
    <2>1. PICK i \in 0..Len(bodies[g]) : p = <<g, i>>
      BY <2>0
    <2>2. Gen!Meaning[p] = SeenFrom(Gen!Meaning, p) /\ p[1] = g /\ p[2] = i
      BY <2>1, ProgramMeans
    <2>3. CASE i = 0
      <3>1. [seen |-> <<>>, threw |-> FALSE] \in Seen
        BY DEF Seen
      <3>2. Gen!Meaning[p] = [seen |-> <<>>, threw |-> FALSE]
        BY <2>2, <2>3 DEF SeenFrom
      <3> QED
        BY <3>1, <3>2
    <2>4. CASE i # 0
      <3>1. i \in 1..Len(bodies[g]) /\ g \in Nat /\ i \in Nat
        <4>1. Len(bodies[g]) \in Nat /\ DOMAIN bodies = 1..Len(bodies)
          BY DEF Gen!IsProgram
        <4> QED
          BY <2>4, <4>1
      <3>2. PICK s : s = bodies[g][i]
        OBVIOUS
      <3>3. /\ s.does \in {"yield", "throw", "nest"}
            /\ Gen!Meaning[<<g, i - 1>>] \in Seen
            /\ s.does = "nest" => s.catches \in BOOLEAN /\ Gen!Meaning[<<s.g, Len(bodies[s.g])>>] \in Seen
        BY <3>1, <3>2, <2>1, <1>1, StatementAt
      <3>4. <<p>> \in Seq(Element) /\ <<>> \in Seq(Element)
        BY <2>1, <3>1 DEF Element
      <3> DEFINE now == IF s.does = "nest" THEN Gen!Meaning[<<s.g, Len(bodies[s.g])>>]
                        ELSE [seen |-> IF s.does = "yield" THEN <<p>> ELSE <<>>,
                              threw |-> s.does = "throw"]
                 sofar == Gen!Meaning[<<g, i - 1>>]
      <3>5. now \in Seen
        BY <3>3, <3>4 DEF Seen
      <3>6. Gen!Meaning[p] = IF sofar.threw THEN sofar
              ELSE [seen |-> sofar.seen \o now.seen,
                    threw |-> now.threw /\ (s.does = "nest" => ~s.catches)]
        BY <2>2, <2>4, <3>2 DEF SeenFrom
      <3>7. sofar \in Seen
        BY <3>3
      <3> HIDE DEF now, sofar
      <3>8. sofar.seen \o now.seen \in Seq(Element)
        BY <3>5, <3>7 DEF Seen
      <3>9. PICK b \in BOOLEAN : b = (now.threw /\ (s.does = "nest" => ~s.catches))
        OBVIOUS
      <3>10. [seen |-> sofar.seen \o now.seen, threw |-> b] \in Seen
        BY <3>8 DEF Seen
      <3>11. Gen!Meaning[p] = IF sofar.threw THEN sofar
                              ELSE [seen |-> sofar.seen \o now.seen, threw |-> b]
        BY <3>6, <3>9, Zenon
      <3> QED
        BY <3>7, <3>10, <3>11
    <2> QED
      BY <2>3, <2>4
  <1> HIDE DEF Q
  <1>2. Q \in SUBSET Gen!Places
    BY DEF Q
  <1>3. Q = Gen!Places
    BY <1>1, <1>2, PlacesInduction
  <1> QED
    BY <1>3 DEF Q

(* What statement s at place p adds to the meaning of those before it.       *)
Adds(s, sofar, p, new) ==
  /\ s.does \in {"yield", "throw", "nest"} /\ sofar \in Seen /\ new \in Seen
  /\ sofar.threw => new = sofar
  /\ ~sofar.threw /\ s.does = "yield" => new.seen = Append(sofar.seen, p) /\ ~new.threw
  /\ ~sofar.threw /\ s.does = "throw" => new.seen = sofar.seen /\ new.threw
  /\ ~sofar.threw /\ s.does = "nest" =>
       /\ Gen!Whole(s.g) \in Seen
       /\ new.seen = sofar.seen \o Gen!Whole(s.g).seen
       /\ new.threw <=> (Gen!Whole(s.g).threw /\ ~s.catches)

(* A meaning is that of one statement less and what the last one adds.       *)
LEMMA StatementMeans ==
  ASSUME Gen!IsProgram(bodies), NEW g \in DOMAIN bodies, NEW i \in 1..Len(bodies[g])
  PROVE  Adds(bodies[g][i], Gen!Meaning[<<g, i - 1>>], <<g, i>>, Gen!Meaning[<<g, i>>])
  <1>0. PICK s, sofar, new :
          s = bodies[g][i] /\ sofar = Gen!Meaning[<<g, i - 1>>] /\ new = Gen!Meaning[<<g, i>>]
    OBVIOUS
  <1>1. /\ <<g, i>> \in Gen!Places /\ <<g, i - 1>> \in Gen!Places
        /\ s.does \in {"yield", "throw", "nest"}
        /\ s.does = "nest" => <<s.g, Len(bodies[s.g])>> \in Gen!Places
    BY <1>0, StatementAt
  <1>2. new \in Seen /\ sofar \in Seen /\ (s.does = "nest" => Gen!Whole(s.g) \in Seen)
    BY <1>0, <1>1, MeaningTyped DEF Gen!Whole
  <1>3. /\ new = SeenFrom(Gen!Meaning, <<g, i>>)
        /\ <<g, i>>[1] = g /\ <<g, i>>[2] = i /\ i # 0
    BY <1>0, <1>1, ProgramMeans
  <1>4. sofar.seen \in Seq(Element)
    BY <1>2 DEF Seen
  <1>5. sofar.threw => new = sofar
    BY <1>0, <1>3 DEF SeenFrom
  <1>6. ASSUME ~sofar.threw, s.does = "yield"
        PROVE  new.seen = Append(sofar.seen, <<g, i>>) /\ ~new.threw
    <2>1. new = [seen |-> sofar.seen \o <<<<g, i>>>>, threw |-> FALSE]
      BY <1>0, <1>3, <1>6 DEF SeenFrom
    <2>2. \A x \in Seq(Element) : \A e : Append(x, e) = x \o <<e>>
      BY AppendIsConcat
    <2>3. sofar.seen \o <<<<g, i>>>> = Append(sofar.seen, <<g, i>>)
      BY <2>2, <1>4
    <2> QED
      BY <2>1, <2>3
  <1>7. ASSUME ~sofar.threw, s.does = "throw"
        PROVE  new.seen = sofar.seen /\ new.threw
    <2>1. new = [seen |-> sofar.seen \o <<>>, threw |-> TRUE]
      BY <1>0, <1>3, <1>7 DEF SeenFrom
    <2>2. sofar.seen \o <<>> = sofar.seen
      BY <1>4
    <2> QED
      BY <2>1, <2>2
  <1>8. ASSUME ~sofar.threw, s.does = "nest"
        PROVE  /\ new.seen = sofar.seen \o Gen!Whole(s.g).seen
               /\ new.threw <=> (Gen!Whole(s.g).threw /\ ~s.catches)
    <2>1. new = [seen |-> sofar.seen \o Gen!Whole(s.g).seen,
                 threw |-> Gen!Whole(s.g).threw /\ ~s.catches]
      BY <1>0, <1>3, <1>8 DEF SeenFrom, Gen!Whole
    <2>2. new.seen = sofar.seen \o Gen!Whole(s.g).seen
      BY <2>1
    <2>3. CASE Gen!Whole(s.g).threw /\ ~s.catches
      <3>1. new = [seen |-> sofar.seen \o Gen!Whole(s.g).seen, threw |-> TRUE]
        BY <2>1, <2>3
      <3> QED
        BY <3>1, <2>2, <2>3
    <2>4. CASE ~(Gen!Whole(s.g).threw /\ ~s.catches)
      <3>1. new = [seen |-> sofar.seen \o Gen!Whole(s.g).seen, threw |-> FALSE]
        BY <2>1, <2>4
      <3> QED
        BY <3>1, <2>2, <2>4
    <2> QED
      BY <2>3, <2>4
  <1>9. Adds(s, sofar, <<g, i>>, new)
    BY <1>1, <1>2, <1>5, <1>6, <1>7, <1>8 DEF Adds
  <1> QED
    BY <1>0, <1>9

(* Nothing has been done before the first statement. *)
LEMMA NothingSeen ==
  ASSUME Gen!IsProgram(bodies), NEW g \in DOMAIN bodies
  PROVE  Gen!Meaning[<<g, 0>>] = [seen |-> <<>>, threw |-> FALSE]
  <1>1. <<g, 0>> \in Gen!Places
    <2>1. 0 \in 0..Len(bodies[g])
      BY DEF Gen!IsProgram
    <2> QED
      BY <2>1 DEF Gen!Places
  <1> QED
    BY <1>1, ProgramMeans DEF SeenFrom

(* b goes on where a ends. *)
IsBefore(a, b) == \E u \in Seq(Element) : b = a \o u

(* It is a prefix then, and prefixes of prefixes are.                        *)
LEMMA Prefixes ==
  /\ \A a, b \in Seq(Element) : IsBefore(a, b) => Gen!IsPrefix(a, b)
  /\ \A a \in Seq(Element) : IsBefore(a, a) /\ IsBefore(<<>>, a)
  /\ \A a, b, c \in Seq(Element) : IsBefore(a, b) /\ IsBefore(b, c) => IsBefore(a, c)
  /\ \A a, b, c \in Seq(Element) : IsBefore(b, c) => IsBefore(a \o b, a \o c)
  <1>1. ASSUME NEW a \in Seq(Element), NEW b \in Seq(Element), IsBefore(a, b)
        PROVE  Gen!IsPrefix(a, b)
    <2>1. PICK u \in Seq(Element) : b = a \o u
      BY <1>1 DEF IsBefore
    <2>2. /\ Len(b) = Len(a) + Len(u) /\ Len(a) \in Nat /\ Len(u) \in Nat
          /\ \A i \in 1..Len(a) : b[i] = a[i]
      BY <2>1, ConcatProperties
    <2>3. Len(a) <= Len(b)
      BY <2>2
    <2>4. SubSeq(b, 1, Len(a)) = SubSeq(a, 1, Len(a))
      <3>1. /\ Len(SubSeq(b, 1, Len(a))) = Len(a) /\ Len(SubSeq(a, 1, Len(a))) = Len(a)
            /\ SubSeq(b, 1, Len(a)) \in Seq(Element) /\ SubSeq(a, 1, Len(a)) \in Seq(Element)
            /\ \A i \in 1..Len(a) : SubSeq(b, 1, Len(a))[i] = b[i] /\ SubSeq(a, 1, Len(a))[i] = a[i]
        BY <2>2, <2>3
      <3> QED
        BY <3>1, <2>2, SeqEqual
    <2> QED
      BY <2>3, <2>4 DEF Gen!IsPrefix
  <1>2. ASSUME NEW a \in Seq(Element) PROVE IsBefore(a, a) /\ IsBefore(<<>>, a)
    <2>1. a = a \o <<>> /\ a = <<>> \o a /\ <<>> \in Seq(Element)
      OBVIOUS
    <2> QED
      BY <2>1 DEF IsBefore
  <1>3. \A a, b, c \in Seq(Element) : (a \o b) \o c = a \o (b \o c) /\ a \o b \in Seq(Element)
    OBVIOUS
  <1>4. ASSUME NEW a \in Seq(Element), NEW b \in Seq(Element), NEW c \in Seq(Element),
               IsBefore(b, c)
        PROVE  IsBefore(a, b) => IsBefore(a, c)
    <2> SUFFICES ASSUME IsBefore(a, b) PROVE IsBefore(a, c)
      OBVIOUS
    <2>1. PICK u \in Seq(Element) : b = a \o u
      BY DEF IsBefore
    <2>2. PICK w \in Seq(Element) : c = b \o w
      BY <1>4 DEF IsBefore
    <2>3. u \o w \in Seq(Element) /\ (a \o u) \o w = a \o (u \o w)
      BY <1>3
    <2>4. c = a \o (u \o w)
      BY <2>1, <2>2, <2>3
    <2> QED
      BY <2>3, <2>4 DEF IsBefore
  <1>5. ASSUME NEW a \in Seq(Element), NEW b \in Seq(Element), NEW c \in Seq(Element),
               IsBefore(b, c)
        PROVE  IsBefore(a \o b, a \o c)
    <2>1. PICK u \in Seq(Element) : c = b \o u
      BY <1>5 DEF IsBefore
    <2>2. a \o c = (a \o b) \o u
      BY <1>3, <2>1
    <2> QED
      BY <2>2 DEF IsBefore
  <1> QED
    BY <1>1, <1>2, <1>4, <1>5

(* Later statements only add elements, and none behind an exception.         *)
LEMMA MeaningGrows ==
  ASSUME Gen!IsProgram(bodies), NEW g \in DOMAIN bodies, NEW i \in 0..Len(bodies[g])
  PROVE  /\ Gen!Meaning[<<g, i>>] \in Seen /\ Gen!Whole(g) \in Seen
         /\ Gen!Meaning[<<g, i>>].threw => Gen!Whole(g) = Gen!Meaning[<<g, i>>]
         /\ IsBefore(Gen!Meaning[<<g, i>>].seen, Gen!Whole(g).seen)
  <1> DEFINE n == Len(bodies[g])
             m(j) == Gen!Meaning[<<g, j>>]
             Grown(j) == /\ m(i).threw => m(j) = m(i)
                         /\ IsBefore(m(i).seen, m(j).seen)
             Wrong == {j \in i..n : ~Grown(j)}
  <1>1. n \in Nat /\ i \in Nat /\ i <= n
    BY DEF Gen!IsProgram
  <1>2. \A j \in 0..n : m(j) \in Seen /\ m(j).seen \in Seq(Element)
    <2>1. \A j \in 0..n : <<g, j>> \in Gen!Places
      BY DEF Gen!Places
    <2> QED
      BY <2>1, MeaningTyped DEF Seen
  <1> HIDE DEF n, m
  <1>3. Grown(i)
    BY <1>1, <1>2, Prefixes
  <1>4. ASSUME NEW j \in (i + 1)..n, Grown(j - 1) PROVE Grown(j)
    <2>1. j \in 1..n /\ j - 1 \in 0..n /\ j \in 0..n /\ i \in 0..n
      BY <1>1
    <2>2. PICK s : s = bodies[g][j]
      OBVIOUS
    <2>3. /\ m(j - 1).threw => m(j) = m(j - 1)
          /\ IsBefore(m(j - 1).seen, m(j).seen)
      <3>1. /\ s.does \in {"yield", "throw", "nest"}
            /\ m(j - 1).threw => m(j) = m(j - 1)
            /\ ~m(j - 1).threw /\ s.does = "yield" => m(j).seen = Append(m(j - 1).seen, <<g, j>>)
            /\ ~m(j - 1).threw /\ s.does = "throw" => m(j).seen = m(j - 1).seen
            /\ ~m(j - 1).threw /\ s.does = "nest" =>
                 /\ Gen!Whole(s.g) \in Seen
                 /\ m(j).seen = m(j - 1).seen \o Gen!Whole(s.g).seen
        <4>1. g \in DOMAIN bodies /\ j \in 1..Len(bodies[g])
          BY <2>1 DEF n
        <4>2. Adds(s, m(j - 1), <<g, j>>, m(j))
          BY <4>1, <2>2, StatementMeans DEF m
        <4> QED
          BY <4>2 DEF Adds
      <3>2. m(j - 1).seen \in Seq(Element)
        BY <2>1, <1>2
      <3>3. IsBefore(m(j - 1).seen, m(j - 1).seen)
        BY <3>2, Prefixes
      <3>4. Append(m(j - 1).seen, <<g, j>>) = m(j - 1).seen \o <<<<g, j>>>>
            /\ <<<<g, j>>>> \in Seq(Element)
        <4>1. <<g, j>> \in Element
          BY <2>1 DEF Element, Gen!IsProgram
        <4>2. <<<<g, j>>>> \in Seq(Element)
          BY <4>1
        <4>3. Append(m(j - 1).seen, <<g, j>>) = m(j - 1).seen \o <<<<g, j>>>>
          BY <4>1, <3>2, AppendIsConcat
        <4> QED
          BY <4>2, <4>3
      <3>5. s.does = "yield" /\ ~m(j - 1).threw => IsBefore(m(j - 1).seen, m(j).seen)
        BY <3>1, <3>4 DEF IsBefore
      <3>6. s.does = "nest" /\ ~m(j - 1).threw => IsBefore(m(j - 1).seen, m(j).seen)
        BY <3>1 DEF IsBefore, Seen
      <3> QED
        BY <3>1, <3>3, <3>5, <3>6
    <2>4. IsBefore(m(i).seen, m(j).seen)
      BY <1>4, <2>1, <2>3, <1>2, Prefixes
    <2>5. m(i).threw => m(j) = m(i)
      BY <1>4, <2>3
    <2> QED
      BY <2>4, <2>5
  <1> HIDE DEF Grown
  <1>5. Wrong = {}
    <2> SUFFICES ASSUME Wrong # {} PROVE FALSE
      OBVIOUS
    <2>1. Wrong \in SUBSET Nat
      BY <1>1
    <2>2. PICK j \in Wrong : \A k \in Wrong : j <= k
      BY <2>1, LeastNumber
    <2>3. j \in (i + 1)..n /\ ~Grown(j) /\ j - 1 \in i..n
      BY <2>2, <1>3, <1>1
    <2>4. j - 1 \notin Wrong
      BY <2>2, <2>3, <1>1
    <2> QED
      BY <2>3, <2>4, <1>4
  <1>6. Grown(n) /\ n \in 0..n
    BY <1>5, <1>1
  <1>7. Gen!Whole(g) = m(n)
    BY DEF Gen!Whole, m, n
  <1> QED
    BY <1>2, <1>6, <1>7 DEF Grown, m, n

GenFrame == [gen : Nat, next : Nat, top : Nat, value : Element \union {<<>>}, parent : Nat,
             root : Nat, except : BOOLEAN]
GenTypeOK ==
  /\ Gen!IsProgram(bodies)
  /\ frames \in Seq(GenFrame) /\ running \in Nat /\ consumed \in Seq(Element)
  /\ outcome \in {"going", "end", "exception", "dropped"}

(* The last frame has done what is before its next statement; another one    *)
(* has not done the statement before it, which nests the frame above.        *)
Top == Len(frames)
Reached(k) == IF k = Top THEN frames[k].next - 1 ELSE frames[k].next - 2
Done(k) == Gen!Meaning[<<frames[k].gen, Reached(k)>>]
Nests(k) == LET s == bodies[frames[k].gen][frames[k].next - 1]
            IN  frames[k].next > 1 /\ s.does = "nest" /\ s.g = frames[k + 1].gen

(* The pointers of the frames are those of a stack.  An exception leaves     *)
(* the last one, and none has left another.                                  *)
FrameInv(k) ==
  /\ frames[k].gen \in DOMAIN bodies /\ frames[k].next \in 1..(Len(bodies[frames[k].gen]) + 1)
  /\ frames[k].parent = k - 1 /\ (k > 1 => frames[k].root = 1)
  /\ k < Top => Nests(k)
  /\ frames[k].except => k = Top /\ running = Top /\ frames[k].next > 1
  /\ Done(k).threw <=> frames[k].except
StackInv ==
  /\ Top > 0 /\ frames[1].top = Top /\ frames[1].gen = 1 /\ running \in {0, Top}
  /\ \A k \in 1..Top : FrameInv(k)

(* What was consumed is what the frames have done, from the bottom up.       *)
Adding(upTo) ==
  /\ upTo \in [0..Top -> Seq(Element)] /\ upTo[0] = <<>> /\ upTo[Top] = consumed
  /\ \A k \in 1..Top : upTo[k] = upTo[k - 1] \o Done(k).seen
FramesHaveConsumed == \E upTo : Adding(upTo)

Ended ==
  /\ running = 0 /\ frames = <<>> /\ IsBefore(consumed, Gen!Whole(1).seen)
  /\ outcome \in {"end", "exception"} =>
       consumed = Gen!Whole(1).seen /\ (outcome = "exception" <=> Gen!Whole(1).threw)

GenInv ==
  /\ GenTypeOK
  /\ outcome = "going" => StackInv /\ FramesHaveConsumed
  /\ outcome # "going" => Ended

(* What a frame has done comes before what the frame above has yet to do.    *)
LEMMA WhatIsLeft ==
  ASSUME NEW a \in Seq(Element), NEW d \in Seq(Element), NEW w \in Seq(Element),
         NEW v \in Seq(Element), NEW all \in Seq(Element),
         IsBefore(a \o v, all), IsBefore(d \o w, v)
  PROVE  IsBefore((a \o d) \o w, all)
  <1>1. (a \o d) \o w = a \o (d \o w)
    OBVIOUS
  <1>2. d \o w \in Seq(Element) /\ a \o v \in Seq(Element)
    OBVIOUS
  <1>3. a \o (d \o w) \in Seq(Element)
    BY <1>2
  <1>4. IsBefore(a \o (d \o w), a \o v)
    BY <1>2, Prefixes
  <1>5. IsBefore(a \o (d \o w), all)
    BY <1>2, <1>3, <1>4, Prefixes
  <1> QED
    BY <1>1, <1>5

(* What is left of a frame's generator, and of those below it.               *)
LEMMA ConsumedIsPrefix ==
  ASSUME GenTypeOK, StackInv, FramesHaveConsumed
  PROVE  IsBefore(consumed, Gen!Whole(1).seen)
  <1>1. PICK upTo : Adding(upTo)
    BY DEF FramesHaveConsumed
  <1> DEFINE whole(k) == Gen!Whole(frames[k].gen).seen
             Within(k) == IsBefore(upTo[k - 1] \o whole(k), Gen!Whole(1).seen)
             Wrong == {k \in 1..Top : ~Within(k)}
  <1>2. /\ Top \in Nat /\ Top > 0 /\ DOMAIN frames = 1..Top
        /\ \A k \in 0..Top : upTo[k] \in Seq(Element)
    BY <1>1 DEF GenTypeOK, StackInv, Top, Adding
  <1>3. ASSUME NEW k \in 1..Top
        PROVE  /\ frames[k].gen \in DOMAIN bodies /\ Reached(k) \in 0..Len(bodies[frames[k].gen])
               /\ Done(k).seen \in Seq(Element) /\ whole(k) \in Seq(Element)
               /\ IsBefore(Done(k).seen, whole(k))
    <2>1. FrameInv(k) /\ Gen!IsProgram(bodies)
      BY DEF StackInv, GenTypeOK
    <2>2. frames[k].gen \in DOMAIN bodies /\ Reached(k) \in 0..Len(bodies[frames[k].gen])
      <3>1. Len(bodies[frames[k].gen]) \in Nat
        BY <2>1 DEF FrameInv, Gen!IsProgram
      <3>2. PICK n \in Nat : n = frames[k].next
        BY <3>1, <2>1 DEF FrameInv
      <3> QED
        BY <3>1, <3>2, <2>1, <1>2 DEF FrameInv, Reached, Nests
    <2>3. Done(k) \in Seen /\ Gen!Whole(frames[k].gen) \in Seen /\ IsBefore(Done(k).seen, whole(k))
      BY <2>1, <2>2, MeaningGrows DEF Done
    <2> QED
      BY <2>2, <2>3 DEF Seen
  <1>4. Gen!Whole(1).seen \in Seq(Element) /\ whole(1) = Gen!Whole(1).seen
    BY <1>2, <1>3 DEF StackInv
  <1>5. Within(1)
    <2>1. \A x \in Seq(Element) : <<>> \o x = x
      OBVIOUS
    <2>2. upTo[1 - 1] = <<>>
      BY <1>1 DEF Adding
    <2>3. upTo[1 - 1] \o whole(1) = Gen!Whole(1).seen
      BY <1>4, <2>1, <2>2
    <2> QED
      BY <1>4, <2>3, Prefixes
  <1>6. ASSUME NEW k \in 1..Top, k < Top, Within(k) PROVE Within(k + 1)
    <2>1. /\ k + 1 \in 1..Top /\ (k + 1) - 1 = k /\ k - 1 \in 0..Top /\ k \in 0..Top
      BY <1>2, <1>6
    <2>2. /\ FrameInv(k) /\ Nests(k) /\ ~frames[k].except /\ ~Done(k).threw
          /\ Reached(k) = frames[k].next - 2
      BY <1>6, <1>2 DEF StackInv, FrameInv, Reached
    <2>3. PICK g \in DOMAIN bodies : g = frames[k].gen
      BY <1>3
    <2>4. PICK i \in 1..Len(bodies[g]) : i = frames[k].next - 1
      <3>1. Len(bodies[g]) \in Nat
        BY <2>3 DEF GenTypeOK, Gen!IsProgram
      <3>2. PICK n \in Nat : n = frames[k].next
        BY <3>1, <2>2, <2>3 DEF FrameInv
      <3> QED
        BY <3>1, <3>2, <2>2, <2>3 DEF FrameInv, Nests
    <2>5. PICK n \in Nat : n = frames[k].next
      <3>1. frames[k] \in GenFrame
        BY <1>2 DEF GenTypeOK
      <3> QED
        BY <3>1 DEF GenFrame
    <2>6. i - 1 = Reached(k)
      BY <2>2, <2>4, <2>5
    <2>7. Done(k) = Gen!Meaning[<<g, i - 1>>]
      BY <2>3, <2>6 DEF Done
    <2>8. PICK s : s = bodies[g][i]
      OBVIOUS
    <2>9. s.does = "nest" /\ s.g = frames[k + 1].gen
      BY <2>2, <2>3, <2>4, <2>8 DEF Nests
    <2>10. Adds(s, Done(k), <<g, i>>, Gen!Meaning[<<g, i>>])
      BY <2>7, <2>8, StatementMeans DEF GenTypeOK
    <2>11. Gen!Meaning[<<g, i>>].seen = Done(k).seen \o whole(k + 1)
      BY <2>2, <2>9, <2>10 DEF Adds
    <2>12. IsBefore(Done(k).seen \o whole(k + 1), whole(k)) /\ Done(k).seen \o whole(k + 1) \in Seq(Element)
      <3>1. i \in 0..Len(bodies[g])
        BY <2>4
      <3>2. IsBefore(Gen!Meaning[<<g, i>>].seen, Gen!Whole(g).seen)
        BY <3>1, MeaningGrows DEF GenTypeOK
      <3>3. Done(k).seen \o whole(k + 1) \in Seq(Element)
        BY <2>1, <1>3
      <3> QED
        BY <3>2, <3>3, <2>3, <2>11
    <2>13. upTo[k] = upTo[k - 1] \o Done(k).seen
      BY <1>1 DEF Adding
    <2> DEFINE a == upTo[k - 1]
               d == Done(k).seen
               w == whole(k + 1)
               v == whole(k)
               all == Gen!Whole(1).seen
    <2>14. a \in Seq(Element) /\ d \in Seq(Element) /\ w \in Seq(Element) /\ v \in Seq(Element)
           /\ all \in Seq(Element) /\ IsBefore(a \o v, all) /\ IsBefore(d \o w, v)
      BY <2>1, <2>12, <1>2, <1>3, <1>4, <1>6
    <2>15. upTo[k] = a \o d
      BY <2>13
    <2>16. Within(k + 1) <=> IsBefore(upTo[k] \o w, all)
      BY <2>1
    <2>17. IsBefore((a \o d) \o w, all)
      <3> HIDE DEF a, d, w, v, all, Within
      <3> QED
        BY <2>14, WhatIsLeft
    <2> QED
      BY <2>15, <2>16, <2>17
  <1> HIDE DEF Within
  <1>7. Wrong = {}
    <2> SUFFICES ASSUME Wrong # {} PROVE FALSE
      OBVIOUS
    <2>1. Wrong \in SUBSET Nat
      BY <1>2
    <2>2. PICK k \in Wrong : \A j \in Wrong : k <= j
      BY <2>1, LeastNumber
    <2>3. k \in 1..Top /\ ~Within(k) /\ k # 1 /\ k - 1 \in 1..Top /\ k - 1 < Top /\ (k - 1) + 1 = k
      BY <2>2, <1>2, <1>5
    <2>4. k - 1 \notin Wrong
      BY <2>2, <2>3
    <2> QED
      BY <2>3, <2>4, <1>6
  <1>8. Top \in 1..Top /\ Within(Top)
    BY <1>7, <1>2
  <1>9. consumed = upTo[Top - 1] \o Done(Top).seen /\ Top - 1 \in 0..Top
    <2>1. upTo[Top] = consumed /\ upTo[Top] = upTo[Top - 1] \o Done(Top).seen
      BY <1>1, <1>8 DEF Adding
    <2> QED
      BY <2>1, <1>2
  <1>10. upTo[Top - 1] \o Done(Top).seen \in Seq(Element) /\ upTo[Top - 1] \o whole(Top) \in Seq(Element)
    BY <1>2, <1>3, <1>8, <1>9
  <1>11. IsBefore(upTo[Top - 1] \o Done(Top).seen, upTo[Top - 1] \o whole(Top))
    BY <1>2, <1>3, <1>8, <1>9, Prefixes
  <1> QED
    BY <1>4, <1>8, <1>9, <1>10, <1>11, Prefixes DEF Within

(* The meaning of a program is that of its bodies. *)
LEMMA SameProgram ==
  ASSUME bodies' = bodies
  PROVE  /\ Gen!Places' = Gen!Places /\ Gen!Meaning' = Gen!Meaning
         /\ \A g : (Gen!Whole(g))' = Gen!Whole(g)
         /\ Gen!IsProgram(bodies') <=> Gen!IsProgram(bodies)
  <1>1. Gen!Places' = Gen!Places
    BY DEF Gen!Places
  <1>2. Gen!Meaning' = Gen!Meaning
    BY <1>1 DEF Gen!Meaning
  <1> QED
    BY <1>1, <1>2 DEF Gen!Whole, Gen!IsProgram

(* The frames but for what top_ and the pointer to the element are.          *)
SameFrame(a, b) ==
  /\ a.gen = b.gen /\ a.next = b.next /\ a.parent = b.parent /\ a.root = b.root
  /\ a.except <=> b.except

(* Stack h is f but for frame j, where the pointer to the element is v, top_ *)
(* is v, except_ is v or a statement more is done.                           *)
Alike(h, f) == h \in Seq(GenFrame) /\ Len(h) = Len(f)
ValueIsSet(h, f, j, v) ==
  /\ Alike(h, f) /\ h[j].value = v
  /\ \A k \in 1..Len(f) : SameFrame(h[k], f[k]) /\ h[k].top = f[k].top
TopIsSet(h, f, j, v) ==
  /\ Alike(h, f) /\ h[j].top = v
  /\ \A k \in 1..Len(f) : SameFrame(h[k], f[k])
ExceptIsSet(h, f, j, v) ==
  /\ Alike(h, f) /\ (h[j].except <=> v)
  /\ \A k \in 1..Len(f) : /\ k # j => SameFrame(h[k], f[k])
                          /\ h[k].gen = f[k].gen /\ h[k].next = f[k].next
                          /\ h[k].parent = f[k].parent /\ h[k].root = f[k].root
                          /\ h[k].top = f[k].top
NextIsDone(h, f, j) ==
  /\ Alike(h, f) /\ h[j].next = f[j].next + 1
  /\ \A k \in 1..Len(f) : /\ k # j => SameFrame(h[k], f[k])
                          /\ h[k].gen = f[k].gen /\ (h[k].except <=> f[k].except)
                          /\ h[k].parent = f[k].parent /\ h[k].root = f[k].root
                          /\ h[k].top = f[k].top

(* A frame of the stack is replaced. *)
Replaced(h, f, j, e) ==
  /\ Alike(h, f) /\ h[j] = e
  /\ \A k \in 1..Len(f) : k # j => h[k] = f[k]

(* A stack is still one when a frame of it is replaced. *)
LEMMA FrameSet ==
  ASSUME NEW f \in Seq(GenFrame), NEW j \in 1..Len(f), NEW e \in GenFrame,
         NEW h, h = [f EXCEPT ![j] = e]
  PROVE  Replaced(h, f, j, e)
  BY ExceptSeq DEF Replaced, Alike

(* The pointer to the element is set. *)
LEMMA FrameValue ==
  ASSUME NEW f \in Seq(GenFrame), NEW j \in 1..Len(f), NEW v \in Element,
         NEW h, h = [f EXCEPT ![j].value = v]
  PROVE  ValueIsSet(h, f, j, v)
  <1>1. f[j] \in GenFrame
    OBVIOUS
  <1>2. PICK e : e = [f[j] EXCEPT !.value = v]
    OBVIOUS
  <1>3. e \in GenFrame
    BY <1>1, <1>2 DEF GenFrame
  <1>4. /\ (e.value = v) /\ e.gen = f[j].gen
        /\ e.parent = f[j].parent /\ e.root = f[j].root /\ e.next = f[j].next 
        /\ (e.except <=> f[j].except) /\ e.top = f[j].top
    BY <1>1, <1>2 DEF GenFrame
  <1>5. h = [f EXCEPT ![j] = e]
    BY <1>2
  <1>6. Replaced(h, f, j, e)
    BY <1>3, <1>5, FrameSet
  <1> QED
    BY <1>4, <1>6 DEF SameFrame, Replaced, ValueIsSet

(* top_ is set. *)
LEMMA FrameTop ==
  ASSUME NEW f \in Seq(GenFrame), NEW j \in 1..Len(f), NEW v \in Nat,
         NEW h, h = [f EXCEPT ![j].top = v]
  PROVE  TopIsSet(h, f, j, v)
  <1>1. f[j] \in GenFrame
    OBVIOUS
  <1>2. PICK e : e = [f[j] EXCEPT !.top = v]
    OBVIOUS
  <1>3. e \in GenFrame
    BY <1>1, <1>2 DEF GenFrame
  <1>4. /\ (e.top = v) /\ e.gen = f[j].gen
        /\ e.parent = f[j].parent /\ e.root = f[j].root /\ e.next = f[j].next 
        /\ (e.except <=> f[j].except)
    BY <1>1, <1>2 DEF GenFrame
  <1>5. h = [f EXCEPT ![j] = e]
    BY <1>2
  <1>6. Replaced(h, f, j, e)
    BY <1>3, <1>5, FrameSet
  <1> QED
    BY <1>4, <1>6 DEF SameFrame, Replaced, TopIsSet

(* except_ is set. *)
LEMMA FrameExcept ==
  ASSUME NEW f \in Seq(GenFrame), NEW j \in 1..Len(f), NEW v \in BOOLEAN,
         NEW h, h = [f EXCEPT ![j].except = v]
  PROVE  ExceptIsSet(h, f, j, v)
  <1>1. f[j] \in GenFrame
    OBVIOUS
  <1>2. PICK e : e = [f[j] EXCEPT !.except = v]
    OBVIOUS
  <1>3. e \in GenFrame
    BY <1>1, <1>2 DEF GenFrame
  <1>4. /\ (e.except <=> v) /\ e.gen = f[j].gen
        /\ e.parent = f[j].parent /\ e.root = f[j].root /\ e.next = f[j].next  /\ e.top = f[j].top
    BY <1>1, <1>2 DEF GenFrame
  <1>5. h = [f EXCEPT ![j] = e]
    BY <1>2
  <1>6. Replaced(h, f, j, e)
    BY <1>3, <1>5, FrameSet
  <1> QED
    BY <1>4, <1>6 DEF SameFrame, Replaced, ExceptIsSet

(* A statement of a frame is done. *)
LEMMA FrameNext ==
  ASSUME NEW f \in Seq(GenFrame), NEW j \in 1..Len(f),
         NEW h, h = [f EXCEPT ![j].next = @ + 1]
  PROVE  NextIsDone(h, f, j)
  <1>1. f[j] \in GenFrame
    OBVIOUS
  <1>2. PICK v \in Nat : v = f[j].next + 1
    <2>1. f[j].next \in Nat
      BY <1>1 DEF GenFrame
    <2> QED
      BY <2>1
  <1>3. PICK e : e = [f[j] EXCEPT !.next = v]
    OBVIOUS
  <1>4. e \in GenFrame
    BY <1>1, <1>3 DEF GenFrame
  <1>5. /\ e.next = v /\ e.gen = f[j].gen /\ e.parent = f[j].parent /\ e.root = f[j].root
        /\ (e.except <=> f[j].except) /\ e.top = f[j].top
    BY <1>1, <1>3 DEF GenFrame
  <1>6. h = [f EXCEPT ![j] = e]
    BY <1>2, <1>3
  <1>7. Replaced(h, f, j, e)
    BY <1>4, <1>6, FrameSet
  <1> QED
    BY <1>2, <1>5, <1>7 DEF SameFrame, Replaced, NextIsDone

(* A frame below another one in two states has done the same in both.        *)
LEMMA LowerFrames ==
  ASSUME GenTypeOK, StackInv, bodies' = bodies, Top' \in Nat, NEW k \in 1..Top, k < Top, k < Top',
         SameFrame(frames'[k], frames[k]), frames'[k + 1].gen = frames[k + 1].gen
  PROVE  FrameInv(k)' /\ Done(k)' = Done(k)
  <1>1. FrameInv(k) /\ ~frames[k].except /\ Nests(k) /\ Top \in Nat
    <2>1. Top \in Nat
      BY DEF GenTypeOK, Top
    <2>2. FrameInv(k)
      BY DEF StackInv
    <2>3. k # Top
      BY <2>1
    <2> QED
      BY <2>1, <2>2, <2>3 DEF FrameInv
  <1>2. Gen!Meaning' = Gen!Meaning
    BY SameProgram
  <1>3. Reached(k)' = frames'[k].next - 2 /\ Reached(k) = frames[k].next - 2
    BY <1>1 DEF Reached
  <1>4. Done(k)' = Done(k)
    BY <1>2, <1>3 DEF Done, SameFrame
  <1>5. Nests(k)'
    BY <1>1 DEF Nests, SameFrame
  <1> QED
    BY <1>1, <1>4, <1>5 DEF FrameInv, SameFrame

(* A generator is at rest, or is resumed for the first time.                 *)
LEMMA GenInit ==
  ASSUME MCInit PROVE GenInv
  <1>1. CASE GenAtRest
    <2>1. bodies = <<<<>>>> /\ frames = <<>> /\ running = 0 /\ consumed = <<>> /\ outcome = "dropped"
      BY <1>1 DEF GenAtRest
    <2>2. Gen!IsProgram(bodies)
      <3>1. /\ bodies \in Seq(Seq(Gen!Statements(1, Len(bodies)))) /\ DOMAIN bodies = {1}
            /\ bodies[1] = <<>> /\ bodies # <<>>
        BY <2>1
      <3>2. bodies[1] \in Seq(Gen!Statements(1, Len(bodies)))
        BY <3>1
      <3> QED
        BY <3>1, <3>2 DEF Gen!IsProgram
    <2>3. Gen!Whole(1) \in Seen /\ <<>> \in Seq(Element) /\ <<>> \in Seq(GenFrame)
      <3>1. 1 \in DOMAIN bodies /\ 0 \in 0..Len(bodies[1])
        BY <2>1
      <3>2. Gen!Whole(1) \in Seen
        BY <3>1, <2>2, MeaningGrows
      <3> QED
        BY <3>2
    <2>4. IsBefore(consumed, Gen!Whole(1).seen)
      BY <2>1, <2>3, Prefixes DEF Seen
    <2> QED
      BY <2>1, <2>2, <2>3, <2>4 DEF GenInv, GenTypeOK, Ended
  <1>2. CASE Gen!Init
    <2>1. /\ Gen!IsProgram(bodies) /\ running = 1 /\ consumed = <<>> /\ outcome = "going"
          /\ frames = <<Gen!Frame(1, 1, 0, 0)>>
      BY <1>2, InstanceAssumption DEF Gen!Init, Gen!GeneratorAssumption
    <2>2. /\ Gen!Frame(1, 1, 0, 0) \in GenFrame /\ frames[1] = Gen!Frame(1, 1, 0, 0)
      BY <2>1 DEF Gen!Frame, GenFrame
    <2>3. /\ frames \in Seq(GenFrame) /\ Top = 1 /\ <<>> \in Seq(Element)
      BY <2>1, <2>2 DEF Top
    <2>4. /\ frames[1].gen = 1 /\ frames[1].next = 1 /\ frames[1].top = 1 /\ frames[1].parent = 0
          /\ ~frames[1].except
      BY <2>2 DEF Gen!Frame
    <2>5. 1 \in DOMAIN bodies /\ Len(bodies[1]) \in Nat
      BY <2>1 DEF Gen!IsProgram
    <2>6. Done(1) = [seen |-> <<>>, threw |-> FALSE]
      <3>1. Reached(1) = 0
        BY <2>3, <2>4 DEF Reached
      <3> QED
        BY <3>1, <2>1, <2>4, <2>5, NothingSeen DEF Done
    <2>7. FrameInv(1)
      <3>1. Done(1).threw <=> frames[1].except
        BY <2>4, <2>6
      <3> QED
        BY <3>1, <2>3, <2>4, <2>5 DEF FrameInv
    <2>8. StackInv
      BY <2>1, <2>3, <2>4, <2>7 DEF StackInv
    <2>9. FramesHaveConsumed
      <3> DEFINE upTo == [k \in 0..1 |-> <<>>]
      <3>1. upTo \in [0..Top -> Seq(Element)] /\ upTo[0] = <<>> /\ upTo[Top] = consumed
        BY <2>1, <2>3
      <3>2. upTo[1] = upTo[1 - 1] \o Done(1).seen
        <4>1. <<>> \o <<>> = <<>>
          OBVIOUS
        <4> QED
          BY <4>1, <2>6
      <3>3. Adding(upTo)
        <4> HIDE DEF upTo
        <4> QED
          BY <3>1, <3>2, <2>3 DEF Adding
      <3> QED
        BY <3>3 DEF FramesHaveConsumed
    <2> QED
      BY <2>1, <2>3, <2>8, <2>9 DEF GenInv, GenTypeOK
  <1> QED
    BY <1>1, <1>2 DEF MCInit

(* The frame that runs is the last one. *)
LEMMA RunningIsTop ==
  ASSUME GenInv, running # 0
  PROVE  /\ outcome = "going" /\ running = Top /\ GenTypeOK /\ StackInv /\ FramesHaveConsumed
         /\ Top \in Nat /\ Top > 0 /\ Top \in 1..Top /\ frames \in Seq(GenFrame) /\ DOMAIN frames = 1..Top
         /\ Len(frames) = Top
         /\ FrameInv(Top) /\ frames[Top].gen \in DOMAIN bodies /\ Gen!IsProgram(bodies)
         /\ Len(bodies[frames[Top].gen]) \in Nat
         /\ frames[Top].next \in 1..(Len(bodies[frames[Top].gen]) + 1)
         /\ Reached(Top) = frames[Top].next - 1 /\ Reached(Top) \in 0..Len(bodies[frames[Top].gen])
         /\ Done(Top) = Gen!Meaning[<<frames[Top].gen, frames[Top].next - 1>>]
         /\ Done(Top) \in Seen /\ (Done(Top).threw <=> frames[Top].except)
  <1>1. outcome = "going" /\ GenTypeOK /\ StackInv /\ FramesHaveConsumed
    BY DEF GenInv, Ended
  <1>2. /\ Top \in Nat /\ Top > 0 /\ Top \in 1..Top /\ frames \in Seq(GenFrame) /\ DOMAIN frames = 1..Top
        /\ Len(frames) = Top
    BY <1>1 DEF GenTypeOK, StackInv, Top
  <1>3. running = Top /\ FrameInv(Top) /\ Gen!IsProgram(bodies)
    BY <1>1, <1>2 DEF StackInv, GenTypeOK
  <1>4. /\ frames[Top].gen \in DOMAIN bodies /\ Len(bodies[frames[Top].gen]) \in Nat
        /\ frames[Top].next \in 1..(Len(bodies[frames[Top].gen]) + 1)
    BY <1>3 DEF FrameInv, Gen!IsProgram
  <1>5. Reached(Top) = frames[Top].next - 1 /\ Reached(Top) \in 0..Len(bodies[frames[Top].gen])
    <2>1. PICK n \in Nat : n = frames[Top].next
      BY <1>4
    <2> QED
      BY <2>1, <1>4 DEF Reached
  <1>6. Done(Top) \in Seen
    BY <1>3, <1>4, <1>5, MeaningGrows DEF Done
  <1> QED
    BY <1>1, <1>2, <1>3, <1>4, <1>5, <1>6 DEF FrameInv, Done

(* A statement about to run. *)
LEMMA StatementToRun ==
  ASSUME GenInv, NEW does, Gen!At(does)
  PROVE  /\ running = Top /\ ~frames[Top].except /\ ~Done(Top).threw
         /\ frames[Top].next \in 1..Len(bodies[frames[Top].gen])
         /\ Gen!Statement = bodies[frames[Top].gen][frames[Top].next]
         /\ Gen!Statement.does = does
         /\ Adds(Gen!Statement, Done(Top), <<frames[Top].gen, frames[Top].next>>,
                 Gen!Meaning[<<frames[Top].gen, frames[Top].next>>])
  <1>1. running # 0 /\ Gen!Statement.does = does /\ ~frames[running].except
        /\ ~(frames[running].next > Len(bodies[frames[running].gen]))
    BY DEF Gen!At, Gen!AtEnd, Gen!Body
  <1>2. running = Top
    BY <1>1, RunningIsTop
  <1>3. PICK g \in DOMAIN bodies : g = frames[Top].gen
    BY <1>1, RunningIsTop
  <1>4. PICK i \in Nat : i = frames[Top].next
    BY <1>1, RunningIsTop
  <1>5. i \in 1..Len(bodies[g])
    BY <1>1, <1>2, <1>3, <1>4, RunningIsTop
  <1>6. Gen!Statement = bodies[g][i]
    BY <1>2, <1>3, <1>4 DEF Gen!Statement, Gen!Body
  <1>7. Adds(bodies[g][i], Gen!Meaning[<<g, i - 1>>], <<g, i>>, Gen!Meaning[<<g, i>>])
    BY <1>1, <1>5, RunningIsTop, StatementMeans
  <1>8. Done(Top) = Gen!Meaning[<<g, i - 1>>]
    BY <1>1, <1>3, <1>4, RunningIsTop
  <1>9. ~Done(Top).threw
    BY <1>1, <1>2, RunningIsTop
  <1> QED
    BY <1>1, <1>2, <1>3, <1>4, <1>5, <1>6, <1>7, <1>8, <1>9

(* What is appended to a concatenation is appended to its second part. *)
LEMMA AppendedBehind ==
  \A x, y \in Seq(Element) : \A e \in Element : Append(x \o y, e) = x \o Append(y, e)
  OBVIOUS

(* The consumer gets the element of the frame that runs. *)
LEMMA YieldValueKeeps ==
  ASSUME GenInv, Gen!YieldValue PROVE GenInv'
  <1>1. Gen!At("yield") /\ running # 0 /\ bodies' = bodies /\ outcome' = outcome /\ running' = 0
    BY DEF Gen!YieldValue, Gen!At
  <1> DEFINE g == frames[Top].gen
             i == frames[Top].next
  <1>2. /\ outcome = "going" /\ running = Top /\ GenTypeOK /\ StackInv /\ Top \in 1..Top /\ Top \in Nat
        /\ frames \in Seq(GenFrame) /\ Len(frames) = Top /\ g \in DOMAIN bodies
        /\ Gen!IsProgram(bodies)
    BY <1>1, RunningIsTop
  <1>3. /\ i \in 1..Len(bodies[g]) /\ ~frames[Top].except /\ ~Done(Top).threw
        /\ Adds(Gen!Statement, Done(Top), <<g, i>>, Gen!Meaning[<<g, i>>])
        /\ Gen!Statement.does = "yield"
    BY <1>1, StatementToRun
  <1>0. PICK f : f = [frames EXCEPT ![Top].next = @ + 1]
    OBVIOUS
  <1>4. /\ f \in Seq(GenFrame) /\ Len(f) = Top /\ f[Top].next = i + 1
        /\ \A k \in 1..Top : /\ k # Top => SameFrame(f[k], frames[k])
                             /\ f[k].gen = frames[k].gen /\ (f[k].except <=> frames[k].except)
                             /\ f[k].parent = frames[k].parent /\ f[k].root = frames[k].root
                             /\ f[k].top = frames[k].top
    <2>1. Top \in 1..Len(frames)
      BY <1>2
    <2>2. NextIsDone(f, frames, Top)
      BY <1>0, <1>2, <2>1, FrameNext
    <2> QED
      BY <1>2, <2>2 DEF NextIsDone, Alike
  <1>5. frames' = [f EXCEPT ![Top].value = <<g, i>>]
    BY <1>0, <1>2 DEF Gen!YieldValue, Gen!StepOn
  <1>6. <<g, i>> \in Element /\ i \in Nat
    BY <1>2, <1>3 DEF Element, Gen!IsProgram
  <1> HIDE DEF g, i
  <1>7. /\ frames' \in Seq(GenFrame) /\ Len(frames') = Top /\ frames'[Top].value = <<g, i>>
        /\ \A k \in 1..Top : SameFrame(frames'[k], f[k]) /\ frames'[k].top = f[k].top
    <2>1. f \in Seq(GenFrame) /\ Top \in 1..Len(f) /\ Len(f) = Top
      BY <1>2, <1>4
    <2>2. PICK v \in Element : v = <<g, i>>
      BY <1>6
    <2>3. PICK h : h = frames'
      OBVIOUS
    <2>4. h = [f EXCEPT ![Top].value = v]
      BY <1>5, <2>2, <2>3
    <2>5. ValueIsSet(h, f, Top, v)
      BY <2>1, <2>4, FrameValue
    <2> QED
      BY <2>1, <2>2, <2>3, <2>5 DEF ValueIsSet, Alike
  <1>8. /\ \A k \in 1..Top : /\ k # Top => SameFrame(frames'[k], frames[k])
                             /\ frames'[k].top = frames[k].top /\ frames'[k].gen = frames[k].gen
        /\ frames'[Top].next = i + 1 /\ frames'[Top].parent = frames[Top].parent
        /\ frames'[Top].root = frames[Top].root /\ ~frames'[Top].except
    <2>1. \A k \in 1..Top : /\ k # Top => SameFrame(f[k], frames[k])
                            /\ SameFrame(frames'[k], f[k])
      BY <1>4, <1>7
    <2>2. \A k \in 1..Top : k # Top => SameFrame(frames'[k], frames[k])
      BY <2>1 DEF SameFrame
    <2>3. \A k \in 1..Top : frames'[k].top = frames[k].top /\ frames'[k].gen = frames[k].gen
      BY <2>1, <1>4, <1>7 DEF SameFrame
    <2>4. /\ frames'[Top].next = f[Top].next /\ frames'[Top].parent = f[Top].parent
          /\ frames'[Top].root = f[Top].root /\ (frames'[Top].except <=> f[Top].except)
      <3>1. Top \in 1..Top /\ SameFrame(frames'[Top], f[Top])
        BY <1>2, <2>1
      <3> QED
        BY <3>1 DEF SameFrame
    <2>5. /\ f[Top].next = i + 1 /\ f[Top].parent = frames[Top].parent
          /\ f[Top].root = frames[Top].root /\ (f[Top].except <=> frames[Top].except)
      BY <1>2, <1>4
    <2> QED
      BY <1>3, <2>2, <2>3, <2>4, <2>5
  <1>9. Top' = Top
    BY <1>7 DEF Top
  <1>10. consumed' = Append(consumed, <<g, i>>) /\ consumed \in Seq(Element)
    <2>1. consumed' = Append(consumed, frames'[frames[1].top].value)
      BY DEF Gen!YieldValue
    <2>2. frames[1].top = Top
      BY <1>2 DEF StackInv
    <2> QED
      BY <1>2, <1>7, <2>1, <2>2 DEF GenTypeOK
  <1>11. GenTypeOK'
    <2>1. consumed' \in Seq(Element)
      BY <1>6, <1>10
    <2> QED
      BY <1>1, <1>2, <1>7, <2>1, SameProgram DEF GenTypeOK
  <1>12. ASSUME NEW k \in 1..Top, k < Top PROVE FrameInv(k)' /\ Done(k)' = Done(k)
    <2>1. k + 1 \in 1..Top
      BY <1>2, <1>12
    <2> QED
      BY <1>1, <1>2, <1>8, <1>9, <1>12, <2>1, LowerFrames
  <1>13. Done(Top)' = Gen!Meaning[<<g, i>>]
    <2>1. Reached(Top)' = i
      BY <1>2, <1>6, <1>8, <1>9 DEF Reached
    <2>2. frames'[Top'].gen = g
      BY <1>2, <1>8, <1>9 DEF g
    <2> QED
      BY <1>1, <1>9, <2>1, <2>2, SameProgram DEF Done
  <1>14. Done(Top)'.seen = Append(Done(Top).seen, <<g, i>>) /\ ~Done(Top)'.threw
         /\ Done(Top).seen \in Seq(Element)
    BY <1>3, <1>13 DEF Adds, Seen
  <1>15. FrameInv(Top)'
    <2>1. FrameInv(Top) /\ Len(bodies[g]) \in Nat
      BY <1>1, RunningIsTop DEF g
    <2>2. frames'[Top'].next \in 1..(Len(bodies'[g]) + 1)
      BY <1>1, <1>3, <1>6, <1>8, <1>9, <2>1
    <2>3. frames'[Top'].gen = g
      BY <1>2, <1>8, <1>9 DEF g
    <2> QED
      BY <1>1, <1>2, <1>8, <1>9, <1>14, <2>1, <2>2, <2>3 DEF FrameInv
  <1>16. StackInv'
    <2>1. \A k \in 1..Top' : FrameInv(k)'
      BY <1>2, <1>9, <1>12, <1>15
    <2>2. frames'[1].top = Top' /\ frames'[1].gen = 1 /\ Top' > 0 /\ running' \in {0, Top'}
      BY <1>1, <1>2, <1>8, <1>9 DEF StackInv
    <2> QED
      BY <2>1, <2>2 DEF StackInv
  <1>17. FramesHaveConsumed'
    <2>1. PICK upTo : Adding(upTo)
      BY <1>2, RunningIsTop, <1>1 DEF FramesHaveConsumed
    <2>2. /\ upTo \in [0..Top -> Seq(Element)] /\ upTo[0] = <<>> /\ upTo[Top] = consumed
          /\ \A k \in 1..Top : upTo[k] = upTo[k - 1] \o Done(k).seen
      BY <2>1 DEF Adding
    <2>3. PICK c \in Seq(Element) : c = consumed'
      BY <1>11 DEF GenTypeOK
    <2>4. PICK h : h = [upTo EXCEPT ![Top] = c]
      OBVIOUS
    <2>5. /\ h \in [0..Top -> Seq(Element)] /\ h[0] = <<>> /\ h[Top] = consumed'
          /\ \A k \in 0..(Top - 1) : h[k] = upTo[k]
      BY <1>2, <2>2, <2>3, <2>4
    <2>6. ASSUME NEW k \in 1..Top PROVE h[k] = h[k - 1] \o Done(k)'.seen
      <3>1. k - 1 \in 0..(Top - 1)
        BY <1>2
      <3>2. upTo[k] = upTo[k - 1] \o Done(k).seen /\ h[k - 1] = upTo[k - 1]
        BY <2>2, <2>5, <3>1
      <3>3. CASE k < Top
        <4>1. k \in 0..(Top - 1)
          BY <1>2, <3>3
        <4> QED
          BY <1>12, <2>5, <3>2, <3>3, <4>1
      <3>4. CASE k = Top
        <4>1. upTo[Top - 1] \in Seq(Element)
          BY <2>2, <3>1, <3>4, <1>2
        <4>2. consumed = upTo[Top - 1] \o Done(Top).seen
          BY <2>2, <3>2, <3>4
        <4>3. consumed' = upTo[Top - 1] \o Done(Top)'.seen
          <5>1. consumed' = Append(upTo[Top - 1] \o Done(Top).seen, <<g, i>>)
            BY <1>10, <4>2
          <5>2. Append(upTo[Top - 1] \o Done(Top).seen, <<g, i>>)
                  = upTo[Top - 1] \o Append(Done(Top).seen, <<g, i>>)
            BY <1>6, <1>14, <4>1, AppendedBehind
          <5> QED
            BY <1>14, <5>1, <5>2
        <4>4. h[k] = consumed' /\ h[k - 1] = upTo[Top - 1]
          BY <2>5, <3>2, <3>4
        <4>5. Done(k)' = Done(Top)'
          BY <1>9, <3>4 DEF Done, Reached
        <4> QED
          BY <4>3, <4>4, <4>5
      <3>5. k < Top \/ k = Top
        BY <1>2
      <3> QED
        BY <3>3, <3>4, <3>5
    <2>7. Adding(h)'
      BY <1>9, <2>5, <2>6 DEF Adding
    <2> QED
      BY <2>7 DEF FramesHaveConsumed
  <1> QED
    BY <1>1, <1>2, <1>11, <1>16, <1>17 DEF GenInv

(* operator++, which only resumes. *)
LEMMA IncrementKeeps ==
  ASSUME GenInv, Gen!Increment PROVE GenInv'
  <1>1. /\ running = 0 /\ outcome = "going" /\ running' = frames[1].top
        /\ bodies' = bodies /\ frames' = frames /\ consumed' = consumed /\ outcome' = outcome
    BY DEF Gen!Increment
  <1>2. GenTypeOK /\ StackInv /\ FramesHaveConsumed
    BY <1>1 DEF GenInv
  <1>3. running' = Top /\ Top' = Top /\ Top \in Nat
    BY <1>1, <1>2 DEF StackInv, Top, GenTypeOK
  <1>4. Gen!Meaning' = Gen!Meaning
    BY <1>1, SameProgram
  <1>5. \A k : Done(k)' = Done(k) /\ (Nests(k)' <=> Nests(k))
    BY <1>1, <1>3, <1>4 DEF Done, Reached, Nests
  <1>6. \A k \in 1..Top : FrameInv(k)'
    <2> TAKE k \in 1..Top
    <2>1. FrameInv(k) /\ ~frames[k].except
      BY <1>1, <1>2 DEF StackInv, FrameInv
    <2> QED
      BY <1>1, <1>3, <1>5, <2>1 DEF FrameInv
  <1>7. StackInv'
    BY <1>1, <1>2, <1>3, <1>6 DEF StackInv
  <1>8. FramesHaveConsumed'
    <2>1. PICK upTo : Adding(upTo)
      BY <1>2 DEF FramesHaveConsumed
    <2>2. Adding(upTo)'
      BY <1>1, <1>3, <1>5, <2>1 DEF Adding
    <2> QED
      BY <2>2 DEF FramesHaveConsumed
  <1>9. GenTypeOK'
    BY <1>1, <1>2, <1>3, SameProgram DEF GenTypeOK
  <1> QED
    BY <1>1, <1>7, <1>8, <1>9 DEF GenInv

(* The consumer has got a part of the elements when it drops the generator.  *)
LEMMA DropKeeps ==
  ASSUME GenInv, Gen!Drop PROVE GenInv'
  <1>1. /\ running = 0 /\ outcome = "going" /\ outcome' = "dropped" /\ frames' = <<>>
        /\ bodies' = bodies /\ running' = running /\ consumed' = consumed
    BY DEF Gen!Drop
  <1>2. GenTypeOK /\ StackInv /\ FramesHaveConsumed
    BY <1>1 DEF GenInv
  <1>3. IsBefore(consumed, Gen!Whole(1).seen) /\ (Gen!Whole(1))' = Gen!Whole(1)
    BY <1>1, <1>2, ConsumedIsPrefix, SameProgram
  <1>4. Ended'
    BY <1>1, <1>3 DEF Ended, IsBefore
  <1>5. GenTypeOK'
    <2>1. <<>> \in Seq(GenFrame)
      OBVIOUS
    <2> QED
      BY <1>1, <1>2, <2>1, SameProgram DEF GenTypeOK
  <1> QED
    BY <1>1, <1>4, <1>5 DEF GenInv

(* A generator is nested: its frame is above that of the one that nests it.  *)
LEMMA NestGeneratorKeeps ==
  ASSUME GenInv, Gen!NestGenerator PROVE GenInv'
  <1>1. /\ Gen!At("nest") /\ running # 0 /\ bodies' = bodies /\ outcome' = outcome
        /\ consumed' = consumed
    BY DEF Gen!NestGenerator, Gen!At
  <1> DEFINE i == frames[Top].next
             g == frames[Top].gen
  <1>2. /\ outcome = "going" /\ running = Top /\ GenTypeOK /\ StackInv /\ Top \in 1..Top /\ Top \in Nat
        /\ frames \in Seq(GenFrame) /\ Len(frames) = Top /\ g \in DOMAIN bodies
        /\ Gen!IsProgram(bodies) /\ Len(bodies[g]) \in Nat /\ FrameInv(Top)
        /\ frames[1].gen = 1 /\ Done(Top) = Gen!Meaning[<<g, i - 1>>]
    BY <1>1, RunningIsTop DEF StackInv
  <1>3. /\ i \in 1..Len(bodies[g]) /\ ~frames[Top].except /\ ~Done(Top).threw
        /\ Gen!Statement = bodies[g][i] /\ Gen!Statement.does = "nest"
    BY <1>1, StatementToRun
  <1>4. PICK c \in DOMAIN bodies : c = Gen!Statement.g
    BY <1>2, <1>3, StatementAt
  <1>5. (IF frames[running].parent # 0 THEN frames[running].root ELSE running) = 1
    BY <1>2 DEF FrameInv
  <1>6. PICK n \in Nat : n = Top + 1
    BY <1>2
  <1>7. PICK f : f = [frames EXCEPT ![Top].next = @ + 1]
    OBVIOUS
  <1>8. PICK h : h = [f EXCEPT ![1].top = n]
    OBVIOUS
  <1>9. PICK e : e = Gen!Frame(c, n, Top, 1)
    OBVIOUS
  <1>10. frames' = Append(h, e) /\ running' = n
    BY <1>2, <1>4, <1>5, <1>6, <1>7, <1>8, <1>9 DEF Gen!NestGenerator, Gen!StepOn
  <1>11. i \in Nat /\ c \in Nat
    BY <1>2, <1>3 DEF Gen!IsProgram
  <1> HIDE DEF i, g
  <1>12. NextIsDone(f, frames, Top)
    BY <1>2, <1>7, FrameNext
  <1>13. TopIsSet(h, f, 1, n)
    <2>1. f \in Seq(GenFrame) /\ 1 \in 1..Len(f)
      BY <1>2, <1>12 DEF NextIsDone, Alike
    <2> QED
      BY <2>1, <1>8, FrameTop
  <1>14. /\ e \in GenFrame /\ e.gen = c /\ e.next = 1 /\ e.parent = Top /\ e.root = 1 /\ ~e.except
    BY <1>2, <1>6, <1>9, <1>11 DEF Gen!Frame, GenFrame
  <1>15. h \in Seq(GenFrame) /\ Len(h) = Top /\ h[1].top = n
    BY <1>2, <1>12, <1>13 DEF NextIsDone, TopIsSet, Alike
  <1>16. /\ frames' \in Seq(GenFrame) /\ Len(frames') = n /\ frames'[n] = e
         /\ \A k \in 1..Top : frames'[k] = h[k]
    BY <1>2, <1>6, <1>10, <1>14, <1>15, AppendProperties
  <1>17. Top' = n
    BY <1>16 DEF Top
  <1>18. \A k \in 1..Top : /\ k # Top => SameFrame(frames'[k], frames[k])
                           /\ frames'[k].gen = frames[k].gen
    <2> TAKE k \in 1..Top
    <2>1. SameFrame(h[k], f[k]) /\ frames'[k] = h[k]
      BY <1>2, <1>12, <1>13, <1>16 DEF TopIsSet, NextIsDone, Alike
    <2>2. (k # Top => SameFrame(f[k], frames[k])) /\ f[k].gen = frames[k].gen
      BY <1>2, <1>12 DEF NextIsDone
    <2> QED
      BY <2>1, <2>2 DEF SameFrame
  <1>19. /\ frames'[Top].next = f[Top].next /\ frames'[Top].gen = g
         /\ frames'[Top].parent = frames[Top].parent
         /\ frames'[Top].root = frames[Top].root /\ ~frames'[Top].except
    <2>1. SameFrame(h[Top], f[Top]) /\ frames'[Top] = h[Top]
      BY <1>2, <1>12, <1>13, <1>16 DEF TopIsSet, NextIsDone, Alike
    <2>2. /\ f[Top].gen = g /\ f[Top].parent = frames[Top].parent
          /\ f[Top].root = frames[Top].root /\ ~f[Top].except
      BY <1>2, <1>3, <1>12 DEF NextIsDone, g
    <2> QED
      BY <2>1, <2>2 DEF SameFrame
  <1>20. f[Top].next = i + 1
    BY <1>12 DEF NextIsDone, i
  <1>21. GenTypeOK'
    BY <1>1, <1>2, <1>10, <1>16, SameProgram DEF GenTypeOK
  <1>22. ASSUME NEW k \in 1..Top, k < Top PROVE FrameInv(k)' /\ Done(k)' = Done(k)
    <2>1. k + 1 \in 1..Top /\ k < n
      BY <1>2, <1>6, <1>22
    <2>2. frames'[k + 1].gen = frames[k + 1].gen /\ SameFrame(frames'[k], frames[k])
      BY <1>2, <1>18, <1>22, <2>1
    <2> QED
      BY <1>1, <1>2, <1>17, <1>22, <2>1, <2>2, LowerFrames
  <1>23. ASSUME NEW k, k = Top PROVE FrameInv(k)' /\ Done(k)' = Done(k)
    <2>1. Reached(k)' = i - 1
      BY <1>2, <1>6, <1>11, <1>17, <1>19, <1>20, <1>23 DEF Reached
    <2>2. Done(k)' = Gen!Meaning[<<g, i - 1>>]
      BY <1>1, <1>19, <1>23, <2>1, SameProgram DEF Done
    <2>3. Nests(k)'
      <3>1. (i + 1) - 1 = i /\ i + 1 > 1
        BY <1>3, <1>11
      <3>2. frames'[k + 1] = e
        BY <1>6, <1>16, <1>23
      <3> QED
        BY <1>1, <1>3, <1>4, <1>14, <1>19, <1>20, <1>23, <3>1, <3>2 DEF Nests
    <2>4. frames'[k].next \in 1..(Len(bodies'[g]) + 1)
      BY <1>1, <1>2, <1>3, <1>11, <1>19, <1>20, <1>23
    <2> QED
      BY <1>1, <1>2, <1>3, <1>19, <1>23, <2>2, <2>3, <2>4 DEF FrameInv, g
  <1>24. ASSUME NEW k, k = n
         PROVE  FrameInv(k)' /\ Done(k)' = [seen |-> <<>>, threw |-> FALSE]
    <2>1. Reached(k)' = 0
      BY <1>14, <1>16, <1>17, <1>24 DEF Reached
    <2>2. Done(k)' = [seen |-> <<>>, threw |-> FALSE]
      BY <1>1, <1>2, <1>4, <1>14, <1>16, <1>24, <2>1, SameProgram, NothingSeen DEF Done
    <2>3. ~Done(k)'.threw
      BY <2>2
    <2>4. Len(bodies[c]) \in Nat
      BY <1>2, <1>4 DEF Gen!IsProgram
    <2>5. frames'[k].next \in 1..(Len(bodies'[c]) + 1)
      BY <1>1, <1>14, <1>16, <1>24, <2>4
    <2>6. frames'[k].parent = k - 1 /\ ~(k < Top')
      BY <1>2, <1>6, <1>14, <1>16, <1>17, <1>24
    <2> QED
      BY <1>1, <1>4, <1>14, <1>16, <1>24, <2>2, <2>3, <2>5, <2>6 DEF FrameInv
  <1>25. StackInv'
    <2>1. ASSUME NEW k \in 1..n PROVE FrameInv(k)'
      <3>1. k = n \/ k = Top \/ (k \in 1..Top /\ k < Top)
        BY <1>2, <1>6
      <3> QED
        BY <3>1, <1>22, <1>23, <1>24
    <2>2. frames'[1].top = n /\ frames'[1].gen = 1 /\ n > 0
      <3>1. 1 \in 1..Top
        BY <1>2
      <3> QED
        BY <1>2, <1>6, <1>15, <1>16, <1>18, <3>1
    <2> QED
      BY <1>10, <1>17, <2>1, <2>2 DEF StackInv
  <1>26. FramesHaveConsumed'
    <2>1. PICK upTo : Adding(upTo)
      BY <1>1, RunningIsTop DEF FramesHaveConsumed
    <2>2. /\ upTo \in [0..Top -> Seq(Element)] /\ upTo[0] = <<>> /\ upTo[Top] = consumed
          /\ \A k \in 1..Top : upTo[k] = upTo[k - 1] \o Done(k).seen
      BY <2>1 DEF Adding
    <2>3. consumed \in Seq(Element)
      BY <1>2 DEF GenTypeOK
    <2>4. PICK s : s = [k \in 0..n |-> IF k = n THEN consumed ELSE upTo[k]]
      OBVIOUS
    <2>5. /\ s \in [0..n -> Seq(Element)] /\ s[0] = <<>> /\ s[n] = consumed
          /\ \A k \in 0..Top : s[k] = upTo[k]
      BY <1>2, <1>6, <2>2, <2>3, <2>4
    <2>6. ASSUME NEW k \in 1..n PROVE s[k] = s[k - 1] \o Done(k)'.seen
      <3>1. CASE k = n
        <4>1. k - 1 = Top /\ Top \in 0..Top
          BY <1>2, <1>6, <3>1
        <4>2. s[k] = consumed /\ s[k - 1] = consumed
          BY <2>2, <2>5, <3>1, <4>1
        <4>3. Done(k)'.seen = <<>>
          BY <1>24, <3>1
        <4>4. consumed \o <<>> = consumed
          BY <2>3
        <4> QED
          BY <4>2, <4>3, <4>4
      <3>2. CASE k # n
        <4>1. k \in 1..Top /\ k - 1 \in 0..Top /\ k \in 0..Top /\ (k = Top \/ k < Top)
          BY <1>2, <1>6, <3>2
        <4>2. Done(k)' = Done(k)
          BY <1>22, <1>23, <4>1
        <4> QED
          BY <2>2, <2>5, <4>1, <4>2
      <3> QED
        BY <3>1, <3>2
    <2>7. Adding(s)'
      BY <1>1, <1>17, <2>5, <2>6 DEF Adding
    <2> QED
      BY <2>7 DEF FramesHaveConsumed
  <1> QED
    BY <1>1, <1>2, <1>21, <1>25, <1>26 DEF GenInv

(* Concatenation is associative. *)
LEMMA Associates ==
  \A x, y, z \in Seq(Element) : (x \o y) \o z = x \o (y \o z)
  OBVIOUS

(* A generator that is left has done all it does: to its consumer its        *)
(* elements are those of the program, and to a parent those of one           *)
(* statement more.                                                           *)
LEMMA LeaveKeeps ==
  ASSUME GenInv, running # 0, NEW exception \in BOOLEAN, Gen!Leave(exception),
         bodies' = bodies, consumed' = consumed,
         Gen!Whole(frames[Top].gen).seen = Done(Top).seen,
         Gen!Whole(frames[Top].gen).threw <=> exception
  PROVE  GenInv'
  <1>1. /\ outcome = "going" /\ running = Top /\ GenTypeOK /\ StackInv /\ Top \in 1..Top /\ Top \in Nat
        /\ frames \in Seq(GenFrame) /\ Len(frames) = Top /\ frames[Top].gen \in DOMAIN bodies
        /\ Gen!IsProgram(bodies) /\ FrameInv(Top) /\ frames[1].gen = 1 /\ Done(Top) \in Seen
        /\ frames[Top].parent = Top - 1 /\ (Top > 1 => frames[Top].root = 1) /\ Top > 0
    BY RunningIsTop DEF StackInv, FrameInv
  <1>2. PICK upTo : Adding(upTo)
    BY RunningIsTop DEF FramesHaveConsumed
  <1>3. /\ upTo \in [0..Top -> Seq(Element)] /\ upTo[0] = <<>> /\ upTo[Top] = consumed
        /\ \A k \in 1..Top : upTo[k] = upTo[k - 1] \o Done(k).seen
    BY <1>2 DEF Adding
  <1>4. consumed \in Seq(Element)
    BY <1>1 DEF GenTypeOK
  <1>5. CASE Top = 1
    <2>1. /\ outcome' = IF exception THEN "exception" ELSE "end"
          /\ running' = 0 /\ frames' = <<>>
      BY <1>1, <1>5 DEF Gen!Leave
    <2>2. consumed = Gen!Whole(1).seen
      <3>1. upTo[1] = upTo[1 - 1] \o Done(1).seen
        BY <1>1, <1>3, <1>5
      <3>2. upTo[1 - 1] = <<>>
        BY <1>3
      <3>3. \A x \in Seq(Element) : <<>> \o x = x
        OBVIOUS
      <3>4. Done(1).seen \in Seq(Element)
        BY <1>1, <1>5 DEF Seen
      <3> QED
        BY <1>1, <1>3, <1>5, <3>1, <3>2, <3>3, <3>4
    <2>3. (Gen!Whole(1))' = Gen!Whole(1) /\ (Gen!Whole(1).threw <=> exception)
      BY <1>1, <1>5, SameProgram
    <2>4. IsBefore(consumed, consumed)
      BY <1>4, Prefixes
    <2>5. outcome' \in {"end", "exception"} /\ (outcome' = "exception" <=> exception)
      BY <2>1
    <2>6. (IsBefore(consumed, Gen!Whole(1).seen))'
      BY <2>2, <2>3, <2>4 DEF IsBefore
    <2>7. Ended'
      BY <2>1, <2>2, <2>3, <2>5, <2>6 DEF Ended
    <2>8. GenTypeOK'
      <3>1. <<>> \in Seq(GenFrame)
        OBVIOUS
      <3> QED
        BY <1>1, <2>1, <2>5, <3>1, SameProgram DEF GenTypeOK
    <2> QED
      BY <2>5, <2>7, <2>8 DEF GenInv
  <1>6. CASE Top # 1
    <2>1. PICK t \in 1..Top : t = Top - 1 /\ t < Top
      BY <1>1, <1>6
    <2> DEFINE g == frames[t].gen
               i == frames[t].next - 1
               s == bodies[g][i]
    <2>2. FrameInv(t) /\ Nests(t) /\ ~frames[t].except /\ ~Done(t).threw /\ Reached(t) = frames[t].next - 2
      BY <1>1, <2>1 DEF StackInv, FrameInv, Reached
    <2>3. g \in DOMAIN bodies /\ i \in 1..Len(bodies[g]) /\ i - 1 = Reached(t) /\ Len(bodies[g]) \in Nat
          /\ i \in Nat /\ frames[t].next = i + 1
      <3>1. Len(bodies[g]) \in Nat /\ g \in DOMAIN bodies
        BY <1>1, <2>2 DEF FrameInv, Gen!IsProgram
      <3>2. PICK n \in 1..(Len(bodies[g]) + 1) : n = frames[t].next
        BY <2>2 DEF FrameInv
      <3>3. n > 1
        BY <2>2, <3>2 DEF Nests
      <3> QED
        BY <2>2, <3>1, <3>2, <3>3
    <2>4. s.does = "nest" /\ s.g = frames[t + 1].gen /\ t + 1 = Top /\ s.catches \in BOOLEAN
      <3>1. s.does = "nest" /\ s.g = frames[t + 1].gen
        BY <2>2 DEF Nests
      <3>2. PICK r : r = s
        OBVIOUS
      <3>3. r = bodies[g][i] /\ r.does = "nest"
        BY <3>1, <3>2
      <3>4. r.catches \in BOOLEAN
        <4> HIDE DEF g, i, s
        <4> QED
          BY <1>1, <2>3, <3>3, StatementAt
      <3>5. t + 1 = Top
        BY <1>1, <2>1
      <3> QED
        BY <3>1, <3>2, <3>4, <3>5
    <2>5. Adds(s, Done(t), <<g, i>>, Gen!Meaning[<<g, i>>])
      <3>1. Done(t) = Gen!Meaning[<<g, i - 1>>]
        BY <2>3 DEF Done
      <3> QED
        BY <1>1, <2>3, <3>1, StatementMeans
    <2>6. PICK b \in BOOLEAN : b = (exception /\ ~s.catches)
      OBVIOUS
    <2>7. PICK m : m = SubSeq(frames, 1, t)
      OBVIOUS
    <2>8. m \in Seq(GenFrame) /\ Len(m) = t /\ \A k \in 1..t : m[k] = frames[k]
      BY <1>1, <2>1, <2>7
    <2>9. PICK f : f = [m EXCEPT ![1].top = t]
      OBVIOUS
    <2>10. frames' = [f EXCEPT ![t].except = b] /\ running' = t /\ outcome' = outcome
      <3>1. /\ frames[running].parent = t /\ t # 0 /\ frames[running].root = 1
            /\ running - 1 = t
        BY <1>1, <2>1
      <3> QED
        BY <2>6, <2>7, <2>9, <3>1 DEF Gen!Leave
    <2> HIDE DEF g, i, s
    <2>11. 1 \in 1..t /\ t \in 1..t /\ t \in Nat /\ t > 0
      BY <1>1, <2>1
    <2>12. TopIsSet(f, m, 1, t)
      BY <2>8, <2>9, <2>11, FrameTop
    <2>13. PICK h : h = frames'
      OBVIOUS
    <2>14. ExceptIsSet(h, f, t, b)
      <3>1. f \in Seq(GenFrame) /\ t \in 1..Len(f)
        BY <2>8, <2>11, <2>12 DEF TopIsSet, Alike
      <3> QED
        BY <2>10, <2>13, <3>1, FrameExcept
    <2>15. /\ frames' \in Seq(GenFrame) /\ Len(frames') = t /\ frames'[1].top = t
           /\ (frames'[t].except <=> b)
           /\ \A k \in 1..t : /\ k # t => SameFrame(frames'[k], frames[k])
                              /\ frames'[k].gen = frames[k].gen /\ frames'[k].next = frames[k].next
                              /\ frames'[k].parent = frames[k].parent /\ frames'[k].root = frames[k].root
      <3>1. h \in Seq(GenFrame) /\ Len(h) = t /\ h[1].top = t /\ (h[t].except <=> b)
        BY <2>8, <2>11, <2>12, <2>14 DEF TopIsSet, ExceptIsSet, Alike
      <3>2. ASSUME NEW k \in 1..t
            PROVE  /\ k # t => SameFrame(h[k], frames[k])
                   /\ h[k].gen = frames[k].gen /\ h[k].next = frames[k].next
                   /\ h[k].parent = frames[k].parent /\ h[k].root = frames[k].root
        <4>1. SameFrame(f[k], m[k]) /\ m[k] = frames[k]
          BY <2>8, <2>12, <3>2 DEF TopIsSet
        <4>2. /\ k # t => SameFrame(h[k], f[k])
              /\ h[k].gen = f[k].gen /\ h[k].next = f[k].next
              /\ h[k].parent = f[k].parent /\ h[k].root = f[k].root
          BY <2>8, <2>12, <2>14, <3>2 DEF TopIsSet, ExceptIsSet, Alike
        <4> QED
          BY <4>1, <4>2 DEF SameFrame
      <3> QED
        BY <2>13, <3>1, <3>2
    <2>16. Top' = t
      BY <2>15 DEF Top
    <2>17. ASSUME NEW k \in 1..t, k < t PROVE FrameInv(k)' /\ Done(k)' = Done(k)
      <3>1. k + 1 \in 1..t /\ k \in 1..Top /\ k < Top
        BY <1>1, <2>1, <2>17
      <3>2. frames'[k + 1].gen = frames[k + 1].gen /\ SameFrame(frames'[k], frames[k])
        BY <2>15, <2>17, <3>1
      <3> QED
        BY <1>1, <2>11, <2>16, <2>17, <3>1, <3>2, LowerFrames
    <2>18. ASSUME NEW k, k = t PROVE Done(k)' = Gen!Meaning[<<g, i>>]
      <3>1. frames'[k].gen = g /\ frames'[k].next = i + 1
        BY <2>3, <2>11, <2>15, <2>18 DEF g
      <3>2. Reached(k)' = i
        BY <2>3, <2>16, <2>18, <3>1 DEF Reached
      <3> QED
        BY <3>1, <3>2, SameProgram DEF Done
    <2>19. /\ Gen!Meaning[<<g, i>>].seen = Done(t).seen \o Done(Top).seen
           /\ (Gen!Meaning[<<g, i>>].threw <=> b)
           /\ Done(t).seen \in Seq(Element)
      BY <2>2, <2>4, <2>5, <2>6 DEF Adds, Seen
    <2>20. ASSUME NEW k, k = t PROVE FrameInv(k)'
      <3>1. frames'[k].gen = g /\ frames'[k].next = i + 1 /\ (frames'[k].except <=> b)
        BY <2>3, <2>11, <2>15, <2>20 DEF g
      <3>2. Done(k)'.threw <=> frames'[k].except
        BY <2>18, <2>19, <2>20, <3>1
      <3>3. frames'[k].next \in 1..(Len(bodies'[g]) + 1) /\ frames'[k].next > 1
        BY <2>3, <3>1
      <3>4. frames'[k].parent = k - 1 /\ (k > 1 => frames'[k].root = 1)
        BY <2>2, <2>11, <2>15, <2>20 DEF FrameInv
      <3>5. ~(k < Top') /\ k = Top' /\ running' = Top'
        BY <2>10, <2>11, <2>16, <2>20
      <3> QED
        BY <2>3, <3>1, <3>2, <3>3, <3>4, <3>5 DEF FrameInv
    <2>21. StackInv'
      <3>1. ASSUME NEW k \in 1..t PROVE FrameInv(k)'
        <4>1. k = t \/ k < t
          BY <2>11
        <4> QED
          BY <4>1, <2>17, <2>20
      <3>2. frames'[1].top = t /\ frames'[1].gen = 1
        BY <1>1, <2>11, <2>15
      <3> QED
        BY <2>10, <2>11, <2>16, <3>1, <3>2 DEF StackInv
    <2>22. FramesHaveConsumed'
      <3>1. PICK a : a = [k \in 0..t |-> IF k = t THEN consumed ELSE upTo[k]]
        OBVIOUS
      <3>2. /\ a \in [0..t -> Seq(Element)] /\ a[0] = <<>> /\ a[t] = consumed
            /\ \A k \in 0..t : k # t => a[k] = upTo[k]
        BY <1>1, <1>3, <1>4, <2>1, <2>11, <3>1
      <3>3. ASSUME NEW k \in 1..t PROVE a[k] = a[k - 1] \o Done(k)'.seen
        <4>1. k - 1 \in 0..t /\ k - 1 # t /\ k \in 0..t /\ (k = t \/ k < t) /\ k \in 1..Top
          BY <1>1, <2>1, <2>11
        <4>2. a[k - 1] = upTo[k - 1] /\ upTo[k] = upTo[k - 1] \o Done(k).seen
          BY <1>3, <3>2, <4>1
        <4>3. CASE k < t
          <5>1. k # t
            BY <2>11, <4>3
          <5>2. a[k] = upTo[k] /\ Done(k)' = Done(k)
            BY <2>17, <3>2, <4>1, <4>3, <5>1
          <5> QED
            BY <4>2, <5>2
        <4>4. CASE k = t
          <5>1. upTo[Top] = upTo[t] \o Done(Top).seen
            BY <1>1, <1>3, <2>1
          <5>2. upTo[k - 1] \in Seq(Element) /\ Done(Top).seen \in Seq(Element)
            <6>1. k - 1 \in 0..Top
              BY <1>1, <4>1
            <6> QED
              BY <1>1, <1>3, <6>1 DEF Seen
          <5>3. (upTo[k - 1] \o Done(t).seen) \o Done(Top).seen
                  = upTo[k - 1] \o (Done(t).seen \o Done(Top).seen)
            BY <2>19, <5>2, Associates
          <5>4. consumed = upTo[k - 1] \o (Done(t).seen \o Done(Top).seen)
            BY <1>3, <4>2, <4>4, <5>1, <5>3
          <5>5. Done(k)'.seen = Done(t).seen \o Done(Top).seen
            BY <2>18, <2>19, <4>4
          <5> QED
            BY <3>2, <4>2, <4>4, <5>4, <5>5
        <4> QED
          BY <4>1, <4>3, <4>4
      <3>4. Adding(a)'
        BY <2>16, <3>2, <3>3 DEF Adding
      <3> QED
        BY <3>4 DEF FramesHaveConsumed
    <2>23. GenTypeOK'
      BY <1>1, <2>10, <2>11, <2>15, SameProgram DEF GenTypeOK
    <2> QED
      BY <1>1, <2>10, <2>21, <2>22, <2>23 DEF GenInv
  <1> QED
    BY <1>5, <1>6

(* The end of a generator, and an exception of it or of one it has nested.   *)
LEMMA FinishKeeps ==
  ASSUME GenInv, Gen!Finish PROVE GenInv'
  <1>1. /\ running # 0 /\ ~frames[running].except /\ Gen!Leave(FALSE)
        /\ frames[running].next > Len(bodies[frames[running].gen])
        /\ bodies' = bodies /\ consumed' = consumed
    BY DEF Gen!Finish, Gen!AtEnd, Gen!Body
  <1>2. running = Top /\ ~Done(Top).threw
    BY <1>1, RunningIsTop
  <1>3. Gen!Whole(frames[Top].gen) = Done(Top)
    <2>1. PICK n \in 1..(Len(bodies[frames[Top].gen]) + 1) : n = frames[Top].next
      BY <1>1, RunningIsTop
    <2>2. n - 1 = Len(bodies[frames[Top].gen])
      BY <1>1, <1>2, <2>1, RunningIsTop
    <2>3. Done(Top) = Gen!Meaning[<<frames[Top].gen, n - 1>>]
      BY <1>1, <2>1, RunningIsTop
    <2> QED
      BY <2>2, <2>3 DEF Gen!Whole
  <1> QED
    BY <1>1, <1>2, <1>3, LeaveKeeps

(* The same with an exception. *)
LEMMA FailKeeps ==
  ASSUME GenInv, Gen!Fail PROVE GenInv'
  <1>1. /\ running # 0 /\ Gen!Leave(TRUE) /\ bodies' = bodies /\ consumed' = consumed
        /\ frames[running].except \/ (~Gen!AtEnd /\ Gen!Statement.does = "throw")
    BY DEF Gen!Fail
  <1> DEFINE g == frames[Top].gen
             i == frames[Top].next
  <1>2. running = Top /\ Gen!IsProgram(bodies) /\ g \in DOMAIN bodies /\ Done(Top) \in Seen
        /\ Reached(Top) \in 0..Len(bodies[g]) /\ (Done(Top).threw <=> frames[Top].except)
    BY <1>1, RunningIsTop
  <1>3. CASE frames[running].except
    <2>1. Gen!Whole(g) = Done(Top)
      BY <1>2, <1>3, MeaningGrows DEF Done
    <2> QED
      BY <1>1, <1>2, <1>3, <2>1, LeaveKeeps
  <1>4. CASE ~frames[running].except
    <2>1. Gen!At("throw")
      BY <1>1, <1>4 DEF Gen!At
    <2>2. /\ ~Done(Top).threw /\ i \in 1..Len(bodies[g]) /\ Gen!Statement.does = "throw"
          /\ Adds(Gen!Statement, Done(Top), <<g, i>>, Gen!Meaning[<<g, i>>])
      BY <2>1, StatementToRun
    <2>3. Gen!Meaning[<<g, i>>].seen = Done(Top).seen /\ Gen!Meaning[<<g, i>>].threw
      BY <2>2 DEF Adds
    <2>4. i \in 0..Len(bodies[g])
      BY <2>2
    <2>5. Gen!Whole(g) = Gen!Meaning[<<g, i>>]
      BY <1>2, <2>3, <2>4, MeaningGrows
    <2> QED
      BY <1>1, <1>2, <2>3, <2>5, LeaveKeeps
  <1> QED
    BY <1>3, <1>4

(* A step of another component leaves the generator at rest. *)
LEMMA GenRuns ==
  ASSUME MCNext
  PROVE  Gen!Next \/ UNCHANGED genVars
  BY DEF MCNext, genVars

(* The steps of the generator keep what its frames have done. *)
LEMMA GenStep ==
  ASSUME GenInv, [MCNext]_<<component, vars, allVars, anyVars, lazyVars, genVars, futVars>>
  PROVE  GenInv'
  <1>1. CASE Gen!Next
    BY <1>1, YieldValueKeeps, IncrementKeeps, DropKeeps, NestGeneratorKeeps, FinishKeeps,
       FailKeeps DEF Gen!Next
  <1>2. CASE UNCHANGED genVars
    <2>1. /\ bodies' = bodies /\ frames' = frames /\ running' = running /\ consumed' = consumed
          /\ outcome' = outcome
      BY <1>2 DEF genVars
    <2>2. Gen!Meaning' = Gen!Meaning /\ (Gen!Whole(1))' = Gen!Whole(1) /\ Top' = Top
      BY <2>1, SameProgram DEF Top
    <2>3. \A k : Done(k)' = Done(k) /\ (Nests(k)' <=> Nests(k))
      BY <2>1, <2>2 DEF Done, Reached, Nests
    <2>4. \A k : FrameInv(k)' <=> FrameInv(k)
      BY <2>1, <2>2, <2>3 DEF FrameInv
    <2>5. StackInv' <=> StackInv
      BY <2>1, <2>2, <2>4 DEF StackInv
    <2>6. \A upTo : Adding(upTo)' <=> Adding(upTo)
      BY <2>1, <2>2, <2>3 DEF Adding
    <2>7. FramesHaveConsumed' <=> FramesHaveConsumed
      BY <2>6 DEF FramesHaveConsumed
    <2>8. Ended' <=> Ended
      BY <2>1, <2>2 DEF Ended, IsBefore
    <2>9. GenTypeOK' <=> GenTypeOK
      BY <2>1, SameProgram DEF GenTypeOK
    <2> QED
      BY <2>1, <2>5, <2>7, <2>8, <2>9 DEF GenInv
  <1> QED
    BY <1>1, <1>2, GenRuns DEF genVars

(* However deep the generators of any programs are nested, and whichever of  *)
(* them throw, the consumer that resumes root.top_ gets the elements of the  *)
(* recursive program, in its order, and behind the last one the end or the   *)
(* exception that leaves the program.                                        *)
THEOREM ElementsAlwaysInOrder == MCSpec => []ElementsInOrder
  <1>1. MCInit => GenInv
    BY GenInit
  <1>2. GenInv /\ [MCNext]_<<component, vars, allVars, anyVars, lazyVars, genVars, futVars>> => GenInv'
    BY GenStep
  <1>3. GenInv => ElementsInOrder
    <2> SUFFICES ASSUME GenInv PROVE ElementsInOrder
      OBVIOUS
    <2>1. GenTypeOK /\ IsBefore(consumed, Gen!Whole(1).seen)
      BY ConsumedIsPrefix DEF GenInv, Ended
    <2>2. Gen!Whole(1) \in Seen
      <3>1. 1 \in DOMAIN bodies /\ 0 \in 0..Len(bodies[1])
        BY <2>1 DEF GenTypeOK, Gen!IsProgram
      <3> QED
        BY <2>1, <3>1, MeaningGrows DEF GenTypeOK
    <2>3. Gen!IsPrefix(consumed, Gen!Whole(1).seen)
      BY <2>1, <2>2, Prefixes DEF GenTypeOK, Seen
    <2>4. outcome \in {"end", "exception"} =>
            consumed = Gen!Whole(1).seen /\ (outcome = "exception" <=> Gen!Whole(1).threw)
      BY DEF GenInv, Ended
    <2> QED
      BY <2>3, <2>4 DEF ElementsInOrder, Gen!ElementsInOrder
  <1> QED
    BY <1>1, <1>2, <1>3, PTL DEF MCSpec
=============================================================================
