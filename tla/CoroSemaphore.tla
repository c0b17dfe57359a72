--------------------------- MODULE CoroSemaphore ---------------------------
(***************************************************************************)
(* The two counters on which coroutines wait: CountingSemaphore of         *)
(* coro/Semaphore.h and Latch of coro/Latch.h.  Both are a count, a        *)
(* SpinLock and a ConditionVariable, and both wait in the loop of          *)
(* ConditionVariable::wait: test, sleep with the lock given up, take the   *)
(* lock again.  An operation is the step that takes the lock and one that  *)
(* does the work; the notification is sent with the lock still held.       *)
(***************************************************************************)
EXTENDS Integers, FiniteSets

CONSTANTS Coroutines,
          LeastMaxValue,  \* of the semaphore, and the first count of the latch
          Kinds           \* which of the two: a subset of {"semaphore", "latch"}

Nobody == "nobody"

ASSUME CoroSemaphoreAssumption ==
  /\ IsFiniteSet(Coroutines)
  /\ Nobody \notin Coroutines
  /\ LeastMaxValue \in Nat \ {0}
  /\ Kinds \subseteq {"semaphore", "latch"}

VARIABLES kind,   \* which counter this is
          place,  \* the operation each coroutine is in, or "asleep" in the list
          lock,   \* who holds lock_ (mutex_ of the latch)
          count   \* count_

vars == <<kind, place, lock, count>>

Init ==
  /\ kind \in Kinds
  /\ place = [c \in Coroutines |-> "idle"]
  /\ lock = Nobody
  /\ count \in IF kind = "latch" THEN {LeastMaxValue} ELSE 0..LeastMaxValue

Calls == IF kind = "latch" THEN {"count_down", "arrive_and_wait", "wait", "try_wait"}
                           ELSE {"acquire", "try_acquire", "release"}
Waiting == {"acquire", "wait", "woken"}   \* operations that test the condition

(* The assertion of release() makes it the callers' duty not to release more *)
(* than the counter can take: each release under way has its unit reserved.  *)
Releasing == {c \in Coroutines : place[c] = "release"}

Call(c) ==
  /\ place[c] = "idle"
  /\ \E op \in Calls :
       /\ op = "release" => count + Cardinality(Releasing) < LeastMaxValue
       /\ place' = [place EXCEPT ![c] = op]
  /\ UNCHANGED <<kind, lock, count>>

TakeLock(c) ==
  /\ place[c] \notin {"idle", "asleep"}
  /\ lock = Nobody
  /\ lock' = c
  /\ UNCHANGED <<kind, place, count>>

-----------------------------------------------------------------------------
(* What an operation does with the lock.  It leaves for another place, and   *)
(* the waiters that it notified line up for the lock as "woken".             *)
Asleep == {c \in Coroutines : place[c] = "asleep"}
Does(c, ops) == place[c] \in ops /\ lock = c /\ lock' = Nobody /\ UNCHANGED kind
Leave(c, to, woken) ==
  place' = [d \in Coroutines |-> IF d = c THEN to ELSE IF d \in woken THEN "woken" ELSE place[d]]

Ready == IF kind = "latch" THEN count = 0 ELSE count > 0

(* acquire() and wait(): from the call, or again after a notification.       *)
Wait(c) ==
  /\ Does(c, Waiting)
  /\ IF Ready
       THEN Leave(c, "idle", {}) /\ count' = IF kind = "latch" THEN 0 ELSE count - 1
       ELSE Leave(c, "asleep", {}) /\ UNCHANGED count

TryAcquire(c) ==
  /\ Does(c, {"try_acquire"})
  /\ count' = IF count > 0 THEN count - 1 ELSE 0
  /\ Leave(c, "idle", {})

(* Mutant: notifyOne() whatever the update. *)
ReleaseNotifyingOne(c) ==
  /\ Does(c, {"release"})
  /\ \E update \in 1..(LeastMaxValue - count - Cardinality(Releasing \ {c})) :
       /\ count' = count + update
       /\ IF Asleep = {} THEN Leave(c, "idle", {}) ELSE \E w \in Asleep : Leave(c, "idle", {w})

(* More than one unit wakes everybody, one unit any one waiter.              *)
Release(c) ==
  /\ Does(c, {"release"})
  /\ \E update \in 1..(LeastMaxValue - count - Cardinality(Releasing \ {c})) :
       /\ count' = count + update
       /\ IF update > 1 \/ Asleep = {} THEN Leave(c, "idle", Asleep)
                                       ELSE \E w \in Asleep : Leave(c, "idle", {w})

(* count_down(), on its own or before the wait() of arrive_and_wait().       *)
CountDown(c) ==
  /\ Does(c, {"count_down", "arrive_and_wait"})
  /\ \E update \in 0..count :
       /\ count' = count - update
       /\ Leave(c, IF place[c] = "count_down" THEN "idle" ELSE "wait",
                IF count = update THEN Asleep ELSE {})

TryWait(c) ==
  /\ Does(c, {"try_wait"})
  /\ Leave(c, "idle", {})
  /\ UNCHANGED count

-----------------------------------------------------------------------------
Locked(c) == Wait(c) \/ TryAcquire(c) \/ Release(c) \/ CountDown(c) \/ TryWait(c)

Next == \E c \in Coroutines : Call(c) \/ TakeLock(c) \/ Locked(c)

Spec == Init /\ [][Next]_vars
-----------------------------------------------------------------------------
(* Every variable has its type, and only a coroutine that is in an operation *)
(* holds the lock.                                                           *)
TypeOK ==
  /\ kind \in {"semaphore", "latch"}
  /\ place \in [Coroutines -> Calls \union {"idle", "asleep", "woken"}]
  /\ lock \in {Nobody} \union {c \in Coroutines : place[c] \notin {"idle", "asleep"}}
  /\ count \in 0..LeastMaxValue

(* Nobody sleeps on a unit: while somebody sleeps at the semaphore there are *)
(* at least as many waiters on their way as there are units, however the     *)
(* units were released and whoever took one in between; and nobody sleeps at *)
(* a latch that is open.                                                     *)
Woken == {c \in Coroutines : place[c] = "woken"}
NobodySleepsOnUnits ==
  Asleep # {} => IF kind = "latch" THEN count > 0 ELSE count <= Cardinality(Woken)
=============================================================================
