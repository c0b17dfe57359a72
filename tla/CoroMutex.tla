---------------------------- MODULE CoroMutex ----------------------------
(***************************************************************************)
(* The asynchronous mutex of coro/Mutex.h.  One atomic word, state_, is    *)
(* the address of the mutex itself when nobody holds it, and otherwise the *)
(* head of a stack of newly queued LockAwaiters (nullptr: the empty        *)
(* stack).  waiters_ is a second list, in FIFO order, that only the holder *)
(* touches.  unlock() never releases the lock while somebody is queued: it *)
(* resumes the next awaiter, which then owns the lock.                     *)
(*                                                                         *)
(* Coroutines run on the threads of an executor, so every coroutine is an  *)
(* actor, and an action is one access to state_.  The LIFO list is the     *)
(* sequence of the awaiters reachable from state_, head first; a           *)
(* compare-exchange compares only the head, as the code does, so that the  *)
(* ABA case is in the model.                                               *)
(***************************************************************************)
EXTENDS Naturals, Sequences, SequencesExt

CONSTANTS Coroutines,   \* the coroutines that use the mutex
          Unlocked,     \* unlockedState(): the address of the mutex
          Null          \* nullptr

ASSUME PointersDiffer ==
  /\ Unlocked \notin Coroutines
  /\ Null \notin Coroutines
  /\ Unlocked # Null

VARIABLES locked,    \* state_ # unlockedState()
          newcomers, \* the awaiters reachable from state_, LIFO
          waiters,   \* waiters_: FIFO, the holder's
          old,       \* oldValue of lockAsyncImpl, per coroutine
          pc         \* where each coroutine is

vars == <<locked, newcomers, waiters, old, pc>>

Pointers == Coroutines \union {Unlocked, Null}

(* The value an atomic load of state_ returns. *)
State == IF ~locked THEN Unlocked
         ELSE IF newcomers = <<>> THEN Null ELSE Head(newcomers)

(* Where a coroutine that owns the lock may be. *)
Holding == {"critical", "releasing", "collecting", "handing"}

TypeOK ==
  /\ locked \in BOOLEAN
  /\ newcomers \in Seq(Coroutines)
  /\ waiters \in Seq(Coroutines)
  /\ old \in [Coroutines -> Pointers]
  /\ pc \in [Coroutines -> {"idle", "loading", "casing", "waiting"} \union Holding]

Init ==
  /\ locked = FALSE
  /\ newcomers = <<>>
  /\ waiters = <<>>
  /\ old = [c \in Coroutines |-> Unlocked]
  /\ pc = [c \in Coroutines |-> "idle"]

Go(c, from, to) == pc[c] = from /\ pc' = [pc EXCEPT ![c] = to]

-----------------------------------------------------------------------------
(* tryLock(): one compare-exchange of Unlocked by nullptr.  It is the whole  *)
(* of the synchronous entry point and also await_ready() of a LockAwaiter,   *)
(* where a failure leads to await_suspend() instead of to the caller.        *)
TryLock(c) ==
  /\ pc[c] = "idle"
  /\ ~locked
  /\ locked' = TRUE
  /\ pc' = [pc EXCEPT ![c] = "critical"]
  /\ UNCHANGED <<newcomers, waiters, old>>

AwaitReadyFails(c) ==
  /\ Go(c, "idle", "loading")
  /\ locked
  /\ UNCHANGED <<locked, newcomers, waiters, old>>

(* lockAsyncImpl(): the first, relaxed, load of state_. *)
LoadState(c) ==
  /\ Go(c, "loading", "casing")
  /\ old' = [old EXCEPT ![c] = State]
  /\ UNCHANGED <<locked, newcomers, waiters>>

(* Mutant: the late acquisition is a plain store. *)
AcquireLateByStore(c) ==
  /\ Go(c, "casing", "critical")
  /\ old[c] = Unlocked
  /\ locked' = TRUE
  /\ UNCHANGED <<newcomers, waiters, old>>

(* lockAsyncImpl(), the mutex looked free: take it, do not suspend. *)
AcquireLate(c) ==
  /\ Go(c, "casing", "critical")
  /\ old[c] = Unlocked
  /\ State = old[c]
  /\ locked' = TRUE
  /\ UNCHANGED <<newcomers, waiters, old>>

(* lockAsyncImpl(), the mutex looked held: push this awaiter and suspend. *)
Enqueue(c) ==
  /\ Go(c, "casing", "waiting")
  /\ old[c] # Unlocked
  /\ State = old[c]
  /\ newcomers' = <<c>> \o newcomers
  /\ UNCHANGED <<locked, waiters, old>>

(* A failed compare-exchange stores what it found into oldValue. *)
CasFails(c) ==
  /\ pc[c] = "casing"
  /\ State # old[c]
  /\ old' = [old EXCEPT ![c] = State]
  /\ UNCHANGED <<locked, newcomers, waiters, pc>>

-----------------------------------------------------------------------------
(* unlock(): the holder looks at its own list, then at state_. *)
UnlockBegin(c) ==
  /\ pc[c] = "critical"
  /\ pc' = [pc EXCEPT ![c] = IF waiters # <<>> THEN "handing"
                             ELSE IF State = Null THEN "releasing"
                             ELSE "collecting"]
  /\ UNCHANGED <<locked, newcomers, waiters, old>>

(* Mutant: the release is a plain store. *)
ReleaseByStore(c) ==
  /\ Go(c, "releasing", "idle")
  /\ locked' = FALSE
  /\ UNCHANGED <<newcomers, waiters, old>>

(* The compare-exchange of nullptr by Unlocked decides the race with a new   *)
(* waiter.                                                                    *)
Release(c) ==
  /\ Go(c, "releasing", "idle")
  /\ State = Null
  /\ locked' = FALSE
  /\ UNCHANGED <<newcomers, waiters, old>>

ReleaseFails(c) ==
  /\ Go(c, "releasing", "collecting")
  /\ State # Null
  /\ UNCHANGED <<locked, newcomers, waiters, old>>

(* Mutant: the list is taken as it is. *)
CollectWithoutReversal(c) ==
  /\ Go(c, "collecting", "handing")
  /\ newcomers' = <<>>
  /\ waiters' = newcomers \o waiters
  /\ UNCHANGED <<locked, old>>

(* The exchange by nullptr takes the stack; the loop reverses it. *)
CollectNewcomers(c) ==
  /\ Go(c, "collecting", "handing")
  /\ newcomers' = <<>>
  /\ waiters' = Reverse(newcomers) \o waiters
  /\ UNCHANGED <<locked, old>>

(* The head of waiters_ leaves the list and is resumed: it owns the lock. *)
HandOver(c) ==
  /\ pc[c] = "handing"
  /\ waiters # <<>>
  /\ waiters' = Tail(waiters)
  /\ pc' = [pc EXCEPT ![c] = "idle", ![Head(waiters)] = "critical"]
  /\ UNCHANGED <<locked, newcomers, old>>

-----------------------------------------------------------------------------
Lock(c) == TryLock(c) \/ AwaitReadyFails(c) \/ LoadState(c)
             \/ AcquireLate(c) \/ Enqueue(c) \/ CasFails(c)

Unlock(c) == UnlockBegin(c) \/ Release(c) \/ ReleaseFails(c)
               \/ CollectNewcomers(c) \/ HandOver(c)

Next == \E c \in Coroutines : Lock(c) \/ Unlock(c)

Spec == Init /\ [][Next]_vars

(* A thread runs the code of unlock() to its end, and a holder, whose        *)
(* critical section is finite, calls it.  Nothing makes a coroutine lock.    *)
FairSpec == Spec /\ \A c \in Coroutines : WF_vars(Unlock(c))
-----------------------------------------------------------------------------
(* Properties. *)

Owners == {c \in Coroutines : pc[c] \in Holding}

(* At most one coroutine is between a successful acquisition and the release *)
(* of the lock, although acquisitions come from tryLock(), from the retry    *)
(* loop of lockAsyncImpl() and from the hand-over in unlock().               *)
MutualExclusion == \A c, d \in Owners : c = d

(* The queue as unlock() will serve it: its own list, then the LIFO stack    *)
(* read backwards.                                                           *)
Line == waiters \o Reverse(newcomers)

(* No awaiter is lost and none is resumed twice: the suspended coroutines    *)
(* are exactly those in the two lists, each once, and there is a holder to   *)
(* serve them (unlock() leaves state_ unlocked only when nobody is queued).  *)
QueueIntact ==
  /\ \A c \in Coroutines : pc[c] = "waiting" <=> \E i \in DOMAIN Line : Line[i] = c
  /\ \A i, j \in DOMAIN Line : Line[i] = Line[j] => i = j
  /\ Line # <<>> => Owners # {}

(* The assertions of unlock(): the mutex is held when unlock() starts, the   *)
(* stack it exchanges is neither free nor empty, and there is an awaiter to  *)
(* resume.                                                                   *)
UnlockAsserts ==
  \A c \in Coroutines :
    /\ pc[c] = "critical" => State # Unlocked
    /\ pc[c] = "collecting" => State \notin {Unlocked, Null}
    /\ pc[c] = "handing" => waiters # <<>>

(* The mutex implements the first-come-first-served lock of FifoLock: the    *)
(* compare-exchanges and the two lists never let a coroutine overtake one    *)
(* that has queued.                                                          *)
Fifo == INSTANCE FifoLock WITH owners <- Owners, line <- Line

ImplementsFifoLock == Fifo!Spec

(* Every coroutine suspended in co_await coLock() is resumed as the owner,   *)
(* if holders unlock.  (A coroutine still in the retry loop may lose its     *)
(* race for ever: lock-free, not wait-free.)                                 *)
EveryWaiterServed ==
  \A c \in Coroutines : pc[c] = "waiting" ~> pc[c] = "critical"
=============================================================================
