---------------------------- MODULE SharedMutex ----------------------------
(***************************************************************************)
(* The readers-writer lock of coro/SharedMutex.h, over the SpinLock of     *)
(* coro/SpinLock.h and two condition variables, coro/ConditionVariable.h.  *)
(* Everything is read and written under the spin lock mut_, so that an     *)
(* operation is the step that takes mut_ and one that does the work and    *)
(* lets go of it.                                                          *)
(*                                                                         *)
(* The word state_ is the flag of the high bit and the count in the other  *)
(* bits.  notifyOne() and notifyAll() are declared but not defined in the  *)
(* repository: here they wake any one waiter, or all, who then line up for *)
(* mut_ again as wait() does.  A waiter is in the list of the condition    *)
(* variable before mut_ is free, so that its place tells where it waits.   *)
(***************************************************************************)
EXTENDS Integers, FiniteSets

CONSTANTS Coroutines,
          MaxReaders  \* max_readers, 2^31 - 1 in the code

Nobody == "nobody"

ASSUME SharedMutexAssumption ==
  /\ IsFiniteSet(Coroutines)
  /\ Nobody \notin Coroutines
  /\ MaxReaders \in Nat \ {0}

VARIABLES pc,       \* where each coroutine is: the operation it is in, the gate
                    \* it sleeps at, or how it holds the lock
          mut,      \* who holds mut_
          entered,  \* the write-entered flag of state_
          readers   \* the reader count of state_

vars == <<pc, mut, entered, readers>>

Init ==
  /\ pc = [c \in Coroutines |-> "idle"]
  /\ mut = Nobody
  /\ entered = FALSE
  /\ readers = 0

(* A coroutine calls an operation that makes sense where it is.              *)
Call(c) ==
  /\ \/ /\ pc[c] = "idle"
        /\ \E op \in {"coLock", "tryLock", "coLockShared", "tryLockShared"} :
             pc' = [pc EXCEPT ![c] = op]
     \/ pc[c] = "owner" /\ pc' = [pc EXCEPT ![c] = "unlock"]
     \/ pc[c] = "sharing" /\ pc' = [pc EXCEPT ![c] = "unlockShared"]
  /\ UNCHANGED <<mut, entered, readers>>

(* It takes mut_ when that is free; until then it spins or yields.           *)
Operations == {"coLock", "tryLock", "unlock", "coLockShared", "tryLockShared", "unlockShared",
               "woken"}
LockMut(c) ==
  /\ pc[c] \in Operations
  /\ mut = Nobody
  /\ mut' = c
  /\ UNCHANGED <<pc, entered, readers>>

(* Only the try operations give up. *)
GiveUp(c) ==
  /\ pc[c] \in {"tryLock", "tryLockShared"}
  /\ mut \notin {Nobody, c}
  /\ pc' = [pc EXCEPT ![c] = "idle"]
  /\ UNCHANGED <<mut, entered, readers>>

-----------------------------------------------------------------------------
(* What the operations do under mut_. *)

Does(c, op) == pc[c] = op /\ mut = c /\ mut' = Nobody
Go(c, place) == pc' = [pc EXCEPT ![c] = place]

(* Mutant: a writer does not wait for the readers. *)
CoLockAtOnce(c) ==
  /\ Does(c, "coLock")
  /\ entered' = TRUE
  /\ Go(c, IF entered THEN "gate1 to lock" ELSE "owner")
  /\ UNCHANGED readers

CoLock(c) ==
  /\ Does(c, "coLock")
  /\ entered' = TRUE
  /\ Go(c, IF entered THEN "gate1 to lock" ELSE IF readers = 0 THEN "owner" ELSE "gate2")
  /\ UNCHANGED readers

(* The rest of coLock() for a writer woken at gate2. *)
CoLockWoken(c) ==
  /\ Does(c, "woken")
  /\ Go(c, IF readers = 0 THEN "owner" ELSE "gate2")
  /\ UNCHANGED <<entered, readers>>

(* Mutant: tryLock() looks only at the flag. *)
TryLockAtOnce(c) ==
  /\ Does(c, "tryLock")
  /\ IF ~entered THEN entered' = TRUE /\ Go(c, "owner") ELSE UNCHANGED entered /\ Go(c, "idle")
  /\ UNCHANGED readers

TryLock(c) ==
  /\ Does(c, "tryLock")
  /\ IF ~entered /\ readers = 0
       THEN entered' = TRUE /\ Go(c, "owner")
       ELSE UNCHANGED entered /\ Go(c, "idle")
  /\ UNCHANGED readers

(* gate1_.notifyAll(): its waiters test their condition again.               *)
AfterGate1(place) == CASE place = "gate1 to lock" -> "coLock"
                       [] place = "gate1 to share" -> "coLockShared"
                       [] OTHER -> place

Unlock(c) ==
  /\ Does(c, "unlock")
  /\ entered' = FALSE
  /\ readers' = 0
  /\ pc' = [d \in Coroutines |-> IF d = c THEN "idle" ELSE AfterGate1(pc[d])]

CoLockShared(c) ==
  /\ Does(c, "coLockShared")
  /\ IF entered \/ readers >= MaxReaders
       THEN UNCHANGED readers /\ Go(c, "gate1 to share")
       ELSE readers' = readers + 1 /\ Go(c, "sharing")
  /\ UNCHANGED entered

TryLockShared(c) ==
  /\ Does(c, "tryLockShared")
  /\ IF entered \/ readers >= MaxReaders
       THEN UNCHANGED readers /\ Go(c, "idle")
       ELSE readers' = readers + 1 /\ Go(c, "sharing")
  /\ UNCHANGED entered

(* notifyOne() of a gate: one of its waiters, if there is one, leaves it.    *)
LeaveAndWake(c, waiters) ==
  IF waiters = {} THEN Go(c, "idle")
  ELSE \E w \in waiters :
         pc' = [pc EXCEPT ![c] = "idle", ![w] = IF @ = "gate2" THEN "woken" ELSE AfterGate1(@)]

At(place) == {c \in Coroutines : pc[c] = place}
Gate1 == At("gate1 to lock") \union At("gate1 to share")
Gate2 == At("gate2")

(* Mutant: the writer at gate2 is never notified. *)
UnlockWithoutGate2(c) ==
  /\ Does(c, "unlockShared")
  /\ readers' = readers - 1
  /\ LeaveAndWake(c, IF ~entered /\ readers = MaxReaders THEN Gate1 ELSE {})
  /\ UNCHANGED entered

(* The last reader wakes the queued writer; when there is none, the reader   *)
(* that makes room below the limit wakes a waiter of gate1.                  *)
UnlockShared(c) ==
  /\ Does(c, "unlockShared")
  /\ readers' = readers - 1
  /\ LeaveAndWake(c, IF entered /\ readers = 1 THEN Gate2
                     ELSE IF ~entered /\ readers = MaxReaders THEN Gate1 ELSE {})
  /\ UNCHANGED entered

-----------------------------------------------------------------------------
Locked(c) == \/ CoLock(c) \/ CoLockWoken(c) \/ TryLock(c) \/ Unlock(c)
             \/ CoLockShared(c) \/ TryLockShared(c) \/ UnlockShared(c)

Next == \E c \in Coroutines : Call(c) \/ LockMut(c) \/ GiveUp(c) \/ Locked(c)

Spec == Init /\ [][Next]_vars

-----------------------------------------------------------------------------
(* Properties. *)

Places == Operations \union {"idle", "owner", "sharing", "gate1 to lock", "gate1 to share", "gate2"}

TypeOK ==
  /\ pc \in [Coroutines -> Places]
  /\ mut \in Coroutines \union {Nobody}
  /\ mut # Nobody => pc[mut] \in Operations
  /\ entered \in BOOLEAN
  /\ readers \in 0..MaxReaders

Writers == {c \in Coroutines : pc[c] \in {"owner", "unlock", "gate2", "woken"}}
Readers == {c \in Coroutines : pc[c] \in {"sharing", "unlockShared"}}

(* state_ says who holds the lock: the flag that there is one writer who has *)
(* entered, the count how many readers there are, and an owner has no        *)
(* readers beside it.  The assertions of unlock() and unlockShared(), and of *)
(* the destructor when nobody uses the lock any more, follow.                *)
StateWord ==
  /\ entered <=> Writers # {}
  /\ \A c, d \in Writers : c = d
  /\ readers = Cardinality(Readers)
  /\ \A c \in Coroutines : pc[c] \in {"owner", "unlock"} => readers = 0

(* A writer sleeps at gate1 only behind a writer that will notify it, and at *)
(* gate2 only while there are readers left.                                  *)
WriterSleepsForReason ==
  \A c \in Coroutines :
    /\ pc[c] = "gate1 to lock" => entered
    /\ pc[c] = "gate2" => readers > 0

(* A reader sleeps only while a writer has entered or the lock is full: the  *)
(* one notification sent at the limit is enough.                             *)
ReaderSleepsForReason ==
  \A c \in Coroutines : pc[c] = "gate1 to share" => entered \/ readers >= MaxReaders

(* Nobody sleeps at a gate without somebody left who will notify it there:   *)
(* the two gates and the two kinds of waiters of the first one together.     *)
SleepersHaveReason == WriterSleepsForReason /\ ReaderSleepsForReason

(* SharedMutex is a readers-writer lock. *)
Abstract == INSTANCE RWLock WITH
  hold <- [c \in Coroutines |-> IF pc[c] \in {"owner", "unlock"} THEN "exclusive"
                                ELSE IF c \in Readers THEN "shared" ELSE "none"]
ImplementsRWLock == Abstract!Spec
=============================================================================
