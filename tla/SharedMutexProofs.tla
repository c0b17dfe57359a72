------------------------- MODULE SharedMutexProofs -------------------------
(***************************************************************************)
(* Proofs about SharedMutex, for every finite set of coroutines and every  *)
(* limit of readers.                                                       *)
(*                                                                         *)
(* The invariant has to know the word state_ exactly: that the flag is set *)
(* keeps new readers and writers out only because the flag belongs to the  *)
(* one writer past gate1_, and that the count is zero lets that writer in  *)
(* only because the count is the number of readers.                        *)
(***************************************************************************)
EXTENDS SharedMutex, FiniteSetTheorems, TLAPS

IInv == TypeOK /\ StateWord /\ WriterSleepsForReason

-----------------------------------------------------------------------------
(* The reader count *)

(* A coroutine that becomes a reader makes one more of them. *)
LEMMA OneReaderMore ==
  ASSUME TypeOK, NEW c \in Coroutines, c \notin Readers, readers = Cardinality(Readers),
         Readers' = Readers \union {c}, readers' = readers + 1
  PROVE  readers' = Cardinality(Readers')
<1>1. IsFiniteSet(Readers)
  BY SharedMutexAssumption, FS_Subset DEF Readers
<1> QED
  BY <1>1, FS_AddElement

(* One that stops to be a reader makes one less, and there was one. *)
LEMMA OneReaderLess ==
  ASSUME TypeOK, NEW c \in Readers, readers = Cardinality(Readers),
         Readers' = Readers \ {c}, readers' = readers - 1
  PROVE  /\ readers > 0
         /\ readers' = Cardinality(Readers')
<1>1. IsFiniteSet(Readers)
  BY SharedMutexAssumption, FS_Subset DEF Readers
<1>2. Cardinality(Readers \ {c}) = Cardinality(Readers) - 1
  BY <1>1, FS_RemoveElement
<1>3. Cardinality(Readers \ {c}) \in Nat
  BY <1>1, FS_RemoveElement, FS_CardinalityType
<1> QED
  BY <1>2, <1>3 DEF TypeOK

(* When the count is zero there are no readers. *)
LEMMA NoReaders ==
  ASSUME readers = Cardinality(Readers), readers = 0
  PROVE  Readers = {}
<1>1. IsFiniteSet(Readers)
  BY SharedMutexAssumption, FS_Subset DEF Readers
<1> QED
  BY <1>1, FS_EmptySet

-----------------------------------------------------------------------------
(* The inductive invariant *)

THEOREM InitInvariant == Init => IInv
<1> SUFFICES ASSUME Init PROVE IInv
  OBVIOUS
<1>1. Readers = {} /\ Writers = {}
  BY DEF Init, Readers, Writers
<1>2. TypeOK
  <2>1. readers \in 0..MaxReaders
    BY SharedMutexAssumption DEF Init
  <2> QED
    BY <2>1 DEF Init, TypeOK, Places
<1>3. StateWord
  BY <1>1, FS_EmptySet DEF Init, StateWord
<1>4. WriterSleepsForReason
  BY DEF Init, WriterSleepsForReason
<1> QED
  BY <1>2, <1>3, <1>4 DEF IInv

(* Steps that leave state_ alone, and everybody's part in it. *)
LEMMA SameWord ==
  ASSUME StateWord, Writers' = Writers, Readers' = Readers, UNCHANGED <<entered, readers>>,
         \A c \in Coroutines : pc'[c] \in {"owner", "unlock"} => pc[c] \in {"owner", "unlock"}
  PROVE  StateWord'
BY DEF StateWord

THEOREM StepInvariant == IInv /\ [Next]_vars => IInv'
<1> SUFFICES ASSUME IInv, [Next]_vars PROVE IInv'
  OBVIOUS
<1> USE DEF IInv
<1>1. ASSUME UNCHANGED vars PROVE IInv'
  <2>1. Readers' = Readers /\ Writers' = Writers
    BY <1>1 DEF vars, Readers, Writers
  <2>2. TypeOK'
    BY <1>1 DEF vars, TypeOK
  <2>3. StateWord'
    BY <1>1, <2>1, SameWord DEF vars
  <2> QED
    BY <1>1, <2>2, <2>3 DEF vars, WriterSleepsForReason
<1>2. ASSUME NEW c \in Coroutines, Call(c) PROVE IInv'
  <2>1. Readers' = Readers /\ Writers' = Writers
    BY <1>2 DEF Call, Readers, Writers, TypeOK
  <2>2. TypeOK'
    BY <1>2 DEF Call, TypeOK, Places, Operations
  <2>3. StateWord'
    BY <1>2, <2>1, SameWord DEF Call, TypeOK
  <2>4. WriterSleepsForReason'
    BY <1>2 DEF Call, WriterSleepsForReason, TypeOK
  <2> QED
    BY <2>2, <2>3, <2>4
<1>3. ASSUME NEW c \in Coroutines, LockMut(c) PROVE IInv'
  <2>1. Readers' = Readers /\ Writers' = Writers
    BY <1>3 DEF LockMut, Readers, Writers
  <2>2. TypeOK'
    BY <1>3 DEF LockMut, TypeOK
  <2>3. StateWord'
    BY <1>3, <2>1, SameWord DEF LockMut
  <2> QED
    BY <1>3, <2>2, <2>3 DEF LockMut, WriterSleepsForReason
<1>4. ASSUME NEW c \in Coroutines, GiveUp(c) PROVE IInv'
  <2>1. Readers' = Readers /\ Writers' = Writers
    BY <1>4 DEF GiveUp, Readers, Writers, TypeOK
  <2>2. TypeOK'
    BY <1>4 DEF GiveUp, TypeOK, Places
  <2>3. StateWord'
    BY <1>4, <2>1, SameWord DEF GiveUp, TypeOK
  <2>4. WriterSleepsForReason'
    BY <1>4 DEF GiveUp, WriterSleepsForReason, TypeOK
  <2> QED
    BY <2>2, <2>3, <2>4
<1>5. ASSUME NEW c \in Coroutines, CoLock(c) PROVE IInv'
  <2>1. pc[c] = "coLock" /\ mut' = Nobody /\ UNCHANGED readers /\ entered' = TRUE
    BY <1>5 DEF CoLock, Does
  <2>2. CASE entered
    <3>1. pc' = [pc EXCEPT ![c] = "gate1 to lock"]
      BY <1>5, <2>2 DEF CoLock, Go
    <3>2. Readers' = Readers /\ Writers' = Writers
      BY <2>1, <3>1 DEF Readers, Writers, TypeOK
    <3>3. StateWord'
      BY <2>1, <2>2, <3>1, <3>2, SameWord DEF TypeOK
    <3>4. TypeOK'
      BY <2>1, <3>1 DEF TypeOK, Places
    <3> QED
      BY <2>1, <3>1, <3>3, <3>4 DEF WriterSleepsForReason, TypeOK
  <2>3. CASE ~entered
    <3>1. pc' = [pc EXCEPT ![c] = IF readers = 0 THEN "owner" ELSE "gate2"]
      BY <1>5, <2>3 DEF CoLock, Go
    <3>2. Readers' = Readers /\ Writers' = {c}
      BY <2>1, <2>3, <3>1 DEF Readers, Writers, TypeOK, StateWord
    <3>3. StateWord'
      BY <2>1, <2>3, <3>1, <3>2 DEF StateWord, TypeOK, Writers
    <3>4. TypeOK'
      BY <2>1, <3>1 DEF TypeOK, Places
    <3>5. readers # 0 => readers > 0
      BY SharedMutexAssumption DEF TypeOK
    <3>6. WriterSleepsForReason'
      BY <2>1, <3>1, <3>5 DEF WriterSleepsForReason, TypeOK
    <3> QED
      BY <3>3, <3>4, <3>6
  <2> QED
    BY <2>2, <2>3
<1>6. ASSUME NEW c \in Coroutines, CoLockWoken(c) PROVE IInv'
  <2>1. pc[c] = "woken" /\ mut' = Nobody /\ UNCHANGED <<entered, readers>>
    BY <1>6 DEF CoLockWoken, Does
  <2>2. pc' = [pc EXCEPT ![c] = IF readers = 0 THEN "owner" ELSE "gate2"]
    BY <1>6 DEF CoLockWoken, Go
  <2>3. Readers' = Readers /\ Writers' = Writers
    BY <2>1, <2>2 DEF Readers, Writers, TypeOK
  <2>4. StateWord'
    BY <2>1, <2>2, <2>3 DEF StateWord, TypeOK
  <2>5. TypeOK'
    BY <2>1, <2>2 DEF TypeOK, Places
  <2>6. readers # 0 => readers > 0
    BY SharedMutexAssumption DEF TypeOK
  <2>7. WriterSleepsForReason'
    BY <2>1, <2>2, <2>6 DEF WriterSleepsForReason, TypeOK
  <2> QED
    BY <2>4, <2>5, <2>7
<1>7. ASSUME NEW c \in Coroutines, TryLock(c) PROVE IInv'
  <2>1. pc[c] = "tryLock" /\ mut' = Nobody /\ UNCHANGED readers
    BY <1>7 DEF TryLock, Does
  <2>2. CASE ~entered /\ readers = 0
    <3>1. pc' = [pc EXCEPT ![c] = "owner"] /\ entered' = TRUE
      BY <1>7, <2>2 DEF TryLock, Go
    <3>2. Readers' = Readers /\ Writers' = {c}
      BY <2>1, <2>2, <3>1 DEF Readers, Writers, TypeOK, StateWord
    <3>3. StateWord'
      BY <2>1, <2>2, <3>1, <3>2 DEF StateWord, TypeOK, Writers
    <3>4. TypeOK'
      BY <2>1, <3>1 DEF TypeOK, Places
    <3>5. WriterSleepsForReason'
      BY <2>1, <3>1 DEF WriterSleepsForReason, TypeOK
    <3> QED
      BY <3>3, <3>4, <3>5
  <2>3. CASE ~(~entered /\ readers = 0)
    <3>1. pc' = [pc EXCEPT ![c] = "idle"] /\ UNCHANGED entered
      BY <1>7, <2>3 DEF TryLock, Go
    <3>2. Readers' = Readers /\ Writers' = Writers
      BY <2>1, <3>1 DEF Readers, Writers, TypeOK
    <3>3. StateWord'
      BY <2>1, <3>1, <3>2, SameWord DEF TypeOK
    <3>4. TypeOK'
      BY <2>1, <3>1 DEF TypeOK, Places
    <3> QED
      BY <2>1, <3>1, <3>3, <3>4 DEF WriterSleepsForReason, TypeOK
  <2> QED
    BY <2>2, <2>3
<1>8. ASSUME NEW c \in Coroutines, Unlock(c) PROVE IInv'
  <2>1. /\ pc[c] = "unlock" /\ mut' = Nobody /\ entered' = FALSE /\ readers' = 0
        /\ pc' = [d \in Coroutines |-> IF d = c THEN "idle" ELSE AfterGate1(pc[d])]
    BY <1>8 DEF Unlock, Does
  <2>2. Writers = {c} /\ readers = 0
    BY <2>1 DEF StateWord, Writers
  <2>3. Readers = {}
    BY <2>2, NoReaders DEF StateWord
  <2>4. Readers' = {} /\ Writers' = {}
    BY <2>1, <2>2, <2>3 DEF Readers, Writers, AfterGate1
  <2>5. StateWord'
    BY <2>1, <2>4, FS_EmptySet DEF StateWord, Writers
  <2>6. TypeOK'
    <3>1. \A d \in Coroutines : AfterGate1(pc[d]) \in Places
      BY DEF TypeOK, AfterGate1, Places, Operations
    <3>2. pc' \in [Coroutines -> Places]
      BY <2>1, <3>1 DEF Places
    <3>3. readers' \in 0..MaxReaders
      BY <2>1, SharedMutexAssumption
    <3> QED
      BY <2>1, <3>2, <3>3 DEF TypeOK
  <2>7. WriterSleepsForReason'
    BY <2>1, <2>4 DEF WriterSleepsForReason, Writers, AfterGate1
  <2> QED
    BY <2>5, <2>6, <2>7
<1>9. ASSUME NEW c \in Coroutines, CoLockShared(c) \/ TryLockShared(c) PROVE IInv'
  <2>1. pc[c] \in {"coLockShared", "tryLockShared"} /\ mut' = Nobody /\ UNCHANGED entered
    BY <1>9 DEF CoLockShared, TryLockShared, Does
  <2>2. CASE entered \/ readers >= MaxReaders
    <3>1. /\ UNCHANGED readers
          /\ \/ pc' = [pc EXCEPT ![c] = "gate1 to share"]
             \/ pc' = [pc EXCEPT ![c] = "idle"]
      BY <1>9, <2>2 DEF CoLockShared, TryLockShared, Go
    <3>2. Readers' = Readers /\ Writers' = Writers
      BY <2>1, <3>1 DEF Readers, Writers, TypeOK
    <3>3. StateWord'
      BY <2>1, <3>1, <3>2, SameWord DEF TypeOK
    <3>4. TypeOK'
      BY <2>1, <3>1 DEF TypeOK, Places
    <3> QED
      BY <2>1, <3>1, <3>3, <3>4 DEF WriterSleepsForReason, TypeOK
  <2>3. CASE ~(entered \/ readers >= MaxReaders)
    <3>1. readers' = readers + 1 /\ pc' = [pc EXCEPT ![c] = "sharing"]
      BY <1>9, <2>3 DEF CoLockShared, TryLockShared, Go
    <3>2. Readers' = Readers \union {c} /\ c \notin Readers /\ Writers' = Writers
      BY <2>1, <3>1 DEF Readers, Writers, TypeOK
    <3>3. readers' = Cardinality(Readers')
      BY <3>1, <3>2, OneReaderMore DEF StateWord
    <3>4. readers' \in 0..MaxReaders
      BY <2>3, <3>1, SharedMutexAssumption DEF TypeOK
    <3>5. TypeOK'
      BY <2>1, <3>1, <3>4 DEF TypeOK, Places
    <3>6. Writers = {}
      BY <2>3 DEF StateWord
    <3>7. StateWord'
      BY <2>1, <2>3, <3>2, <3>3, <3>6 DEF StateWord, Writers
    <3>8. WriterSleepsForReason'
      <4>1. \A d \in Coroutines : pc'[d] # "gate2"
        BY <3>2, <3>6 DEF Writers
      <4> QED
        BY <2>1, <3>1, <4>1 DEF WriterSleepsForReason, TypeOK
    <3> QED
      BY <3>5, <3>7, <3>8
  <2> QED
    BY <2>2, <2>3
<1>10. ASSUME NEW c \in Coroutines, UnlockShared(c) PROVE IInv'
  <2> DEFINE waiters == IF entered /\ readers = 1 THEN Gate2
                        ELSE IF ~entered /\ readers = MaxReaders THEN Gate1 ELSE {}
             after(w) == IF pc[w] = "gate2" THEN "woken" ELSE AfterGate1(pc[w])
  <2>1. /\ pc[c] = "unlockShared" /\ mut' = Nobody /\ UNCHANGED entered
        /\ readers' = readers - 1
    BY <1>10 DEF UnlockShared, Does
  <2>2. \/ waiters = {} /\ pc' = [pc EXCEPT ![c] = "idle"]
        \/ \E w \in waiters : pc' = [pc EXCEPT ![c] = "idle", ![w] = after(w)]
    <3>1. LeaveAndWake(c, waiters)
      BY <1>10 DEF UnlockShared
    <3>2. CASE waiters = {}
      BY <3>1, <3>2 DEF LeaveAndWake, Go
    <3>3. CASE waiters # {}
      <4>1. PICK w \in waiters :
              pc' = [pc EXCEPT ![c] = "idle", ![w] = IF @ = "gate2" THEN "woken" ELSE AfterGate1(@)]
        BY <3>1, <3>3 DEF LeaveAndWake
      <4>2. w # c
        BY <2>1 DEF Gate1, Gate2, At
      <4> QED
        BY <4>1, <4>2
    <3> QED
      BY <3>2, <3>3
  <2>3. \A w \in waiters :
          /\ w \in Coroutines /\ w # c
          /\ \/ pc[w] = "gate2" /\ after(w) = "woken"
             \/ pc[w] = "gate1 to lock" /\ after(w) = "coLock"
             \/ pc[w] = "gate1 to share" /\ after(w) = "coLockShared"
    BY <2>1 DEF Gate1, Gate2, At, AfterGate1
  <2> HIDE DEF waiters, after
  <2>4. c \in Readers
    BY <2>1 DEF Readers
  <2>5. Readers' = Readers \ {c} /\ Writers' = Writers
    BY <2>1, <2>2, <2>3 DEF Readers, Writers, TypeOK
  <2>6. readers > 0 /\ readers' = Cardinality(Readers')
    BY <2>1, <2>4, <2>5, OneReaderLess DEF StateWord
  <2>7. \A d \in Coroutines : pc'[d] \in {"owner", "unlock"} => pc[d] \in {"owner", "unlock"}
    BY <2>1, <2>2, <2>3 DEF TypeOK
  <2>8. StateWord'
    <3>1. \A d \in Coroutines : pc[d] \notin {"owner", "unlock"}
      BY <2>6 DEF StateWord, TypeOK
    <3> QED
      BY <2>1, <2>5, <2>6, <2>7, <3>1 DEF StateWord
  <2>9. TypeOK'
    <3>1. readers' \in 0..MaxReaders
      BY <2>1, <2>6, SharedMutexAssumption DEF TypeOK
    <3>2. pc' \in [Coroutines -> Places]
      BY <2>2, <2>3 DEF TypeOK, Places, Operations
    <3> QED
      BY <2>1, <3>1, <3>2 DEF TypeOK
  <2>10. ASSUME NEW d \in Coroutines, pc'[d] = "gate2" PROVE readers' > 0
    <3>1. pc[d] = "gate2" /\ d \in Writers
      BY <2>1, <2>2, <2>3, <2>10 DEF TypeOK, Writers
    <3>2. entered
      BY <3>1 DEF StateWord
    <3>3. CASE readers = 1
      <4>1. waiters = Gate2 /\ d \in Gate2
        BY <3>1, <3>2, <3>3 DEF waiters, Gate2, At
      <4>2. PICK w \in Gate2 : pc' = [pc EXCEPT ![c] = "idle", ![w] = after(w)]
        BY <2>2, <4>1
      <4>3. w = d
        BY <3>1, <4>2 DEF Gate2, At, Writers, StateWord
      <4>4. pc'[d] = "woken"
        BY <2>3, <3>1, <4>1, <4>2, <4>3 DEF TypeOK
      <4> QED
        BY <2>10, <4>4
    <3>4. CASE readers # 1
      BY <2>1, <2>6, <3>4, SharedMutexAssumption DEF TypeOK
    <3> QED
      BY <3>3, <3>4
  <2>11. \A d \in Coroutines : pc'[d] = "gate1 to lock" => pc[d] = "gate1 to lock"
    BY <2>1, <2>2, <2>3 DEF TypeOK
  <2>12. WriterSleepsForReason'
    BY <2>1, <2>10, <2>11 DEF WriterSleepsForReason
  <2> QED
    BY <2>8, <2>9, <2>12
<1> QED
  BY <1>1, <1>2, <1>3, <1>4, <1>5, <1>6, <1>7, <1>8, <1>9, <1>10 DEF Next, Locked

LEMMA Invariant == Spec => []IInv
<1>1. Init => IInv
  BY InitInvariant
<1>2. IInv /\ [Next]_vars => IInv'
  BY StepInvariant
<1> QED
  BY <1>1, <1>2, PTL DEF Spec

(* Every variable keeps its type; in particular the reader count stays       *)
(* within the bits that state_ has for it.                                   *)
THEOREM TypeCorrect == Spec => []TypeOK
<1>1. IInv => TypeOK
  BY DEF IInv
<1> QED
  BY <1>1, Invariant, PTL

(* state_ says exactly who holds the lock, and the assertions of unlock(),   *)
(* unlockShared() and the destructor hold.                                   *)
THEOREM StateWordIsRight == Spec => []StateWord
<1>1. IInv => StateWord
  BY DEF IInv
<1> QED
  BY <1>1, Invariant, PTL

(* No writer misses the notification it sleeps for, at either gate.          *)
THEOREM WritersDoNotOversleep == Spec => []WriterSleepsForReason
<1>1. IInv => WriterSleepsForReason
  BY DEF IInv
<1> QED
  BY <1>1, Invariant, PTL

(* With no more coroutines than max_readers nobody waits for room, and a     *)
(* reader sleeps only behind a writer that notifies it.                      *)
ReaderSleepsBehindWriter ==
  \A c \in Coroutines : pc[c] = "gate1 to share" => entered

LEMMA RoomForAll ==
  ASSUME IInv, Cardinality(Coroutines) <= MaxReaders, NEW c \in Coroutines, c \notin Readers
  PROVE  readers < MaxReaders
<1>1. IsFiniteSet(Coroutines \ {c}) /\ Cardinality(Coroutines \ {c}) = Cardinality(Coroutines) - 1
  BY SharedMutexAssumption, FS_RemoveElement
<1>2. Readers \subseteq Coroutines \ {c}
  BY DEF Readers
<1>3. Cardinality(Readers) <= Cardinality(Coroutines \ {c})
  BY <1>1, <1>2, FS_Subset
<1>4. Cardinality(Coroutines) \in Nat /\ readers = Cardinality(Readers) /\ readers \in Nat
  BY SharedMutexAssumption, FS_CardinalityType DEF IInv, StateWord, TypeOK
<1> QED
  BY <1>1, <1>3, <1>4, SharedMutexAssumption

LEMMA ReaderStep ==
  ASSUME Cardinality(Coroutines) <= MaxReaders, IInv, ReaderSleepsBehindWriter, [Next]_vars
  PROVE  ReaderSleepsBehindWriter'
<1> USE DEF IInv
<1>1. ASSUME UNCHANGED vars PROVE ReaderSleepsBehindWriter'
  BY <1>1 DEF vars, ReaderSleepsBehindWriter
<1>2. ASSUME NEW c \in Coroutines,
             Call(c) \/ LockMut(c) \/ GiveUp(c) \/ CoLock(c) \/ CoLockWoken(c) \/ TryLock(c)
      PROVE  ReaderSleepsBehindWriter'
  <2>1. entered => entered'
    BY <1>2 DEF Call, LockMut, GiveUp, CoLock, CoLockWoken, TryLock
  <2>2. \A d \in Coroutines : pc'[d] = "gate1 to share" => pc[d] = "gate1 to share"
    BY <1>2 DEF Call, LockMut, GiveUp, CoLock, CoLockWoken, TryLock, Does, Go, TypeOK
  <2> QED
    BY <2>1, <2>2 DEF ReaderSleepsBehindWriter
<1>3. ASSUME NEW c \in Coroutines, Unlock(c) PROVE ReaderSleepsBehindWriter'
  BY <1>3 DEF Unlock, AfterGate1, ReaderSleepsBehindWriter
<1>4. ASSUME NEW c \in Coroutines, CoLockShared(c) \/ TryLockShared(c)
      PROVE  ReaderSleepsBehindWriter'
  <2>1. pc[c] \in {"coLockShared", "tryLockShared"} /\ UNCHANGED entered
    BY <1>4 DEF CoLockShared, TryLockShared, Does
  <2>2. c \notin Readers
    BY <2>1 DEF Readers
  <2>3. ~(readers >= MaxReaders)
    BY <2>2, RoomForAll, SharedMutexAssumption DEF TypeOK
  <2>4. \A d \in Coroutines : pc'[d] = "gate1 to share" => pc[d] = "gate1 to share" \/ entered
    BY <1>4, <2>3 DEF CoLockShared, TryLockShared, Does, Go, TypeOK
  <2> QED
    BY <2>1, <2>4 DEF ReaderSleepsBehindWriter
<1>5. ASSUME NEW c \in Coroutines, UnlockShared(c) PROVE ReaderSleepsBehindWriter'
  <2>1. UNCHANGED entered
    BY <1>5 DEF UnlockShared
  <2>2. \A d \in Coroutines : pc'[d] = "gate1 to share" => pc[d] = "gate1 to share"
    BY <1>5 DEF UnlockShared, LeaveAndWake, Go, Does, Gate1, Gate2, At, AfterGate1, TypeOK
  <2> QED
    BY <2>1, <2>2 DEF ReaderSleepsBehindWriter
<1> QED
  BY <1>1, <1>2, <1>3, <1>4, <1>5 DEF Next, Locked

(* Below the limit no reader misses its notification either.                 *)
THEOREM ReadersDoNotOversleep ==
  ASSUME Cardinality(Coroutines) <= MaxReaders
  PROVE  Spec => []ReaderSleepsForReason
<1>1. Init => ReaderSleepsBehindWriter
  BY DEF Init, ReaderSleepsBehindWriter
<1>2. IInv /\ ReaderSleepsBehindWriter /\ [Next]_vars => ReaderSleepsBehindWriter'
  BY ReaderStep
<1>3. ReaderSleepsBehindWriter => ReaderSleepsForReason
  BY DEF ReaderSleepsBehindWriter, ReaderSleepsForReason
<1> QED
  BY <1>1, <1>2, <1>3, Invariant, PTL DEF Spec

(* Then nobody sleeps at a gate without somebody left who will notify it.    *)
THEOREM SleepersAreNotForgotten ==
  ASSUME Cardinality(Coroutines) <= MaxReaders
  PROVE  Spec => []SleepersHaveReason
<1>1. WriterSleepsForReason /\ ReaderSleepsForReason => SleepersHaveReason
  BY DEF SleepersHaveReason
<1> QED
  BY <1>1, WritersDoNotOversleep, ReadersDoNotOversleep, PTL

-----------------------------------------------------------------------------
(* Refinement *)

(* How each coroutine holds the lock, as RWLock sees it.                     *)
Hold == [c \in Coroutines |-> IF pc[c] \in {"owner", "unlock"} THEN "exclusive"
                              ELSE IF c \in Readers THEN "shared" ELSE "none"]

(* A step that changes who holds the lock is one of RWLock's.                *)
LEMMA StepIsAbstract == IInv /\ [Next]_vars => [Abstract!Next]_Hold
<1> SUFFICES ASSUME IInv, [Next]_vars PROVE Abstract!Next \/ UNCHANGED Hold
  BY DEF Hold
<1> USE DEF IInv
<1>1. ASSUME UNCHANGED vars PROVE UNCHANGED Hold
  BY <1>1 DEF vars, Hold, Readers
<1>2. ASSUME NEW c \in Coroutines, Call(c) \/ LockMut(c) \/ GiveUp(c) PROVE UNCHANGED Hold
  BY <1>2 DEF Call, LockMut, GiveUp, Hold, Readers, TypeOK
<1>3. ASSUME NEW c \in Coroutines, CoLock(c) \/ CoLockWoken(c) \/ TryLock(c)
      PROVE  Abstract!Next \/ UNCHANGED Hold
  <2>1. CASE pc' = [pc EXCEPT ![c] = "owner"]
    <3>1. pc[c] \in {"coLock", "woken", "tryLock"} /\ readers = 0
          /\ (~entered \/ pc[c] = "woken")
      BY <1>3, <2>1 DEF CoLock, CoLockWoken, TryLock, Does, Go, TypeOK
    <3>2. Readers = {}
      BY <3>1, NoReaders DEF StateWord
    <3>3. \A d \in Coroutines : pc[d] \notin {"owner", "unlock"}
      BY <3>1 DEF StateWord, Writers
    <3>4. \A d \in Coroutines : Hold[d] = "none"
      BY <3>2, <3>3 DEF Hold
    <3>5. Hold' = [Hold EXCEPT ![c] = "exclusive"]
      BY <2>1, <3>1 DEF Hold, Readers, TypeOK
    <3>6. Hold' # Hold
      BY <3>4, <3>5 DEF Hold
    <3> QED
      BY <3>4, <3>5, <3>6 DEF Abstract!Next, Abstract!AcquireExclusive, Hold
  <2>2. CASE pc' # [pc EXCEPT ![c] = "owner"]
    <3>1. /\ pc[c] \in {"coLock", "woken", "tryLock"}
          /\ \E place \in {"gate1 to lock", "gate2", "idle"} : pc' = [pc EXCEPT ![c] = place]
      BY <1>3, <2>2 DEF CoLock, CoLockWoken, TryLock, Does, Go
    <3> QED
      BY <3>1 DEF Hold, Readers, TypeOK
  <2> QED
    BY <2>1, <2>2
<1>4. ASSUME NEW c \in Coroutines, Unlock(c) PROVE Abstract!Next
  <2>1. Hold[c] = "exclusive"
    BY <1>4 DEF Unlock, Does, Hold
  <2>2. Hold' = [Hold EXCEPT ![c] = "none"]
    BY <1>4 DEF Unlock, Does, Hold, Readers, AfterGate1
  <2>3. Hold' # Hold
    BY <2>1, <2>2 DEF Hold
  <2> QED
    BY <2>1, <2>2, <2>3 DEF Abstract!Next, Abstract!Release, Hold
<1>5. ASSUME NEW c \in Coroutines, CoLockShared(c) \/ TryLockShared(c)
      PROVE  Abstract!Next \/ UNCHANGED Hold
  <2>1. pc[c] \in {"coLockShared", "tryLockShared"}
    BY <1>5 DEF CoLockShared, TryLockShared, Does
  <2>2. CASE entered \/ readers >= MaxReaders
    <3>1. \E place \in {"gate1 to share", "idle"} : pc' = [pc EXCEPT ![c] = place]
      BY <1>5, <2>2 DEF CoLockShared, TryLockShared, Go
    <3> QED
      BY <2>1, <3>1 DEF Hold, Readers, TypeOK
  <2>3. CASE ~(entered \/ readers >= MaxReaders)
    <3>1. pc' = [pc EXCEPT ![c] = "sharing"]
      BY <1>5, <2>3 DEF CoLockShared, TryLockShared, Go
    <3>2. \A d \in Coroutines : Hold[d] # "exclusive"
      BY <2>3 DEF StateWord, Writers, Hold
    <3>3. Hold[c] = "none"
      BY <2>1 DEF Hold, Readers
    <3>4. Hold' = [Hold EXCEPT ![c] = "shared"]
      BY <2>1, <3>1 DEF Hold, Readers, TypeOK
    <3>5. Hold' # Hold
      BY <3>3, <3>4 DEF Hold
    <3> QED
      BY <3>2, <3>3, <3>4, <3>5 DEF Abstract!Next, Abstract!AcquireShared, Hold
  <2> QED
    BY <2>2, <2>3
<1>6. ASSUME NEW c \in Coroutines, UnlockShared(c) PROVE Abstract!Next
  <2>1. pc[c] = "unlockShared"
    BY <1>6 DEF UnlockShared, Does
  <2>2. \A d \in Coroutines : d # c /\ pc'[d] # pc[d] =>
          /\ pc[d] \in {"gate2", "gate1 to lock", "gate1 to share"}
          /\ pc'[d] \in {"woken", "coLock", "coLockShared"}
    BY <1>6, <2>1 DEF UnlockShared, LeaveAndWake, Go, Gate1, Gate2, At, AfterGate1, TypeOK
  <2>3. pc'[c] = "idle"
    BY <1>6, <2>1 DEF UnlockShared, LeaveAndWake, Go, Gate1, Gate2, At, TypeOK
  <2>4. Hold[c] = "shared"
    BY <2>1 DEF Hold, Readers
  <2>5. Hold' = [Hold EXCEPT ![c] = "none"]
    BY <2>1, <2>2, <2>3 DEF Hold, Readers
  <2>6. Hold' # Hold
    BY <2>4, <2>5 DEF Hold
  <2> QED
    BY <2>4, <2>5, <2>6 DEF Abstract!Next, Abstract!Release, Hold
<1> QED
  BY <1>1, <1>2, <1>3, <1>4, <1>5, <1>6 DEF Next, Locked

(* SharedMutex implements a readers-writer lock: readers share it, a writer  *)
(* has it alone, and only a holder gives it back.                            *)
THEOREM SharedMutexImplementsRWLock == Spec => ImplementsRWLock
<1>1. Init => Abstract!Init
  BY DEF Init, Abstract!Init, Readers
<1>2. IInv /\ [Next]_vars => [Abstract!Next]_Hold
  BY StepIsAbstract
<1> QED
  BY <1>1, <1>2, Invariant, PTL DEF Spec, ImplementsRWLock, Abstract!Spec, Hold
=============================================================================
