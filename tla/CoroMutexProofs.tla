------------------------- MODULE CoroMutexProofs -------------------------
(***************************************************************************)
(* Theorems of CoroMutex for every set of coroutines.                      *)
(***************************************************************************)
EXTENDS CoroMutex, SequenceTheorems, TLAPS

(* What the hand-over of the lock rests on: a free mutex has neither owner   *)
(* nor queue and a held one has an owner; and what the holder saw of the     *)
(* lists stays true while it is inside unlock(), because others only push.   *)
LockWord ==
  /\ ~locked => Owners = {} /\ newcomers = <<>> /\ waiters = <<>>
  /\ locked => Owners # {}

HolderView ==
  \A c \in Coroutines :
    /\ pc[c] \in {"releasing", "collecting"} => waiters = <<>>
    /\ pc[c] = "collecting" => newcomers # <<>>
    /\ pc[c] = "handing" => waiters # <<>>

IInv == TypeOK /\ LockWord /\ MutualExclusion /\ HolderView /\ QueueIntact
-----------------------------------------------------------------------------
(* Lemmas on the queue as a sequence.                                        *)

(* Reversing a list keeps its length and mirrors its indices. *)
LEMMA ReverseType ==
  ASSUME NEW S, NEW s \in Seq(S)
  PROVE  /\ Reverse(s) \in Seq(S)
         /\ Len(Reverse(s)) = Len(s)
         /\ \A i \in 1..Len(s) : Reverse(s)[i] = s[Len(s) - i + 1]
  BY DEF Reverse

LEMMA ReverseEmpty == Reverse(<<>>) = <<>>
<1>1. Reverse(<<>>) \in Seq({}) /\ Len(Reverse(<<>>)) = Len(<<>>)
  BY ReverseType, EmptySeq
<1> QED BY <1>1, EmptySeq

(* What is pushed first on a stack comes last when it is read backwards. *)
LEMMA ReversePush ==
  ASSUME NEW S, NEW n \in Seq(S), NEW c \in S
  PROVE  Reverse(<<c>> \o n) = Append(Reverse(n), c)
<1> DEFINE cn == <<c>> \o n
           r  == Reverse(n)
<1>1. /\ cn \in Seq(S)
      /\ Len(cn) = Len(n) + 1
      /\ cn[1] = c
      /\ \A i \in 1..Len(n) : cn[i + 1] = n[i]
  OBVIOUS
<1>2. /\ r \in Seq(S)
      /\ Len(r) = Len(n)
      /\ \A i \in 1..Len(n) : r[i] = n[Len(n) - i + 1]
  BY ReverseType
<1> HIDE DEF cn, r
<1>3. /\ Reverse(cn) \in Seq(S)
      /\ Len(Reverse(cn)) = Len(n) + 1
      /\ \A i \in 1..(Len(n) + 1) : Reverse(cn)[i] = cn[Len(n) + 1 - i + 1]
  BY <1>1, ReverseType
<1>4. /\ Append(r, c) \in Seq(S)
      /\ Len(Append(r, c)) = Len(n) + 1
      /\ \A i \in 1..Len(n) : Append(r, c)[i] = r[i]
      /\ Append(r, c)[Len(n) + 1] = c
  BY <1>2, AppendProperties
<1>5. Len(n) \in Nat
  BY LenProperties
<1>6. ASSUME NEW i \in 1..(Len(n) + 1) PROVE Reverse(cn)[i] = Append(r, c)[i]
  <2>1. CASE i = Len(n) + 1
    BY <2>1, <1>1, <1>3, <1>4, <1>5
  <2>2. CASE i \in 1..Len(n)
    <3>1. Len(n) - i + 1 \in 1..Len(n) /\ Len(n) + 1 - i + 1 = (Len(n) - i + 1) + 1
      BY <2>2, <1>5
    <3> QED BY <2>2, <3>1, <1>1, <1>2, <1>3, <1>4
  <2>3. i = Len(n) + 1 \/ i \in 1..Len(n)
    BY <1>5
  <2> QED BY <2>1, <2>2, <2>3
<1>7. Reverse(cn) = Append(r, c)
  BY <1>3, <1>4, <1>6, SeqEqual
<1> QED BY <1>7 DEF cn, r

(* A push on the LIFO stack appends to the line in FIFO order. *)
LEMMA PushAppends ==
  ASSUME NEW S, NEW w \in Seq(S), NEW n \in Seq(S), NEW c \in S
  PROVE  w \o Reverse(<<c>> \o n) = Append(w \o Reverse(n), c)
<1>1. Reverse(n) \in Seq(S) /\ <<c>> \in Seq(S)
  BY ReverseType
<1>2. w \o Append(Reverse(n), c) = w \o (Reverse(n) \o <<c>>)
  BY <1>1, AppendIsConcat
<1>3. w \o (Reverse(n) \o <<c>>) = (w \o Reverse(n)) \o <<c>>
  BY <1>1, ConcatAssociative
<1>4. w \o Reverse(n) \in Seq(S)
  BY <1>1, ConcatProperties
<1>5. (w \o Reverse(n)) \o <<c>> = Append(w \o Reverse(n), c)
  BY <1>4, AppendIsConcat
<1> QED BY <1>2, <1>3, <1>5, ReversePush

(* Taking the whole stack into an empty waiters_ does not change the line. *)
LEMMA CollectKeepsLine ==
  ASSUME NEW S, NEW n \in Seq(S)
  PROVE  (Reverse(n) \o <<>>) \o Reverse(<<>>) = <<>> \o Reverse(n)
  BY ReverseType, ReverseEmpty, ConcatEmptySeq

(* Resuming the head of waiters_ removes the first of the line. *)
LEMMA HandOverIsTail ==
  ASSUME NEW S, NEW w \in Seq(S), NEW r \in Seq(S), w # <<>>
  PROVE  /\ w \o r # <<>>
         /\ Head(w \o r) = Head(w)
         /\ Tail(w) \o r = Tail(w \o r)
<1> DEFINE b == w \o r
<1>1. /\ b \in Seq(S) /\ Len(b) = Len(w) + Len(r)
      /\ \A i \in 1..Len(b) : b[i] = IF i <= Len(w) THEN w[i] ELSE r[i - Len(w)]
  BY ConcatProperties
<1>2. Len(w) \in Nat \ {0} /\ Len(r) \in Nat
  BY EmptySeq, LenProperties
<1> HIDE DEF b
<1>3. b # <<>> /\ Head(b) = Head(w)
  BY <1>1, <1>2
<1>4. /\ Tail(w) \in Seq(S) /\ Len(Tail(w)) = Len(w) - 1
      /\ \A i \in 1..Len(Tail(w)) : Tail(w)[i] = w[i + 1]
  BY HeadTailProperties
<1>5. /\ Tail(b) \in Seq(S) /\ Len(Tail(b)) = Len(b) - 1
      /\ \A i \in 1..Len(Tail(b)) : Tail(b)[i] = b[i + 1]
  BY <1>1, <1>3, HeadTailProperties
<1>6. /\ Tail(w) \o r \in Seq(S) /\ Len(Tail(w) \o r) = Len(b) - 1
      /\ \A i \in 1..(Len(b) - 1) : (Tail(w) \o r)[i] =
            IF i <= Len(w) - 1 THEN Tail(w)[i] ELSE r[i - (Len(w) - 1)]
  <2>1. /\ Tail(w) \o r \in Seq(S)
        /\ Len(Tail(w) \o r) = Len(Tail(w)) + Len(r)
        /\ \A i \in 1..(Len(Tail(w)) + Len(r)) : (Tail(w) \o r)[i] =
             IF i <= Len(Tail(w)) THEN Tail(w)[i] ELSE r[i - Len(Tail(w))]
    BY <1>4, ConcatProperties
  <2>2. Len(Tail(w)) + Len(r) = Len(b) - 1
    BY <1>1, <1>2, <1>4
  <2> QED BY <2>1, <2>2, <1>4
<1>7. ASSUME NEW i \in 1..(Len(b) - 1) PROVE (Tail(w) \o r)[i] = Tail(b)[i]
  <2>1. CASE i <= Len(w) - 1
    BY <2>1, <1>1, <1>2, <1>4, <1>5, <1>6
  <2>2. CASE ~(i <= Len(w) - 1)
    BY <2>2, <1>1, <1>2, <1>5, <1>6
  <2> QED BY <2>1, <2>2
<1>8. Tail(w) \o r = Tail(b)
  BY <1>5, <1>6, <1>7, SeqEqual
<1> QED BY <1>3, <1>8 DEF b
-----------------------------------------------------------------------------
(* Every action keeps the type invariant, that is: the word state_ is free,  *)
(* empty or a list of awaiters, and no coroutine leaves the code of Mutex.   *)
LEMMA TypeStep == TypeOK /\ [Next]_vars => TypeOK'
<1> SUFFICES ASSUME TypeOK, [Next]_vars PROVE TypeOK'
  OBVIOUS
<1> USE DEF TypeOK, Holding, Go
<1>1. State \in Pointers
  BY HeadTailProperties DEF State, Pointers
<1>2. ASSUME NEW c \in Coroutines, TryLock(c) PROVE TypeOK'
  BY <1>2 DEF TryLock
<1>3. ASSUME NEW c \in Coroutines, AwaitReadyFails(c) PROVE TypeOK'
  BY <1>3 DEF AwaitReadyFails
<1>4. ASSUME NEW c \in Coroutines, LoadState(c) PROVE TypeOK'
  BY <1>1, <1>4 DEF LoadState
<1>5. ASSUME NEW c \in Coroutines, AcquireLate(c) PROVE TypeOK'
  BY <1>5 DEF AcquireLate
<1>6. ASSUME NEW c \in Coroutines, Enqueue(c) PROVE TypeOK'
  <2>1. <<c>> \o newcomers \in Seq(Coroutines)
    BY ConcatProperties
  <2> QED BY <2>1, <1>6 DEF Enqueue
<1>7. ASSUME NEW c \in Coroutines, CasFails(c) PROVE TypeOK'
  BY <1>1, <1>7 DEF CasFails
<1>8. ASSUME NEW c \in Coroutines, UnlockBegin(c) PROVE TypeOK'
  BY <1>8 DEF UnlockBegin
<1>9. ASSUME NEW c \in Coroutines, Release(c) PROVE TypeOK'
  BY <1>9 DEF Release
<1>10. ASSUME NEW c \in Coroutines, ReleaseFails(c) PROVE TypeOK'
  BY <1>10 DEF ReleaseFails
<1>11. ASSUME NEW c \in Coroutines, CollectNewcomers(c) PROVE TypeOK'
  <2>1. Reverse(newcomers) \o waiters \in Seq(Coroutines)
    BY ReverseType, ConcatProperties
  <2> QED BY <2>1, <1>11 DEF CollectNewcomers
<1>12. ASSUME NEW c \in Coroutines, HandOver(c) PROVE TypeOK'
  <2>1. Tail(waiters) \in Seq(Coroutines) /\ Head(waiters) \in Coroutines
    BY <1>12, HeadTailProperties DEF HandOver
  <2> QED BY <2>1, <1>12 DEF HandOver
<1>13. CASE UNCHANGED vars
  BY <1>13 DEF vars
<1> QED
  BY <1>2, <1>3, <1>4, <1>5, <1>6, <1>7, <1>8, <1>9, <1>10, <1>11, <1>12, <1>13
  DEF Next, Lock, Unlock

(* The program counters and lists keep their types in every behaviour.       *)
THEOREM TypeCorrect == Spec => []TypeOK
<1>1. Init => TypeOK
  BY EmptySeq DEF Init, TypeOK, Pointers
<1> QED BY <1>1, TypeStep, PTL DEF Spec
-----------------------------------------------------------------------------
(* What the two kinds of queue operation do to the members of a line.        *)
Among(x, l) == \E i \in DOMAIN l : l[i] = x
NoRepeat(l) == \A i, j \in DOMAIN l : l[i] = l[j] => i = j

LEMMA AppendMembers ==
  ASSUME NEW S, NEW l \in Seq(S), NEW c \in S, ~Among(c, l), NoRepeat(l)
  PROVE  /\ \A x : Among(x, Append(l, c)) <=> Among(x, l) \/ x = c
         /\ NoRepeat(Append(l, c))
<1> DEFINE a == Append(l, c)
<1>1. /\ a \in Seq(S) /\ Len(a) = Len(l) + 1
      /\ \A i \in 1..Len(l) : a[i] = l[i]
      /\ a[Len(l) + 1] = c
  BY AppendProperties
<1>2. Len(l) \in Nat /\ DOMAIN l = 1..Len(l) /\ DOMAIN a = 1..(Len(l) + 1)
  BY <1>1, LenProperties
<1> HIDE DEF a
<1>3. \A i : i \in DOMAIN a <=> i \in DOMAIN l \/ i = Len(l) + 1
  BY <1>2
<1>4. Len(l) + 1 \notin DOMAIN l
  BY <1>2
<1>5. ASSUME NEW x PROVE Among(x, a) <=> Among(x, l) \/ x = c
  BY <1>1, <1>2, <1>3 DEF Among
<1>6. NoRepeat(a)
  BY <1>1, <1>2, <1>3, <1>4 DEF Among, NoRepeat
<1> QED BY <1>5, <1>6 DEF a

LEMMA TailMembers ==
  ASSUME NEW S, NEW l \in Seq(S), l # <<>>, NoRepeat(l)
  PROVE  /\ \A x : Among(x, Tail(l)) <=> Among(x, l) /\ x # Head(l)
         /\ NoRepeat(Tail(l))
<1> DEFINE t == Tail(l)
<1>1. /\ t \in Seq(S) /\ Len(t) = Len(l) - 1
      /\ \A i \in 1..Len(t) : t[i] = l[i + 1]
  BY HeadTailProperties
<1>2. Len(l) \in Nat \ {0} /\ DOMAIN l = 1..Len(l) /\ DOMAIN t = 1..(Len(l) - 1)
  BY <1>1, LenProperties, EmptySeq
<1>3. Head(l) = l[1] /\ 1 \in DOMAIN l
  BY <1>2
<1> HIDE DEF t
<1>4. \A i \in DOMAIN t : i + 1 \in DOMAIN l /\ i + 1 # 1 /\ t[i] = l[i + 1]
  BY <1>1, <1>2
<1>5. \A j \in DOMAIN l : j # 1 => j - 1 \in DOMAIN t /\ t[j - 1] = l[j]
  <2>1. \A j \in DOMAIN l : j # 1 => j - 1 \in DOMAIN t /\ (j - 1) + 1 = j
    BY <1>2
  <2> QED BY <2>1, <1>4
<1>6. ASSUME NEW x PROVE Among(x, t) <=> Among(x, l) /\ x # Head(l)
  <2>1. Among(x, t) => Among(x, l) /\ x # Head(l)
    BY <1>3, <1>4 DEF Among, NoRepeat
  <2>2. Among(x, l) /\ x # Head(l) => Among(x, t)
    BY <1>3, <1>5 DEF Among
  <2> QED BY <2>1, <2>2
<1>7. NoRepeat(t)
  <2> SUFFICES ASSUME NEW i \in DOMAIN t, NEW j \in DOMAIN t, t[i] = t[j] PROVE i = j
    BY DEF NoRepeat
  <2>1. l[i + 1] = l[j + 1] /\ i + 1 \in DOMAIN l /\ j + 1 \in DOMAIN l
    BY <1>4
  <2>2. i + 1 = j + 1
    BY <2>1 DEF NoRepeat
  <2> QED BY <2>2, <1>2
<1> QED BY <1>6, <1>7 DEF t

(* QueueIntact in the vocabulary of the two lemmas. *)
LEMMA QueueIntactRestated ==
  QueueIntact <=> /\ \A c \in Coroutines : pc[c] = "waiting" <=> Among(c, Line)
                  /\ NoRepeat(Line)
                  /\ Line # <<>> => Owners # {}
  BY DEF QueueIntact, Among, NoRepeat
-----------------------------------------------------------------------------
(* The effect of each kind of step on the owners and on the line.            *)

LEMMA LineIsSeq == TypeOK => Line \in Seq(Coroutines)
  BY ReverseType, ConcatProperties DEF TypeOK, Line

(* An acquisition finds the mutex free and nobody in line. *)
LEMMA AcquireEffect ==
  ASSUME IInv, NEW c \in Coroutines, TryLock(c) \/ AcquireLate(c)
  PROVE  /\ Owners = {} /\ Line = <<>>
         /\ Owners' = {c} /\ Line' = Line
         /\ pc' = [pc EXCEPT ![c] = "critical"] /\ pc[c] # "waiting"
         /\ locked' = TRUE /\ newcomers' = newcomers /\ waiters' = waiters
<1>1. ~locked
  <2>1. CASE TryLock(c)
    BY <2>1 DEF TryLock
  <2>2. CASE AcquireLate(c)
    <3>1. State = Unlocked
      BY <2>2 DEF AcquireLate
    <3>2. newcomers # <<>> => Head(newcomers) \in Coroutines
      BY HeadTailProperties DEF IInv, TypeOK
    <3> QED BY <3>1, <3>2, PointersDiffer DEF State
  <2> QED BY <2>1, <2>2
<1>2. Owners = {} /\ newcomers = <<>> /\ waiters = <<>>
  BY <1>1 DEF IInv, LockWord
<1>3. Line = <<>>
  BY <1>2, ReverseEmpty, EmptySeq, ConcatEmptySeq DEF Line
<1>4. /\ pc' = [pc EXCEPT ![c] = "critical"] /\ pc[c] # "waiting"
      /\ locked' = TRUE /\ newcomers' = newcomers /\ waiters' = waiters
  BY DEF TryLock, AcquireLate, Go
<1>5. Owners' = {c}
  BY <1>2, <1>4 DEF Owners, Holding, IInv, TypeOK
<1>6. Line' = Line
  BY <1>4 DEF Line
<1> QED BY <1>2, <1>3, <1>4, <1>5, <1>6

(* A push finds the mutex held and joins the end of the line. *)
LEMMA EnqueueEffect ==
  ASSUME IInv, NEW c \in Coroutines, Enqueue(c)
  PROVE  /\ Owners # {} /\ c \notin Owners /\ ~Among(c, Line)
         /\ Owners' = Owners /\ Line' = Append(Line, c)
         /\ pc' = [pc EXCEPT ![c] = "waiting"]
         /\ pc[c] = "casing"
         /\ locked /\ locked' = locked /\ waiters' = waiters
<1>1. /\ pc[c] = "casing" /\ pc' = [pc EXCEPT ![c] = "waiting"] 
      /\ newcomers' = <<c>> \o newcomers
      /\ locked' = locked /\ waiters' = waiters
  BY DEF Enqueue, Go
<1>2. locked
  BY DEF Enqueue, State
<1>3. Owners # {}
  BY <1>2 DEF IInv, LockWord
<1>4. Owners' = Owners /\ c \notin Owners
  BY <1>1 DEF Owners, Holding, IInv, TypeOK
<1>5. ~Among(c, Line)
  BY <1>1, QueueIntactRestated DEF IInv
<1>6. Line' = Append(Line, c)
  <2>1. Line' = waiters \o Reverse(<<c>> \o newcomers)
    BY <1>1 DEF Line
  <2> QED BY <2>1, PushAppends DEF IInv, TypeOK, Line
<1> QED BY <1>1, <1>2, <1>3, <1>4, <1>5, <1>6

(* A release finds nobody in line. *)
LEMMA ReleaseEffect ==
  ASSUME IInv, NEW c \in Coroutines, Release(c)
  PROVE  /\ Owners = {c} /\ Line = <<>>
         /\ newcomers = <<>> /\ waiters = <<>>
         /\ Owners' = {} /\ Line' = Line
         /\ pc' = [pc EXCEPT ![c] = "idle"] /\ pc[c] # "waiting"
         /\ locked' = FALSE /\ newcomers' = newcomers /\ waiters' = waiters
<1>1. /\ pc[c] = "releasing" /\ pc' = [pc EXCEPT ![c] = "idle"]
      /\ locked' = FALSE /\ newcomers' = newcomers /\ waiters' = waiters
  BY DEF Release, Go
<1>2. waiters = <<>>
  BY <1>1 DEF IInv, HolderView
<1>3. newcomers = <<>>
  <2>1. newcomers # <<>> => Head(newcomers) \in Coroutines
    BY HeadTailProperties DEF IInv, TypeOK
  <2>2. State = Null
    BY DEF Release
  <2> QED BY <2>1, <2>2, PointersDiffer DEF State
<1>4. Line = <<>>
  BY <1>2, <1>3, ReverseEmpty, EmptySeq, ConcatEmptySeq DEF Line
<1>5. Owners = {c}
  BY <1>1 DEF IInv, MutualExclusion, Owners, Holding
<1>6. Owners' = {}
  BY <1>1, <1>5 DEF Owners, Holding, IInv, TypeOK
<1>7. Line' = Line
  BY <1>1 DEF Line
<1> QED BY <1>1, <1>2, <1>3, <1>4, <1>5, <1>6, <1>7

(* The hand-over makes the first of the line the only owner. *)
LEMMA HandOverEffect ==
  ASSUME IInv, NEW c \in Coroutines, HandOver(c)
  PROVE  /\ Owners = {c} /\ Line # <<>>
         /\ Head(Line) \in Coroutines /\ Head(Line) # c
         /\ Owners' = {Head(Line)} /\ Line' = Tail(Line)
         /\ pc' = [pc EXCEPT ![c] = "idle", ![Head(Line)] = "critical"]
         /\ pc[c] # "waiting" /\ locked' = locked
<1>1. /\ pc[c] = "handing" /\ waiters # <<>> /\ waiters' = Tail(waiters)
      /\ pc' = [pc EXCEPT ![c] = "idle", ![Head(waiters)] = "critical"]
      /\ locked' = locked /\ newcomers' = newcomers
  BY DEF HandOver
<1>2. Reverse(newcomers) \in Seq(Coroutines)
  BY ReverseType DEF IInv, TypeOK
<1>3. Line # <<>> /\ Head(Line) = Head(waiters) /\ Line' = Tail(Line)
  BY <1>1, <1>2, HandOverIsTail DEF IInv, TypeOK, Line
<1>4. Head(Line) \in Coroutines /\ Among(Head(Line), Line)
  <2>1. Head(Line) \in Coroutines /\ Head(Line) = Line[1] /\ Len(Line) \in Nat \ {0}
    BY <1>3, LineIsSeq, HeadTailProperties, EmptySeq DEF IInv
  <2>2. 1 \in DOMAIN Line
    BY <2>1, LineIsSeq, LenProperties DEF IInv
  <2> QED BY <2>1, <2>2 DEF Among
<1>5. Head(Line) # c
  BY <1>1, <1>4, QueueIntactRestated DEF IInv
<1>6. Owners = {c}
  BY <1>1 DEF IInv, MutualExclusion, Owners, Holding
<1>7. Owners' = {Head(Line)}
  <2>1. \A d \in Coroutines \ {c} : pc[d] \notin Holding
    BY <1>6 DEF Owners
  <2> QED BY <2>1, <1>1, <1>3, <1>4, <1>5 DEF Owners, Holding, IInv, TypeOK
<1> QED BY <1>1, <1>3, <1>4, <1>5, <1>6, <1>7

(* The other steps change neither the owners nor the line. *)
Quiet(c) == AwaitReadyFails(c) \/ LoadState(c) \/ CasFails(c)
              \/ UnlockBegin(c) \/ ReleaseFails(c) \/ CollectNewcomers(c)

LEMMA QuietEffect ==
  ASSUME IInv, NEW c \in Coroutines, Quiet(c)
  PROVE  /\ Owners' = Owners /\ Line' = Line /\ locked' = locked
         /\ \A d \in Coroutines : pc'[d] = "waiting" <=> pc[d] = "waiting"
<1>1. \A d \in Coroutines : /\ pc'[d] = "waiting" <=> pc[d] = "waiting"
                            /\ pc'[d] \in Holding <=> pc[d] \in Holding
  BY DEF Quiet, AwaitReadyFails, LoadState, CasFails, UnlockBegin, ReleaseFails,
         CollectNewcomers, Go, IInv, TypeOK, Holding
<1>2. Owners' = Owners
  BY <1>1 DEF Owners
<1>3. locked' = locked
  BY DEF Quiet, AwaitReadyFails, LoadState, CasFails, UnlockBegin, ReleaseFails,
         CollectNewcomers
<1>4. Line' = Line
  <2>1. CASE CollectNewcomers(c)
    <3>1. waiters = <<>>
      BY <2>1 DEF CollectNewcomers, Go, IInv, HolderView
    <3>2. Line' = (Reverse(newcomers) \o <<>>) \o Reverse(<<>>)
      BY <2>1, <3>1 DEF CollectNewcomers, Line
    <3> QED BY <3>1, <3>2, CollectKeepsLine DEF IInv, TypeOK, Line
  <2>2. CASE ~CollectNewcomers(c)
    BY <2>2 DEF Quiet, AwaitReadyFails, LoadState, CasFails, UnlockBegin,
                ReleaseFails, Line
  <2> QED BY <2>1, <2>2
<1> QED BY <1>1, <1>2, <1>3, <1>4
-----------------------------------------------------------------------------
(* The parts of the invariant that speak of owners and queue, by kind of     *)
(* step.                                                                     *)

LEMMA QueueStep == IInv /\ [Next]_vars => MutualExclusion' /\ QueueIntact'
<1> SUFFICES ASSUME IInv, [Next]_vars
             PROVE  /\ MutualExclusion'
                    /\ \A d \in Coroutines : pc'[d] = "waiting" <=> Among(d, Line')
                    /\ NoRepeat(Line')
                    /\ Line' # <<>> => Owners' # {}
  BY DEF QueueIntact, Among, NoRepeat
<1>q. /\ \A d \in Coroutines : pc[d] = "waiting" <=> Among(d, Line)
      /\ NoRepeat(Line)
      /\ Line # <<>> => Owners # {}
  BY QueueIntactRestated DEF IInv
<1>t. /\ Line \in Seq(Coroutines)
      /\ pc \in [Coroutines -> {"idle", "loading", "casing", "waiting"} \union Holding]
  BY LineIsSeq DEF IInv, TypeOK
<1>1. ASSUME NEW c \in Coroutines, TryLock(c) \/ AcquireLate(c)
      PROVE  /\ MutualExclusion'
             /\ \A d \in Coroutines : pc'[d] = "waiting" <=> Among(d, Line')
             /\ NoRepeat(Line')
             /\ Line' # <<>> => Owners' # {}
  BY <1>1, <1>q, <1>t, AcquireEffect DEF MutualExclusion
<1>2. ASSUME NEW c \in Coroutines, Enqueue(c)
      PROVE  /\ MutualExclusion'
             /\ \A d \in Coroutines : pc'[d] = "waiting" <=> Among(d, Line')
             /\ NoRepeat(Line')
             /\ Line' # <<>> => Owners' # {}
  <2>1. /\ \A x : Among(x, Line') <=> Among(x, Line) \/ x = c
        /\ NoRepeat(Line')
    <3>1. Line' = Append(Line, c) /\ ~Among(c, Line)
      BY <1>2, EnqueueEffect
    <3>2. /\ \A x : Among(x, Append(Line, c)) <=> Among(x, Line) \/ x = c
          /\ NoRepeat(Append(Line, c))
      BY <3>1, <1>q, <1>t, AppendMembers
    <3> QED BY <3>1, <3>2
  <2> QED BY <2>1, <1>2, <1>q, <1>t, EnqueueEffect DEF MutualExclusion, IInv
<1>3. ASSUME NEW c \in Coroutines, Release(c)
      PROVE  /\ MutualExclusion'
             /\ \A d \in Coroutines : pc'[d] = "waiting" <=> Among(d, Line')
             /\ NoRepeat(Line')
             /\ Line' # <<>> => Owners' # {}
  BY <1>3, <1>q, <1>t, ReleaseEffect DEF MutualExclusion
<1>4. ASSUME NEW c \in Coroutines, HandOver(c)
      PROVE  /\ MutualExclusion'
             /\ \A d \in Coroutines : pc'[d] = "waiting" <=> Among(d, Line')
             /\ NoRepeat(Line')
             /\ Line' # <<>> => Owners' # {}
  <2>1. /\ \A x : Among(x, Line') <=> Among(x, Line) /\ x # Head(Line)
        /\ NoRepeat(Line')
    <3>1. Line' = Tail(Line) /\ Line # <<>>
      BY <1>4, HandOverEffect
    <3>2. /\ \A x : Among(x, Tail(Line)) <=> Among(x, Line) /\ x # Head(Line)
          /\ NoRepeat(Tail(Line))
      BY <3>1, <1>q, <1>t, TailMembers
    <3> QED BY <3>1, <3>2
  <2> QED BY <2>1, <1>4, <1>q, <1>t, HandOverEffect DEF MutualExclusion
<1>5. ASSUME NEW c \in Coroutines, Quiet(c)
      PROVE  /\ MutualExclusion'
             /\ \A d \in Coroutines : pc'[d] = "waiting" <=> Among(d, Line')
             /\ NoRepeat(Line')
             /\ Line' # <<>> => Owners' # {}
  BY <1>5, <1>q, QuietEffect DEF MutualExclusion, IInv
<1>6. CASE UNCHANGED vars
  BY <1>6, <1>q DEF vars, MutualExclusion, Owners, Line, IInv
<1> QED BY <1>1, <1>2, <1>3, <1>4, <1>5, <1>6 DEF Next, Lock, Unlock, Quiet

(* The word state_ says whether there is an owner. *)
LEMMA LockWordStep == IInv /\ [Next]_vars => LockWord'
<1> SUFFICES ASSUME IInv, [Next]_vars PROVE LockWord'
  OBVIOUS
<1>1. ASSUME NEW c \in Coroutines, TryLock(c) \/ AcquireLate(c) PROVE LockWord'
  BY <1>1, AcquireEffect DEF LockWord
<1>2. ASSUME NEW c \in Coroutines, Enqueue(c) PROVE LockWord'
  BY <1>2, EnqueueEffect DEF LockWord
<1>3. ASSUME NEW c \in Coroutines, Release(c) PROVE LockWord'
  BY <1>3, ReleaseEffect DEF LockWord
<1>4. ASSUME NEW c \in Coroutines, HandOver(c) PROVE LockWord'
  BY <1>4, HandOverEffect DEF LockWord, IInv
<1>5. ASSUME NEW c \in Coroutines, Quiet(c) PROVE LockWord'
  <2>1. Owners' = Owners /\ locked' = locked
    BY <1>5, QuietEffect
  <2>2. ~locked => newcomers' = newcomers /\ waiters' = waiters
    BY <1>5, ReverseEmpty, ConcatEmptySeq
    DEF Quiet, AwaitReadyFails, LoadState, CasFails, UnlockBegin, ReleaseFails,
        CollectNewcomers, Go, IInv, LockWord, TypeOK, Owners, Holding
  <2> QED BY <2>1, <2>2 DEF LockWord, IInv
<1>6. CASE UNCHANGED vars
  BY <1>6 DEF vars, LockWord, Owners, IInv
<1> QED BY <1>1, <1>2, <1>3, <1>4, <1>5, <1>6 DEF Next, Lock, Unlock, Quiet

(* What the holder has seen of the lists inside unlock() stays true: nobody  *)
(* else is inside, and an enqueuing coroutine touches only the stack.        *)
LEMMA HolderViewStep == IInv /\ [Next]_vars => HolderView'
<1> SUFFICES ASSUME IInv, [Next]_vars PROVE HolderView'
  OBVIOUS
<1> USE DEF HolderView, IInv, TypeOK
<1>0. \A c, d \in Coroutines : pc[c] \in Holding /\ pc[d] \in Holding => c = d
  BY DEF MutualExclusion, Owners
<1>1. ASSUME NEW c \in Coroutines, TryLock(c) \/ AcquireLate(c) PROVE HolderView'
  BY <1>1, AcquireEffect DEF Owners, Holding
<1>2. ASSUME NEW c \in Coroutines, Enqueue(c) PROVE HolderView'
  BY <1>2 DEF Enqueue, Go
<1>3. ASSUME NEW c \in Coroutines, Release(c) PROVE HolderView'
  BY <1>3, ReleaseEffect
<1>4. ASSUME NEW c \in Coroutines, HandOver(c) PROVE HolderView'
  <2>1. \A d \in Coroutines : pc'[d] \in Holding => pc'[d] = "critical"
    BY <1>4, <1>0, HandOverEffect DEF Owners, Holding
  <2> QED BY <2>1 DEF Holding
<1>5. ASSUME NEW c \in Coroutines, Quiet(c) PROVE HolderView'
  <2>1. newcomers # <<>> => Head(newcomers) \in Coroutines
    BY HeadTailProperties
  <2>2. CASE CollectNewcomers(c)
    <3>1. Reverse(newcomers) \o waiters # <<>>
      <4>1. Reverse(newcomers) \in Seq(Coroutines) /\ newcomers # <<>>
        BY <2>2, ReverseType DEF CollectNewcomers, Go
      <4>2. Len(Reverse(newcomers)) # 0
        BY <4>1, ReverseType, EmptySeq
      <4>3. Reverse(newcomers) # <<>>
        BY <4>2
      <4> QED BY <4>1, <4>3, ConcatEqualIffEmpty
    <3>2. \A d \in Coroutines : pc'[d] \in Holding => d = c /\ pc'[d] = "handing"
      BY <2>2, <1>0 DEF CollectNewcomers, Go, Holding
    <3> QED BY <2>2, <3>1, <3>2 DEF CollectNewcomers, Holding
  <2>3. CASE UnlockBegin(c)
    <3>1. locked
      BY <2>3 DEF UnlockBegin, LockWord, Owners, Holding
    <3>2. State # Null => newcomers # <<>>
      BY <3>1 DEF State
    <3> QED BY <2>3, <3>2 DEF UnlockBegin
  <2>4. CASE ReleaseFails(c)
    <3>1. locked
      BY <2>4 DEF ReleaseFails, Go, LockWord, Owners, Holding
    <3>2. newcomers # <<>>
      BY <2>4, <3>1 DEF State, ReleaseFails
    <3> QED BY <2>4, <3>2 DEF ReleaseFails, Go
  <2>5. CASE AwaitReadyFails(c) \/ LoadState(c) \/ CasFails(c)
    BY <2>5 DEF AwaitReadyFails, LoadState, CasFails, Go
  <2> QED BY <1>5, <2>2, <2>3, <2>4, <2>5 DEF Quiet
<1>6. CASE UNCHANGED vars
  BY <1>6 DEF vars
<1> QED BY <1>1, <1>2, <1>3, <1>4, <1>5, <1>6 DEF Next, Lock, Unlock, Quiet
-----------------------------------------------------------------------------
(* The theorems.                                                             *)

LEMMA InvInit == Init => IInv
<1> SUFFICES ASSUME Init PROVE IInv
  OBVIOUS
<1>1. Owners = {}
  BY DEF Init, Owners, Holding
<1>2. Line = <<>>
  BY ReverseEmpty, EmptySeq, ConcatEmptySeq DEF Init, Line
<1>3. TypeOK
  BY EmptySeq DEF Init, TypeOK, Pointers
<1>4. QueueIntact
  BY <1>1, <1>2 DEF Init, QueueIntact
<1> QED BY <1>1, <1>3, <1>4 DEF Init, IInv, LockWord, MutualExclusion, HolderView

LEMMA InvStep == IInv /\ [Next]_vars => IInv'
  BY TypeStep, LockWordStep, QueueStep, HolderViewStep DEF IInv

THEOREM Invariance == Spec => []IInv
  BY InvInit, InvStep, PTL DEF Spec

(* At most one coroutine ever owns the mutex, however its lockers and its    *)
(* unlocker interleave.                                                      *)
THEOREM MutexExcludes == Spec => []MutualExclusion
<1>1. IInv => MutualExclusion
  BY DEF IInv
<1> QED BY <1>1, Invariance, PTL

(* No suspended locker is dropped or queued twice by the pushes, the         *)
(* exchange, the reversal and the hand-over.                                 *)
THEOREM MutexKeepsWaiters == Spec => []QueueIntact
<1>1. IInv => QueueIntact
  BY DEF IInv
<1> QED BY <1>1, Invariance, PTL

(* The assertions written in unlock() never fail.                            *)
THEOREM UnlockAssertionsHold == Spec => []UnlockAsserts
<1>1. IInv => UnlockAsserts
  <2> SUFFICES ASSUME IInv, NEW c \in Coroutines
               PROVE  /\ pc[c] = "critical" => State # Unlocked
                      /\ pc[c] = "collecting" => State \notin {Unlocked, Null}
                      /\ pc[c] = "handing" => waiters # <<>>
    BY DEF UnlockAsserts
  <2>1. newcomers # <<>> => Head(newcomers) \in Coroutines
    BY HeadTailProperties DEF IInv, TypeOK
  <2>2. pc[c] \in Holding => locked
    BY DEF IInv, LockWord, Owners
  <2> QED BY <2>1, <2>2, PointersDiffer DEF IInv, HolderView, State, Holding
<1> QED BY <1>1, Invariance, PTL

(* Every step of the mutex is a step of the first-come-first-served lock or  *)
(* leaves its owner and its line alone.                                      *)
LEMMA StepImplements == IInv /\ [Next]_vars => [Fifo!Next]_(Fifo!vars)
<1> SUFFICES ASSUME IInv, [Next]_vars PROVE [Fifo!Next]_(Fifo!vars)
  OBVIOUS
<1>1. ASSUME NEW c \in Coroutines, TryLock(c) \/ AcquireLate(c) PROVE Fifo!Next
  BY <1>1, AcquireEffect DEF Fifo!Next, Fifo!Acquire
<1>2. ASSUME NEW c \in Coroutines, Enqueue(c) PROVE Fifo!Next
  BY <1>2, EnqueueEffect DEF Fifo!Next, Fifo!Join, Among
<1>3. ASSUME NEW c \in Coroutines, Release(c) PROVE Fifo!Next
  BY <1>3, ReleaseEffect DEF Fifo!Next, Fifo!Free
<1>4. ASSUME NEW c \in Coroutines, HandOver(c) PROVE Fifo!Next
  BY <1>4, HandOverEffect DEF Fifo!Next, Fifo!PassOn
<1>5. ASSUME NEW c \in Coroutines, Quiet(c) PROVE UNCHANGED Fifo!vars
  BY <1>5, QuietEffect DEF Fifo!vars
<1>6. CASE UNCHANGED vars
  BY <1>6 DEF vars, Fifo!vars, Owners, Line
<1> QED BY <1>1, <1>2, <1>3, <1>4, <1>5, <1>6 DEF Next, Lock, Unlock, Quiet

(* coro::Mutex implements FifoLock: mutual exclusion with service strictly   *)
(* in the order in which coroutines suspended.                               *)
THEOREM MutexImplementsFifoLock == Spec => ImplementsFifoLock
<1>1. Init => Fifo!Init
  <2> SUFFICES ASSUME Init PROVE Fifo!Init
    OBVIOUS
  <2>1. Owners = {}
    BY DEF Init, Owners, Holding
  <2>2. Line = <<>>
    BY ReverseEmpty, EmptySeq, ConcatEmptySeq DEF Init, Line
  <2> QED BY <2>1, <2>2 DEF Fifo!Init
<1> QED BY <1>1, StepImplements, Invariance, PTL DEF Spec, ImplementsFifoLock, Fifo!Spec
=============================================================================
