------------------------ MODULE FutureStateProofs ------------------------
(***************************************************************************)
(* Proofs about FutureState.  That the state is freed with its last        *)
(* reference holds however often setValue() is called; that the            *)
(* continuation runs once, with the result, and that the pair implements   *)
(* OneShot, holds for programs that set a promise once.                    *)
(***************************************************************************)
EXTENDS FutureState, FiniteSetTheorems, TLAPS

-----------------------------------------------------------------------------
(* References *)

Threads == Promises \union {"future"}

(* Who has a promise or the future. *)
Owners == {a \in Threads : pc[a] \notin {"absent", "gone"}}

(* Who has a ContinuationReference, with or without its continuation. *)
Callers == {a \in Actors : pc[a] \in {"running", "dereferencing", "releasing"}}
Keepers == {a \in Actors : pc[a] \in {"running", "dereferencing"}}

Calling == {"storing", "to_result", "to_done", "scheduling", "running",
            "dereferencing", "releasing"}

(* Where calls come back to. *)
Returns ==
  /\ \A p \in Promises : pc[p] \in Calling => after[p] \in {"owning", "detaching"}
  /\ \A p \in Promises : pc[p] = "last" => after[p] = "detaching"
  /\ pc["future"] \in Calling \union {"to_continuation"} => after["future"] = "owning"
  /\ after["worker"] = "idle"

TypeInv ==
  /\ state \in States
  /\ promiseRef \in Int
  /\ pc \in [Actors -> PromisePCs \union FuturePCs \union {"idle"}]
  /\ \A p \in Promises : pc[p] \in PromisePCs
  /\ pc["future"] \in FuturePCs
  /\ pc["worker"] \in {"idle", "running", "dereferencing", "releasing"}
  /\ after \in [Actors -> {"absent", "owning", "detaching", "idle"}]
  /\ seen \in [Actors -> States]
  /\ deleted \in BOOLEAN
  /\ executor \in BOOLEAN /\ checkedOut \in BOOLEAN /\ forceSched \in BOOLEAN
  /\ setters \in 0..MaxSetters
  /\ tryValue \in {"nothing", "value", "broken", "moved"}
  /\ continuation \in {"none", "set", "destroyed"}

(* attached_ counts the owners and the references. *)
Attached ==
  /\ attached = Cardinality(Owners) + Cardinality(Callers)
  /\ continuationRef = Cardinality(Keepers)
  /\ deleted = (attached = 0)

CountInv == TypeInv /\ Returns /\ Attached

-----------------------------------------------------------------------------
(* One setter, one continuation *)

Sets(p) == pc[p] \in {"storing", "to_result", "to_done"}

(* The promises that are still counted, and the one that broke.              *)
Alive == {p \in Promises : \/ pc[p] = "owning"
                           \/ (pc[p] \in Calling /\ after[p] = "owning")}
Breaks(p) == pc[p] = "last" \/ (pc[p] \in Calling /\ after[p] = "detaching")

PromiseInv ==
  /\ promiseRef = Cardinality(Alive)
  /\ \A p \in Promises : Breaks(p) => Alive = {}
  /\ \A p, q \in Promises : Breaks(p) /\ Breaks(q) => p = q
  /\ Alive = {} /\ ~hasResult => \E p \in Promises : pc[p] = "last" \/ Sets(p)

SetterInv ==
  /\ \A p \in Promises : Sets(p) /\ after[p] = "owning" => setters = 1
  /\ \A p, q \in Promises : Sets(p) /\ Sets(q) => p = q
  /\ \A p \in Promises : Sets(p) => ~hasResult
  /\ \A p \in Promises :
       pc[p] \in {"to_result", "to_done"} => tryValue \in {"value", "broken"}
  /\ \A p \in Promises : pc[p] = "to_done" =>
       state = "ONLY_CONTINUATION" /\ seen[p] = "ONLY_CONTINUATION"
  /\ hasResult /\ runs = <<>> => tryValue \in {"value", "broken"}

FutureInv ==
  /\ pc["future"] \in {"to_continuation", "to_done"} =>
       ~hasContinuation /\ continuation = "set"
  /\ pc["future"] = "to_done" => state = "ONLY_RESULT" /\ seen["future"] = "ONLY_RESULT"
  /\ \/ hasContinuation \/ continuation = "none"
     \/ pc["future"] \in {"to_continuation", "to_done"}
  /\ state = "ONLY_CONTINUATION" => continuation = "set"
  /\ hasContinuation => continuation # "none"

Executes(a) == pc[a] \in {"scheduling", "running"}

OneRun(r) == r.callable /\ r.got \in {"value", "broken"}

RunsInv ==
  /\ runs = <<>> \/ (runs = <<runs[1]>> /\ OneRun(runs[1]))
  /\ \A a, b \in Actors : Executes(a) /\ Executes(b) => a = b
  /\ \A a \in Actors : Executes(a) =>
       state = "DONE" /\ continuation = "set" /\ runs = <<>>
  /\ state = "DONE" /\ runs = <<>> => \E a \in Actors : Executes(a)
  /\ runs # <<>> => state = "DONE"
  /\ \A a \in Actors : pc[a] = "dereferencing" /\ runs = <<>> => pc["worker"] = "running"
  /\ runs # <<>> /\ continuation = "set" => \E a \in Actors : pc[a] = "dereferencing"
  /\ continuation = "destroyed" => runs # <<>> /\ Keepers = {}

IInv == CountInv /\ PromiseInv /\ SetterInv /\ FutureInv /\ RunsInv

-----------------------------------------------------------------------------
(* Cardinalities and counters *)

(* There are finitely many promises, and so actors.                        *)
LEMMA ActorsAreFinite ==
  ASSUME FutureAssumption
  PROVE  IsFiniteSet(Actors)
<1>1. IsFiniteSet({"future", "worker"})
  <2>1. {"future", "worker"} = ({} \union {"future"}) \union {"worker"}
    OBVIOUS
  <2>2. IsFiniteSet({} \union {"future"})
    BY FS_EmptySet, FS_AddElement
  <2> QED
    BY <2>1, <2>2, FS_AddElement
<1>2. IsFiniteSet(Promises)
  BY DEF FutureAssumption
<1>3. IsFiniteSet(Promises \union {"future", "worker"})
  BY <1>1, <1>2, FS_Union
<1> QED
  BY <1>3 DEF Actors

(* A set of actors has a number of members.                                  *)
LEMMA ActorsCount ==
  ASSUME FutureAssumption, NEW S \in SUBSET Actors
  PROVE  /\ IsFiniteSet(S) /\ Cardinality(S) \in Nat
         /\ Cardinality(S) = 0 <=> S = {}
BY ActorsAreFinite, FS_Subset, FS_CardinalityType, FS_EmptySet

(* One that joins a set of actors makes it larger by one.                  *)
LEMMA OneMore ==
  ASSUME FutureAssumption, NEW S \in SUBSET Actors, NEW a, a \notin S
  PROVE  Cardinality(S \union {a}) = Cardinality(S) + 1
BY ActorsCount, FS_AddElement

(* One that leaves it makes it smaller by one, and empty if it was alone.  *)
LEMMA OneLess ==
  ASSUME FutureAssumption, NEW S \in SUBSET Actors, NEW a \in S
  PROVE  /\ Cardinality(S \ {a}) = Cardinality(S) - 1
         /\ Cardinality(S) > 0
         /\ Cardinality(S) = 1 <=> S = {a}
<1>1. /\ Cardinality(S \ {a}) = Cardinality(S) - 1
      /\ Cardinality(S \ {a}) \in Nat /\ Cardinality(S) \in Nat
  BY ActorsCount, FS_RemoveElement
<1>2. Cardinality(S \ {a}) = 0 <=> S \ {a} = {}
  BY ActorsCount
<1> QED
  BY <1>1, <1>2

(* All references there can be fit into a counter.                           *)
LEMMA ReferencesFit ==
  ASSUME FutureAssumption, NEW S \in SUBSET Threads, NEW T \in SUBSET Actors
  PROVE  Cardinality(S) + Cardinality(T) < CounterModulus
<1>1. Cardinality(Threads) = Cardinality(Promises) + 1 /\ IsFiniteSet(Threads)
  BY FS_AddElement DEF FutureAssumption, Threads
<1>2. Cardinality(Actors) = Cardinality(Promises) + 2 /\ IsFiniteSet(Actors)
  <2>1. Actors = Threads \union {"worker"} /\ "worker" \notin Threads
    BY DEF FutureAssumption, Actors, Threads
  <2>2. Cardinality(Threads \union {"worker"}) = Cardinality(Threads) + 1
    BY <1>1, <2>1, FS_AddElement
  <2> QED
    BY <1>1, <2>1, <2>2, ActorsAreFinite, FS_CardinalityType DEF FutureAssumption
<1>3. Cardinality(S) <= Cardinality(Threads) /\ Cardinality(S) \in Nat
  BY <1>1, FS_Subset, FS_CardinalityType
<1>4. Cardinality(T) <= Cardinality(Actors) /\ Cardinality(T) \in Nat
  BY <1>2, FS_Subset, FS_CardinalityType
<1>5. Cardinality(Promises) \in Nat
  BY FS_CardinalityType DEF FutureAssumption
<1> QED
  BY <1>1, <1>2, <1>3, <1>4, <1>5 DEF FutureAssumption

(* While they do, the counters count.                                        *)
LEMMA CountersCount ==
  ASSUME FutureAssumption, NEW n \in Nat
  PROVE  /\ n + 1 < CounterModulus => Inc(n) = n + 1
         /\ 0 < n /\ n < CounterModulus => Dec(n) = n - 1
<1> DEFINE m == CounterModulus
<1>1. m \in Nat /\ m > 0
  BY FS_CardinalityType DEF FutureAssumption
<1>2. ASSUME n + 1 < m PROVE Inc(n) = n + 1
  BY <1>1, <1>2 DEF Inc
<1>3. ASSUME 0 < n, n < m PROVE Dec(n) = n - 1
  <2>1. (n + m - 1) % m = n - 1
    BY <1>1, <1>3
  <2> QED
    BY <2>1 DEF Dec
<1> QED
  BY <1>2, <1>3

-----------------------------------------------------------------------------
(* The types and the counters *)

(* Every step keeps the types, and calls come back to where they began.      *)
LEMMA TypeStep ==
  ASSUME FutureAssumption, TypeInv, Returns, [Next]_vars
  PROVE  TypeInv' /\ Returns'
<1> USE DEF TypeInv, Returns, FutureAssumption, States, Actors, PromisePCs,
            FuturePCs, Calling, Go, Goto, locals, setup, counters, hasResult,
            hasContinuation
<1>1. ASSUME Via PROVE TypeInv' /\ Returns'
  BY <1>1 DEF Via
<1>2. ASSUME NEW p \in Promises, Checkout(p) PROVE TypeInv' /\ Returns'
  BY <1>2 DEF Checkout
<1>3. ASSUME NEW p \in Promises, ForceSched(p) PROVE TypeInv' /\ Returns'
  BY <1>3 DEF ForceSched
<1>4. ASSUME NEW p \in Promises, SetValue(p) PROVE TypeInv' /\ Returns'
  BY <1>4 DEF SetValue
<1>5. ASSUME NEW p \in Promises, StoreResult(p) PROVE TypeInv' /\ Returns'
  BY <1>5 DEF StoreResult
<1>6. ASSUME NEW p \in Promises, ResultFirst(p) PROVE TypeInv' /\ Returns'
  BY <1>6 DEF ResultFirst
<1>7. ASSUME NEW p \in Promises, ResultFallsThrough(p) PROVE TypeInv' /\ Returns'
  BY <1>7 DEF ResultFallsThrough
<1>8. ASSUME NEW p \in Promises, ResultSecond(p) PROVE TypeInv' /\ Returns'
  BY <1>8 DEF ResultSecond
<1>9. ASSUME NEW p \in Promises, BreakPromise(p) PROVE TypeInv' /\ Returns'
  BY <1>9 DEF BreakPromise
<1>10. ASSUME NEW p \in Promises, DetachPromise(p) PROVE TypeInv' /\ Returns'
  BY <1>10 DEF DetachPromise
<1>11. ASSUME SetContinuation PROVE TypeInv' /\ Returns'
  BY <1>11 DEF SetContinuation
<1>12. ASSUME ContinuationFirst PROVE TypeInv' /\ Returns'
  BY <1>12 DEF ContinuationFirst
<1>13. ASSUME ContinuationFallsThrough PROVE TypeInv' /\ Returns'
  BY <1>13 DEF ContinuationFallsThrough
<1>14. ASSUME ContinuationSecond PROVE TypeInv' /\ Returns'
  BY <1>14 DEF ContinuationSecond
<1>15. ASSUME DropFuture PROVE TypeInv' /\ Returns'
  BY <1>15 DEF DropFuture
<1>16. ASSUME NEW a \in Actors, RunContinuation(a) PROVE TypeInv' /\ Returns'
  BY <1>16 DEF RunContinuation
<1>17. ASSUME NEW p \in Promises, NEW q \in Promises, CopyPromise(p, q)
       PROVE  TypeInv' /\ Returns'
  BY <1>17 DEF CopyPromise
<1>18. ASSUME GetFuture PROVE TypeInv' /\ Returns'
  BY <1>18 DEF GetFuture
<1>19. ASSUME NEW a \in Actors, ScheduleInPlace(a) PROVE TypeInv' /\ Returns'
  BY <1>19 DEF ScheduleInPlace
<1>20. ASSUME NEW a \in Actors, ScheduleAccepted(a) PROVE TypeInv' /\ Returns'
  BY <1>20 DEF ScheduleAccepted
<1>21. ASSUME NEW a \in Actors, ScheduleRefused(a) PROVE TypeInv' /\ Returns'
  BY <1>21 DEF ScheduleRefused
<1>22. ASSUME NEW a \in Actors, DerefContinuation(a) PROVE TypeInv' /\ Returns'
  BY <1>22 DEF DerefContinuation
<1>23. ASSUME NEW a \in Actors, ReleaseReference(a) PROVE TypeInv' /\ Returns'
  BY <1>23 DEF ReleaseReference, detachOne
<1>24. ASSUME NEW a \in Actors, DetachOwner(a) PROVE TypeInv' /\ Returns'
  BY <1>24 DEF DetachOwner, detachOne
<1>25. CASE UNCHANGED vars
  BY <1>25 DEF vars
<1> QED
  BY <1>1, <1>2, <1>3, <1>4, <1>5, <1>6, <1>7, <1>8, <1>9, <1>10, <1>11, <1>12,
     <1>13, <1>14, <1>15, <1>16, <1>17, <1>18, <1>19, <1>20, <1>21, <1>22, <1>23,
     <1>24, <1>25 DEF Next, SetResult, AttachContinuation, Inside, Schedule

(* The places where a ContinuationReference is held. *)
CallsAt == {"running", "dereferencing", "releasing"}

(* A step that moves no reference.                                         *)
LEMMA SameReferences ==
  ASSUME Attached, Owners' = Owners, Callers' = Callers, Keepers' = Keepers,
         UNCHANGED <<attached, continuationRef, deleted>>
  PROVE  Attached'
BY DEF Attached

(* A step that goes on to a place with the same references.                *)
LEMMA SameRole ==
  ASSUME FutureAssumption, TypeInv, Attached, NEW a \in Actors, NEW to, Goto(a, to),
         {pc[a], to} \cap {"absent", "gone"} = {},
         {pc[a], to} \cap CallsAt = {} \/ (pc[a] = "running" /\ to = "dereferencing"),
         UNCHANGED <<attached, continuationRef, deleted>>
  PROVE  Attached'
<1>1. Owners' = Owners /\ Callers' = Callers /\ Keepers' = Keepers
  BY DEF Goto, TypeInv, CallsAt, Owners, Callers, Keepers, Threads, Actors
<1> QED
  BY <1>1, SameReferences

(* The steps that move one reference. *)
LEMMA OneReference ==
  ASSUME FutureAssumption, Attached, NEW a,
         Owners \in SUBSET Actors, Callers \in SUBSET Actors, Keepers \in SUBSET Actors,
         a \notin Callers, a \notin Keepers, a \in Actors, pc[a] = "scheduling", TypeInv,
         Owners' = Owners, Callers' = Callers \union {a}, Keepers' = Keepers \union {a},
         Cardinality(Owners') + Cardinality(Callers') < CounterModulus,
         Cardinality(Keepers') < CounterModulus,
         attached' = Inc(attached), continuationRef' = Inc(continuationRef),
         deleted' = deleted
  PROVE  Attached'
<1>1. /\ Cardinality(Owners) \in Nat /\ Cardinality(Callers) \in Nat
      /\ Cardinality(Keepers) \in Nat
  BY ActorsCount
<1>2. /\ Cardinality(Callers') = Cardinality(Callers) + 1
      /\ Cardinality(Keepers') = Cardinality(Keepers) + 1
  BY OneMore
<1>3. attached' = attached + 1 /\ continuationRef' = continuationRef + 1
  BY <1>1, <1>2, CountersCount DEF Attached
<1>4. Cardinality(Owners) # 0
  <2>1. a \in Owners
    BY DEF Owners, TypeInv, Threads, Actors
  <2> QED
    BY <2>1, ActorsCount
<1> QED
  BY <1>1, <1>2, <1>3, <1>4 DEF Attached

(* detachOne() of one that holds a reference.                              *)
LEMMA DetachesOne ==
  ASSUME FutureAssumption, Attached, detachOne, continuationRef' = continuationRef,
         Keepers' = Keepers,
         Cardinality(Owners) \in Nat, Cardinality(Callers) \in Nat,
         Cardinality(Owners) + Cardinality(Callers) < CounterModulus,
         Cardinality(Owners') + Cardinality(Callers') =
           Cardinality(Owners) + Cardinality(Callers) - 1,
         Cardinality(Owners) + Cardinality(Callers) > 0
  PROVE  Attached'
<1>1. attached' = attached - 1 /\ attached > 0 /\ attached \in Nat
  BY CountersCount DEF Attached, detachOne
<1>2. attached' = Cardinality(Owners') + Cardinality(Callers')
  BY <1>1 DEF Attached
<1>3. attached' = 0 <=> attached = 1
  BY <1>1
<1>4. deleted' <=> attached' = 0
  <2>1. ~deleted
    <3>1. attached # 0
      BY <1>1
    <3> QED
      BY <3>1 DEF Attached
  <2>2. deleted' <=> attached = 1
    BY <2>1 DEF detachOne
  <2> QED
    BY <1>3, <2>2
<1>5. continuationRef' = Cardinality(Keepers')
  BY DEF Attached
<1> QED
  BY <1>2, <1>4, <1>5 DEF Attached

(* Every step keeps the counters equal to the references that exist, and     *)
(* the one that takes the last away deletes the state.                       *)
LEMMA AttachedStep ==
  ASSUME FutureAssumption, TypeInv, Returns, Attached, [Next]_vars
  PROVE  Attached'
<1>a. /\ Owners \in SUBSET Threads /\ Owners' \in SUBSET Threads
      /\ Owners \in SUBSET Actors /\ Owners' \in SUBSET Actors
      /\ Callers \in SUBSET Actors /\ Callers' \in SUBSET Actors
      /\ Keepers \in SUBSET Actors /\ Keepers' \in SUBSET Actors
  BY DEF Owners, Callers, Keepers, Threads, Actors
<1>b. /\ Cardinality(Owners) \in Nat /\ Cardinality(Callers) \in Nat
      /\ Cardinality(Keepers) \in Nat
      /\ Cardinality(Owners') \in Nat /\ Cardinality(Callers') \in Nat
      /\ Cardinality(Keepers') \in Nat
      /\ Cardinality(Owners) + Cardinality(Callers) < CounterModulus
      /\ Cardinality(Owners') + Cardinality(Callers') < CounterModulus
      /\ Cardinality(Keepers) < CounterModulus /\ Cardinality(Keepers') < CounterModulus
  <2>1. Cardinality({}) = 0 /\ {} \in SUBSET Threads
    BY FS_EmptySet
  <2>2. Cardinality({}) + Cardinality(Keepers) < CounterModulus
    BY <1>a, <2>1, ReferencesFit
  <2>3. Cardinality({}) + Cardinality(Keepers') < CounterModulus
    BY <1>a, <2>1, ReferencesFit
  <2>4. /\ Cardinality(Owners) \in Nat /\ Cardinality(Callers) \in Nat
        /\ Cardinality(Keepers) \in Nat
        /\ Cardinality(Owners') \in Nat /\ Cardinality(Callers') \in Nat
        /\ Cardinality(Keepers') \in Nat
    BY <1>a, ActorsCount
  <2> QED
    BY <1>a, <2>1, <2>2, <2>3, <2>4, ReferencesFit
<1>1. ASSUME Via PROVE Attached'
  BY <1>1, SameReferences DEF Via, counters, Owners, Callers, Keepers
<1>2. ASSUME NEW p \in Promises, Checkout(p) PROVE Attached'
  BY <1>2, SameReferences DEF Checkout, counters, Owners, Callers, Keepers
<1>3. ASSUME NEW p \in Promises, ForceSched(p) PROVE Attached'
  BY <1>3, SameReferences DEF ForceSched, counters, Owners, Callers, Keepers
<1>4. ASSUME NEW p \in Promises, SetValue(p) PROVE Attached'
  BY <1>4, SameRole DEF SetValue, counters, Go, CallsAt, Actors
<1>5. ASSUME NEW p \in Promises, StoreResult(p) PROVE Attached'
  <2> DEFINE to == CASE state = "START" -> "to_result"
                     [] state = "ONLY_CONTINUATION" -> "to_done"
                     [] OTHER -> after[p]
  <2>1. Go(p, "storing", to)
    BY <1>5 DEF StoreResult
  <2>2. to \in {"to_result", "to_done", "owning", "detaching"}
    BY <2>1 DEF Go, Returns, Calling
  <2> HIDE DEF to
  <2> QED
    BY <1>5, <2>1, <2>2, SameRole DEF StoreResult, counters, Go, CallsAt, Actors
<1>6. ASSUME NEW p \in Promises, ResultFirst(p) PROVE Attached'
  BY <1>6, SameRole DEF ResultFirst, counters, Go, CallsAt, Actors, Returns, Calling
<1>7. ASSUME NEW p \in Promises, ResultFallsThrough(p) PROVE Attached'
  BY <1>7, SameRole DEF ResultFallsThrough, counters, Go, CallsAt, Actors
<1>8. ASSUME NEW p \in Promises, ResultSecond(p) PROVE Attached'
  BY <1>8, SameRole DEF ResultSecond, counters, Go, CallsAt, Actors, Returns, Calling
<1>9. ASSUME NEW p \in Promises, BreakPromise(p) PROVE Attached'
  BY <1>9, SameRole DEF BreakPromise, counters, Go, CallsAt, Actors
<1>10. ASSUME NEW p \in Promises, DetachPromise(p) PROVE Attached'
  BY <1>10, SameRole DEF DetachPromise, counters, Go, CallsAt, Actors
<1>11. ASSUME SetContinuation PROVE Attached'
  BY <1>11, SameRole DEF SetContinuation, counters, Go, CallsAt, Actors
<1>12. ASSUME ContinuationFirst PROVE Attached'
  BY <1>12, SameRole DEF ContinuationFirst, counters, Go, CallsAt, Actors
<1>13. ASSUME ContinuationFallsThrough PROVE Attached'
  BY <1>13, SameRole DEF ContinuationFallsThrough, counters, Go, CallsAt, Actors
<1>14. ASSUME ContinuationSecond PROVE Attached'
  BY <1>14, SameRole DEF ContinuationSecond, counters, Go, CallsAt, Actors
<1>15. ASSUME DropFuture PROVE Attached'
  BY <1>15, SameRole DEF DropFuture, counters, Go, CallsAt, Actors
<1>16. ASSUME NEW a \in Actors, RunContinuation(a) PROVE Attached'
  BY <1>16, SameRole DEF RunContinuation, counters, Go, CallsAt, Actors
<1>17. ASSUME NEW p \in Promises, NEW q \in Promises, CopyPromise(p, q)
       PROVE  Attached'
  <2>1. Owners' = Owners \union {q} /\ q \notin Owners
    BY <1>17 DEF CopyPromise, Go, Goto, TypeInv, Owners, Threads, Actors,
         FutureAssumption
  <2>2. Callers' = Callers /\ Keepers' = Keepers
    BY <1>17 DEF CopyPromise, Go, Goto, TypeInv, Callers, Keepers, Actors,
         FutureAssumption
  <2>3. Cardinality(Owners') = Cardinality(Owners) + 1
    BY <1>a, <2>1, OneMore
  <2>4. attached # 0
    <3>1. Owners # {}
      BY <1>17 DEF CopyPromise, Owners, Threads, FutureAssumption
    <3>2. Cardinality(Owners) # 0
      BY <1>a, <3>1, ActorsCount
    <3> QED
      BY <1>b, <3>2 DEF Attached
  <2>5. attached' = attached + 1
    BY <1>17, <1>b, <2>2, <2>3, CountersCount DEF CopyPromise, Attached
  <2> QED
    BY <1>17, <1>b, <2>2, <2>3, <2>4, <2>5 DEF CopyPromise, Attached
<1>18. ASSUME GetFuture PROVE Attached'
  <2>1. Owners' = Owners \union {"future"} /\ "future" \notin Owners
    BY <1>18 DEF GetFuture, Go, Goto, TypeInv, Owners, Threads, Actors,
         FutureAssumption
  <2>2. Callers' = Callers /\ Keepers' = Keepers
    BY <1>18 DEF GetFuture, Go, Goto, TypeInv, Callers, Keepers, Actors,
         FutureAssumption
  <2>3. Cardinality(Owners') = Cardinality(Owners) + 1
    BY <1>a, <2>1, OneMore
  <2>4. attached # 0
    <3>1. Owners # {}
      BY <1>18 DEF GetFuture, Owners, Threads, FutureAssumption
    <3>2. Cardinality(Owners) # 0
      BY <1>a, <3>1, ActorsCount
    <3> QED
      BY <1>b, <3>2 DEF Attached
  <2>5. attached' = attached + 1
    BY <1>18, <1>b, <2>2, <2>3, CountersCount DEF GetFuture, Attached
  <2> QED
    BY <1>18, <1>b, <2>2, <2>3, <2>4, <2>5 DEF GetFuture, Attached
<1>19. ASSUME NEW a \in Actors, ScheduleInPlace(a) PROVE Attached'
  <2>1. /\ Callers' = Callers \union {a} /\ a \notin Callers
        /\ Keepers' = Keepers \union {a} /\ a \notin Keepers
    BY <1>19 DEF ScheduleInPlace, Go, Goto, TypeInv, Callers, Keepers
  <2>2. Owners' = Owners
    BY <1>19 DEF ScheduleInPlace, Go, Goto, TypeInv, Owners
  <2> QED
    BY <1>19, <1>a, <1>b, <2>1, <2>2, OneReference DEF ScheduleInPlace, Go
<1>20. ASSUME NEW a \in Actors, ScheduleRefused(a) PROVE Attached'
  <2>1. /\ Callers' = Callers \union {a} /\ a \notin Callers
        /\ Keepers' = Keepers \union {a} /\ a \notin Keepers
    BY <1>20 DEF ScheduleRefused, Go, Goto, TypeInv, Callers, Keepers
  <2>2. Owners' = Owners
    BY <1>20 DEF ScheduleRefused, Go, Goto, TypeInv, Owners
  <2> QED
    BY <1>20, <1>a, <1>b, <2>1, <2>2, OneReference DEF ScheduleRefused, Go
<1>21. ASSUME NEW a \in Actors, ScheduleAccepted(a) PROVE Attached'
  <2> DEFINE C == Callers \union {a}
             K == Keepers \union {a}
  <2>1. a # "worker" /\ a \in Owners
    BY <1>21 DEF ScheduleAccepted, TypeInv, Owners, Threads, Actors
  <2>2. /\ Callers' = C \union {"worker"} /\ Keepers' = K \union {"worker"}
        /\ Owners' = Owners
    BY <1>21, <2>1 DEF ScheduleAccepted, TypeInv, Callers, Keepers, Owners, Threads,
         Actors
  <2>3. /\ a \notin Callers /\ a \notin Keepers
        /\ "worker" \notin C /\ "worker" \notin K
        /\ C \in SUBSET Actors /\ K \in SUBSET Actors
    BY <1>21, <1>a, <2>1 DEF ScheduleAccepted, Callers, Keepers
  <2>4. /\ Cardinality(C) = Cardinality(Callers) + 1
        /\ Cardinality(K) = Cardinality(Keepers) + 1
    BY <1>a, <2>3, OneMore
  <2>5. /\ Cardinality(Callers') = Cardinality(Callers) + 2
        /\ Cardinality(Keepers') = Cardinality(Keepers) + 2
    <3>1. /\ Cardinality(C \union {"worker"}) = Cardinality(C) + 1
          /\ Cardinality(K \union {"worker"}) = Cardinality(K) + 1
      BY <2>3, OneMore
    <3> QED
      BY <1>b, <2>2, <2>4, <3>1
  <2>6. /\ attached \in Nat /\ attached + 2 < CounterModulus
        /\ continuationRef \in Nat /\ continuationRef + 2 < CounterModulus
    BY <1>b, <2>2, <2>5 DEF Attached
  <2>7. attached' = attached + 2 /\ continuationRef' = continuationRef + 2
    <3>1. Inc(attached) = attached + 1 /\ Inc(attached + 1) = attached + 2
      BY <2>6, CountersCount DEF FutureAssumption
    <3>2. /\ Inc(continuationRef) = continuationRef + 1
          /\ Inc(continuationRef + 1) = continuationRef + 2
      BY <2>6, CountersCount DEF FutureAssumption
    <3> QED
      BY <1>21, <3>1, <3>2 DEF ScheduleAccepted
  <2>8. attached # 0
    <3>1. Cardinality(Owners) # 0
      BY <1>a, <2>1, ActorsCount
    <3> QED
      BY <1>b, <3>1 DEF Attached
  <2> QED
    BY <1>21, <1>b, <2>2, <2>5, <2>6, <2>7, <2>8 DEF ScheduleAccepted, Attached
<1>22. ASSUME NEW a \in Actors, DerefContinuation(a) PROVE Attached'
  <2>1. /\ Keepers' = Keepers \ {a} /\ a \in Keepers
        /\ Callers' = Callers /\ Owners' = Owners
    BY <1>22 DEF DerefContinuation, Go, Goto, TypeInv, Callers, Keepers, Owners
  <2>2. Cardinality(Keepers') = Cardinality(Keepers) - 1 /\ Cardinality(Keepers) > 0
    BY <1>a, <2>1, OneLess
  <2>3. continuationRef' = continuationRef - 1
    BY <1>22, <1>b, <2>2, CountersCount DEF DerefContinuation, Attached
  <2> QED
    BY <1>22, <1>b, <2>1, <2>2, <2>3 DEF DerefContinuation, Attached
<1>23. ASSUME NEW a \in Actors, ReleaseReference(a) PROVE Attached'
  <2>1. /\ Callers' = Callers \ {a} /\ a \in Callers
        /\ Keepers' = Keepers /\ Owners' = Owners
    BY <1>23 DEF ReleaseReference, Go, Goto, TypeInv, Returns, Calling, Callers,
         Keepers,
                 Owners, Threads, Actors, FutureAssumption
  <2>2. Cardinality(Callers') = Cardinality(Callers) - 1 /\ Cardinality(Callers) > 0
    BY <1>a, <2>1, OneLess
  <2> QED
    BY <1>23, <1>b, <2>1, <2>2, DetachesOne DEF ReleaseReference
<1>24. ASSUME NEW a \in Actors, DetachOwner(a) PROVE Attached'
  <2>1. /\ Owners' = Owners \ {a} /\ a \in Owners
        /\ Keepers' = Keepers /\ Callers' = Callers
    BY <1>24 DEF DetachOwner, Go, Goto, TypeInv, Callers, Keepers, Owners, Threads,
         Actors,
                 FutureAssumption
  <2>2. Cardinality(Owners') = Cardinality(Owners) - 1 /\ Cardinality(Owners) > 0
    BY <1>a, <2>1, OneLess
  <2> QED
    BY <1>24, <1>b, <2>1, <2>2, DetachesOne DEF DetachOwner
<1>25. CASE UNCHANGED vars
  BY <1>25, SameReferences DEF vars, counters, Owners, Callers, Keepers
<1> QED
  BY <1>1, <1>2, <1>3, <1>4, <1>5, <1>6, <1>7, <1>8, <1>9, <1>10, <1>11, <1>12,
     <1>13, <1>14, <1>15, <1>16, <1>17, <1>18, <1>19, <1>20, <1>21, <1>22, <1>23,
     <1>24, <1>25 DEF Next, SetResult, AttachContinuation, Inside, Schedule

-----------------------------------------------------------------------------
(* The steps of promises, setters and the future *)

(* The promises are counted, and at most one of them breaks, as the last.    *)
LEMMA PromiseStep ==
  ASSUME FutureAssumption, CountInv, PromiseInv, SetterInv, FutureInv, RunsInv,
         [Next]_vars
  PROVE  PromiseInv'
<1> USE DEF Go, Goto, locals, setup, counters, hasResult, hasContinuation, States,
            Actors, FutureAssumption, CountInv, TypeInv, Returns, PromisePCs,
            FuturePCs, Calling
<1>1. ASSUME Via PROVE PromiseInv'
  <2>1. Alive' = Alive
    BY <1>1 DEF Via, Alive
  <2> QED
    BY <1>1, <2>1 DEF Via, PromiseInv, SetterInv, Breaks, Sets
<1>2. ASSUME NEW p \in Promises, Checkout(p) PROVE PromiseInv'
  <2>1. Alive' = Alive
    BY <1>2 DEF Checkout, Alive
  <2> QED
    BY <1>2, <2>1 DEF Checkout, PromiseInv, SetterInv, Breaks, Sets
<1>3. ASSUME NEW p \in Promises, ForceSched(p) PROVE PromiseInv'
  <2>1. Alive' = Alive
    BY <1>3 DEF ForceSched, Alive
  <2> QED
    BY <1>3, <2>1 DEF ForceSched, PromiseInv, SetterInv, Breaks, Sets
<1>4. ASSUME NEW p \in Promises, SetValue(p) PROVE PromiseInv'
  <2>1. Alive' = Alive /\ p \in Alive
    BY <1>4 DEF SetValue, Alive
  <2> QED
    BY <1>4, <2>1 DEF SetValue, PromiseInv, SetterInv, Breaks, Sets
<1>5. ASSUME NEW p \in Promises, StoreResult(p) PROVE PromiseInv'
  <2>1. Alive' = Alive
    BY <1>5 DEF StoreResult, Alive
  <2> QED
    BY <1>5, <2>1 DEF StoreResult, PromiseInv, SetterInv, Breaks, Sets
<1>6. ASSUME NEW p \in Promises, ResultFirst(p) PROVE PromiseInv'
  <2>1. Alive' = Alive
    BY <1>6 DEF ResultFirst, Alive
  <2> QED
    BY <1>6, <2>1 DEF ResultFirst, PromiseInv, SetterInv, Breaks, Sets
<1>7. ASSUME NEW p \in Promises, ResultFallsThrough(p) PROVE PromiseInv'
  <2>1. Alive' = Alive
    BY <1>7 DEF ResultFallsThrough, Alive
  <2> QED
    BY <1>7, <2>1 DEF ResultFallsThrough, PromiseInv, SetterInv, Breaks, Sets
<1>8. ASSUME NEW p \in Promises, ResultSecond(p) PROVE PromiseInv'
  <2>1. Alive' = Alive
    BY <1>8 DEF ResultSecond, Alive
  <2> QED
    BY <1>8, <2>1 DEF ResultSecond, PromiseInv, SetterInv, Breaks, Sets
<1>9. ASSUME NEW p \in Promises, BreakPromise(p) PROVE PromiseInv'
  <2>1. Alive' = Alive
    BY <1>9 DEF BreakPromise, Alive
  <2> QED
    BY <1>9, <2>1 DEF BreakPromise, PromiseInv, SetterInv, Breaks, Sets
<1>10. ASSUME NEW p \in Promises, DetachPromise(p) PROVE PromiseInv'
  <2>1. Alive' = Alive \ {p} /\ p \in Alive
    BY <1>10 DEF DetachPromise, Alive
  <2>2. Alive \in SUBSET Actors
    BY DEF Alive
  <2>3. promiseRef' = Cardinality(Alive') /\ (promiseRef = 1 <=> Alive = {p})
    BY <1>10, <2>1, <2>2, OneLess DEF DetachPromise, PromiseInv
  <2>4. \A q \in Promises : ~Breaks(q)
    BY <2>1 DEF PromiseInv
  <2>5. \A q \in Promises : Breaks(q)' => q = p /\ promiseRef = 1
    BY <1>10, <2>4 DEF DetachPromise, Breaks
  <2>6. Alive' = {} => pc'[p] = "last"
    BY <1>10, <2>1, <2>3 DEF DetachPromise
  <2> QED
    BY <2>1, <2>3, <2>5, <2>6 DEF PromiseInv
<1>11. ASSUME SetContinuation PROVE PromiseInv'
  <2>1. Alive' = Alive
    BY <1>11 DEF SetContinuation, Alive
  <2> QED
    BY <1>11, <2>1 DEF SetContinuation, PromiseInv, SetterInv, Breaks, Sets
<1>12. ASSUME ContinuationFirst PROVE PromiseInv'
  <2>1. Alive' = Alive
    BY <1>12 DEF ContinuationFirst, Alive
  <2> QED
    BY <1>12, <2>1 DEF ContinuationFirst, PromiseInv, SetterInv, Breaks, Sets
<1>13. ASSUME ContinuationFallsThrough PROVE PromiseInv'
  <2>1. Alive' = Alive
    BY <1>13 DEF ContinuationFallsThrough, Alive
  <2> QED
    BY <1>13, <2>1 DEF ContinuationFallsThrough, PromiseInv, SetterInv, Breaks, Sets
<1>14. ASSUME ContinuationSecond PROVE PromiseInv'
  <2>1. Alive' = Alive
    BY <1>14 DEF ContinuationSecond, Alive
  <2> QED
    BY <1>14, <2>1 DEF ContinuationSecond, PromiseInv, SetterInv, Breaks, Sets
<1>15. ASSUME DropFuture PROVE PromiseInv'
  <2>1. Alive' = Alive
    BY <1>15 DEF DropFuture, Alive
  <2> QED
    BY <1>15, <2>1 DEF DropFuture, PromiseInv, SetterInv, Breaks, Sets
<1>16. ASSUME NEW a \in Actors, RunContinuation(a) PROVE PromiseInv'
  <2>1. Alive' = Alive
    BY <1>16 DEF RunContinuation, Alive
  <2> QED
    BY <1>16, <2>1 DEF RunContinuation, PromiseInv, SetterInv, Breaks, Sets
<1>17. ASSUME NEW p \in Promises, NEW q \in Promises, CopyPromise(p, q)
       PROVE  PromiseInv'
  <2>1. Alive' = Alive \union {q} /\ q \notin Alive /\ p \in Alive
    BY <1>17 DEF CopyPromise, Alive
  <2>2. Alive \in SUBSET Actors
    BY DEF Alive
  <2>3. promiseRef' = Cardinality(Alive')
    BY <1>17, <2>1, <2>2, OneMore DEF CopyPromise, PromiseInv
  <2> QED
    BY <1>17, <2>1, <2>3 DEF CopyPromise, PromiseInv, Breaks, Sets
<1>18. ASSUME GetFuture PROVE PromiseInv'
  <2>1. Alive' = Alive
    BY <1>18 DEF GetFuture, Alive
  <2> QED
    BY <1>18, <2>1 DEF GetFuture, PromiseInv, SetterInv, Breaks, Sets
<1>19. ASSUME NEW a \in Actors, ScheduleInPlace(a) PROVE PromiseInv'
  <2>1. Alive' = Alive
    BY <1>19 DEF ScheduleInPlace, Alive
  <2> QED
    BY <1>19, <2>1 DEF ScheduleInPlace, PromiseInv, SetterInv, Breaks, Sets
<1>20. ASSUME NEW a \in Actors, ScheduleAccepted(a) PROVE PromiseInv'
  <2>1. Alive' = Alive
    BY <1>20 DEF ScheduleAccepted, Alive
  <2> QED
    BY <1>20, <2>1 DEF ScheduleAccepted, PromiseInv, SetterInv, Breaks, Sets
<1>21. ASSUME NEW a \in Actors, ScheduleRefused(a) PROVE PromiseInv'
  <2>1. Alive' = Alive
    BY <1>21 DEF ScheduleRefused, Alive
  <2> QED
    BY <1>21, <2>1 DEF ScheduleRefused, PromiseInv, SetterInv, Breaks, Sets
<1>22. ASSUME NEW a \in Actors, DerefContinuation(a) PROVE PromiseInv'
  <2>1. Alive' = Alive
    BY <1>22 DEF DerefContinuation, Alive
  <2> QED
    BY <1>22, <2>1 DEF DerefContinuation, PromiseInv, SetterInv, Breaks, Sets
<1>23. ASSUME NEW a \in Actors, ReleaseReference(a) PROVE PromiseInv'
  <2>1. Alive' = Alive
    BY <1>23 DEF ReleaseReference, Alive
  <2> QED
    BY <1>23, <2>1 DEF ReleaseReference, PromiseInv, SetterInv, Breaks, Sets
<1>24. ASSUME NEW a \in Actors, DetachOwner(a) PROVE PromiseInv'
  <2>1. Alive' = Alive
    BY <1>24 DEF DetachOwner, Alive
  <2> QED
    BY <1>24, <2>1 DEF DetachOwner, PromiseInv, SetterInv, Breaks, Sets
<1>25. CASE UNCHANGED vars
  BY <1>25 DEF vars, PromiseInv, Alive, Breaks, Sets
<1> QED
  BY <1>1, <1>2, <1>3, <1>4, <1>5, <1>6, <1>7, <1>8, <1>9, <1>10, <1>11, <1>12,
     <1>13, <1>14, <1>15, <1>16, <1>17, <1>18, <1>19, <1>20, <1>21, <1>22, <1>23,
     <1>24, <1>25 DEF Next, SetResult, AttachContinuation, Inside, Schedule

(* One setter at a time: the setter that the program starts, or the promise *)
(* that breaks; and what it stored is there for the continuation.            *)
LEMMA SetterStep ==
  ASSUME FutureAssumption, CountInv, PromiseInv, SetterInv, FutureInv, RunsInv,
         MaxSetters \in {0, 1}, [Next]_vars
  PROVE  SetterInv'
<1> USE DEF Go, Goto, locals, setup, counters, hasResult, hasContinuation, States,
            Actors, FutureAssumption, CountInv, TypeInv, Returns, PromisePCs,
            FuturePCs, Calling, PromiseInv, SetterInv, FutureInv, Alive, Breaks,
            Sets
<1>1. ASSUME Via PROVE SetterInv'
  BY <1>1 DEF Via
<1>2. ASSUME NEW p \in Promises, Checkout(p) PROVE SetterInv'
  BY <1>2 DEF Checkout
<1>3. ASSUME NEW p \in Promises, ForceSched(p) PROVE SetterInv'
  BY <1>3 DEF ForceSched
<1>4. ASSUME NEW p \in Promises, SetValue(p) PROVE SetterInv'
  BY <1>4 DEF SetValue
<1>5. ASSUME NEW p \in Promises, StoreResult(p) PROVE SetterInv'
  BY <1>5 DEF StoreResult
<1>6. ASSUME NEW p \in Promises, ResultFirst(p) PROVE SetterInv'
  BY <1>6 DEF ResultFirst
<1>7. ASSUME NEW p \in Promises, ResultFallsThrough(p) PROVE SetterInv'
  BY <1>7 DEF ResultFallsThrough
<1>8. ASSUME NEW p \in Promises, ResultSecond(p) PROVE SetterInv'
  BY <1>8 DEF ResultSecond
<1>9. ASSUME NEW p \in Promises, BreakPromise(p) PROVE SetterInv'
  BY <1>9 DEF BreakPromise
<1>10. ASSUME NEW p \in Promises, DetachPromise(p) PROVE SetterInv'
  BY <1>10 DEF DetachPromise
<1>11. ASSUME SetContinuation PROVE SetterInv'
  BY <1>11 DEF SetContinuation
<1>12. ASSUME ContinuationFirst PROVE SetterInv'
  BY <1>12 DEF ContinuationFirst
<1>13. ASSUME ContinuationFallsThrough PROVE SetterInv'
  BY <1>13 DEF ContinuationFallsThrough
<1>14. ASSUME ContinuationSecond PROVE SetterInv'
  BY <1>14 DEF ContinuationSecond
<1>15. ASSUME DropFuture PROVE SetterInv'
  BY <1>15 DEF DropFuture
<1>16. ASSUME NEW a \in Actors, RunContinuation(a) PROVE SetterInv'
  <2>1. runs' # <<>>
    BY <1>16 DEF RunContinuation, RunsInv, Executes
  <2>2. \A p \in Promises : ~Sets(p)'
    BY <1>16 DEF RunContinuation, RunsInv, Executes
  <2> QED
    BY <1>16, <2>1, <2>2 DEF RunContinuation
<1>17. ASSUME NEW p \in Promises, NEW q \in Promises, CopyPromise(p, q)
       PROVE  SetterInv'
  BY <1>17 DEF CopyPromise
<1>18. ASSUME GetFuture PROVE SetterInv'
  BY <1>18 DEF GetFuture
<1>19. ASSUME NEW a \in Actors, ScheduleInPlace(a) PROVE SetterInv'
  BY <1>19 DEF ScheduleInPlace
<1>20. ASSUME NEW a \in Actors, ScheduleAccepted(a) PROVE SetterInv'
  BY <1>20 DEF ScheduleAccepted
<1>21. ASSUME NEW a \in Actors, ScheduleRefused(a) PROVE SetterInv'
  BY <1>21 DEF ScheduleRefused
<1>22. ASSUME NEW a \in Actors, DerefContinuation(a) PROVE SetterInv'
  BY <1>22 DEF DerefContinuation
<1>23. ASSUME NEW a \in Actors, ReleaseReference(a) PROVE SetterInv'
  BY <1>23 DEF ReleaseReference
<1>24. ASSUME NEW a \in Actors, DetachOwner(a) PROVE SetterInv'
  BY <1>24 DEF DetachOwner
<1>25. CASE UNCHANGED vars
  BY <1>25 DEF vars
<1> QED
  BY <1>1, <1>2, <1>3, <1>4, <1>5, <1>6, <1>7, <1>8, <1>9, <1>10, <1>11, <1>12,
     <1>13, <1>14, <1>15, <1>16, <1>17, <1>18, <1>19, <1>20, <1>21, <1>22, <1>23,
     <1>24, <1>25 DEF Next, SetResult, AttachContinuation, Inside, Schedule

(* The future installs its continuation before it makes it known.            *)
LEMMA FutureStep ==
  ASSUME FutureAssumption, CountInv, PromiseInv, SetterInv, FutureInv, RunsInv,
         [Next]_vars
  PROVE  FutureInv'
<1> USE DEF Go, Goto, locals, setup, counters, hasResult, hasContinuation, States,
            Actors, FutureAssumption, CountInv, TypeInv, Returns, PromisePCs,
            FuturePCs, Calling, SetterInv, FutureInv, RunsInv, Sets, Executes
<1>1. ASSUME Via PROVE FutureInv'
  BY <1>1 DEF Via
<1>2. ASSUME NEW p \in Promises, Checkout(p) PROVE FutureInv'
  BY <1>2 DEF Checkout
<1>3. ASSUME NEW p \in Promises, ForceSched(p) PROVE FutureInv'
  BY <1>3 DEF ForceSched
<1>4. ASSUME NEW p \in Promises, SetValue(p) PROVE FutureInv'
  BY <1>4 DEF SetValue
<1>5. ASSUME NEW p \in Promises, StoreResult(p) PROVE FutureInv'
  BY <1>5 DEF StoreResult
<1>6. ASSUME NEW p \in Promises, ResultFirst(p) PROVE FutureInv'
  BY <1>6 DEF ResultFirst
<1>7. ASSUME NEW p \in Promises, ResultFallsThrough(p) PROVE FutureInv'
  BY <1>7 DEF ResultFallsThrough
<1>8. ASSUME NEW p \in Promises, ResultSecond(p) PROVE FutureInv'
  BY <1>8 DEF ResultSecond
<1>9. ASSUME NEW p \in Promises, BreakPromise(p) PROVE FutureInv'
  BY <1>9 DEF BreakPromise
<1>10. ASSUME NEW p \in Promises, DetachPromise(p) PROVE FutureInv'
  BY <1>10 DEF DetachPromise
<1>11. ASSUME SetContinuation PROVE FutureInv'
  BY <1>11 DEF SetContinuation
<1>12. ASSUME ContinuationFirst PROVE FutureInv'
  BY <1>12 DEF ContinuationFirst
<1>13. ASSUME ContinuationFallsThrough PROVE FutureInv'
  BY <1>13 DEF ContinuationFallsThrough
<1>14. ASSUME ContinuationSecond PROVE FutureInv'
  BY <1>14 DEF ContinuationSecond
<1>15. ASSUME DropFuture PROVE FutureInv'
  BY <1>15 DEF DropFuture
<1>16. ASSUME NEW a \in Actors, RunContinuation(a) PROVE FutureInv'
  BY <1>16 DEF RunContinuation
<1>17. ASSUME NEW p \in Promises, NEW q \in Promises, CopyPromise(p, q)
       PROVE  FutureInv'
  BY <1>17 DEF CopyPromise
<1>18. ASSUME GetFuture PROVE FutureInv'
  BY <1>18 DEF GetFuture
<1>19. ASSUME NEW a \in Actors, ScheduleInPlace(a) PROVE FutureInv'
  BY <1>19 DEF ScheduleInPlace
<1>20. ASSUME NEW a \in Actors, ScheduleAccepted(a) PROVE FutureInv'
  BY <1>20 DEF ScheduleAccepted
<1>21. ASSUME NEW a \in Actors, ScheduleRefused(a) PROVE FutureInv'
  BY <1>21 DEF ScheduleRefused
<1>22. ASSUME NEW a \in Actors, DerefContinuation(a) PROVE FutureInv'
  BY <1>22 DEF DerefContinuation
<1>23. ASSUME NEW a \in Actors, ReleaseReference(a) PROVE FutureInv'
  BY <1>23 DEF ReleaseReference
<1>24. ASSUME NEW a \in Actors, DetachOwner(a) PROVE FutureInv'
  BY <1>24 DEF DetachOwner
<1>25. CASE UNCHANGED vars
  BY <1>25 DEF vars
<1> QED
  BY <1>1, <1>2, <1>3, <1>4, <1>5, <1>6, <1>7, <1>8, <1>9, <1>10, <1>11, <1>12,
     <1>13, <1>14, <1>15, <1>16, <1>17, <1>18, <1>19, <1>20, <1>21, <1>22, <1>23,
     <1>24, <1>25 DEF Next, SetResult, AttachContinuation, Inside, Schedule

(* The reference that is the last destroys the continuation. *)
LEMMA LastKeeper ==
  ASSUME FutureAssumption, CountInv, NEW a \in Keepers
  PROVE  continuationRef = 1 <=> Keepers = {a}
<1>1. Keepers \in SUBSET Actors
  BY DEF Keepers
<1> QED
  BY <1>1, OneLess DEF CountInv, Attached

(* Whoever makes state_ DONE runs the continuation or has it run, once; it   *)
(* is destroyed after that.                                                  *)
LEMMA RunsStep ==
  ASSUME FutureAssumption, CountInv, PromiseInv, SetterInv, FutureInv, RunsInv,
         [Next]_vars
  PROVE  RunsInv'
<1> USE DEF Go, Goto, locals, setup, counters, hasResult, hasContinuation, States,
            Actors, FutureAssumption, CountInv, TypeInv, Returns, PromisePCs,
            FuturePCs, Calling, SetterInv, FutureInv, RunsInv, Executes, OneRun,
            Sets, Keepers
<1>1. ASSUME Via PROVE RunsInv'
  BY <1>1 DEF Via
<1>2. ASSUME NEW p \in Promises, Checkout(p) PROVE RunsInv'
  BY <1>2 DEF Checkout
<1>3. ASSUME NEW p \in Promises, ForceSched(p) PROVE RunsInv'
  BY <1>3 DEF ForceSched
<1>4. ASSUME NEW p \in Promises, SetValue(p) PROVE RunsInv'
  BY <1>4 DEF SetValue
<1>5. ASSUME NEW p \in Promises, StoreResult(p) PROVE RunsInv'
  BY <1>5 DEF StoreResult
<1>6. ASSUME NEW p \in Promises, ResultFirst(p) PROVE RunsInv'
  BY <1>6 DEF ResultFirst
<1>7. ASSUME NEW p \in Promises, ResultFallsThrough(p) PROVE RunsInv'
  BY <1>7 DEF ResultFallsThrough
<1>8. ASSUME NEW p \in Promises, ResultSecond(p) PROVE RunsInv'
  BY <1>8 DEF ResultSecond
<1>9. ASSUME NEW p \in Promises, BreakPromise(p) PROVE RunsInv'
  BY <1>9 DEF BreakPromise
<1>10. ASSUME NEW p \in Promises, DetachPromise(p) PROVE RunsInv'
  BY <1>10 DEF DetachPromise
<1>11. ASSUME SetContinuation PROVE RunsInv'
  BY <1>11 DEF SetContinuation
<1>12. ASSUME ContinuationFirst PROVE RunsInv'
  BY <1>12 DEF ContinuationFirst
<1>13. ASSUME ContinuationFallsThrough PROVE RunsInv'
  BY <1>13 DEF ContinuationFallsThrough
<1>14. ASSUME ContinuationSecond PROVE RunsInv'
  BY <1>14 DEF ContinuationSecond
<1>15. ASSUME DropFuture PROVE RunsInv'
  BY <1>15 DEF DropFuture
<1>16. ASSUME NEW a \in Actors, RunContinuation(a) PROVE RunsInv'
  <2> DEFINE r == [by |-> a, got |-> tryValue, callable |-> continuation = "set"]
  <2>1. runs = <<>> /\ OneRun(r)
    BY <1>16 DEF RunContinuation
  <2>2. runs' = <<r>> /\ runs' # <<>>
    BY <1>16, <2>1 DEF RunContinuation
  <2>3. runs'[1] = r
    BY <2>2
  <2> HIDE DEF r
  <2>4. runs' = <<runs'[1]>> /\ OneRun(runs'[1])
    BY <2>1, <2>2, <2>3
  <2>5. OneRun(runs[1])'
    BY <2>4 DEF OneRun
  <2>6. \A b \in Actors : ~Executes(b)'
    BY <1>16 DEF RunContinuation
  <2>7. Keepers' = Keepers /\ continuation' = "set"
    BY <1>16 DEF RunContinuation
  <2> QED
    BY <1>16, <2>2, <2>4, <2>5, <2>6, <2>7 DEF RunContinuation
<1>17. ASSUME NEW p \in Promises, NEW q \in Promises, CopyPromise(p, q)
       PROVE  RunsInv'
  BY <1>17 DEF CopyPromise
<1>18. ASSUME GetFuture PROVE RunsInv'
  BY <1>18 DEF GetFuture
<1>19. ASSUME NEW a \in Actors, ScheduleInPlace(a) PROVE RunsInv'
  BY <1>19 DEF ScheduleInPlace
<1>20. ASSUME NEW a \in Actors, ScheduleAccepted(a) PROVE RunsInv'
  BY <1>20 DEF ScheduleAccepted
<1>21. ASSUME NEW a \in Actors, ScheduleRefused(a) PROVE RunsInv'
  BY <1>21 DEF ScheduleRefused
<1>22. ASSUME NEW a \in Actors, DerefContinuation(a) PROVE RunsInv'
  <2>1. Keepers' = Keepers \ {a} /\ a \in Keepers /\ Keepers \in SUBSET Actors
    BY <1>22 DEF DerefContinuation
  <2>2. continuationRef = 1 <=> Keepers = {a}
    BY <2>1, LastKeeper
  <2>3. continuationRef = 1 => runs # <<>>
    BY <1>22, <2>1, <2>2 DEF DerefContinuation
  <2>4. ASSUME runs # <<>>, continuation' = "set"
        PROVE  \E b \in Actors : pc'[b] = "dereferencing"
    <3>1. PICK b \in Keepers : b # a
      BY <1>22, <2>1, <2>2, <2>4 DEF DerefContinuation
    <3>2. pc[b] = "dereferencing"
      BY <2>4, <3>1
    <3> QED
      BY <1>22, <3>1, <3>2 DEF DerefContinuation
  <2>5. continuation' = "destroyed" => runs' # <<>> /\ Keepers' = {}
    BY <1>22, <2>1, <2>2, <2>3 DEF DerefContinuation
  <2> QED
    BY <1>22, <2>4, <2>5 DEF DerefContinuation
<1>23. ASSUME NEW a \in Actors, ReleaseReference(a) PROVE RunsInv'
  BY <1>23 DEF ReleaseReference
<1>24. ASSUME NEW a \in Actors, DetachOwner(a) PROVE RunsInv'
  BY <1>24 DEF DetachOwner
<1>25. CASE UNCHANGED vars
  BY <1>25 DEF vars
<1> QED
  BY <1>1, <1>2, <1>3, <1>4, <1>5, <1>6, <1>7, <1>8, <1>9, <1>10, <1>11, <1>12,
     <1>13, <1>14, <1>15, <1>16, <1>17, <1>18, <1>19, <1>20, <1>21, <1>22, <1>23,
     <1>24, <1>25 DEF Next, SetResult, AttachContinuation, Inside, Schedule

-----------------------------------------------------------------------------
(* The initial state *)

(* A promise that has just made the state is its only owner.               *)
LEMMA CountInitially ==
  ASSUME FutureAssumption, Init
  PROVE  CountInv
<1>1. TypeInv
  <2>1. /\ "future" \in Actors /\ "worker" \in Actors /\ First \in Actors
        /\ \A p \in Promises : p \in Actors /\ p # "future" /\ p # "worker"
        /\ First \in Promises
    BY DEF FutureAssumption, Actors
  <2>2. /\ pc \in [Actors -> {"owning", "idle", "absent"}]
        /\ pc["future"] = "absent" /\ pc["worker"] = "idle"
        /\ \A p \in Promises : pc[p] \in {"owning", "absent"}
    BY <2>1 DEF Init
  <2>3. after \in [Actors -> {"owning", "idle", "absent"}] /\ seen \in [Actors -> States]
    BY <2>2 DEF Init, States
  <2>4. setters \in 0..MaxSetters /\ promiseRef \in Int
    BY DEF FutureAssumption, Init
  <2>5. pc \in [Actors -> PromisePCs \union FuturePCs \union {"idle"}]
    BY <2>2 DEF PromisePCs
  <2> QED
    BY <2>2, <2>3, <2>4, <2>5 DEF Init, TypeInv, States, PromisePCs, FuturePCs
<1>2. Returns
  BY DEF FutureAssumption, Init, Returns, Calling, Actors
<1>3. Owners = {First} /\ Callers = {} /\ Keepers = {}
  BY DEF FutureAssumption, Init, Owners, Callers, Keepers, Threads, Actors
<1>4. Attached
  <2>1. Cardinality(Owners) = 1 /\ Cardinality(Callers) = 0 /\ Cardinality(Keepers) = 0
    BY <1>3, FS_EmptySet, FS_Singleton
  <2>2. attached = 1 /\ continuationRef = 0 /\ ~deleted
    BY DEF Init
  <2>3. attached # 0
    BY <2>2
  <2>4. deleted <=> attached = 0
    BY <2>2, <2>3
  <2>5. /\ attached = Cardinality(Owners) + Cardinality(Callers)
        /\ continuationRef = Cardinality(Keepers)
    BY <2>1, <2>2
  <2> QED
    BY <2>4, <2>5 DEF Attached
<1> QED
  BY <1>1, <1>2, <1>4 DEF CountInv

(* Nothing is set, and nobody has called anything.                         *)
LEMMA InvariantInitially ==
  ASSUME FutureAssumption, Init
  PROVE  IInv
<1>1. CountInv
  BY CountInitially
<1>2. Alive = {First}
  BY DEF FutureAssumption, Init, Alive, Calling, Actors
<1>3. PromiseInv
  BY <1>2, FS_Singleton DEF FutureAssumption, Init, PromiseInv, Breaks, Calling,
       Actors
<1>4. SetterInv
  BY DEF FutureAssumption, Init, SetterInv, Sets, Actors, hasResult
<1>5. FutureInv
  BY DEF FutureAssumption, Init, FutureInv, Actors, hasContinuation
<1>6. RunsInv
  BY DEF FutureAssumption, Init, RunsInv, Executes, Actors
<1> QED
  BY <1>1, <1>3, <1>4, <1>5, <1>6 DEF IInv

-----------------------------------------------------------------------------
(* What follows from the invariants *)

(* The counters never wrap, and nobody loses the state or leaves it behind.  *)
THEOREM CountsReferences ==
  ASSUME FutureAssumption
  PROVE  Spec => []CountInv
<1>1. Init => CountInv
  BY CountInitially
<1>2. CountInv /\ [Next]_vars => CountInv'
  BY TypeStep, AttachedStep DEF CountInv
<1> QED
  BY <1>1, <1>2, PTL DEF Spec

(* The count is zero when nobody holds the state.                          *)
LEMMA NobodyLeft ==
  ASSUME FutureAssumption, CountInv
  PROVE  DeletedWithLastReference
<1>1. Owners \in SUBSET Actors /\ Callers \in SUBSET Actors
  BY DEF Owners, Callers, Threads, Actors
<1>2. attached = 0 <=> Owners = {} /\ Callers = {}
  <2>1. /\ Cardinality(Owners) \in Nat /\ Cardinality(Callers) \in Nat
        /\ Cardinality(Owners) = 0 <=> Owners = {}
        /\ Cardinality(Callers) = 0 <=> Callers = {}
    BY <1>1, ActorsCount
  <2> QED
    BY <2>1 DEF CountInv, Attached
<1>3. NobodyHolds <=> Owners = {} /\ Callers = {}
  BY DEF CountInv, TypeInv, NobodyHolds, Owners, Callers, Threads, Actors,
       PromisePCs,
         FuturePCs
<1> QED
  BY <1>2, <1>3 DEF CountInv, Attached, DeletedWithLastReference

(* The state is deleted by the step that gives up its last reference, no     *)
(* matter how often setValue() is called and who refuses to run what.        *)
THEOREM FreedWithLastReference ==
  ASSUME FutureAssumption
  PROVE  Spec => []DeletedWithLastReference
BY CountsReferences, NobodyLeft, PTL

(* The invariants hold as long as the program sets a promise at most once. *)
THEOREM Invariance ==
  ASSUME FutureAssumption, MaxSetters \in {0, 1}
  PROVE  Spec => []IInv
<1>1. Init => IInv
  BY InvariantInitially
<1>2. IInv /\ [Next]_vars => IInv'
  <2> SUFFICES ASSUME IInv, [Next]_vars PROVE IInv'
    OBVIOUS
  <2>1. CountInv'
    BY TypeStep, AttachedStep DEF IInv, CountInv
  <2>2. PromiseInv' /\ SetterInv' /\ FutureInv' /\ RunsInv'
    BY PromiseStep, SetterStep, FutureStep, RunsStep DEF IInv
  <2> QED
    BY <2>1, <2>2 DEF IInv
<1> QED
  BY <1>1, <1>2, PTL DEF Spec

(* A promise that is set at most once, or dies unset: the continuation is    *)
(* called at most once, with the result, and destroyed before the state is.  *)
THEOREM CalledOnce ==
  ASSUME FutureAssumption, MaxSetters \in {0, 1}
  PROVE  Spec => []CalledOnceThenDeleted
<1>1. ASSUME IInv PROVE CalledOnceThenDeleted
  <2> USE <1>1 DEF IInv
  <2>1. DeletedWithLastReference
    BY NobodyLeft
  <2>2. /\ Len(runs) <= 1
        /\ \A i \in DOMAIN runs : runs[i].callable /\ runs[i].got \in {"value", "broken"}
        /\ runs # <<>> => Len(runs) = 1
    <3>1. CASE runs = <<>>
      BY <3>1
    <3>2. CASE runs = <<runs[1]>> /\ OneRun(runs[1])
      <4> DEFINE r == runs[1]
      <4>1. runs = <<r>> /\ OneRun(r)
        BY <3>2
      <4> HIDE DEF r
      <4>2. Len(runs) = 1 /\ DOMAIN runs = {1} /\ runs[1] = r
        BY <4>1
      <4> QED
        BY <4>1, <4>2 DEF OneRun
    <3> QED
      BY <3>1, <3>2 DEF RunsInv
  <2>3. continuation = "destroyed" => Len(runs) = 1 /\ continuationRef = 0
    <3>1. ASSUME continuation = "destroyed"
          PROVE  Len(runs) = 1 /\ Keepers = {}
      BY <2>2, <3>1 DEF RunsInv
    <3> QED
      BY <3>1, FS_EmptySet DEF CountInv, Attached
  <2>4. ASSUME deleted, continuation = "set" PROVE FALSE
    <3>1. \A a \in Actors : pc[a] \in {"absent", "gone", "idle"}
      BY <2>1, <2>4 DEF DeletedWithLastReference, NobodyHolds
    <3>2. "future" \in Actors /\ \A p \in Promises : p \in Actors
      BY DEF Actors
    <3>3. hasContinuation
      BY <2>4, <3>1, <3>2 DEF FutureInv
    <3>4. Alive = {} /\ \A p \in Promises : pc[p] # "last" /\ ~Sets(p)
      BY <3>1, <3>2 DEF Alive, Sets, Calling
    <3>5. hasResult
      BY <3>4 DEF PromiseInv
    <3>6. state = "DONE"
      BY <3>3, <3>5 DEF hasResult, hasContinuation
    <3>7. runs # <<>>
      BY <3>1, <3>6 DEF RunsInv, Executes
    <3> QED
      BY <2>4, <3>1, <3>7 DEF RunsInv
  <2>5. AssertInSetContinuation
    BY DEF FutureInv, AssertInSetContinuation, hasContinuation, CountInv, TypeInv,
         States
  <2>6. CalledOnceWithResult
    BY <2>2, <2>3, <2>4, <2>5 DEF CalledOnceWithResult, ContinuationDestroyedAfterRun
  <2> QED
    BY <2>1, <2>6 DEF CalledOnceThenDeleted
<1> QED
  BY <1>1, Invariance, PTL

(* The assertion of setResult() that two setters violate holds for one.      *)
THEOREM OneSetterPassesItsAssertion ==
  ASSUME FutureAssumption, MaxSetters \in {0, 1}
  PROVE  Spec => []AssertInSetResult
<1>1. IInv => AssertInSetResult
  BY DEF IInv, SetterInv, Sets, AssertInSetResult, CountInv, TypeInv, States,
       hasResult
<1> QED
  BY <1>1, Invariance, PTL

-----------------------------------------------------------------------------
(* The one-shot channel *)

(* What a step that leaves state_, the value and the runs alone does to it.  *)
LEMMA Stutters ==
  ASSUME UNCHANGED <<state, tryValue, runs>>
  PROVE  UNCHANGED Pair!vars
BY DEF Pair!vars, Outcome, Callback, hasResult, hasContinuation

(* Every step is one of the channel or leaves the channel as it is.        *)
LEMMA StepRefines ==
  ASSUME FutureAssumption, IInv, [Next]_vars
  PROVE  [Pair!Next]_Pair!vars
<1> USE DEF IInv, Pair!vars, Pair!Next, Outcome, Callback, hasResult,
            hasContinuation, Go
<1>1. ASSUME Via PROVE [Pair!Next]_Pair!vars
  BY <1>1, Stutters DEF Via, locals
<1>2. ASSUME NEW p \in Promises, Checkout(p) PROVE [Pair!Next]_Pair!vars
  BY <1>2, Stutters DEF Checkout, locals
<1>3. ASSUME NEW p \in Promises, ForceSched(p) PROVE [Pair!Next]_Pair!vars
  BY <1>3, Stutters DEF ForceSched, locals
<1>4. ASSUME NEW p \in Promises, SetValue(p) PROVE [Pair!Next]_Pair!vars
  BY <1>4, Stutters DEF SetValue, locals
<1>5. ASSUME NEW p \in Promises, StoreResult(p) PROVE [Pair!Next]_Pair!vars
  <2>1. ~hasResult
    BY <1>5 DEF StoreResult, SetterInv, Sets
  <2> QED
    BY <1>5, <2>1 DEF StoreResult
<1>6. ASSUME NEW p \in Promises, ResultFirst(p) PROVE [Pair!Next]_Pair!vars
  <2>1. state = "START" /\ tryValue \in {"value", "broken"} /\ runs = <<>>
    BY <1>6 DEF ResultFirst, SetterInv, RunsInv
  <2>2. Pair!Resolve
    BY <1>6, <2>1 DEF ResultFirst, locals, Pair!Resolve
  <2> QED
    BY <2>2
<1>7. ASSUME NEW p \in Promises, ResultFallsThrough(p) PROVE [Pair!Next]_Pair!vars
  BY <1>7, Stutters DEF ResultFallsThrough, locals
<1>8. ASSUME NEW p \in Promises, ResultSecond(p) PROVE [Pair!Next]_Pair!vars
  <2>1. /\ state = "ONLY_CONTINUATION" /\ state = seen[p]
        /\ tryValue \in {"value", "broken"} /\ runs = <<>>
    BY <1>8 DEF ResultSecond, SetterInv, RunsInv
  <2>2. Pair!Resolve
    BY <1>8, <2>1 DEF ResultSecond, locals, Pair!Resolve
  <2> QED
    BY <2>2
<1>9. ASSUME NEW p \in Promises, BreakPromise(p) PROVE [Pair!Next]_Pair!vars
  BY <1>9, Stutters DEF BreakPromise, locals
<1>10. ASSUME NEW p \in Promises, DetachPromise(p) PROVE [Pair!Next]_Pair!vars
  BY <1>10, Stutters DEF DetachPromise, locals
<1>11. ASSUME SetContinuation PROVE [Pair!Next]_Pair!vars
  BY <1>11, Stutters DEF SetContinuation, locals
<1>12. ASSUME ContinuationFirst PROVE [Pair!Next]_Pair!vars
  <2>1. runs = <<>>
    BY <1>12 DEF ContinuationFirst, RunsInv
  <2>2. Pair!Attach
    BY <1>12, <2>1 DEF ContinuationFirst, locals, Pair!Attach
  <2> QED
    BY <2>2
<1>13. ASSUME ContinuationFallsThrough PROVE [Pair!Next]_Pair!vars
  BY <1>13, Stutters DEF ContinuationFallsThrough, locals
<1>14. ASSUME ContinuationSecond PROVE [Pair!Next]_Pair!vars
  <2>1. state = "ONLY_RESULT" /\ runs = <<>>
    BY <1>14 DEF ContinuationSecond, FutureInv, RunsInv
  <2>2. Pair!Attach
    BY <1>14, <2>1 DEF ContinuationSecond, locals, Pair!Attach
  <2> QED
    BY <2>2
<1>15. ASSUME DropFuture PROVE [Pair!Next]_Pair!vars
  BY <1>15, Stutters DEF DropFuture, locals
<1>16. ASSUME NEW a \in Actors, RunContinuation(a) PROVE [Pair!Next]_Pair!vars
  <2> DEFINE r == [by |-> a, got |-> tryValue, callable |-> continuation = "set"]
  <2>1. state = "DONE" /\ runs = <<>>
    BY <1>16 DEF RunContinuation, RunsInv, Executes
  <2>2. tryValue # "none"
    BY DEF CountInv, TypeInv
  <2>3. runs' = <<r>>
    BY <1>16, <2>1 DEF RunContinuation
  <2>4. runs' # <<>> /\ runs'[1].got = tryValue
    BY <2>3
  <2>5. Pair!Call
    BY <1>16, <2>1, <2>2, <2>4 DEF RunContinuation, Pair!Call
  <2> QED
    BY <2>5
<1>17. ASSUME NEW p \in Promises, NEW q \in Promises, CopyPromise(p, q)
       PROVE  [Pair!Next]_Pair!vars
  BY <1>17, Stutters DEF CopyPromise, locals
<1>18. ASSUME GetFuture PROVE [Pair!Next]_Pair!vars
  BY <1>18, Stutters DEF GetFuture, locals
<1>19. ASSUME NEW a \in Actors, ScheduleInPlace(a) PROVE [Pair!Next]_Pair!vars
  BY <1>19, Stutters DEF ScheduleInPlace, locals
<1>20. ASSUME NEW a \in Actors, ScheduleAccepted(a) PROVE [Pair!Next]_Pair!vars
  BY <1>20, Stutters DEF ScheduleAccepted, locals
<1>21. ASSUME NEW a \in Actors, ScheduleRefused(a) PROVE [Pair!Next]_Pair!vars
  BY <1>21, Stutters DEF ScheduleRefused, locals
<1>22. ASSUME NEW a \in Actors, DerefContinuation(a) PROVE [Pair!Next]_Pair!vars
  BY <1>22, Stutters DEF DerefContinuation, locals
<1>23. ASSUME NEW a \in Actors, ReleaseReference(a) PROVE [Pair!Next]_Pair!vars
  BY <1>23, Stutters DEF ReleaseReference, locals
<1>24. ASSUME NEW a \in Actors, DetachOwner(a) PROVE [Pair!Next]_Pair!vars
  BY <1>24, Stutters DEF DetachOwner, locals
<1>25. CASE UNCHANGED vars
  BY <1>25, Stutters DEF vars
<1> QED
  BY <1>1, <1>2, <1>3, <1>4, <1>5, <1>6, <1>7, <1>8, <1>9, <1>10, <1>11, <1>12,
     <1>13, <1>14, <1>15, <1>16, <1>17, <1>18, <1>19, <1>20, <1>21, <1>22, <1>23,
     <1>24, <1>25 DEF Next, SetResult, AttachContinuation, Inside, Schedule

(* Promise and Future implement the one-shot channel: the outcome is decided *)
(* once, and the continuation called once, after both, with the outcome.     *)
THEOREM FutureImplementsOneShot ==
  ASSUME FutureAssumption, MaxSetters \in {0, 1}
  PROVE  Spec => ImplementsOneShot
<1>1. Init => Pair!Init
  BY DEF Init, Pair!Init, Outcome, Callback, hasResult, hasContinuation
<1>2. IInv /\ [Next]_vars => [Pair!Next]_Pair!vars
  BY StepRefines
<1> QED
  BY <1>1, <1>2, Invariance, PTL DEF Spec, ImplementsOneShot, Pair!Spec
=============================================================================
