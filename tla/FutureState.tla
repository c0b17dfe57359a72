---------------------------- MODULE FutureState ----------------------------
(***************************************************************************)
(* The state shared by a Future and the copies of its Promise              *)
(* (FutureState.h, with the callers in Promise.h and Future.h).            *)
(*                                                                         *)
(* The atomic state_ decides the race between setResult() and              *)
(* setContinuation(); whoever makes it DONE runs the continuation, in      *)
(* place or through the executor.  attached_ counts the references that    *)
(* keep the object alive, continuationRef_ those that keep the             *)
(* continuation alive, promiseRef_ the promises: the last one to go        *)
(* without a result sets the exception "Promise is broken".                *)
(*                                                                         *)
(* The actors are the threads that own a promise, the thread that owns the *)
(* future and the executor's thread.  An action is one access to an atomic *)
(* together with the plain accesses that the owner makes next to it.  A    *)
(* program uses the classes as they ask: one future, one continuation, and *)
(* at most MaxSetters calls of setValue()/setException() are started.      *)
(***************************************************************************)
EXTENDS Naturals, Sequences, FiniteSets

CONSTANTS Promises,       \* the promise and its copies, one owner thread each;
                          \* neither "future" nor "worker" is one
          First,          \* the promise that is made first
          InExecutor,     \* the promises whose thread belongs to the executor
          MaxSetters,     \* how many calls of setValue() the program makes
          CounterModulus  \* 2^8: attached_ and continuationRef_ are uint8_t

(* What the proofs need: the actors are different, and the references that   *)
(* the actors can hold at once fit into a counter, as 126 promises do.       *)
FutureAssumption ==
  /\ IsFiniteSet(Promises) /\ First \in Promises
  /\ "future" \notin Promises /\ "worker" \notin Promises
  /\ MaxSetters \in Nat
  /\ CounterModulus \in Nat /\ 2 * Cardinality(Promises) + 3 < CounterModulus

VARIABLES state,           \* state_
          attached, continuationRef, promiseRef,
          tryValue,        \* try_value_
          continuation,    \* the union member continuation_
          executor,        \* executor_ # nullptr
          checkedOut,      \* context_ # NULLCTX
          forceSched,      \* forceSched_
          deleted,         \* delete this was executed
          pc,              \* where each actor is
          after,           \* where an actor goes on when its call returns
          seen,            \* the local variable state of setResult()
          setters,         \* how many setValue() calls were started
          runs             \* the calls of the continuation so far

counters == <<attached, continuationRef, promiseRef>>
setup    == <<executor, checkedOut, forceSched>>
vars == <<state, counters, tryValue, continuation, setup, deleted, pc, after,
          seen, setters, runs>>

Actors == Promises \union {"future", "worker"}

(* detail::State, as the two facts each value stands for. *)
States == {"START", "ONLY_RESULT", "ONLY_CONTINUATION", "DONE"}
hasResult == state \in {"DONE", "ONLY_RESULT"}
hasContinuation == state \in {"DONE", "ONLY_CONTINUATION"}

Inc(n) == (n + 1) % CounterModulus
Dec(n) == (n + CounterModulus - 1) % CounterModulus

(* A Promise constructs the state and attaches itself. *)
Init ==
  /\ state = "START"
  /\ attached = 1 /\ continuationRef = 0 /\ promiseRef = 1
  /\ tryValue = "nothing"
  /\ continuation = "none"
  /\ executor = FALSE /\ checkedOut = FALSE /\ forceSched = FALSE
  /\ deleted = FALSE
  /\ pc = [a \in Actors |-> IF a = First THEN "owning"
                            ELSE IF a = "worker" THEN "idle" ELSE "absent"]
  /\ after = [a \in Actors |-> pc[a]]
  /\ seen = [a \in Actors |-> "START"]
  /\ setters = 0
  /\ runs = <<>>

Goto(a, to) == pc' = [pc EXCEPT ![a] = to]
Go(a, from, to) == pc[a] = from /\ Goto(a, to)
locals == <<after, seen, setters, runs>>

-----------------------------------------------------------------------------
(* Promise and Future objects. *)

(* Mutant: the copy does not attach itself to the state. *)
CopyUnattached(p, q) ==
  /\ pc[p] = "owning" /\ pc[q] = "absent"
  /\ Goto(q, "owning")
  /\ promiseRef' = promiseRef + 1
  /\ UNCHANGED <<state, attached, continuationRef, tryValue, continuation, setup,
                 deleted, locals>>

(* Promise(const Promise&): promiseRef_ and attached_ each get one more. The *)
(* original keeps the state alive meanwhile.                                 *)
CopyPromise(p, q) ==
  /\ pc[p] = "owning" /\ pc[q] = "absent"
  /\ Goto(q, "owning")
  /\ promiseRef' = promiseRef + 1
  /\ attached' = Inc(attached)
  /\ UNCHANGED <<state, continuationRef, tryValue, continuation, setup, deleted,
                 locals>>

(* Promise::getFuture() and the constructor of Future. *)
GetFuture ==
  /\ pc[First] = "owning"
  /\ Go("future", "absent", "owning")
  /\ attached' = Inc(attached)
  /\ UNCHANGED <<state, continuationRef, promiseRef, tryValue, continuation, setup,
                 deleted, locals>>

(* Future::via(ex), before a continuation is set. *)
Via ==
  /\ pc["future"] = "owning"
  /\ ~executor
  /\ continuation = "none"
  /\ executor' = TRUE
  /\ UNCHANGED <<state, counters, tryValue, continuation, checkedOut, forceSched,
                 deleted, pc, locals>>

(* Promise::checkout() and Promise::forceSched(): nothing without an         *)
(* executor.                                                                  *)
Checkout(p) ==
  /\ pc[p] = "owning" /\ executor
  /\ checkedOut' = TRUE
  /\ UNCHANGED <<state, counters, tryValue, continuation, executor, forceSched,
                 deleted, pc, locals>>

ForceSched(p) ==
  /\ pc[p] = "owning" /\ executor
  /\ forceSched' = TRUE
  /\ UNCHANGED <<state, counters, tryValue, continuation, executor, checkedOut,
                 deleted, pc, locals>>

-----------------------------------------------------------------------------
(* setResult() *)

(* Promise::setValue() or setException(): the logicAssert that no result is  *)
(* there yet throws, and nothing changes, when there is one.                 *)
SetValue(p) ==
  /\ setters < MaxSetters
  /\ Go(p, "owning", IF hasResult THEN "owning" ELSE "storing")
  /\ after' = [after EXCEPT ![p] = "owning"]
  /\ setters' = setters + 1
  /\ UNCHANGED <<state, counters, tryValue, continuation, setup, deleted, seen, runs>>

(* try_value_ is written, then state_ is loaded and switched upon; the       *)
(* default branch throws.  detachPromise() stores the exception "broken".    *)
StoreResult(p) ==
  /\ Go(p, "storing", CASE state = "START" -> "to_result"
                        [] state = "ONLY_CONTINUATION" -> "to_done"
                        [] OTHER -> after[p])
  /\ tryValue' = IF after[p] = "owning" THEN "value" ELSE "broken"
  /\ seen' = [seen EXCEPT ![p] = state]
  /\ UNCHANGED <<state, counters, continuation, setup, deleted, after, setters, runs>>

(* Mutant: ONLY_RESULT is stored whatever the other side has done. *)
ResultFirstByStore(p) ==
  /\ Go(p, "to_result", after[p])
  /\ p \in Promises
  /\ state' = "ONLY_RESULT"
  /\ UNCHANGED <<counters, tryValue, continuation, setup, deleted, locals>>

(* case START: the continuation is not there yet.  When the exchange fails   *)
(* it stores the value it found, and the code falls through.                 *)
ResultFirst(p) ==
  /\ Go(p, "to_result", after[p])
  /\ p \in Promises
  /\ state = "START"
  /\ state' = "ONLY_RESULT"
  /\ UNCHANGED <<counters, tryValue, continuation, setup, deleted, locals>>

ResultFallsThrough(p) ==
  /\ Go(p, "to_result", "to_done")
  /\ p \in Promises
  /\ state # "START"
  /\ seen' = [seen EXCEPT ![p] = state]
  /\ UNCHANGED <<state, counters, tryValue, continuation, setup, deleted, after,
                 setters, runs>>

(* case ONLY_CONTINUATION: who makes state_ DONE runs or schedules the       *)
(* continuation; the default branch throws when state_ has changed again.    *)
ResultSecond(p) ==
  /\ p \in Promises
  /\ Go(p, "to_done", IF state = seen[p] THEN "scheduling" ELSE after[p])
  /\ state' = IF state = seen[p] THEN "DONE" ELSE state
  /\ UNCHANGED <<counters, tryValue, continuation, setup, deleted, locals>>

-----------------------------------------------------------------------------
(* setContinuation(), by the owner of the future: the same race from the     *)
(* other side.                                                               *)
SetContinuation ==
  /\ ~hasContinuation
  /\ Go("future", "owning", IF state = "START" THEN "to_continuation" ELSE "to_done")
  /\ continuation = "none"
  /\ continuation' = "set"
  /\ after' = [after EXCEPT !["future"] = "owning"]
  /\ seen' = [seen EXCEPT !["future"] = state]
  /\ UNCHANGED <<state, counters, tryValue, setup, deleted, setters, runs>>

ContinuationFirst ==
  /\ Go("future", "to_continuation", "owning")
  /\ state = "START"
  /\ state' = "ONLY_CONTINUATION"
  /\ UNCHANGED <<counters, tryValue, continuation, setup, deleted, locals>>

ContinuationFallsThrough ==
  /\ Go("future", "to_continuation", "to_done")
  /\ state # "START"
  /\ seen' = [seen EXCEPT !["future"] = state]
  /\ UNCHANGED <<state, counters, tryValue, continuation, setup, deleted, after,
                 setters, runs>>

ContinuationSecond ==
  /\ Go("future", "to_done", "scheduling")
  /\ state = seen["future"]
  /\ state' = "DONE"
  /\ UNCHANGED <<counters, tryValue, continuation, setup, deleted, locals>>
-----------------------------------------------------------------------------
(* scheduleContinuation(), by the thread that made state_ DONE.  A           *)
(* ContinuationReference adds one to attached_ and to continuationRef_; the  *)
(* thread still owns its promise or future meanwhile.                        *)

(* The condition under which the continuation is executed in place. *)
RunsInPlace(a) ==
  ~forceSched /\ (~executor \/ a = "future" \/ a \in InExecutor)

ScheduleInPlace(a) ==
  /\ RunsInPlace(a)
  /\ Go(a, "scheduling", "running")
  /\ attached' = Inc(attached)
  /\ continuationRef' = Inc(continuationRef)
  /\ UNCHANGED <<state, promiseRef, tryValue, continuation, setup, deleted, locals>>

(* schedule(), or checkin() after checkout(), accepts a closure that holds   *)
(* one reference; guardForException is the second one.                       *)
ScheduleAccepted(a) ==
  /\ ~RunsInPlace(a)
  /\ pc[a] = "scheduling" /\ pc["worker"] = "idle"
  /\ pc' = [pc EXCEPT ![a] = "dereferencing", !["worker"] = "running"]
  /\ attached' = Inc(Inc(attached))
  /\ continuationRef' = Inc(Inc(continuationRef))
  /\ UNCHANGED <<state, promiseRef, tryValue, continuation, setup, deleted, locals>>

(* Mutant: the reference of the refused closure is never given back. *)
ScheduleRefusedLeaks(a) ==
  /\ ~RunsInPlace(a)
  /\ Go(a, "scheduling", "running")
  /\ attached' = Inc(Inc(attached))
  /\ continuationRef' = Inc(Inc(continuationRef))
  /\ UNCHANGED <<state, promiseRef, tryValue, continuation, setup, deleted, locals>>

(* The executor refuses or throws: the closure gives its reference back      *)
(* before the catch block executes the continuation in place.                *)
ScheduleRefused(a) ==
  /\ ~RunsInPlace(a)
  /\ Go(a, "scheduling", "running")
  /\ attached' = Inc(attached)
  /\ continuationRef' = Inc(continuationRef)
  /\ UNCHANGED <<state, promiseRef, tryValue, continuation, setup, deleted, locals>>

(* The call of the continuation, which moves the value out of try_value_.    *)
RunContinuation(a) ==
  /\ Go(a, "running", "dereferencing")
  /\ runs' = Append(runs, [by |-> a, got |-> tryValue, callable |-> continuation = "set"])
  /\ tryValue' = "moved"
  /\ UNCHANGED <<state, counters, continuation, setup, deleted, after, seen, setters>>

(* ~ContinuationReference(): derefContinuation(), then detachOne(). *)
DerefContinuation(a) ==
  /\ Go(a, "dereferencing", "releasing")
  /\ continuationRef' = Dec(continuationRef)
  /\ continuation' = IF continuationRef = 1 THEN "destroyed" ELSE continuation
  /\ UNCHANGED <<state, attached, promiseRef, tryValue, setup, deleted, locals>>

detachOne ==
  /\ attached' = Dec(attached)
  /\ deleted' = (deleted \/ attached = 1)

ReleaseReference(a) ==
  /\ Go(a, "releasing", after[a])
  /\ detachOne
  /\ UNCHANGED <<state, continuationRef, promiseRef, tryValue, continuation, setup,
                 locals>>

-----------------------------------------------------------------------------
(* ~Promise(): detachPromise().  The last promise breaks it.  The load of    *)
(* state_ sits between the two decrements.                                   *)
DetachPromise(p) ==
  /\ Go(p, "owning", IF promiseRef = 1 THEN "last" ELSE "detaching")
  /\ promiseRef' = promiseRef - 1
  /\ after' = [after EXCEPT ![p] = "detaching"]
  /\ UNCHANGED <<state, attached, continuationRef, tryValue, continuation, setup,
                 deleted, seen, setters, runs>>

BreakPromise(p) ==
  /\ Go(p, "last", IF hasResult THEN "detaching" ELSE "storing")
  /\ UNCHANGED <<state, counters, tryValue, continuation, setup, deleted, locals>>

DetachOwner(a) ==
  /\ Go(a, "detaching", "gone")
  /\ detachOne
  /\ UNCHANGED <<state, continuationRef, promiseRef, tryValue, continuation, setup,
                 locals>>

(* ~Future(). *)
DropFuture ==
  /\ Go("future", "owning", "detaching")
  /\ UNCHANGED <<state, counters, tryValue, continuation, setup, deleted, locals>>

-----------------------------------------------------------------------------
Schedule(a) == ScheduleInPlace(a) \/ ScheduleAccepted(a) \/ ScheduleRefused(a)

Inside(a) == \* the steps of a call that has begun
  \/ Schedule(a) \/ RunContinuation(a) \/ DerefContinuation(a)
  \/ ReleaseReference(a) \/ DetachOwner(a)

SetResult(p) ==
  \/ StoreResult(p) \/ ResultFirst(p) \/ ResultFallsThrough(p)
  \/ ResultSecond(p) \/ BreakPromise(p)

AttachContinuation ==
  ContinuationFirst \/ ContinuationFallsThrough \/ ContinuationSecond

Next ==
  \/ \E p \in Promises :
       \/ \E q \in Promises : CopyPromise(p, q)
       \/ Checkout(p) \/ ForceSched(p) \/ SetValue(p) \/ DetachPromise(p)
       \/ SetResult(p)
  \/ GetFuture \/ Via \/ SetContinuation \/ AttachContinuation \/ DropFuture
  \/ \E a \in Actors : Inside(a)

Spec == Init /\ [][Next]_vars

(* A thread goes on with the call that it has begun, every promise and the   *)
(* future are destroyed some day, and the executor keeps its word to run     *)
(* what it has accepted (Executor.h).  Nothing makes a program attach a      *)
(* continuation.                                                             *)
GoesOn(a) ==
  \/ a \in Promises /\ (SetResult(a) \/ DetachPromise(a))
  \/ a = "future" /\ (AttachContinuation \/ DropFuture)
  \/ Inside(a)

Fairness == \A a \in Actors : WF_vars(GoesOn(a))

FairSpec == Spec /\ Fairness
-----------------------------------------------------------------------------
(* Properties. *)

PromisePCs == {"absent", "owning", "storing", "to_result", "to_done", "scheduling",
  "running", "dereferencing", "releasing", "last", "detaching", "gone"}
FuturePCs == {"absent", "owning", "to_continuation", "to_done", "scheduling",
  "running", "dereferencing", "releasing", "detaching", "gone"}

TypeOK ==
  /\ state \in States
  /\ attached \in 0..(CounterModulus - 1)
  /\ continuationRef \in 0..(CounterModulus - 1)
  /\ promiseRef \in Nat
  /\ tryValue \in {"nothing", "value", "broken", "moved"}
  /\ continuation \in {"none", "set", "destroyed"}
  /\ {executor, checkedOut, forceSched, deleted} \subseteq BOOLEAN
  /\ DOMAIN pc = Actors
  /\ \A p \in Promises : pc[p] \in PromisePCs
  /\ pc["future"] \in FuturePCs
  /\ pc["worker"] \in {"idle", "running", "dereferencing", "releasing"}
  /\ seen \in [Actors -> States]
  /\ setters \in 0..MaxSetters

ContinuationDestroyedAfterRun ==
  /\ continuation = "destroyed" => Len(runs) = 1 /\ continuationRef = 0
  /\ deleted => continuation # "set"

(* setContinuation()'s assertion in its fall-through branch: the             *)
(* compare-exchange of START can only have lost to the other side.           *)
AssertInSetContinuation ==
  pc["future"] = "to_continuation" => state \in {"START", "ONLY_RESULT"}

(* The continuation is called at most once, whoever wins the race of         *)
(* setResult() and setContinuation(), and whether the executor accepts it,   *)
(* refuses it or is not there; it is constructed, finds the result in        *)
(* try_value_, and is destroyed exactly when its last reference goes, after  *)
(* it has run and before the state itself is deleted.                        *)
CalledOnceWithResult ==
  /\ Len(runs) <= 1
  /\ \A i \in DOMAIN runs : runs[i].callable /\ runs[i].got \in {"value", "broken"}
  /\ ContinuationDestroyedAfterRun
  /\ AssertInSetContinuation

(* The state is deleted by the step that gives up the last of its            *)
(* references: nobody has it before the end (no leak), and no thread that    *)
(* is still inside one of its functions has lost it (no use after free).     *)
NobodyHolds == \A a \in Actors : pc[a] \in {"absent", "gone", "idle"}
DeletedWithLastReference == deleted <=> NobodyHolds

CalledOnceThenDeleted == CalledOnceWithResult /\ DeletedWithLastReference

(* The assertion in the fall-through branch of setResult(): the              *)
(* compare-exchange of START can only have lost to setContinuation().        *)
AssertInSetResult ==
  \A p \in Promises : pc[p] = "to_result" => state \in {"START", "ONLY_CONTINUATION"}

(* The pair implements OneShot. *)
Outcome == IF ~hasResult THEN "none"
           ELSE IF runs = <<>> THEN tryValue ELSE runs[1].got
Callback == IF ~hasContinuation THEN "none"
            ELSE IF runs = <<>> THEN "attached" ELSE "called"
Pair == INSTANCE OneShot WITH outcome <- Outcome, callback <- Callback
ImplementsOneShot == Pair!Spec

(* The state is freed once promises and future are gone, and before that an  *)
(* attached continuation has been called, with the exception "Promise is     *)
(* broken" if nothing better: promises die, and a refusal of the executor    *)
(* falls back to a call in place.                                            *)
EventuallyDeleted ==
  pc["future"] = "owning" ~> deleted /\ (hasContinuation => runs # <<>>)
=============================================================================
