----------------------------- MODULE CollectAny -----------------------------
(***************************************************************************)
(* collectAny() in its four forms, coro/Collect.h: await_suspend() starts  *)
(* the inputs one after the other until it sees a result; the callback of  *)
(* an input counts the CountEvent down, and the one that was first stores  *)
(* its result in the shared result object and resumes the parent.  Result  *)
(* and event are shared pointers, so nothing here outlives its storage.    *)
(*                                                                         *)
(* The result is read by the loop while a callback in another thread       *)
(* writes it: the loop may see it or not.  An input need not ever finish.  *)
(***************************************************************************)
EXTENDS Integers, FiniteSets

CONSTANTS N,     \* how many inputs
          Forms  \* which of the awaiters: "vector", "vector with callback",
                 \* "variadic", "pairs"

Inputs == 1..N
Nobody == 0      \* idx_ == -1, or an empty optional

VARIABLES form,     \* the awaiter
          parent,   \* whether the parent is suspended, resumed, or has gone on
          next,     \* the input the loop is at
          loop,     \* where the loop is
          task,     \* where each input is
          inline,   \* the inputs that still run inside the start() of the loop
          count,    \* count_ of the event
          idx,      \* the index in the result object
          value,    \* the value in it, or the call of the winner's callback
          got       \* what the parent got

vars == <<form, parent, next, loop, task, inline, count, idx, value, got>>

Init ==
  /\ form \in Forms
  /\ parent = "suspended"
  /\ next = 1
  /\ loop = "test"
  /\ task = [i \in Inputs |-> "new"]
  /\ inline = {}
  /\ count = N + 1
  /\ idx = Nobody
  /\ value = Nobody
  /\ got = <<Nobody, Nobody>>

-----------------------------------------------------------------------------
(* await_suspend() *)

(* The condition of the loop, or the early return of the folded lambda.      *)
TestResult ==
  /\ loop = "test"
  /\ loop' = IF next > N \/ idx # Nobody THEN "left" ELSE "start"
  /\ UNCHANGED <<form, parent, next, task, inline, count, idx, value, got>>

Start ==
  /\ loop = "start"
  /\ task' = [task EXCEPT ![next] = "running"]
  /\ inline' = inline \union {next}
  /\ loop' = "started"
  /\ UNCHANGED <<form, parent, next, count, idx, value, got>>

(* start() comes back when the input has finished or gone to sleep.          *)
StartReturns ==
  /\ loop = "started"
  /\ next \in inline => task[next] = "finished"
  /\ next' = next + 1
  /\ loop' = "test"
  /\ UNCHANGED <<form, parent, task, inline, count, idx, value, got>>

-----------------------------------------------------------------------------
(* The callback of an input *)

Now(i, where) == task' = [task EXCEPT ![i] = where]

(* The input suspends, start() returns, and it goes on in another thread.    *)
Detach(i) ==
  /\ task[i] = "running" /\ i \in inline
  /\ inline' = inline \ {i}
  /\ UNCHANGED <<form, parent, next, loop, task, count, idx, value, got>>

(* Mutant: the second down wins. *)
SecondWins(i) ==
  /\ task[i] = "running"
  /\ count' = count - 1
  /\ Now(i, IF count = N THEN "winner" ELSE "finished")
  /\ UNCHANGED <<form, parent, next, loop, inline, idx, value, got>>

DownCount(i) ==
  /\ task[i] = "running"
  /\ count' = count - 1
  /\ Now(i, IF count = N + 1 THEN "winner" ELSE "finished")
  /\ UNCHANGED <<form, parent, next, loop, inline, idx, value, got>>

(* The vector forms write the index first, the form with pairs calls back    *)
(* first, and the variadic form assigns index and value as one variant.      *)
FirstWrite(i) ==
  /\ task[i] = "winner"
  /\ Now(i, "written")
  /\ idx' = IF form = "pairs" THEN idx ELSE i
  /\ value' = IF form \in {"pairs", "variadic"} THEN i ELSE value
  /\ UNCHANGED <<form, parent, next, loop, inline, count, got>>

SecondWrite(i) ==
  /\ task[i] = "written"
  /\ Now(i, "complete")
  /\ idx' = i
  /\ value' = i
  /\ UNCHANGED <<form, parent, next, loop, inline, count, got>>

Resume(i) ==
  /\ task[i] = "complete"
  /\ Now(i, "finished")
  /\ parent' = IF parent = "suspended" THEN "resumed" ELSE "resumed again"
  /\ UNCHANGED <<form, next, loop, inline, count, idx, value, got>>

(* The parent takes the result.  Moving a CollectAnyResult resets its idx_;  *)
(* the other forms leave the index and the optional as they are.             *)
AwaitResume ==
  /\ parent = "resumed"
  /\ parent' = "gone on"
  /\ got' = <<idx, value>>
  /\ idx' = IF form = "vector" THEN Nobody ELSE idx
  /\ UNCHANGED <<form, next, loop, task, inline, count, value>>

-----------------------------------------------------------------------------
Loop == TestResult \/ Start \/ StartReturns
Callback(i) == FirstWrite(i) \/ SecondWrite(i) \/ Resume(i)

Next ==
  \/ Loop \/ AwaitResume
  \/ \E i \in Inputs : Detach(i) \/ DownCount(i) \/ Callback(i)

Spec == Init /\ [][Next]_vars

(* Threads that can move do; a callback that was called comes to its end.    *)
Fairness ==
  /\ WF_vars(Loop)
  /\ WF_vars(AwaitResume)
  /\ \A i \in Inputs : WF_vars(Callback(i))
-----------------------------------------------------------------------------
(* Properties. *)

TypeOK ==
  /\ form \in Forms
  /\ parent \in {"suspended", "resumed", "resumed again", "gone on"}
  /\ next \in 1..(N + 1)
  /\ loop \in {"test", "start", "started", "left"}
  /\ task \in [Inputs -> {"new", "running", "winner", "written", "complete", "finished"}]
  /\ inline \subseteq Inputs
  /\ count \in 1..(N + 1)
  /\ {idx, value} \subseteq Inputs \union {Nobody}
  /\ got \in (Inputs \union {Nobody}) \X (Inputs \union {Nobody})

(* As soon as one input has finished, the parent is going to be resumed, by  *)
(* one callback only, and gets the index and the value of one input.         *)
FirstResultArrives ==
  (\E i \in Inputs : task[i] \in {"winner", "finished"}) ~>
    [](parent = "gone on" /\ got[1] # Nobody /\ got[1] = got[2])
=============================================================================
