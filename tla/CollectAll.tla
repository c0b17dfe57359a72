----------------------------- MODULE CollectAll -----------------------------
(***************************************************************************)
(* collectAll(), collectAllPara() and their windowed and variadic forms,   *)
(* coro/Collect.h, over the CountEvent of coro/CountEvent.h.  The parent   *)
(* coroutine awaits its inputs batch by batch; await_suspend() walks over  *)
(* the inputs of a batch and either schedules each on its executor or      *)
(* starts it in place, and the callback of every input stores its result,  *)
(* counts the event down and, as the last one, resumes the parent, which   *)
(* takes the results and destroys the awaiter of the batch.                *)
(*                                                                         *)
(* An executor runs everything it accepts, and accepts everything.  The    *)
(* parent of an empty input does not suspend at all.  A thread that goes   *)
(* on to use an awaiter that is gone stops here, at "undefined".           *)
(***************************************************************************)
EXTENDS Integers

CONSTANTS N,         \* how many inputs
          Scenarios  \* how the parent calls: through which of the six functions,
                     \* with which maxConcurrency, and which inputs have an
                     \* executor, of their own or by default the parent's

Inputs == 1..N

VARIABLES setup,     \* the scenario
          parent,    \* where the parent is, and the batch it is at
          loop,      \* where await_suspend() of each batch is, and its i
          task,      \* where each input is
          inline,    \* the inputs that still run inside the start() of the loop
          count,     \* count_ of the event of each batch; below zero it has wrapped
          awaiting,  \* whether awaitingCoro_ is set
          output,    \* the inputs whose result is in output_
          resumed,   \* the batches whose awaiter the parent has destroyed
          taken      \* what the parent got for each input

vars == <<setup, parent, loop, task, inline, count, awaiting, output, resumed, taken>>

(* Of a call: the template argument that each entry passes on as Para, and   *)
(* how many inputs make a batch.                                             *)
IsPara(call) == call.entry \in {"collectAllPara", "collectAllWindowed", "variadic collectAllPara"}
IsWindowed(call) == call.entry \in {"collectAllWindowed", "collectAllWIndowedPara"}
IsVariadic(call) == call.entry \in {"variadic collectAll", "variadic collectAllPara"}
WindowOf(call) ==
  IF ~IsWindowed(call) \/ call.maxConcurrency = 0 \/ N <= call.maxConcurrency
    THEN N ELSE call.maxConcurrency
PlaceIn(window, i) == (i + window - 1) \div window

CollectAssumption ==
  /\ N \in Nat \ {0}
  /\ \A call \in Scenarios : call.maxConcurrency \in Nat

(* The loop counts the event down for itself once for every input that it    *)
(* starts in place: the calls in which it does so at most once.              *)
CountedOnce(call) ==
  \/ IsVariadic(call)
  \/ \A i, j \in Inputs :
       i # j /\ PlaceIn(WindowOf(call), i) = PlaceIn(WindowOf(call), j)
         => IsPara(call) /\ (i \in call.exec \/ j \in call.exec)

Para == IsPara(setup)
Variadic == IsVariadic(setup)

(* Every window is a batch of its own, with an awaiter of its own. *)
Window == WindowOf(setup)
BatchOf(i) == PlaceIn(Window, i)
LastBatch == BatchOf(N)
Batches == 1..LastBatch
First(b) == (b - 1) * Window + 1
Last(b) == IF b = LastBatch THEN N ELSE b * Window
Size(b) == Last(b) - First(b) + 1

(* Mutant: the event does not count the loop. *)
InitWithoutLoop ==
  /\ setup \in Scenarios
  /\ parent = [at |-> "between", batch |-> 0]
  /\ loop = [b \in Batches |-> [step |-> "none", i |-> First(b)]]
  /\ task = [i \in Inputs |-> "new"]
  /\ inline = {}
  /\ count = [b \in Batches |-> Size(b)]
  /\ awaiting = [b \in Batches |-> FALSE]
  /\ output = {}
  /\ resumed = {}
  /\ taken = [i \in Inputs |-> "nothing"]

Init ==
  /\ setup \in Scenarios
  /\ parent = [at |-> "between", batch |-> 0]
  /\ loop = [b \in Batches |-> [step |-> "none", i |-> First(b)]]
  /\ task = [i \in Inputs |-> "new"]
  /\ inline = {}
  /\ count = [b \in Batches |-> Size(b) + 1]
  /\ awaiting = [b \in Batches |-> FALSE]
  /\ output = {}
  /\ resumed = {}
  /\ taken = [i \in Inputs |-> "nothing"]

Gone(b) == b \in resumed

-----------------------------------------------------------------------------
(* The parent *)

(* It constructs the awaiter of the next batch and suspends in it; the       *)
(* variadic form stores the coroutine before it looks at the inputs.         *)
AwaitSuspend ==
  LET b == parent.batch + 1
  IN  /\ parent.at = "between"
      /\ b \in Batches
      /\ parent' = [at |-> "suspended", batch |-> b]
      /\ loop' = [loop EXCEPT ![b].step = "test"]
      /\ awaiting' = [awaiting EXCEPT ![b] = Variadic]
      /\ UNCHANGED <<setup, task, inline, count, output, resumed, taken>>

Return ==
  /\ parent = [at |-> "between", batch |-> LastBatch]
  /\ parent' = [parent EXCEPT !.at = "returned"]
  /\ UNCHANGED <<setup, loop, task, inline, count, awaiting, output, resumed, taken>>

(* The last down() takes the coroutine out of the event and resumes it: the  *)
(* parent moves output_ out of the awaiter and destroys it.                  *)
ResumeParent(b) ==
  /\ awaiting' = [awaiting EXCEPT ![b] = FALSE]
  /\ IF awaiting[b]
       THEN /\ parent' = [at |-> "between", batch |-> b]
            /\ resumed' = resumed \union {b}
            /\ taken' = [i \in Inputs |->
                           IF BatchOf(i) # b THEN taken[i]
                           ELSE IF i \in output THEN "result" ELSE "empty"]
       ELSE UNCHANGED <<parent, resumed, taken>>

-----------------------------------------------------------------------------
(* await_suspend() *)

Goto(b, step) == loop' = [loop EXCEPT ![b].step = step]
NextInput(b) == loop' = [loop EXCEPT ![b] = [step |-> "test", i |-> @.i + 1]]

(* The condition of the loop. *)
Leave(b) ==
  /\ loop[b].step = "test"
  /\ Gone(b) \/ loop[b].i > Last(b)
  /\ Goto(b, IF Gone(b) THEN "undefined" ELSE "left")
  /\ UNCHANGED <<setup, parent, task, inline, count, awaiting, output, resumed, taken>>

OnExecutor(b, i) == Para /\ Size(b) > 1 /\ i \in setup.exec

AtInput(b) == loop[b].step = "test" /\ ~Gone(b) /\ loop[b].i <= Last(b)

Schedule(b) ==
  /\ AtInput(b)
  /\ OnExecutor(b, loop[b].i)
  /\ task' = [task EXCEPT ![loop[b].i] = "scheduled"]
  /\ NextInput(b)
  /\ UNCHANGED <<setup, parent, inline, count, awaiting, output, resumed, taken>>

CallFunc(b) ==
  /\ AtInput(b)
  /\ ~OnExecutor(b, loop[b].i)
  /\ task' = [task EXCEPT ![loop[b].i] = "running"]
  /\ inline' = inline \union {loop[b].i}
  /\ Goto(b, "func")
  /\ UNCHANGED <<setup, parent, count, awaiting, output, resumed, taken>>

(* start() comes back when the input has finished or gone to sleep.          *)
FuncReturns(b) ==
  /\ loop[b].step = "func"
  /\ loop[b].i \in inline => task[loop[b].i] = "finished"
  /\ IF Variadic THEN NextInput(b) ELSE Goto(b, "set")
  /\ UNCHANGED <<setup, parent, task, inline, count, awaiting, output, resumed, taken>>

(* Mutant: the event never learns of the coroutine. *)
SetNothing(b) ==
  /\ loop[b].step = "set"
  /\ Goto(b, "down")
  /\ UNCHANGED <<setup, parent, task, inline, count, awaiting, output, resumed, taken>>

SetAwaitingCoro(b) ==
  /\ loop[b].step = "set"
  /\ IF Gone(b) THEN Goto(b, "undefined") /\ UNCHANGED awaiting
                ELSE Goto(b, "down") /\ awaiting' = [awaiting EXCEPT ![b] = TRUE]
  /\ UNCHANGED <<setup, parent, task, inline, count, output, resumed, taken>>

LoopDown(b) ==
  /\ loop[b].step = "down"
  /\ IF Gone(b)
       THEN Goto(b, "undefined") /\ UNCHANGED count
       ELSE /\ count' = [count EXCEPT ![b] = @ - 1]
            /\ IF count[b] = 1 THEN Goto(b, "resume") ELSE NextInput(b)
  /\ UNCHANGED <<setup, parent, task, inline, awaiting, output, resumed, taken>>

LoopResumes(b) ==
  /\ loop[b].step = "resume"
  /\ ResumeParent(b)
  /\ NextInput(b)
  /\ UNCHANGED <<setup, task, inline, count, output>>

-----------------------------------------------------------------------------
(* An input *)

Now(i, where) == task' = [task EXCEPT ![i] = where]

(* The executor calls func. *)
Begin(i) ==
  /\ task[i] = "scheduled"
  /\ Now(i, "running")
  /\ UNCHANGED <<setup, parent, loop, inline, count, awaiting, output, resumed, taken>>

(* The input suspends, start() returns, and it goes on in another thread.    *)
Detach(i) ==
  /\ task[i] = "running" /\ i \in inline
  /\ inline' = inline \ {i}
  /\ UNCHANGED <<setup, parent, loop, task, count, awaiting, output, resumed, taken>>

Store(i) ==
  /\ task[i] = "running"
  /\ IF Gone(BatchOf(i)) THEN Now(i, "undefined") /\ UNCHANGED output
                         ELSE Now(i, "stored") /\ output' = output \union {i}
  /\ UNCHANGED <<setup, parent, loop, inline, count, awaiting, resumed, taken>>

Down(i) ==
  /\ task[i] = "stored"
  /\ IF Gone(BatchOf(i))
       THEN Now(i, "undefined") /\ UNCHANGED count
       ELSE /\ count' = [count EXCEPT ![BatchOf(i)] = @ - 1]
            /\ Now(i, IF count[BatchOf(i)] = 1 THEN "last" ELSE "finished")
  /\ UNCHANGED <<setup, parent, loop, inline, awaiting, output, resumed, taken>>

TaskResumes(i) ==
  /\ task[i] = "last"
  /\ ResumeParent(BatchOf(i))
  /\ Now(i, "finished")
  /\ UNCHANGED <<setup, loop, inline, count, output>>

-----------------------------------------------------------------------------
Loop(b) ==
  /\ b \in Batches
  /\ \/ Leave(b) \/ Schedule(b) \/ CallFunc(b) \/ FuncReturns(b)
     \/ SetAwaitingCoro(b) \/ LoopDown(b) \/ LoopResumes(b)

Run(i) == Begin(i) \/ Store(i) \/ Down(i) \/ TaskResumes(i)

Next ==
  \/ AwaitSuspend \/ Return
  \/ \E b \in Batches : Loop(b)
  \/ \E i \in Inputs : Run(i) \/ Detach(i)

Spec == Init /\ [][Next]_vars

(* Every thread that can move does, and every input comes to its end.        *)
Fairness ==
  /\ WF_vars(AwaitSuspend \/ Return)
  /\ \A b \in Inputs : WF_vars(Loop(b))
  /\ \A i \in Inputs : WF_vars(Run(i))

FairSpec == Spec /\ Fairness
-----------------------------------------------------------------------------
(* Properties. *)

TypeOK ==
  /\ setup \in Scenarios
  /\ parent \in [at : {"between", "suspended", "returned"}, batch : 0..LastBatch]
  /\ loop \in [Batches -> [step : {"none", "test", "func", "set", "down", "resume", "left",
                                   "undefined"}, i : 1..(N + 1)]]
  /\ task \in [Inputs -> {"new", "scheduled", "running", "stored", "last", "finished",
                          "undefined"}]
  /\ {inline, output} \subseteq SUBSET Inputs
  /\ count \in [Batches -> Int]
  /\ awaiting \in [Batches -> BOOLEAN]
  /\ resumed \subseteq Batches
  /\ taken \in [Inputs -> {"nothing", "result", "empty"}]

(* The vector the parent gets contains the result of every input it awaited: *)
(* the event does not resume it before the last callback has stored, and no  *)
(* callback runs after the awaiter it stores into is destroyed.              *)
ResultsComplete == \A i \in Inputs : taken[i] # "empty" /\ task[i] # "undefined"

(* The parent gets its results in the end.                                   *)
ParentReturns == <>(parent.at = "returned")

=============================================================================
