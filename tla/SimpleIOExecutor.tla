-------------------------- MODULE SimpleIOExecutor --------------------------
(***************************************************************************)
(* The IOExecutor of executors/SimpleIOExecutor.h: submitIO() hands a      *)
(* request to the kernel's asynchronous I/O, and a thread takes the        *)
(* events of finished requests and calls their callbacks, until destroy()  *)
(* raises shutdown_, joins it and gives the kernel's context back.         *)
(* submitIOV() differs in the request only.                                *)
(*                                                                         *)
(* The kernel may refuse any request: it takes no more than its context    *)
(* has room for, and none after io_destroy().                              *)
(***************************************************************************)
EXTENDS Naturals, FiniteSets

CONSTANTS Requests,  \* the requests of the program, each submitted at most once
          KMaxAio    \* room in the context, and in the array of events

VARIABLES place,     \* where each request is
          shutdown,  \* shutdown_
          loop,      \* where loop() is
          context    \* ioContext_

vars == <<place, shutdown, loop, context>>

Init ==
  /\ place = [r \in Requests |-> "new"]
  /\ shutdown = FALSE
  /\ loop = "not started"
  /\ context = "none"

At(where) == {r \in Requests : place[r] \in where}
Move(S, to) == place' = [r \in Requests |-> IF r \in S THEN to ELSE place[r]]

-----------------------------------------------------------------------------
(* The program.  init() fails when io_setup() does. *)
InitExecutor ==
  /\ loop = "not started" /\ ~shutdown
  /\ loop' = "test"
  /\ context' = "open"
  /\ UNCHANGED <<place, shutdown>>

(* A callback may submit the next request, so that the loop's thread is one  *)
(* of the submitters.                                                        *)
SubmitAccepted(r) ==
  /\ place[r] = "new"
  /\ context = "open"
  /\ Cardinality(At({"submitted", "finished"})) < KMaxAio
  /\ Move({r}, "submitted")
  /\ UNCHANGED <<shutdown, loop, context>>

(* The callback of a request that is refused is called by submitIO().        *)
SubmitRefused(r) ==
  /\ place[r] = "new"
  /\ Move({r}, "answered")
  /\ UNCHANGED <<shutdown, loop, context>>

RaiseShutdown ==
  /\ ~shutdown
  /\ shutdown' = TRUE
  /\ UNCHANGED <<place, loop, context>>

(* After the join io_destroy() waits for the requests in flight, and their   *)
(* events are gone.                                                          *)
Destroy ==
  /\ shutdown /\ context # "destroyed"
  /\ loop \in {"not started", "left"}
  /\ At({"submitted"}) = {}
  /\ context' = "destroyed"
  /\ Move(At({"finished"}), "lost")
  /\ UNCHANGED <<shutdown, loop>>

-----------------------------------------------------------------------------
(* The kernel *)
Finish(r) ==
  /\ place[r] = "submitted"
  /\ Move({r}, "finished")
  /\ UNCHANGED <<shutdown, loop, context>>

-----------------------------------------------------------------------------
(* loop() *)

TestShutdown ==
  /\ loop = "test"
  /\ loop' = IF shutdown THEN "left" ELSE "get"
  /\ UNCHANGED <<place, shutdown, context>>

(* io_getevents() takes what has finished, or nothing after its timeout.     *)
GetEvents ==
  /\ loop = "get"
  /\ \E S \in SUBSET At({"finished"}) :
       /\ Cardinality(S) <= KMaxAio
       /\ S = {} => At({"finished"}) = {}
       /\ Move(S, "fetched")
       /\ loop' = IF S = {} THEN "test" ELSE "process"
  /\ UNCHANGED <<shutdown, context>>

(* Mutant: shutdown_ also ends the loop over the events. *)
ProcessUntilShutdown(r) ==
  /\ loop = "process" /\ place[r] = "fetched"
  /\ IF shutdown THEN UNCHANGED place ELSE Move({r}, "answered")
  /\ loop' = IF shutdown \/ At({"fetched"}) = {r} THEN "test" ELSE "process"
  /\ UNCHANGED <<shutdown, context>>

(* The events are processed in the order of the array, which is any.         *)
Process(r) ==
  /\ loop = "process" /\ place[r] = "fetched"
  /\ Move({r}, "answered")
  /\ loop' = IF At({"fetched"}) = {r} THEN "test" ELSE "process"
  /\ UNCHANGED <<shutdown, context>>

-----------------------------------------------------------------------------
LoopThread == TestShutdown \/ GetEvents \/ (\E r \in Requests : Process(r))

Next ==
  \/ InitExecutor \/ RaiseShutdown \/ Destroy \/ LoopThread
  \/ \E r \in Requests : SubmitAccepted(r) \/ SubmitRefused(r) \/ Finish(r)

(* The thread runs, requests finish, and destroy() goes on once it is called.*)
Fairness ==
  /\ WF_vars(LoopThread)
  /\ WF_vars(Destroy)
  /\ \A r \in Requests : WF_vars(Finish(r))

Spec == Init /\ [][Next]_vars /\ Fairness
-----------------------------------------------------------------------------
(* Properties.  In the end the callback of every request has been called,    *)
(* except of those that were on their way when the executor was shut down;   *)
(* the events that the loop had already taken are no such exception.  And    *)
(* destroy() returns.                                                        *)
AnsweredUnlessShutDown ==
  <>[] /\ At({"fetched"}) = {}
       /\ IF shutdown THEN context = "destroyed" ELSE At({"submitted", "finished"}) = {}
=============================================================================
