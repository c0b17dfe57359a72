-------------------------- MODULE ExecutorContract --------------------------
(***************************************************************************)
(* What Executor.h asks of every executor: "schedule would return false if *)
(* schedule failed, which means function func will not be executed.  In    *)
(* case schedule return true, the executor should guarantee that the func  *)
(* would be executed."                                                     *)
(***************************************************************************)
CONSTANTS Tasks

VARIABLES status   \* what happened to each function

Init == status = [t \in Tasks |-> "new"]

Accept(t) == status[t] = "new" /\ status' = [status EXCEPT ![t] = "accepted"]
Refuse(t) == status[t] = "new" /\ status' = [status EXCEPT ![t] = "refused"]
Execute(t) == status[t] = "accepted" /\ status' = [status EXCEPT ![t] = "executed"]

Next == \E t \in Tasks : Accept(t) \/ Refuse(t) \/ Execute(t)

(* What never happens: a function is executed that was refused, or twice.    *)
Safety == Init /\ [][Next]_status

(* And what it has accepted it executes.                                     *)
Spec == Safety /\ \A t \in Tasks : WF_status(Execute(t))
=============================================================================
