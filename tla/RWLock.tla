------------------------------- MODULE RWLock -------------------------------
(***************************************************************************)
(* What a readers-writer lock promises: many may hold it shared, or one    *)
(* exclusively.  Who gets it next is left open.                            *)
(***************************************************************************)
CONSTANT Coroutines

VARIABLE hold  \* how each coroutine holds the lock

Init == hold = [c \in Coroutines |-> "none"]

AcquireShared(c) ==
  /\ hold[c] = "none"
  /\ \A d \in Coroutines : hold[d] # "exclusive"
  /\ hold' = [hold EXCEPT ![c] = "shared"]

AcquireExclusive(c) ==
  /\ \A d \in Coroutines : hold[d] = "none"
  /\ hold' = [hold EXCEPT ![c] = "exclusive"]

Release(c) ==
  /\ hold[c] # "none"
  /\ hold' = [hold EXCEPT ![c] = "none"]

(* Every action changes hold: the first conjunct says so for TLC, which then *)
(* has nothing to try in a step that leaves hold as it is.                   *)
Next ==
  /\ hold' # hold
  /\ \E c \in Coroutines : AcquireShared(c) \/ AcquireExclusive(c) \/ Release(c)

Spec == Init /\ [][Next]_hold
=============================================================================
