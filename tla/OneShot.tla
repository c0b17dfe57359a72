------------------------------ MODULE OneShot ------------------------------
(***************************************************************************)
(* What the Future/Promise pair promises: an outcome that is decided once, *)
(* a continuation that is attached at most once, and one call of it, after *)
(* both, that receives the outcome.                                        *)
(***************************************************************************)
VARIABLES outcome,   \* "none", then "value" or "broken" for ever
          callback   \* "none", "attached", "called"

vars == <<outcome, callback>>

Init == outcome = "none" /\ callback = "none"

Resolve ==
  /\ outcome = "none"
  /\ outcome' \in {"value", "broken"}
  /\ UNCHANGED callback

Attach ==
  /\ callback = "none"
  /\ callback' = "attached"
  /\ UNCHANGED outcome

Call ==
  /\ outcome # "none" /\ callback = "attached"
  /\ callback' = "called"
  /\ UNCHANGED outcome

Next == Resolve \/ Attach \/ Call

Spec == Init /\ [][Next]_vars
=============================================================================
