---------------------------- MODULE RateLimiter ----------------------------
(***************************************************************************)
(* coro_io::smooth_bursty_rate_limiter, rate_limiter.hpp.  acquire()       *)
(* reserves its permits under a spin lock and sleeps until they are due;   *)
(* set_rate() changes the price of a permit meanwhile.                     *)
(*                                                                         *)
(* Time is in ticks of half a millisecond, since the code cuts durations   *)
(* to milliseconds in four places.  stored_permits_ is kept as the time    *)
(* it is worth, stored_permits_ * stable_internal: set_rate() multiplies   *)
(* the one by what it divides the other.                                   *)
(***************************************************************************)
EXTENDS Integers, Sequences

CONSTANTS Callers,    \* coroutines that call acquire()
          Permits,    \* numbers of permits they ask for
          Intervals,  \* ticks per permit, of the rates that set_rate() gets
          Burst,      \* max_burst_seconds_, in ticks
          MaxGrants,  \* bound on the calls of acquire()
          MaxTime     \* bound on the clock

VARIABLES now,       \* the clock
          interval,  \* stable_internal_micros_, with 0 before the constructor has run
          stored,    \* what stored_permits_ is worth
          nextFree,  \* next_free_ticket_micros_
          due,       \* when the sleep of a caller ends, or Awake
          grants     \* what was granted so far: when, and what all grants were worth
                     \* before and after

vars == <<now, interval, stored, nextFree, due, grants>>

(* Rates are those of whole milliseconds per permit; max_burst_seconds_ is 1. *)
RateAssumption ==
  /\ Permits \subseteq Nat
  /\ \A i \in Intervals : i \in Nat /\ i > 0 /\ i % 2 = 0
  /\ Burst \in Nat /\ Burst % 2 = 0

Awake == -1
Smaller(a, b) == IF a < b THEN a ELSE b
Larger(a, b) == IF a > b THEN a ELSE b
Cut(ticks) == ticks - (ticks % 2)   \* duration_cast<milliseconds>

Init ==
  /\ now = 1 /\ nextFree = 0
  /\ interval = 0 /\ stored = 0
  /\ due = [c \in Callers |-> Awake]
  /\ grants = <<>>

(* resync(): the time that has passed is stored, as far as there is room;    *)
(* max_permits_ is 0 until the constructor has set a rate.                   *)
Passed == Cut(Larger(now - nextFree, 0))

(* Mutant: the bucket holds any amount. *)
StoredUncapped == IF interval = 0 THEN 0 ELSE stored + Passed

Stored == IF interval = 0 THEN 0 ELSE Smaller(Burst, stored + Passed)
NextFree == Larger(now, nextFree)

(* The constructor and set_rate(). *)
SetRate ==
  /\ \E i \in Intervals : interval' = i /\ i # interval
  /\ stored' = Stored
  /\ nextFree' = NextFree
  /\ UNCHANGED <<now, due, grants>>

(* reserve_earliest_available(): the sleep is for what was reserved before;  *)
(* what these permits cost beyond the stored ones puts off the next call.    *)
Granted == IF grants = <<>> THEN 0 ELSE grants[Len(grants)].after

Acquire(c) ==
  /\ interval # 0
  /\ due[c] = Awake /\ Len(grants) < MaxGrants
  /\ \E permits \in Permits :
       LET cost  == permits * interval
           spent == Smaller(cost, Stored)
           until == now + Cut(NextFree - now)
       IN  /\ nextFree' = NextFree + Cut(cost - spent)
           /\ stored' = Stored - spent
           /\ due' = [due EXCEPT ![c] = until]
           /\ grants' = Append(grants, [at |-> until, before |-> Granted, after |-> Granted + cost])
  /\ UNCHANGED <<now, interval>>

WakeUp(c) ==
  /\ due[c] # Awake /\ due[c] <= now
  /\ due' = [due EXCEPT ![c] = Awake]
  /\ UNCHANGED <<now, interval, stored, nextFree, grants>>

(* Nobody oversleeps in this model. *)
Tick ==
  /\ now < MaxTime /\ \A c \in Callers : due[c] = Awake \/ due[c] > now
  /\ now' = now + 1
  /\ UNCHANGED <<interval, stored, nextFree, due, grants>>

Next == SetRate \/ Tick \/ \E c \in Callers : Acquire(c) \/ WakeUp(c)

Spec == Init /\ [][Next]_vars
-----------------------------------------------------------------------------
(* Between any two grants no more is granted than a full bucket and the time *)
(* that lies between them pay for, through changes of the rate: only the     *)
(* last of the requests may be on credit.  Less than a millisecond is lost   *)
(* where the sleep is cut.  (The price of a permit is a whole number of      *)
(* milliseconds here; a part of a millisecond would be given away.)          *)
RateHolds ==
  \A j \in DOMAIN grants : \A i \in 1..(j - 1) :
    grants[j].before - grants[i].before < Burst + grants[j].at - grants[i].at + 2
=============================================================================
