---------------------------- MODULE FifoLock ----------------------------
(***************************************************************************)
(* What coro/Mutex.h promises its users: a lock with at most one owner,    *)
(* a line of coroutines in the order in which they queued, and a release   *)
(* that makes the first of the line the owner before anybody else can take *)
(* the lock ("schedule the resumption of the next coroutine in the         *)
(* queue").  Nobody can overtake the line.                                 *)
(***************************************************************************)
EXTENDS Sequences

CONSTANTS Coroutines

VARIABLES owners,  \* the set of the coroutines that own the lock
          line     \* the coroutines suspended in co_await coLock(), first come first

vars == <<owners, line>>

Init == owners = {} /\ line = <<>>

(* Taken synchronously: only a free lock, and then nobody is in line. *)
Acquire(c) ==
  /\ owners = {}
  /\ line = <<>>
  /\ owners' = {c}
  /\ UNCHANGED line

(* Somebody owns the lock: suspend at the end of the line. *)
Join(c) ==
  /\ owners # {}
  /\ c \notin owners
  /\ \A i \in DOMAIN line : line[i] # c
  /\ line' = Append(line, c)
  /\ UNCHANGED owners

Free(c) ==
  /\ owners = {c}
  /\ line = <<>>
  /\ owners' = {}
  /\ UNCHANGED line

PassOn(c) ==
  /\ owners = {c}
  /\ line # <<>>
  /\ owners' = {Head(line)}
  /\ line' = Tail(line)

Next == \E c \in Coroutines : Acquire(c) \/ Join(c) \/ Free(c) \/ PassOn(c)

Spec == Init /\ [][Next]_vars
=============================================================================
