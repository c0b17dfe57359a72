---------------------------- MODULE ClientQueue ----------------------------
(***************************************************************************)
(* The idle clients of a coro_io::client_pool: the double queue of         *)
(* detail/client_queue.hpp, enqueue() of client_pool.hpp and the           *)
(* coroutine collect_idle_timeout_client(), which closes the clients that  *)
(* nobody used for a time.  One step per access to a shared atomic.        *)
(*                                                                         *)
(* The collector flips selected_index_, sleeps, and closes what is then in *)
(* the half that was selected before.  At most one is to exist while there *)
(* are clients; collecter_cnt_ (declared as collect_cnt_) says whether.    *)
(* The two lock-free queues are counters of clients.                       *)
(***************************************************************************)
EXTENDS Naturals

CONSTANTS Users,       \* requests that return and take clients
          Collectors,  \* identities of collecting coroutines
          MaxCalls,    \* bound on the calls of all users
          MaxClear     \* idle_queue_per_max_clear_count

VARIABLES selected,    \* selected_index_
          size,        \* size_
          clients,     \* how many clients each queue_ holds
          collecting,  \* collecter_cnt_
          user,        \* where each user is, and its local index and cnt
          collector,   \* where each collector is, and its locals
          alive,       \* the pool has not been destroyed
          failed,      \* an enqueue had no memory
          calls

vars == <<selected, size, clients, collecting, user, collector, alive, failed, calls>>

Halves == {0, 1}
Other(i) == 1 - i
Idle == [at |-> "idle", index |-> 0, cnt |-> 0]
None == [at |-> "none", local |-> 0, cnt |-> 0]

Init ==
  /\ selected = 0
  /\ size = [i \in Halves |-> 0] /\ clients = [i \in Halves |-> 0]
  /\ collecting = 0
  /\ user = [u \in Users |-> Idle]
  /\ collector = [k \in Collectors |-> None]
  /\ alive = TRUE /\ failed = FALSE
  /\ calls = 0

User(u, from, to) == user[u].at = from /\ user' = [user EXCEPT ![u] = to]
Add(f, i, n) == [f EXCEPT ![i] = @ + n]
Sub(f, i, n) == [f EXCEPT ![i] = @ - n]

-----------------------------------------------------------------------------
(* client_queue::enqueue() and client_pool::enqueue() *)

(* The index is read once; the other half may be selected from then on.      *)
Call(u) ==
  /\ alive /\ calls < MaxCalls /\ calls' = calls + 1
  /\ \E op \in {"count", "take other"} : User(u, "idle", [at |-> op, index |-> selected, cnt |-> 0])
  /\ UNCHANGED <<selected, size, clients, collecting, collector, alive, failed>>

Count(u) ==
  LET i == user[u].index
  IN  /\ User(u, "count", [at |-> "put", index |-> i, cnt |-> size[i] + 1])
      /\ size' = Add(size, i, 1)
      /\ UNCHANGED <<selected, clients, collecting, collector, alive, failed, calls>>

(* The element goes in, and the one that made the count 1 starts a collector;*)
(* or there is no memory, and the count is taken back.                       *)
Put(u) ==
  /\ User(u, "put", IF user[u].cnt = 1 THEN [user[u] EXCEPT !.at = "start"] ELSE Idle)
  /\ clients' = Add(clients, user[u].index, 1)
  /\ UNCHANGED <<selected, size, collecting, collector, alive, failed, calls>>

PutFails(u) ==
  /\ User(u, "put", Idle)
  /\ size' = Sub(size, user[u].index, 1)
  /\ failed' = TRUE
  /\ UNCHANGED <<selected, clients, collecting, collector, alive, calls>>

(* The compare-exchange of collecter_cnt_, and the start of the coroutine.   *)
StartCollector(u) ==
  /\ User(u, "start", Idle)
  /\ IF collecting = 0
       THEN /\ collecting' = 1
            /\ \E k \in Collectors : /\ collector[k] = None
                                     /\ collector' = [collector EXCEPT ![k].at = "started"]
       ELSE UNCHANGED <<collecting, collector>>
  /\ UNCHANGED <<selected, size, clients, alive, failed, calls>>

(* client_queue::try_dequeue(): the half that is not selected, if its count  *)
(* says there is something, then the selected one.                           *)
TakeFrom(u, i, counted, otherwise) ==
  IF counted /\ clients[i] > 0
    THEN /\ user' = [user EXCEPT ![u] = [at |-> "uncount", index |-> i, cnt |-> 0]]
         /\ clients' = Sub(clients, i, 1)
    ELSE user' = [user EXCEPT ![u] = otherwise] /\ UNCHANGED clients

TakeOther(u) ==
  /\ user[u].at = "take other"
  /\ TakeFrom(u, Other(user[u].index), size[Other(user[u].index)] > 0, [user[u] EXCEPT !.at = "take"])
  /\ UNCHANGED <<selected, size, collecting, collector, alive, failed, calls>>

Take(u) ==
  /\ user[u].at = "take"
  /\ TakeFrom(u, user[u].index, TRUE, Idle)
  /\ UNCHANGED <<selected, size, collecting, collector, alive, failed, calls>>

Uncount(u) ==
  /\ User(u, "uncount", Idle)
  /\ size' = Sub(size, user[u].index, 1)
  /\ UNCHANGED <<selected, clients, collecting, collector, alive, failed, calls>>

-----------------------------------------------------------------------------
(* collect_idle_timeout_client() *)

Collector(k, from, to) == collector[k].at = from /\ collector' = [collector EXCEPT ![k] = to]
To(at, local) == [at |-> at, local |-> local, cnt |-> 0]

(* The first lock() of the weak pointer. *)
Begin(k) ==
  /\ Collector(k, "started", IF alive THEN To("reselect", 0) ELSE None)
  /\ UNCHANGED <<selected, size, clients, collecting, user, alive, failed, calls>>

(* Mutant: the same half is selected for ever. *)
SelectSame(k) ==
  /\ Collector(k, "reselect", To("sleeping", 0))
  /\ UNCHANGED <<selected, size, clients, collecting, user, alive, failed, calls>>

(* reselect(), then the pool is let go for the time of the sleep.            *)
Reselect(k) ==
  /\ Collector(k, "reselect", To("sleeping", 0))
  /\ selected' = Other(selected)
  /\ UNCHANGED <<size, clients, collecting, user, alive, failed, calls>>

Awake(k) ==
  /\ Collector(k, "sleeping", IF alive THEN To("clear", 0) ELSE None)
  /\ UNCHANGED <<selected, size, clients, collecting, user, alive, failed, calls>>

(* clear_old() closes up to MaxClear clients of the half not selected; it is *)
(* called again until it finds none.                                         *)
ClearOld(k) ==
  LET i == Other(selected)
      n == IF size[i] = 0 THEN 0 ELSE IF clients[i] < MaxClear THEN clients[i] ELSE MaxClear
  IN  /\ Collector(k, "clear", IF n = 0 THEN To("give up", 0)
                                  ELSE [at |-> "subtract", local |-> i, cnt |-> n])
      /\ clients' = Sub(clients, i, n)
      /\ UNCHANGED <<selected, size, collecting, user, alive, failed, calls>>

(* size_[index] -= result *)
Subtract(k) ==
  /\ Collector(k, "subtract", To("clear", 0))
  /\ size' = Sub(size, collector[k].local, collector[k].cnt)
  /\ UNCHANGED <<selected, clients, collecting, user, alive, failed, calls>>

(* --collecter_cnt_, then size() reads the two counts, and the collector     *)
(* stays when they are not zero and nobody else has started one.             *)
GiveUp(k) ==
  /\ Collector(k, "give up", To("read 0", 0))
  /\ collecting' = collecting - 1
  /\ UNCHANGED <<selected, size, clients, user, alive, failed, calls>>

ReadFirst(k) ==
  /\ Collector(k, "read 0", To("read 1", size[0]))
  /\ UNCHANGED <<selected, size, clients, collecting, user, alive, failed, calls>>

ReadSecond(k) ==
  /\ Collector(k, "read 1", IF collector[k].local + size[1] = 0 THEN None ELSE To("claim", 0))
  /\ UNCHANGED <<selected, size, clients, collecting, user, alive, failed, calls>>

Claim(k) ==
  /\ Collector(k, "claim", IF collecting = 0 THEN To("reselect", 0) ELSE None)
  /\ collecting' = 1
  /\ UNCHANGED <<selected, size, clients, user, alive, failed, calls>>

-----------------------------------------------------------------------------
(* The last owner drops the pool: no request is under way, and no collector  *)
(* holds the pointer it has locked.                                          *)
DropPool ==
  /\ alive /\ \A u \in Users : user[u] = Idle
  /\ \A k \in Collectors : collector[k].at \in {"none", "started", "sleeping"}
  /\ alive' = FALSE
  /\ clients' = [i \in Halves |-> 0] /\ size' = [i \in Halves |-> 0]
  /\ UNCHANGED <<selected, collecting, user, collector, failed, calls>>

Use(u) == Count(u) \/ Put(u) \/ StartCollector(u) \/ TakeOther(u) \/ Take(u) \/ Uncount(u)

Collect(k) == \/ Begin(k) \/ Reselect(k) \/ Awake(k) \/ ClearOld(k) \/ Subtract(k)
              \/ GiveUp(k) \/ ReadFirst(k) \/ ReadSecond(k) \/ Claim(k)

Next ==
  \/ \E u \in Users : Call(u) \/ Use(u) \/ PutFails(u)
  \/ \E k \in Collectors : Collect(k)
  \/ DropPool

Spec == Init /\ [][Next]_vars

(* A call that has begun goes on, timers fire and coroutines are resumed.    *)
Fairness ==
  /\ \A u \in Users : WF_vars(Use(u))
  /\ \A k \in Collectors : WF_vars(Collect(k))
-----------------------------------------------------------------------------
(* When requests stop, the clients that are left are closed in the end, by a *)
(* collector that enqueue() started or that has not left yet, and the counts *)
(* that the two decide by agree with the queues again.  (An enqueue() that   *)
(* finds no memory may take back the very count that was to start it.)       *)
IdleClientsAreClosed ==
  <>[](failed \/ (clients = [i \in Halves |-> 0] /\ size = clients))
=============================================================================
