---------------------------- MODULE LoadBlancer ----------------------------
(***************************************************************************)
(* coro_io::load_blancer, load_blancer.hpp, over the pools that            *)
(* client_pools::get_client_pool() hands out, client_pool.hpp.             *)
(*                                                                         *)
(* Several threads create balancers for the same hosts; each asks for the  *)
(* pool of each host, which is found or made and inserted under a shared   *)
(* lock.  One balancer then sends its requests, one after the other: the   *)
(* weighted round robin keeps its state in plain members.  A host in turn  *)
(* is skipped while its pool is not alive.                                 *)
(***************************************************************************)
EXTENDS Integers, Sequences, FiniteSetsExt, SequencesExt

CONSTANTS Configs,     \* pairs of an algorithm, one of "RR", "WRR", "random", and
                       \* a weight list, a host per element
          Threads,     \* that call client_pools::at()
          MaxRequests, \* bound on the requests of a run
          MaxFailures  \* bound on the changes of is_alive_

VARIABLES weights, algorithm,
          manager,   \* client_pool_manager_: the pool of each host, 0 for none
          asking,    \* per thread: the host, where it is, and what it made
          got,       \* the pools each thread got, per host
          made,      \* how many pools were made
          alive,     \* is_alive_ of each pool
          failures,  \* how often one changed
          index,     \* index of round robin
          current,   \* wrr_current_
          weight,    \* weight_current_
          request,   \* "none", "pick", "test" or "send"
          cnt,       \* pools tried and found dead
          chosen,    \* the host in turn
          picks,     \* how often each was, since weight_current_ was the maximum
          sent       \* how many requests there were

(* The weights are not negative. *)
LbAssumption == \A config \in Configs : config[2] \in Seq(Nat)

pools == <<weights, algorithm, manager, asking, got, made>>
vars == <<pools, alive, failures, index, current, weight, request, cnt, chosen, picks, sent>>

N == Len(weights)
Hosts == 0..(N - 1)
W(h) == weights[h + 1]

(* get_max_weight() and get_max_weight_gcd(), the latter over std::gcd.      *)
MaxWeight == Max(ToSet(weights))
gcd(a, b) == IF a = 0 THEN b ELSE IF b = 0 THEN a
             ELSE Max({d \in 1..a : a % d = 0 /\ b % d = 0})
res[i \in 0..N] == IF i = 0 THEN weights[1] ELSE gcd(res[i - 1], weights[i])
MaxGcd == res[N]

Start(h) == [host |-> h, at |-> "find", pool |-> 0]

Init ==
  /\ \E config \in Configs : algorithm = config[1] /\ weights = config[2]
  /\ manager = [h \in Hosts |-> 0]
  /\ asking = [t \in Threads |-> Start(0)]
  /\ got = [t \in Threads |-> <<>>]
  /\ made = 0
  /\ alive = [h \in Hosts |-> TRUE] /\ failures = 0
  /\ index = 0 /\ current = -1 /\ weight = 0
  /\ request = "none" /\ cnt = 0 /\ chosen = 0
  /\ picks = [h \in Hosts |-> 0]
  /\ sent = 0

-----------------------------------------------------------------------------
(* init() of a balancer: client_pools::at() of one host after the other.     *)

Gets(t, pool) ==
  /\ got' = [got EXCEPT ![t] = Append(@, pool)]
  /\ asking' = [asking EXCEPT ![t] = Start(@.host + 1)]
Asks(t, at) == asking[t].at = at /\ asking[t].host \in Hosts
Balancing == 
  UNCHANGED <<weights, algorithm, alive, failures, index, current, weight, request, cnt, chosen,
              picks, sent>>

(* find() under the shared lock; what is found is returned under it, too.    *)
FindPool(t) ==
  /\ Asks(t, "find")
  /\ IF manager[asking[t].host] # 0 THEN Gets(t, manager[asking[t].host])
     ELSE asking' = [asking EXCEPT ![t].at = "make"] /\ UNCHANGED got
  /\ UNCHANGED <<manager, made>> /\ Balancing

(* The lock is given up, and a pool is made.                                 *)
MakePool(t) ==
  /\ Asks(t, "make")
  /\ made' = made + 1
  /\ asking' = [asking EXCEPT ![t].at = "emplace", ![t].pool = made + 1]
  /\ UNCHANGED <<manager, got>> /\ Balancing

(* Mutant: the pool is stored whether or not the key was inserted. *)
EmplaceAnyway(t) ==
  /\ Asks(t, "emplace")
  /\ LET h == asking[t].host
     IN  manager' = [manager EXCEPT ![h] = asking[t].pool]
  /\ asking' = [asking EXCEPT ![t].at = "read"]
  /\ UNCHANGED <<got, made>> /\ Balancing

(* emplace() of a null pointer and, when the key was not there, the new pool *)
(* in its place, both under the exclusive lock.                              *)
EmplacePool(t) ==
  /\ Asks(t, "emplace")
  /\ LET h == asking[t].host
     IN  manager' = IF manager[h] = 0 THEN [manager EXCEPT ![h] = asking[t].pool] ELSE manager
  /\ asking' = [asking EXCEPT ![t].at = "read"]
  /\ UNCHANGED <<got, made>> /\ Balancing

(* iter->second, behind the lock; the iterator is that of a node.            *)
ReadPool(t) ==
  /\ Asks(t, "read")
  /\ Gets(t, manager[asking[t].host])
  /\ UNCHANGED <<manager, made>> /\ Balancing

-----------------------------------------------------------------------------
(* A pool's host fails, or answers again. *)
AliveChanges(h) ==
  /\ failures < MaxFailures /\ failures' = failures + 1
  /\ alive' = [alive EXCEPT ![h] = ~@]
  /\ UNCHANGED <<pools, index, current, weight, request, cnt, chosen, picks, sent>>

(* send_request(): with one host there is nothing to choose.                 *)
SendRequest ==
  /\ request = "none" /\ sent < MaxRequests
  /\ \A t \in Threads : asking[t].host = N
  /\ sent' = sent + 1 /\ cnt' = 0
  /\ IF N > 1 THEN request' = "pick" /\ UNCHANGED chosen
              ELSE request' = "send" /\ chosen' = 0
  /\ UNCHANGED <<pools, alive, failures, index, current, weight, picks>>

Choose(h) == chosen' = h /\ request' = "test" /\ picks' = [picks EXCEPT ![h] = @ + 1]
Picking(a) == /\ request = "pick" /\ algorithm = a
              /\ UNCHANGED <<pools, alive, failures, cnt, sent>>

PickRR ==
  /\ Picking("RR")
  /\ index' = index + 1
  /\ Choose(index % N)
  /\ UNCHANGED <<current, weight>>

PickRandom ==
  /\ Picking("random")
  /\ \E h \in Hosts : Choose(h)
  /\ UNCHANGED <<index, current, weight>>

(* One turn of the loop in select_host_with_weight_round_robin(): the next   *)
(* host, and before the first one a lower weight.  A weight of zero after    *)
(* the wrap means -1, for which the caller takes host 0.                     *)
NextHost == (current + 1) % N
Lowered == IF weight - MaxGcd <= 0 THEN MaxWeight ELSE weight - MaxGcd
NextWeight == IF NextHost = 0 THEN Lowered ELSE weight
RoundBegins == NextHost = 0 /\ weight - MaxGcd <= 0

(* Mutant: > for >=. *)
PickHeavier ==
  /\ Picking("WRR")
  /\ current' = NextHost /\ weight' = NextWeight
  /\ LET counted == IF RoundBegins THEN [h \in Hosts |-> 0] ELSE picks
     IN  IF W(NextHost) > NextWeight \/ MaxWeight = 0
           THEN /\ chosen' = NextHost /\ request' = "test"
                /\ picks' = [counted EXCEPT ![NextHost] = @ + 1]
           ELSE picks' = counted /\ UNCHANGED <<chosen, request>>
  /\ UNCHANGED index

PickWRR ==
  /\ Picking("WRR")
  /\ current' = NextHost /\ weight' = NextWeight
  /\ LET counted == IF RoundBegins THEN [h \in Hosts |-> 0] ELSE picks
     IN  IF W(NextHost) >= NextWeight
           THEN /\ chosen' = NextHost /\ request' = "test"
                /\ picks' = [counted EXCEPT ![NextHost] = @ + 1]
           ELSE picks' = counted /\ UNCHANGED <<chosen, request>>
  /\ UNCHANGED index

(* while (!is_alive() && ++cnt <= size() * 2) *)
TestAlive ==
  /\ request = "test"
  /\ cnt' = IF alive[chosen] THEN cnt ELSE cnt + 1
  /\ request' = IF ~alive[chosen] /\ cnt + 1 <= 2 * N THEN "pick" ELSE "send"
  /\ UNCHANGED <<pools, alive, failures, index, current, weight, chosen, picks, sent>>

Send ==
  /\ request = "send"
  /\ request' = "none"
  /\ UNCHANGED <<pools, alive, failures, index, current, weight, cnt, chosen, picks, sent>>

Ask(t) == FindPool(t) \/ MakePool(t) \/ EmplacePool(t) \/ ReadPool(t)

Next ==
  \/ \E t \in Threads : Ask(t)
  \/ \E h \in Hosts : AliveChanges(h)
  \/ SendRequest \/ PickRR \/ PickRandom \/ PickWRR \/ TestAlive \/ Send

Spec == Init /\ [][Next]_vars
-----------------------------------------------------------------------------
(* All balancers have the same pool for a host, whoever asked first, and so  *)
(* the same view of whether it is alive.                                     *)
OnePoolPerHost ==
  \A t, u \in Threads : \A i \in DOMAIN got[t] \cap DOMAIN got[u] :
    got[t][i] = got[u][i] /\ got[t][i] # 0

(* From one turn of the highest weight to the next, each host is taken as    *)
(* often as its weight says, whatever the requests made of dead pools.       *)
WeightsRespected ==
  [][request = "pick" /\ algorithm = "WRR" /\ RoundBegins /\ weight # 0 =>
       (request' # "none" => \A h \in Hosts : picks[h] * MaxGcd = W(h))]_vars
=============================================================================
