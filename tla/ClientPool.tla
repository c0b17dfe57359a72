----------------------------- MODULE ClientPool -----------------------------
(***************************************************************************)
(* coro_io::client_pool, client_pool.hpp: requests that take an idle       *)
(* client or connect a new one, with retries, and the coroutine            *)
(* alive_detect() that goes on connecting in the background when a host    *)
(* did not answer.  is_alive_ tells load_blancer which pools to avoid.     *)
(*                                                                         *)
(* The idle clients are their number (ClientQueue has what is inside); the *)
(* client's connect() is external and succeeds while the host is up.  A    *)
(* request's caller keeps the pool; a detector only has a weak pointer     *)
(* while it sleeps.                                                        *)
(***************************************************************************)
EXTENDS Naturals

CONSTANTS Requests,    \* requests that may be under way together
          Detectors,   \* identities of alive_detect() coroutines
          RetryCount,  \* connect_retry_count
          MaxRequests  \* bound on the requests of a run

VARIABLES host,      \* "up" or "down"
          idle,      \* free_client_count()
          isAlive,   \* is_alive_
          pool,      \* "owned", "orphaned" (kept by a detector) or "gone"
          request,   \* where each request is, and its count of attempts
          detector,  \* where each alive_detect() is
          started,   \* how many requests there were
          stuck      \* a detector could not initialise its client

vars == <<host, idle, isAlive, pool, request, detector, started, stuck>>

Ready == [at |-> "ready", tried |-> 0]
Init ==
  /\ host \in {"up", "down"}
  /\ idle = 0
  /\ isAlive = TRUE
  /\ pool = "owned"
  /\ request = [r \in Requests |-> Ready]
  /\ detector = [d \in Detectors |-> "none"]
  /\ started = 0
  /\ stuck = FALSE

(* The environment: the host comes and goes, and idle clients time out.      *)
HostChanges ==
  /\ host' \in {"up", "down"} \ {host}
  /\ UNCHANGED <<idle, isAlive, pool, request, detector, started, stuck>>

IdleTimeout ==
  /\ idle > 0 /\ idle' = idle - 1
  /\ UNCHANGED <<host, isAlive, pool, request, detector, started, stuck>>

-----------------------------------------------------------------------------
Request(r, from, to, tried) ==
  /\ request[r].at = from
  /\ request' = [request EXCEPT ![r] = [at |-> to, tried |-> tried]]

(* send_request(), get_client(): an idle client, or a new one to connect,    *)
(* unless init_config() fails.                                               *)
GetClient(r) ==
  /\ pool = "owned" /\ started < MaxRequests
  /\ started' = started + 1
  /\ IF idle > 0 THEN idle' = idle - 1 /\ Request(r, "ready", "using", 0)
                 ELSE /\ UNCHANGED idle
                      /\ \E at \in {"connecting", "refused"} : Request(r, "ready", at, 0)
  /\ UNCHANGED <<host, isAlive, pool, detector, stuck>>

(* reconnect(): once, and then connect_retry_count times more, with a sleep  *)
(* in between; then the background detection is started and the client is    *)
(* given up.                                                                 *)
Reconnect(r) ==
  /\ IF host = "up" THEN Request(r, "connecting", "using", 0)
     ELSE IF request[r].tried < RetryCount
            THEN Request(r, "connecting", "connecting", request[r].tried + 1)
            ELSE Request(r, "connecting", "detecting", 0)
  /\ UNCHANGED <<host, idle, isAlive, pool, detector, started, stuck>>

(* alive_detect() runs at once in the thread of the request.                 *)
StartDetector(r) ==
  /\ Request(r, "detecting", "refused", 0)
  /\ \E d \in Detectors : detector[d] = "none" /\ detector' = [detector EXCEPT ![d] = "test"]
  /\ UNCHANGED <<host, idle, isAlive, pool, started, stuck>>

(* The operation is over, and collect_free_client() takes the client back,   *)
(* unless it was closed; is_alive_ is set after the client is in the queue.  *)
CollectFree(r) ==
  /\ \/ Request(r, "using", "collected", 0) /\ idle' = idle + 1
     \/ Request(r, "using", "ready", 0) /\ UNCHANGED idle
  /\ UNCHANGED <<host, isAlive, pool, detector, started, stuck>>

MarkAlive(r) ==
  /\ Request(r, "collected", "ready", 0)
  /\ isAlive' = TRUE
  /\ UNCHANGED <<host, idle, pool, detector, started, stuck>>

Refuse(r) ==   \* connection_refused
  /\ Request(r, "refused", "ready", 0)
  /\ UNCHANGED <<host, idle, isAlive, pool, detector, started, stuck>>

-----------------------------------------------------------------------------
(* alive_detect() *)

Detector(d, from, to) == detector[d] = from /\ detector' = [detector EXCEPT ![d] = to]

TestFree(d) ==
  /\ Detector(d, "test", IF idle = 0 THEN "claim" ELSE "none")
  /\ UNCHANGED <<host, idle, isAlive, pool, request, started, stuck>>

(* The compare-exchange of is_alive_: who fails leaves it to another.        *)
ClaimDead(d) ==
  /\ Detector(d, "claim", IF isAlive THEN "recheck" ELSE "none")
  /\ isAlive' = FALSE
  /\ UNCHANGED <<host, idle, pool, request, started, stuck>>

(* Mutant: is_alive_ is not set back. *)
RecheckAndLeave(d) ==
  /\ IF idle > 0 THEN Detector(d, "recheck", "none")
     ELSE Detector(d, "recheck", "connecting")
  /\ UNCHANGED <<host, idle, isAlive, pool, request, started, stuck>>

(* The free clients are counted again.  When init_config() fails, nobody     *)
(* goes on and is_alive_ stays as it is.                                     *)
Recheck(d) ==
  /\ IF idle > 0
       THEN Detector(d, "recheck", "none") /\ isAlive' = TRUE /\ UNCHANGED stuck
       ELSE /\ UNCHANGED isAlive
            /\ \/ Detector(d, "recheck", "connecting") /\ UNCHANGED stuck
               \/ Detector(d, "recheck", "none") /\ stuck' = TRUE
  /\ UNCHANGED <<host, idle, pool, request, started>>

Connect(d) ==
  /\ Detector(d, "connecting", IF host = "up" THEN "connected" ELSE "not connected")
  /\ UNCHANGED <<host, idle, isAlive, pool, request, started, stuck>>

(* collect_free_client() by the detector, of a client that may have been     *)
(* closed again; then is_alive_ in any case.                                 *)
CollectConnected(d) ==
  /\ Detector(d, "connected", "mark alive")
  /\ idle' \in {idle, idle + 1}
  /\ UNCHANGED <<host, isAlive, pool, request, started, stuck>>

DetectedAlive(d) ==
  /\ Detector(d, "mark alive", "none")
  /\ isAlive' = TRUE
  /\ UNCHANGED <<host, idle, pool, request, started, stuck>>

(* Somebody else found the host alive; else the pool is let go and the       *)
(* detector sleeps.                                                          *)
SleepUnlessAlive(d) ==
  /\ Detector(d, "not connected", IF isAlive THEN "none" ELSE "sleeping")
  /\ UNCHANGED <<host, idle, isAlive, pool, request, started, stuck>>

(* It locks the pointer and uses what it gets without a test.                *)
WakeUp(d) ==
  /\ Detector(d, "sleeping", IF pool = "gone" THEN "null pointer"
                             ELSE IF isAlive THEN "none" ELSE "connecting")
  /\ UNCHANGED <<host, idle, isAlive, pool, request, started, stuck>>

-----------------------------------------------------------------------------
(* The owner drops the pool, whose last reference a detector may hold.       *)
Holds(d) == detector[d] \notin {"none", "sleeping", "null pointer"}
DropPool ==
  /\ pool = "owned" /\ \A r \in Requests : request[r] = Ready
  /\ pool' = "orphaned"
  /\ UNCHANGED <<host, idle, isAlive, request, detector, started, stuck>>

Destroy ==
  /\ pool = "orphaned" /\ \A d \in Detectors : ~Holds(d)
  /\ pool' = "gone" /\ idle' = 0
  /\ UNCHANGED <<host, isAlive, request, detector, started, stuck>>

Serve(r) == Reconnect(r) \/ StartDetector(r) \/ CollectFree(r) \/ MarkAlive(r) \/ Refuse(r)

Detect(d) == \/ TestFree(d) \/ ClaimDead(d) \/ Recheck(d) \/ Connect(d) \/ CollectConnected(d)
             \/ DetectedAlive(d) \/ SleepUnlessAlive(d) \/ WakeUp(d)

(* Nothing follows the use of a null pointer. *)
Crashed == \E d \in Detectors : detector[d] = "null pointer"

Next ==
  /\ ~Crashed
  /\ \/ HostChanges \/ IdleTimeout \/ DropPool \/ Destroy
     \/ \E r \in Requests : GetClient(r) \/ Serve(r)
     \/ \E d \in Detectors : Detect(d)

Spec == Init /\ [][Next]_vars

(* Connecting comes to an end, timers fire and coroutines are resumed.       *)
Fairness ==
  /\ \A r \in Requests : WF_vars(~Crashed /\ Serve(r))
  /\ \A d \in Detectors : WF_vars(~Crashed /\ Detect(d))
-----------------------------------------------------------------------------
(* When the host stays up, the pool is marked as alive and stays so, however *)
(* requests and detectors overlapped: a load_blancer that avoids the pool    *)
(* starts no detector, so one must be left that goes on.  Not so when        *)
(* init_config() failed in a detector.                                       *)
HostComesBack ==
  <>[](host = "up") => <>[](isAlive \/ stuck \/ pool = "gone")
=============================================================================
