---------------------------- MODULE EpollSocket ----------------------------
(***************************************************************************)
(* A socket of coro_apps/coro_epoll: the coroutines that call connect(),   *)
(* send(), recv() or accept() of HookSysCall.hpp on it, SocketAwaiter and  *)
(* Socket, and the loop of IoContext::run().  A coroutine that would block *)
(* saves its handle in the socket, adds the socket to the epoll set and is *)
(* suspended; the loop takes the socket out of the set and schedules the   *)
(* handle, and the coroutine makes its system call again.                  *)
(*                                                                         *)
(* The kernel keeps what the connection is ready for and whether epoll has *)
(* the socket.  That the default events are edge-triggered makes no        *)
(* difference: every wait adds the socket anew, which reports what is      *)
(* ready already.  The spin lock of a socket makes attach2IoContext(),     *)
(* addEvents() and removeEvents() one step each.  The executor runs what   *)
(* it is given.                                                            *)
(***************************************************************************)
EXTENDS FiniteSets

CONSTANTS Usages,        \* which calls are made on the socket, at most one of each at a time
          ListenChoices  \* the listen_events of the constructor, of {"in", "out"}

VARIABLES usage,      \* one of Usages
          listen,     \* listen_events_
          h,          \* h_
          open,       \* fd_ # -1
          registered, \* whether epoll has the socket
          ready,      \* what the connection is ready for: "in", "out", and "err" when broken
          place,      \* where each call is
          scheduled,  \* the handles that wait in the executor
          loop        \* where IoContext::run() is

vars == <<usage, listen, h, open, registered, ready, place, scheduled, loop>>

Nobody == "nobody"

Init ==
  /\ usage \in Usages
  /\ listen \in ListenChoices
  /\ h = Nobody
  /\ open = TRUE
  /\ registered = FALSE
  /\ ready = {}
  /\ place = [u \in usage |-> "idle"]
  /\ scheduled = {}
  /\ loop = "wait"

-----------------------------------------------------------------------------
(* The system calls.  accept() needs what recv() needs but adds EPOLLOUT.    *)
Needs(u) == IF u \in {"recv", "accept"} THEN "in" ELSE "out"
Adds(u)  == IF u = "recv" THEN "in" ELSE "out"

Goto(u, where) == place' = [place EXCEPT ![u] = where]

Call(u) ==
  /\ place[u] = "idle"
  /\ Goto(u, "trying")
  /\ UNCHANGED <<usage, listen, h, open, registered, ready, scheduled, loop>>

(* A call that has its data, or an error, returns; it may use up the data.   *)
Returns(u) ==
  /\ place[u] = "trying"
  /\ ~open \/ {Needs(u), "err"} \intersect ready # {}
  /\ Goto(u, "idle")
  /\ ready' \in {ready, ready \ {Needs(u)}}
  /\ UNCHANGED <<usage, listen, h, open, registered, scheduled, loop>>

WouldBlock(u) ==
  /\ place[u] = "trying"
  /\ open /\ {Needs(u), "err"} \intersect ready = {}
  /\ Goto(u, "adding")
  /\ UNCHANGED <<usage, listen, h, open, registered, ready, scheduled, loop>>

(* addEvents() is sure of events that it finds in listen_events_.  Others it *)
(* adds there and then fails to modify in the epoll set, where the socket is *)
(* not while nobody waits: the errno that it leaves ends the loop of the     *)
(* call, which returns -1.                                                   *)
AddEvents(u) ==
  /\ place[u] = "adding"
  /\ listen' = listen \union {Adds(u)}
  /\ Goto(u, IF Adds(u) \in listen \/ registered THEN "waiting" ELSE "idle")
  /\ UNCHANGED <<usage, h, open, registered, ready, scheduled, loop>>

(* Between two calls the program may be no longer interested. *)
RemoveEvents(e) ==
  /\ \A u \in usage : place[u] = "idle"
  /\ e \in listen
  /\ listen' = listen \ {e}
  /\ UNCHANGED <<usage, h, open, registered, ready, place, scheduled, loop>>

-----------------------------------------------------------------------------
(* SocketAwaiter::await_suspend() *)

(* Mutant: the handle is not saved. *)
SaveNothing(u) ==
  /\ place[u] = "waiting"
  /\ Goto(u, "attaching")
  /\ UNCHANGED <<usage, listen, h, open, registered, ready, scheduled, loop>>

SaveHandle(u) ==
  /\ place[u] = "waiting"
  /\ h' = u
  /\ Goto(u, "attaching")
  /\ UNCHANGED <<usage, listen, open, registered, ready, scheduled, loop>>

(* When epoll has the socket already, or it is closed, EPOLL_CTL_ADD fails   *)
(* and the coroutine goes on at once.                                        *)
Attach(u) ==
  /\ place[u] = "attaching"
  /\ registered' = open
  /\ Goto(u, IF open /\ ~registered THEN "suspended" ELSE "trying")
  /\ UNCHANGED <<usage, listen, h, open, ready, scheduled, loop>>

Resume(u) ==
  /\ u \in scheduled
  /\ scheduled' = scheduled \ {u}
  /\ Goto(u, "trying")
  /\ UNCHANGED <<usage, listen, h, open, registered, ready, loop>>

-----------------------------------------------------------------------------
(* IoContext::run() *)

TakeEvent ==
  /\ loop = "wait"
  /\ registered
  /\ (listen \union {"err"}) \intersect ready # {}
  /\ loop' = IF "err" \in ready THEN "close" ELSE "delete"
  /\ UNCHANGED <<usage, listen, h, open, registered, ready, place, scheduled>>

Close ==
  /\ loop = "close"
  /\ open' = FALSE
  /\ registered' = FALSE
  /\ loop' = "schedule"
  /\ UNCHANGED <<usage, listen, h, ready, place, scheduled>>

Delete ==
  /\ loop = "delete"
  /\ registered' = FALSE
  /\ loop' = "schedule"
  /\ UNCHANGED <<usage, listen, h, open, ready, place, scheduled>>

Schedule ==
  /\ loop = "schedule"
  /\ scheduled' = scheduled \union {h}
  /\ loop' = "wait"
  /\ UNCHANGED <<usage, listen, h, open, registered, ready, place>>

-----------------------------------------------------------------------------
(* The connection *)

BecomeReady(e) ==
  /\ e \notin ready
  /\ ready' = ready \union {e}
  /\ UNCHANGED <<usage, listen, h, open, registered, place, scheduled, loop>>

-----------------------------------------------------------------------------
Run(u) ==
  \/ Returns(u) \/ WouldBlock(u) \/ AddEvents(u)
  \/ SaveHandle(u) \/ Attach(u) \/ Resume(u)

EventLoop == TakeEvent \/ Close \/ Delete \/ Schedule

Next ==
  \/ \E u \in usage : Call(u) \/ Run(u)
  \/ \E e \in {"in", "out"} : RemoveEvents(e)
  \/ \E e \in {"in", "out", "err"} : BecomeReady(e)
  \/ EventLoop

(* Coroutines and the loop go on when they can.  Nothing makes the other     *)
(* side of the connection do anything.                                       *)
Fairness ==
  /\ \A u \in UNION Usages : WF_vars(u \in usage /\ Run(u))
  /\ WF_vars(EventLoop)

Spec == Init /\ [][Next]_vars /\ Fairness
-----------------------------------------------------------------------------
(* Properties.  The handle that the loop is about to schedule belongs to a   *)
(* coroutine that is suspended and that nobody has scheduled yet: neither is *)
(* a running coroutine resumed, nor another one forgotten.                   *)
ResumesASuspended ==
  loop = "schedule" => h \in usage /\ place[h] = "suspended" /\ h \notin scheduled

(* A call for which there are data, or an error, and that listens for it,    *)
(* returns (with one call at a time).                                        *)
CanGoOn(u) == ready \intersect ((listen \intersect {Needs(u)}) \union {"err"}) # {}
CallReturns ==
  (\E u \in usage : place[u] # "idle" /\ CanGoOn(u)) ~> (\A u \in usage : place[u] = "idle")
=============================================================================
