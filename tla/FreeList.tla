------------------------------ MODULE FreeList ------------------------------
(***************************************************************************)
(* The lock-free list of spare blocks of ConcurrentQueue                   *)
(* (util/concurrentqueue.h): a stack whose nodes carry a reference count,  *)
(* so that a head that was popped and pushed again between a load and a    *)
(* compare-exchange (ABA) cannot be confused with the head that was read.  *)
(* The list itself holds one reference.  Whoever adds a node while others  *)
(* still hold references leaves the flag SHOULD_BE_ON_FREELIST behind, and *)
(* the last of them does the adding.                                       *)
(*                                                                         *)
(* An action is one atomic access; accesses take effect in one order.      *)
(***************************************************************************)
EXTENDS Naturals, FiniteSets

CONSTANTS Threads, Nodes

Null == "null"

FreeListAssumption == IsFiniteSet(Threads) /\ Null \notin Nodes

VARIABLES freeListHead, \* the first node of the list, or Null
          freeListRefs, \* per node: the flag, and the count in the other 31 bits
          freeListNext, \* per node: the node behind it
          has,          \* per thread: the nodes it has taken and may add
          at,           \* per thread: its next access
          node,         \* per thread: the node it works on
          seen,         \* per thread: what it has loaded, a node or a word
          back          \* per thread: the head with which try_get() goes on

vars == <<freeListHead, freeListRefs, freeListNext, has, at, node, seen, back>>

Refs(flag, n) == [flag |-> flag, n |-> n]
NoRefs == Refs(FALSE, 0)

(* At first the blocks come from the initial pool: somebody has them all.    *)
Init ==
  /\ freeListHead = Null
  /\ freeListRefs = [n \in Nodes |-> NoRefs]
  /\ freeListNext = [n \in Nodes |-> Null]
  /\ \E t \in Threads : has = [u \in Threads |-> IF u = t THEN Nodes ELSE {}]
  /\ at = [t \in Threads |-> "idle"]
  /\ node = [t \in Threads |-> Null]
  /\ seen = [t \in Threads |-> Null]
  /\ back = [t \in Threads |-> Null]

Goes(t, from, to) == at[t] = from /\ at' = [at EXCEPT ![t] = to]
Local == <<node, seen, back>>

(* The loop of try_get() goes on with the head h, and ends at Null.          *)
Loop(t, h) ==
  /\ at' = [at EXCEPT ![t] = IF h = Null THEN "idle" ELSE "loadRefs"]
  /\ node' = [node EXCEPT ![t] = h]
  /\ seen' = [seen EXCEPT ![t] = Null]
  /\ back' = [back EXCEPT ![t] = Null]

-----------------------------------------------------------------------------
(* add(): set the flag; if nobody has a reference, do the adding.            *)
Add(t, n) ==
  /\ at[t] = "idle" /\ n \in has[t]
  /\ has' = [has EXCEPT ![t] = @ \ {n}]
  /\ freeListRefs' = [freeListRefs EXCEPT ![n].flag = TRUE]
  /\ IF freeListRefs[n] = NoRefs
     THEN /\ at' = [at EXCEPT ![t] = "loadHeadToAdd"]
          /\ node' = [node EXCEPT ![t] = n]
          /\ back' = [back EXCEPT ![t] = Null]
     ELSE UNCHANGED <<at, node, back>>
  /\ UNCHANGED <<freeListHead, freeListNext, seen>>

LoadHeadToAdd(t) ==
  /\ Goes(t, "loadHeadToAdd", "setNext")
  /\ seen' = [seen EXCEPT ![t] = freeListHead]
  /\ UNCHANGED <<freeListHead, freeListRefs, freeListNext, has, node, back>>

SetNext(t) ==
  /\ Goes(t, "setNext", "setRefs")
  /\ freeListNext' = [freeListNext EXCEPT ![node[t]] = seen[t]]
  /\ UNCHANGED <<freeListHead, freeListRefs, has, Local>>

(* From here on others can take a reference.                                 *)
SetRefs(t) ==
  /\ Goes(t, "setRefs", "push")
  /\ freeListRefs' = [freeListRefs EXCEPT ![node[t]] = Refs(FALSE, 1)]
  /\ UNCHANGED <<freeListHead, freeListNext, has, Local>>

(* After the adding: the end of add(), or the loop of try_get().             *)
Push(t) ==
  /\ at[t] = "push"
  /\ IF freeListHead = seen[t]
     THEN freeListHead' = node[t] /\ Loop(t, back[t])
     ELSE /\ seen' = [seen EXCEPT ![t] = freeListHead]
          /\ at' = [at EXCEPT ![t] = "retreat"]
          /\ UNCHANGED <<freeListHead, node, back>>
  /\ UNCHANGED <<freeListRefs, freeListNext, has>>

(* Mutant: the flag is left, but nobody looks at it again. *)
RetreatForGood(t) ==
  /\ at[t] = "retreat"
  /\ freeListRefs' = [freeListRefs EXCEPT ![node[t]] = Refs(TRUE, @.n - 1)]
  /\ Loop(t, back[t])
  /\ UNCHANGED <<freeListHead, freeListNext, has>>

(* The push failed: give the list's reference back and leave the flag.  Who  *)
(* holds the last reference tries again, which may be this thread.           *)
Retreat(t) ==
  LET n == node[t] IN
  /\ at[t] = "retreat"
  /\ freeListRefs' = [freeListRefs EXCEPT ![n] = Refs(TRUE, @.n - 1)]
  /\ IF freeListRefs[n].n = 1
     THEN at' = [at EXCEPT ![t] = "setNext"] /\ UNCHANGED Local
     ELSE Loop(t, back[t])
  /\ UNCHANGED <<freeListHead, freeListNext, has>>

-----------------------------------------------------------------------------
(* try_get() *)
LoadHead(t) ==
  /\ at[t] \in {"idle", "loadHead"}
  /\ Loop(t, freeListHead)
  /\ UNCHANGED <<freeListHead, freeListRefs, freeListNext, has>>

Reload(t) ==
  /\ at' = [at EXCEPT ![t] = "loadHead"]
  /\ node' = [node EXCEPT ![t] = Null]
  /\ seen' = [seen EXCEPT ![t] = Null]
  /\ UNCHANGED back

(* A node without references has left the list. *)
LoadRefs(t) ==
  LET refs == freeListRefs[node[t]] IN
  /\ at[t] = "loadRefs"
  /\ IF refs.n = 0
     THEN Reload(t)
     ELSE /\ seen' = [seen EXCEPT ![t] = refs]
          /\ at' = [at EXCEPT ![t] = "takeReference"]
          /\ UNCHANGED <<node, back>>
  /\ UNCHANGED <<freeListHead, freeListRefs, freeListNext, has>>

TakeReference(t) ==
  LET n == node[t] IN
  /\ at[t] = "takeReference"
  /\ IF freeListRefs[n] = seen[t]
     THEN /\ freeListRefs' = [freeListRefs EXCEPT ![n].n = @ + 1]
          /\ at' = [at EXCEPT ![t] = "loadNext"]
          /\ seen' = [seen EXCEPT ![t] = Null]
          /\ UNCHANGED <<node, back>>
     ELSE Reload(t) /\ UNCHANGED freeListRefs
  /\ UNCHANGED <<freeListHead, freeListNext, has>>

LoadNext(t) ==
  /\ Goes(t, "loadNext", "pop")
  /\ seen' = [seen EXCEPT ![t] = freeListNext[node[t]]]
  /\ UNCHANGED <<freeListHead, freeListRefs, freeListNext, has, node, back>>

(* On failure the compare-exchange stores the head it has found.             *)
Pop(t) ==
  /\ at[t] = "pop"
  /\ IF freeListHead = node[t]
     THEN /\ freeListHead' = seen[t]
          /\ at' = [at EXCEPT ![t] = "settle"]
          /\ UNCHANGED back
     ELSE /\ back' = [back EXCEPT ![t] = freeListHead]
          /\ at' = [at EXCEPT ![t] = "letGo"]
          /\ UNCHANGED freeListHead
  /\ seen' = [seen EXCEPT ![t] = Null]
  /\ UNCHANGED <<freeListRefs, freeListNext, has, node>>

(* The reference of this thread and that of the list are given back.         *)
Settle(t) ==
  LET n == node[t] IN
  /\ at[t] = "settle"
  /\ freeListRefs' = [freeListRefs EXCEPT ![n].n = @ - 2]
  /\ has' = [has EXCEPT ![t] = @ \union {n}]
  /\ Loop(t, Null)
  /\ UNCHANGED <<freeListHead, freeListNext>>

(* The last reference to a node that should be on the list: add it.          *)
LetGo(t) ==
  LET n == node[t] IN
  /\ at[t] = "letGo"
  /\ freeListRefs' = [freeListRefs EXCEPT ![n].n = @ - 1]
  /\ IF freeListRefs[n] = Refs(TRUE, 1)
     THEN at' = [at EXCEPT ![t] = "loadHeadToAdd"] /\ UNCHANGED Local
     ELSE Loop(t, back[t])
  /\ UNCHANGED <<freeListHead, freeListNext, has>>

AddStep(t) ==
  \/ \E n \in Nodes : Add(t, n)
  \/ LoadHeadToAdd(t) \/ SetNext(t) \/ SetRefs(t) \/ Push(t) \/ Retreat(t)

TryGet(t) ==
  \/ LoadHead(t) \/ LoadRefs(t) \/ TakeReference(t) \/ LoadNext(t)
  \/ Pop(t) \/ Settle(t) \/ LetGo(t)

Next == \E t \in Threads : AddStep(t) \/ TryGet(t)

Spec == Init /\ [][Next]_vars

-----------------------------------------------------------------------------
(* The nodes that a walk from the head meets: those in every set that has    *)
(* the head and, with a node, the next one.                                  *)
Listed ==
  {n \in Nodes :
     \A S \in SUBSET Nodes :
       freeListHead \in S \union {Null} /\ (\A m \in S : freeListNext[m] \in S \union {Null})
         => n \in S}

(* A node that one thread has is neither in the list nor had by another, the *)
(* assertion of try_get() holds, and when nobody is in the middle of a call  *)
(* the list holds every other node, with the list's reference only: a node   *)
(* is neither given out twice nor lost, however calls overlap.               *)
NoNodeTwiceOrLost ==
  /\ \A t \in Threads :
       /\ has[t] \cap Listed = {}
       /\ \A u \in Threads \ {t} : has[t] \cap has[u] = {}
       /\ at[t] = "settle" => ~freeListRefs[node[t]].flag
  /\ (\A t \in Threads : at[t] = "idle") =>
       /\ Listed = Nodes \ UNION {has[t] : t \in Threads}
       /\ \A n \in Nodes : freeListRefs[n] = IF n \in Listed THEN Refs(FALSE, 1) ELSE NoRefs
=============================================================================
