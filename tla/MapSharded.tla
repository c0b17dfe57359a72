----------------------------- MODULE MapSharded -----------------------------
(***************************************************************************)
(* map_sharded_t, util/map_sharded.hpp: a map in shards, each under its    *)
(* own lock, with one counter of all elements that every call adjusts when *)
(* it has let the lock go.  erase_if(), copy() and for_each() go through   *)
(* the shards one by one.                                                  *)
(***************************************************************************)
EXTENDS Integers, FiniteSets

CONSTANTS Callers,    \* threads
          Keys,       \* numbers, whose hash is the number itself
          ShardNum,   \* shards
          MaxCalls    \* bound on the calls of all threads

VARIABLES map,       \* the keys in the map
          count,     \* size_, a signed number
          caller,    \* what each thread does, at which shard, and what it owes size_
          copied,    \* what the copy() of each thread has collected
          stayed,    \* the keys that were in the map since the copy() began
          calls

vars == <<map, count, caller, copied, stayed, calls>>

MapAssumption ==
  /\ IsFiniteSet(Callers)
  /\ IsFiniteSet(Keys) /\ Keys \subseteq Nat
  /\ ShardNum \in Nat \ {0}

Shards == 0..(ShardNum - 1)
Shard(i) == {k \in Keys : k % ShardNum = i}
Idle == [op |-> "idle", shard |-> 0, keys |-> {}, owes |-> 0]

Init ==
  /\ map = {} /\ count = 0
  /\ caller = [t \in Callers |-> Idle]
  /\ copied = [t \in Callers |-> {}] /\ stayed = [t \in Callers |-> {}]
  /\ calls = 0

(* Mutant: the counter is not adjusted. *)
OweNothing(t, state, n) == caller' = [caller EXCEPT ![t] = state]

(* A result that is not zero is added to size_ in a step of its own.         *)
Owe(t, state, n) == caller' = [caller EXCEPT ![t] = [state EXCEPT !.owes = n]]

(* A key that is erased has not stayed, for any copy() under way. *)
SetMap(new) ==
  /\ map' = new
  /\ stayed' = [t \in Callers |-> stayed[t] \cap new]

(* The calls on one key, with its shard locked: try_emplace() and erase().   *)
TryEmplace(t, k) ==
  /\ caller[t] = Idle /\ k \notin map
  /\ SetMap(map \union {k})
  /\ Owe(t, [Idle EXCEPT !.op = "one"], 1)
  /\ UNCHANGED <<count, copied>>

Erase(t, k) ==
  /\ caller[t] = Idle /\ k \in map
  /\ SetMap(map \ {k})
  /\ Owe(t, [Idle EXCEPT !.op = "one"], -1)
  /\ UNCHANGED <<count, copied>>

(* erase_if() and erase_one() with a predicate, copy() of all keys; they     *)
(* begin with the first shard.                                               *)
Begin(t, op, keys) ==
  /\ caller[t] = Idle
  /\ caller' = [caller EXCEPT ![t] = [op |-> op, shard |-> 0, keys |-> keys, owes |-> 0]]
  /\ copied' = [copied EXCEPT ![t] = {}]
  /\ stayed' = [stayed EXCEPT ![t] = map]
  /\ UNCHANGED <<map, count>>

AtShard(t, op) == caller[t].op = op /\ caller[t].owes = 0 /\ caller[t].shard \in Shards

(* erase_one() goes no further than the first shard where it found some.     *)
EraseIf(t) ==
  \E op \in {"erase_if", "erase_one"} :
    /\ AtShard(t, op)
    /\ LET found == Shard(caller[t].shard) \cap map \cap caller[t].keys
           next  == IF op = "erase_one" /\ found # {} THEN ShardNum ELSE caller[t].shard + 1
       IN  /\ SetMap(map \ found)
           /\ Owe(t, [caller[t] EXCEPT !.shard = next], -Cardinality(found))
    /\ UNCHANGED <<count, copied, calls>>

CopyShard(t) ==
  /\ AtShard(t, "copy")
  /\ copied' = [copied EXCEPT ![t] = @ \union (map \cap Shard(caller[t].shard))]
  /\ caller' = [caller EXCEPT ![t].shard = @ + 1]
  /\ UNCHANGED <<map, count, stayed, calls>>

AdjustSize(t) ==
  /\ caller[t].owes # 0
  /\ count' = count + caller[t].owes
  /\ caller' = [caller EXCEPT ![t].owes = 0]
  /\ UNCHANGED <<map, copied, stayed, calls>>

Return(t) ==
  /\ caller[t].op = "one" \/ caller[t].shard = ShardNum
  /\ caller[t].owes = 0
  /\ caller' = [caller EXCEPT ![t] = Idle]
  /\ copied' = [copied EXCEPT ![t] = {}] /\ stayed' = [stayed EXCEPT ![t] = {}]
  /\ UNCHANGED <<map, count, calls>>

Call(t) ==
  /\ calls < MaxCalls /\ calls' = calls + 1
  /\ \/ \E k \in Keys : TryEmplace(t, k) \/ Erase(t, k)
     \/ \E keys \in SUBSET Keys : Begin(t, "erase_if", keys) \/ Begin(t, "erase_one", keys)
     \/ Begin(t, "copy", Keys)

Next == \E t \in Callers : Call(t) \/ EraseIf(t) \/ CopyShard(t) \/ AdjustSize(t) \/ Return(t)

Spec == Init /\ [][Next]_vars

(* size(), which takes a negative counter for zero. *)
size == IF count < 0 THEN 0 ELSE count
-----------------------------------------------------------------------------
(* size() may be off while calls are under way, in both directions, and is   *)
(* right when they have returned; a copy() has every key that was there from *)
(* its beginning to its end.                                                 *)
SizeAndCopiesAreRight ==
  /\ (\A t \in Callers : caller[t].owes = 0) => size = Cardinality(map)
  /\ \A t \in Callers :
       caller[t].op = "copy" /\ caller[t].shard = ShardNum => stayed[t] \subseteq copied[t]
=============================================================================
