---------------------------- MODULE ProducerHash ----------------------------
(***************************************************************************)
(* How a thread that uses a ConcurrentQueue without a token comes by its   *)
(* ImplicitProducer (util/concurrentqueue.h): a hash table from thread ids *)
(* to producers that is replaced by a larger one under the feet of its     *)
(* users, the list of producers in which those of exited threads wait to   *)
(* be taken up again, and the clean-up when a thread exits.                *)
(*                                                                         *)
(* A thread that exits is followed by one with the same id: ids are        *)
(* addresses and come again.  An action is one access to an atomic, except *)
(* that a thread finds its own id in a table in one step, since nobody     *)
(* else writes or removes that id.                                         *)
(***************************************************************************)
EXTENDS Naturals, Sequences, FiniteSets

CONSTANTS Threads, \* the ids of threads
          Hash,    \* hash_thread_id()
          Size,    \* INITIAL_IMPLICIT_PRODUCER_HASH_SIZE, a power of two
          MaxEnds  \* bound: how many threads exit or calls fail

Null == 0                         \* no producer: they are numbered from one
Empty == "invalid_thread_id"      \* a slot that was never used
Reusable == "invalid_thread_id2"  \* the slot of a thread that has exited
Idle == [step |-> "idle"]

HashAssumption ==
  /\ Empty \notin Threads /\ Reusable \notin Threads
  /\ Hash \in [Threads -> Nat] /\ Size \in Nat \ {0}

VARIABLES tables,   \* the tables, the current one last
          count,    \* implicitProducerHashCount
          resizing, \* implicitProducerHashResizeInProgress
          inactive, \* per producer of the list, the newest last
          call,     \* per thread: its next access, with its locals
          ends,     \* how many threads have exited or calls failed
          mine      \* per thread: the producer that its calls have returned

vars == <<tables, count, resizing, inactive, call, ends, mine>>

NewTable(n) == [key |-> [k \in 0..(n - 1) |-> Empty], value |-> [k \in 0..(n - 1) |-> Null]]
Capacity(h) == Cardinality(DOMAIN tables[h].key)
Half(h) == Capacity(h) \div 2
Quarter(h) == Capacity(h) \div 4
SlotsOf(t, h) == {k \in DOMAIN tables[h].key : tables[h].key[k] = t}
Current == Len(tables)

(* populate_initial_implicit_producer_hash() *)
Init ==
  /\ tables = <<NewTable(Size)>> /\ count = 0 /\ resizing = FALSE
  /\ inactive = <<>>
  /\ call = [t \in Threads |-> Idle]
  /\ ends = 0
  /\ mine = [t \in Threads |-> Null]

Calls(t, r) == call' = [call EXCEPT ![t] = r]
Goes(t, to) == call' = [call EXCEPT ![t].step = to]
Returns(t, p) == Calls(t, Idle) /\ mine' = [mine EXCEPT ![t] = p]

-----------------------------------------------------------------------------
(* get_or_add_implicit_producer() loads the current table.  Is the thread in *)
(* it, or in one before it?  The call goes on with this table although there *)
(* may be another one meanwhile.                                             *)
GetOrAdd(t) ==
  LET found == {h \in 1..Current : SlotsOf(t, h) # {}}
      newest == CHOOSE h \in found : \A g \in found : g <= h
      value == tables[newest].value[CHOOSE k \in SlotsOf(t, newest) : TRUE]
  IN /\ call[t].step = "idle"
     /\ \/ /\ found = {}
           /\ Calls(t, [step |-> "count", main |-> Current]) /\ UNCHANGED mine
        \/ found # {} /\ newest = Current /\ Returns(t, value)
        \/ /\ found # {} /\ newest # Current
           /\ Calls(t, [step |-> "readd", main |-> Current, index |-> Hash[t],
                        producer |-> value])
           /\ UNCHANGED mine
     /\ UNCHANGED <<tables, count, resizing, inactive, ends>>

Slot(t) == call[t].index % Capacity(call[t].main)
KeyAt(t) == tables[call[t].main].key[Slot(t)]
Fill(t) ==
  LET r == call[t] IN
  tables' = [tables EXCEPT ![r.main].key[Slot(t)] = t, ![r.main].value[Slot(t)] = r.producer]
NextSlot(t) == call' = [call EXCEPT ![t].index = @ + 1]

(* The current table did not have it: it is added there.  The table is       *)
(* expected to have room, since there is one count for all of them.          *)
AddAgain(t) ==
  /\ call[t].step = "readd"
  /\ IF KeyAt(t) \in {Empty, Reusable} THEN Fill(t) /\ Returns(t, call[t].producer)
     ELSE NextSlot(t) /\ UNCHANGED <<tables, mine>>
  /\ UNCHANGED <<count, resizing, inactive, ends>>

CountUp(t) ==
  /\ call[t].step = "count"
  /\ count' = count + 1
  /\ Calls(t, [step |-> "decide", main |-> call[t].main, newCount |-> count + 1])
  /\ UNCHANGED <<tables, resizing, inactive, ends, mine>>

(* Half full: who sets the flag makes a larger table.                        *)
TryResize(t) ==
  LET r == call[t] IN
  /\ r.step = "decide" /\ r.newCount >= Half(r.main) /\ ~resizing
  /\ resizing' = TRUE
  /\ Goes(t, "resize")
  /\ UNCHANGED <<tables, count, inactive, ends, mine>>

(* The current table is loaded again, and may have become large enough.      *)
Resize(t) ==
  LET newCount == call[t].newCount
      large(n) == newCount < n \div 2
      doubled[k \in 0..newCount] == IF k = 0 THEN 2 * Capacity(Current) ELSE 2 * doubled[k - 1]
  IN /\ call[t].step = "resize"
     /\ \/ large(Capacity(Current)) /\ UNCHANGED tables
        \/ /\ ~large(Capacity(Current))
           /\ \E k \in 0..newCount :
                /\ large(doubled[k]) /\ \A j \in 0..(k - 1) : ~large(doubled[j])
                /\ tables' = Append(tables, NewTable(doubled[k]))
     /\ Calls(t, [step |-> "clear", main |-> Len(tables'), newCount |-> newCount])
     /\ UNCHANGED <<count, resizing, inactive, ends, mine>>

ClearFlag(t) ==
  /\ call[t].step = "clear"
  /\ resizing' = FALSE
  /\ Goes(t, "room")
  /\ UNCHANGED <<tables, count, inactive, ends, mine>>

NoResize(r) ==
  \/ r.step = "room"
  \/ r.step = "decide" /\ (r.newCount < Half(r.main) \/ resizing)

(* A table that is less than three quarters full can be used all the same;   *)
(* else the thread waits for the one that another thread makes.              *)
UseOrWait(t) ==
  LET r == call[t] IN
  /\ NoResize(r)
  /\ IF r.newCount < Half(r.main) + Quarter(r.main)
     THEN Calls(t, [step |-> "recycle", main |-> r.main, at |-> Len(inactive)])
     ELSE Calls(t, [r EXCEPT !.step = "decide", !.main = Current])
  /\ UNCHANGED <<tables, count, resizing, inactive, ends, mine>>

GotProducer(t, p) ==
  Calls(t, [step |-> "insert", main |-> call[t].main, index |-> Hash[t], producer |-> p])

(* recycle_or_create_producer(), from the newest producer to the oldest      *)
Recycle(t) ==
  LET p == call[t].at IN
  /\ call[t].step = "recycle" /\ p > 0
  /\ inactive' = [inactive EXCEPT ![p] = FALSE]
  /\ IF inactive[p] THEN GotProducer(t, p) ELSE call' = [call EXCEPT ![t].at = @ - 1]
  /\ UNCHANGED <<tables, count, resizing, ends, mine>>

AddProducer(t) ==
  /\ call[t].step = "recycle" /\ call[t].at = 0
  /\ inactive' = Append(inactive, FALSE)
  /\ GotProducer(t, Len(inactive'))
  /\ UNCHANGED <<tables, count, resizing, ends, mine>>

(* No memory for a table or a producer: the call returns nullptr.            *)
NoMemory(t) ==
  LET r == call[t] IN
  /\ \/ r.step = "resize" /\ r.newCount >= Half(Current) /\ resizing' = FALSE
     \/ r.step = "recycle" /\ r.at = 0 /\ UNCHANGED resizing
  /\ count' = count - 1
  /\ Calls(t, Idle)
  /\ ends < MaxEnds /\ ends' = ends + 1
  /\ UNCHANGED <<tables, inactive, mine>>

(* The slot of an exited thread is counted already.                          *)
Insert(t) ==
  /\ call[t].step = "insert"
  /\ CASE KeyAt(t) = Reusable -> Fill(t) /\ Goes(t, "uncount") /\ UNCHANGED mine
       [] KeyAt(t) = Empty    -> Fill(t) /\ Returns(t, call[t].producer)
       [] OTHER               -> NextSlot(t) /\ UNCHANGED <<tables, mine>>
  /\ UNCHANGED <<count, resizing, inactive, ends>>

Uncount(t) ==
  /\ call[t].step = "uncount"
  /\ count' = count - 1
  /\ Returns(t, call[t].producer)
  /\ UNCHANGED <<tables, resizing, inactive, ends>>

-----------------------------------------------------------------------------
(* ~ThreadExitNotifier() of a thread that has a producer calls               *)
(* implicit_producer_thread_exited(), which goes through all the tables.     *)
Exit(t) ==
  /\ call[t].step = "idle" /\ mine[t] # Null /\ ends < MaxEnds
  /\ Calls(t, [step |-> "leave", table |-> Current])
  /\ UNCHANGED <<tables, count, resizing, inactive, ends, mine>>

(* Mutant: only the current table is left.                                   *)
LeaveCurrent(t) ==
  LET h == call[t].table IN
  /\ call[t].step = "leave"
  /\ tables' = [tables EXCEPT ![h].key = [k \in DOMAIN @ |-> IF @[k] = t THEN Reusable ELSE @[k]]]
  /\ Calls(t, [step |-> "recyclable"])
  /\ UNCHANGED <<count, resizing, inactive, ends, mine>>

Leave(t) ==
  LET h == call[t].table IN
  /\ call[t].step = "leave"
  /\ tables' = [tables EXCEPT ![h].key = [k \in DOMAIN @ |-> IF @[k] = t THEN Reusable ELSE @[k]]]
  /\ Calls(t, IF h = 1 THEN [step |-> "recyclable"] ELSE [step |-> "leave", table |-> h - 1])
  /\ UNCHANGED <<count, resizing, inactive, ends, mine>>

(* Another thread may take the producer; the next thread has none yet.       *)
MakeRecyclable(t) ==
  /\ call[t].step = "recyclable"
  /\ ends' = ends + 1
  /\ inactive' = [inactive EXCEPT ![mine[t]] = TRUE]
  /\ Returns(t, Null)
  /\ UNCHANGED <<tables, count, resizing>>

Next ==
  \E t \in Threads :
    \/ GetOrAdd(t) \/ AddAgain(t) \/ CountUp(t) \/ TryResize(t) \/ Resize(t)
    \/ ClearFlag(t) \/ UseOrWait(t) \/ Recycle(t) \/ AddProducer(t) \/ NoMemory(t)
    \/ Insert(t) \/ Uncount(t) \/ Exit(t) \/ Leave(t) \/ MakeRecyclable(t)

Spec == Init /\ [][Next]_vars

-----------------------------------------------------------------------------
(* "at least one slot is free in the hash table", in each of them, as long   *)
(* as a probe may go through it: else it would never end.                    *)
TablesKeepRoom == \A h \in 1..Current : \E k \in DOMAIN tables[h].key : tables[h].key[k] = Empty

(* A thread keeps its producer for its life, also when the tables change and *)
(* when there was another thread of its id before, and no two threads share  *)
(* one.                                                                      *)
ProducerOfItsThread ==
  /\ \A t \in Threads : call[t].step = "idle" =>
       \A h \in 1..Current : \A k \in SlotsOf(t, h) : tables[h].value[k] = mine[t]
  /\ \A t \in Threads : mine[t] # Null =>
       /\ ~inactive[mine[t]]
       /\ call[t].step = "idle" => \E h \in 1..Current : SlotsOf(t, h) # {}
       /\ \A u \in Threads \ {t} : mine[u] # mine[t]
=============================================================================
