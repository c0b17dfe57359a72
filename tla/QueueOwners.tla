----------------------------- MODULE QueueOwners -----------------------------
(***************************************************************************)
(* Who points to whom around a ConcurrentQueue (util/concurrentqueue.h)    *)
(* when queues and ProducerTokens are made, moved, swapped and destroyed,  *)
(* and threads come and go: a token and its producer point to each other,  *)
(* a producer points to its queue and is in the list of the queue, a       *)
(* thread has a chain of listeners in the implicit producers it uses, and  *)
(* the queue has a chain of hash tables whose last one lies within the     *)
(* object and stays there when the queue is moved.                         *)
(*                                                                         *)
(* These operations are not made for concurrent use; one is one step.      *)
(* Elements are left out, and a table is a function from threads, since    *)
(* ProducerHash has the probing.  Whether a table is replaced by a larger  *)
(* one is a choice.                                                        *)
(***************************************************************************)
EXTENDS Naturals, Sequences, FiniteSets

CONSTANTS Queues,    \* the places of queues
          Tokens,    \* the places of producer tokens
          Threads,
          Producers, \* the producers there is memory for
          Tables     \* the hash tables there is memory for

Null == "null"
NoToken == "no token" \* nothing is constructed in this place

OwnersAssumption ==
  /\ IsFiniteSet(Tables) /\ Queues \intersect Tables = {}
  /\ Null \notin Queues \union Tables \union Tokens \union Producers
  /\ NoToken \notin Producers

VARIABLES alive,      \* the queues that are constructed
          list,       \* per queue: its producers, the newest first
          isExplicit, parent, token, inactive, \* per producer
          producer,   \* per token: ProducerToken::producer
          hash,       \* per queue: implicitProducerHash
          prev,       \* per table: the one before it
          entries,    \* per table and thread: the producer
          tail        \* per thread: the listeners of its ThreadExitNotifier

vars == <<alive, list, isExplicit, parent, token, inactive, producer, hash, prev, entries, tail>>
tables == <<hash, prev, entries>>

InList(l) == {l[k] : k \in 1..Len(l)}
Listed == UNION {InList(list[q]) : q \in alive}

(* The tables from h on. The one within a queue has the queue's name.        *)
Chain(h) ==
  LET walk[k \in 0..Cardinality(Tables)] ==
        IF k = 0 THEN {h} ELSE walk[k - 1] \union ({prev[g] : g \in walk[k - 1]} \ {Null})
  IN walk[Cardinality(Tables)]

NoEntries == [t \in Threads |-> Null]

Init ==
  /\ alive = {} /\ list = [q \in Queues |-> <<>>]
  /\ isExplicit = [p \in Producers |-> FALSE] /\ parent = [p \in Producers |-> Null]
  /\ token = [p \in Producers |-> Null] /\ inactive = [p \in Producers |-> FALSE]
  /\ producer = [k \in Tokens |-> NoToken]
  /\ hash = [q \in Queues |-> q]
  /\ prev = [h \in Queues \union Tables |-> Null]
  /\ entries = [h \in Queues \union Tables |-> NoEntries]
  /\ tail = [t \in Threads |-> <<>>]

-----------------------------------------------------------------------------
(* recycle_or_create_producer(): the newest inactive producer of this kind,  *)
(* or a new one, or nullptr when there is no memory.                         *)
Gets(q, explicit, p) ==
  LET usable == {k \in 1..Len(list[q]) :
                   inactive[list[q][k]] /\ isExplicit[list[q][k]] = explicit}
      free == Producers \ Listed
  IN CASE usable # {} -> p = list[q][CHOOSE k \in usable : \A j \in usable : k <= j]
       [] usable = {} /\ free # {} -> p = CHOOSE f \in free : TRUE
       [] OTHER -> p = Null

(* Its fields: a new one is in the list of q, and belongs to q.              *)
Activate(q, explicit, p, k) ==
  LET new == p \notin Listed IN
  /\ list' = IF new THEN [list EXCEPT ![q] = <<p>> \o @] ELSE list
  /\ isExplicit' = [isExplicit EXCEPT ![p] = explicit]
  /\ parent' = IF new THEN [parent EXCEPT ![p] = q] ELSE parent
  /\ token' = IF explicit \/ new THEN [token EXCEPT ![p] = k] ELSE token
  /\ inactive' = [inactive EXCEPT ![p] = FALSE]

(* ProducerToken(queue) *)
NewToken(k, q) ==
  /\ producer[k] = NoToken /\ q \in alive
  /\ \E p \in Producers \union {Null} :
       /\ Gets(q, TRUE, p)
       /\ producer' = [producer EXCEPT ![k] = p]
       /\ IF p # Null THEN Activate(q, TRUE, p, k)
          ELSE UNCHANGED <<list, isExplicit, parent, token, inactive>>
  /\ UNCHANGED <<alive, tables, tail>>

(* ProducerToken(ProducerToken&&) *)
MoveToken(k, other) ==
  /\ producer[k] = NoToken /\ producer[other] # NoToken
  /\ producer' = [producer EXCEPT ![k] = producer[other], ![other] = Null]
  /\ token' = IF producer[other] # Null THEN [token EXCEPT ![producer[other]] = k] ELSE token
  /\ UNCHANGED <<alive, list, isExplicit, parent, inactive, tables, tail>>

(* swap(), and the assignment of a token that is moved.                      *)
SwapTokens(k, other) ==
  /\ NoToken \notin {producer[k], producer[other]}
  /\ producer' = [producer EXCEPT ![k] = producer[other], ![other] = producer[k]]
  /\ token' = [p \in Producers |->
                 CASE p = producer[k] -> other [] p = producer[other] /\ p # producer[k] -> k
                   [] OTHER -> token[p]]
  /\ UNCHANGED <<alive, list, isExplicit, parent, inactive, tables, tail>>

(* ~ProducerToken(): from now on the producer can be recycled.               *)
DestroyToken(k) ==
  LET p == producer[k] IN
  /\ p # NoToken
  /\ producer' = [producer EXCEPT ![k] = NoToken]
  /\ IF p = Null THEN UNCHANGED <<token, inactive>>
     ELSE token' = [token EXCEPT ![p] = Null] /\ inactive' = [inactive EXCEPT ![p] = TRUE]
  /\ UNCHANGED <<alive, list, isExplicit, parent, tables, tail>>

-----------------------------------------------------------------------------
(* A thread enqueues without a token: get_or_add_implicit_producer() looks   *)
(* through all the tables, and adds what it has found to the current one.    *)
Enqueue(t, q) ==
  LET found == {entries[h][t] : h \in Chain(hash[q])} \ {Null} IN
  /\ q \in alive /\ found # {}
  /\ entries' = [entries EXCEPT ![hash[q]][t] = IF @ = Null THEN CHOOSE p \in found : TRUE ELSE @]
  /\ UNCHANGED <<alive, list, isExplicit, parent, token, inactive, producer, hash, prev, tail>>

(* The first time it gets a producer and subscribes it to its notifier.      *)
FirstEnqueue(t, q) ==
  LET free == Tables \ UNION {Chain(hash[r]) : r \in alive} IN
  /\ q \in alive /\ \A h \in Chain(hash[q]) : entries[h][t] = Null
  /\ \E p \in Producers, grows \in BOOLEAN :
       LET new == CHOOSE h \in free : TRUE
           h == IF grows THEN new ELSE hash[q]
       IN /\ Gets(q, FALSE, p)
          /\ Activate(q, FALSE, p, Null)
          /\ grows => free # {}
          /\ prev' = IF grows THEN [prev EXCEPT ![new] = hash[q]] ELSE prev
          /\ hash' = [hash EXCEPT ![q] = h]
          /\ entries' = [entries EXCEPT ![h] = [(IF grows THEN NoEntries ELSE @) EXCEPT ![t] = p]]
          /\ tail' = [tail EXCEPT ![t] = <<p>> \o @]
  /\ UNCHANGED <<alive, producer>>

(* ~ThreadExitNotifier(): the queue of each listener takes the thread out of *)
(* its tables, and the producer can be recycled.                             *)
ThreadExit(t) ==
  LET mine == InList(tail[t]) IN
  /\ tail[t] # <<>>
  /\ entries' = [h \in DOMAIN entries |->
                   IF \E p \in mine : h \in Chain(hash[parent[p]])
                   THEN [entries[h] EXCEPT ![t] = Null] ELSE entries[h]]
  /\ inactive' = [p \in Producers |-> p \in mine \/ inactive[p]]
  /\ tail' = [tail EXCEPT ![t] = <<>>]
  /\ UNCHANGED <<alive, list, isExplicit, parent, token, producer, hash, prev>>

-----------------------------------------------------------------------------
(* ConcurrentQueue(); a place that is free has been left in this state.      *)
Construct(q) ==
  /\ q \notin alive
  /\ alive' = alive \union {q}
  /\ UNCHANGED <<list, isExplicit, parent, token, inactive, producer, tables, tail>>

(* Mutant: the heads are swapped, and the chains go on as before.            *)
SwapHeadsOnly(q, other) ==
  /\ entries' = [entries EXCEPT ![q] = entries[other], ![other] = entries[q]]
  /\ hash' = [hash EXCEPT ![q] = IF hash[other] = other THEN q ELSE hash[other],
                        ![other] = IF hash[q] = q THEN other ELSE hash[q]]
  /\ UNCHANGED prev

(* swap_implicit_producer_hashes(): the heads are swapped and the entries of *)
(* the tables within the objects, and each chain is made to end at the table *)
(* within its new object.                                                    *)
SwapHashes(q, other) ==
  /\ entries' = [entries EXCEPT ![q] = entries[other], ![other] = entries[q]]
  /\ hash' = [hash EXCEPT ![q] = IF hash[other] = other THEN q ELSE hash[other],
                        ![other] = IF hash[q] = q THEN other ELSE hash[q]]
  /\ prev' = [h \in DOMAIN prev |->
                CASE prev[h] = other /\ h \in Chain(hash[other]) -> q
                  [] prev[h] = q /\ h \in Chain(hash[q])         -> other
                  [] OTHER                                     -> prev[h]]

(* reown_producers() *)
Reown(lists) ==
  parent' = [p \in Producers |->
               IF \E q \in DOMAIN lists : p \in InList(lists[q])
               THEN CHOOSE q \in DOMAIN lists : p \in InList(lists[q]) ELSE parent[p]]

(* ConcurrentQueue(ConcurrentQueue&&): the other one is left empty.          *)
MoveConstruct(q, other) ==
  /\ q \notin alive /\ other \in alive
  /\ alive' = alive \union {q}
  /\ list' = [list EXCEPT ![q] = list[other], ![other] = <<>>]
  /\ SwapHashes(q, other)
  /\ Reown([r \in {q} |-> list[other]])
  /\ UNCHANGED <<isExplicit, token, inactive, producer, tail>>

(* swap_internal(), also for the assignment of a queue that is moved.        *)
SwapQueues(q, other) ==
  /\ {q, other} \subseteq alive /\ q # other
  /\ list' = [list EXCEPT ![q] = list[other], ![other] = list[q]]
  /\ SwapHashes(q, other)
  /\ Reown([r \in {q, other} |-> list'[r]])
  /\ UNCHANGED <<alive, isExplicit, token, inactive, producer, tail>>

(* ThreadExitNotifier::unsubscribe() of each of the listeners in P.          *)
Unsubscribed(s, P) ==
  LET rest[k \in 0..Len(s)] ==
        IF k = 0 THEN <<>>
        ELSE IF s[k] \in P THEN rest[k - 1] ELSE Append(rest[k - 1], s[k])
  IN rest[Len(s)]

(* ~ConcurrentQueue(): tokens lose their producer, ~ImplicitProducer()       *)
(* unsubscribes, and producers and tables are free again, as good as new.    *)
Destroy(q) ==
  LET gone == InList(list[q]) IN
  /\ q \in alive
  /\ alive' = alive \ {q}
  /\ producer' = [k \in Tokens |->
                    IF \E p \in gone : token[p] = k THEN Null ELSE producer[k]]
  /\ tail' = [t \in Threads |-> Unsubscribed(tail[t], {p \in gone : ~inactive[p]})]
  /\ list' = [list EXCEPT ![q] = <<>>]
  /\ isExplicit' = [p \in Producers |-> isExplicit[p] /\ p \notin gone]
  /\ parent' = [p \in Producers |-> IF p \in gone THEN Null ELSE parent[p]]
  /\ token' = [p \in Producers |-> IF p \in gone THEN Null ELSE token[p]]
  /\ inactive' = [p \in Producers |-> inactive[p] /\ p \notin gone]
  /\ hash' = [hash EXCEPT ![q] = q]
  /\ prev' = [h \in DOMAIN prev |-> IF h \in Chain(hash[q]) THEN Null ELSE prev[h]]
  /\ entries' = [h \in DOMAIN entries |-> IF h \in Chain(hash[q]) THEN NoEntries ELSE entries[h]]

Next ==
  \/ \E k \in Tokens, q \in Queues : NewToken(k, q)
  \/ \E k, other \in Tokens : MoveToken(k, other) \/ SwapTokens(k, other)
  \/ \E k \in Tokens : DestroyToken(k)
  \/ \E t \in Threads, q \in Queues : Enqueue(t, q) \/ FirstEnqueue(t, q)
  \/ \E t \in Threads : ThreadExit(t)
  \/ \E q \in Queues : Construct(q) \/ Destroy(q)
  \/ \E q, other \in Queues : MoveConstruct(q, other) \/ SwapQueues(q, other)

Spec == Init /\ [][Next]_vars

-----------------------------------------------------------------------------
(* Whatever is made, moved, swapped and destroyed in between ("its tokens    *)
(* are still valid"; "A token is always valid unless"): a token and its      *)
(* producer point to each other and nobody else can have the producer; a     *)
(* producer is in one list, that of its parent; the tables of a queue end in *)
(* the queue itself and lead only to its own producers; and a thread that    *)
(* exits calls the listeners that exist, by which it leaves every table that *)
(* it is in.                                                                 *)
OwnersAgree ==
  /\ \A k \in Tokens : producer[k] \notin {Null, NoToken} =>
       LET p == producer[k] IN p \in Listed /\ isExplicit[p] /\ token[p] = k /\ ~inactive[p]
  /\ \A q \in alive :
       /\ Cardinality(InList(list[q])) = Len(list[q])
       /\ \A p \in InList(list[q]) :
            /\ parent[p] = q
            /\ token[p] # Null => producer[token[p]] = p
            /\ isExplicit[p] => (inactive[p] <=> token[p] = Null)
            /\ ~isExplicit[p] =>
                 (inactive[p] <=> \A t \in Threads : p \notin InList(tail[t]))
       /\ {h \in Chain(hash[q]) : prev[h] = Null} = {q}
       /\ \A r \in alive \ {q} : Chain(hash[q]) \intersect Chain(hash[r]) = {}
       /\ \A h \in Chain(hash[q]), t \in Threads : entries[h][t] # Null =>
            entries[h][t] \in InList(list[q]) \intersect InList(tail[t])
  /\ \A t \in Threads :
       /\ Cardinality({parent[p] : p \in InList(tail[t])}) = Len(tail[t])
       /\ \A p \in InList(tail[t]) :
            p \in Listed /\ \E h \in Chain(hash[parent[p]]) : entries[h][t] = p
=============================================================================
