---------------------------- MODULE ImplicitQueue ----------------------------
(***************************************************************************)
(* ImplicitProducer of ConcurrentQueue (util/concurrentqueue.h): the queue *)
(* of a thread that enqueues without a token, which is how this repository *)
(* uses it.  Elements lie in blocks; a block index, a ring of entries with *)
(* the first index of a block (key) and the block (value), leads from an   *)
(* index to its block.  The ring grows by a new header that shares the old *)
(* entries, while consumers may still walk the old one.  The consumer that *)
(* takes the last element out of a block clears its entry and returns the  *)
(* block to the pool, from where the producer takes it again.              *)
(*                                                                         *)
(* An element is the index it was enqueued at.  The pool, that is the      *)
(* initial blocks, the free list (module FreeList) and the allocator, is a *)
(* set.  Writes to slots nobody else can reach yet are part of the access  *)
(* that follows them.                                                      *)
(***************************************************************************)
EXTENDS InnerQueue

CONSTANTS Blocks,      \* the blocks there are
          IndexCapacity,    \* IMPLICIT_INITIAL_INDEX_SIZE, a power of two
          Counts,      \* how many elements a call of enqueue_bulk() brings
          Start,       \* how many elements went through the queue before
          MaxElements  \* bound: how many are enqueued

VARIABLES element,   \* per block and slot: the element, or Gone
          elementsCompletelyDequeued, \* per block
          pool,      \* the blocks nobody uses
          entries,   \* the entries of the block index
          headers,   \* its headers, the current one last
          tailBlock, \* the block the producer fills
          producer   \* the producer's next access, with its locals

vars == <<indices, call, element, elementsCompletelyDequeued, pool, entries, headers,
          tailBlock, producer>>
storage == <<element, elementsCompletelyDequeued, pool>>
blockIndex == <<entries, headers>>

INVALID_BLOCK_BASE == 1
NewEntry == [key |-> INVALID_BLOCK_BASE, value |-> Null]
Header == headers[Len(headers)]
Turn(k, h) == k % h.capacity

(* new_block_index() of the constructor, and then Start elements that came   *)
(* and went: the last entries have their keys, but no block.                 *)
Init ==
  /\ tailIndex = Index(Start) /\ headIndex = Index(Start)
  /\ dequeueOptimisticCount = Index(Start + Excess) /\ dequeueOvercommit = Index(Excess)
  /\ call = [c \in Consumers |-> Idle]
  /\ element = [b \in Blocks |-> [s \in 0..(BlockSize - 1) |-> Gone]]
  /\ elementsCompletelyDequeued = [b \in Blocks |-> 0]
  /\ pool = Blocks
  /\ entries = [e \in 1..IndexCapacity |->
                  LET last == Start - (IndexCapacity - e + 1) * BlockSize
                  IN IF last >= 0 THEN [key |-> Base(Index(last)), value |-> Null] ELSE NewEntry]
  /\ headers = <<[capacity |-> IndexCapacity, tail |-> IndexCapacity - 1,
                  index |-> [k \in 0..(IndexCapacity - 1) |-> k + 1]]>>
  /\ tailBlock = Null
  /\ producer = Idle

-----------------------------------------------------------------------------
(* enqueue() brings one element, enqueue_bulk() count.  A block is needed    *)
(* for every index at which one begins.                                      *)
FirstBase == IF tailIndex % BlockSize = 0 THEN tailIndex
                    ELSE Base(tailIndex) + BlockSize
NewBlocks(count) == (Base(tailIndex + count - 1) - FirstBase) \div BlockSize + 1

Enqueue(bulk, count) ==
  /\ producer.step = "idle"
  /\ Index(tailIndex - Start) + count <= MaxElements
  /\ producer' = [step |-> IF NewBlocks(count) > 0 THEN "head" ELSE "construct",
                   bulk |-> bulk, count |-> count, base |-> Index(FirstBase),
                   missing |-> NewBlocks(count), made |-> <<>>, undone |-> 0]
  /\ UNCHANGED <<indices, call, storage, blockIndex, tailBlock>>

Goes(to) == producer' = [producer EXCEPT !.step = to]
Fails == IF producer.made = <<>> THEN producer' = Idle ELSE Goes("revert")

(* Is the tail so far ahead of the head that indices could be mistaken?      *)
ReadHead ==
  /\ producer.step = "head"
  /\ IF CircularLess(headIndex, Index(producer.base + BlockSize)) THEN Goes("insert") ELSE Fails
  /\ UNCHANGED <<indices, call, storage, blockIndex, tailBlock>>

NextEntry == Header.index[Turn(Header.tail + 1, Header)]

(* Mutant: the next entry is taken for free. *)
InsertAnyway ==
  /\ producer.step = "insert"
  /\ entries' = [entries EXCEPT ![NextEntry] = [key |-> producer.base, value |-> Null]]
  /\ Goes("advance")
  /\ UNCHANGED <<indices, call, storage, headers, tailBlock>>

(* insert_block_index_entry(): the next entry of the ring is free when its   *)
(* block has been returned.                                                  *)
InsertEntry ==
  /\ producer.step = "insert"
  /\ entries[NextEntry].key = INVALID_BLOCK_BASE \/ entries[NextEntry].value = Null
  /\ entries' = [entries EXCEPT ![NextEntry].key = producer.base]
  /\ Goes("advance")
  /\ UNCHANGED <<indices, call, storage, headers, tailBlock>>

(* No room: new_block_index() makes a ring twice as large, which goes on     *)
(* from the oldest entry of the old one.  It may find no memory, and it is   *)
(* not called by try_enqueue(): then the call fails.                         *)
GrowIndex ==
  LET h == Header
      old == [k \in 0..(h.capacity - 1) |-> h.index[Turn(h.tail + 1 + k, h)]]
      new == [k \in h.capacity..(2 * h.capacity - 1) |-> Len(entries) + k - h.capacity + 1]
  IN /\ producer.step = "insert"
     /\ entries[NextEntry].key # INVALID_BLOCK_BASE /\ entries[NextEntry].value # Null
     /\ entries' = entries \o [k \in 1..h.capacity |-> NewEntry]
     /\ headers' = Append(headers, [capacity |-> 2 * h.capacity, tail |-> h.capacity - 1,
                                    index |-> [k \in 0..(2 * h.capacity - 1) |->
                                                 IF k < h.capacity THEN old[k] ELSE new[k]]])
     /\ UNCHANGED <<indices, call, storage, tailBlock, producer>>

InsertFails ==
  /\ producer.step = "insert"
  /\ entries[NextEntry].key # INVALID_BLOCK_BASE /\ entries[NextEntry].value # Null
  /\ Fails
  /\ UNCHANGED <<indices, call, storage, blockIndex, tailBlock>>

SetTail(h, t) == headers' = [headers EXCEPT ![h].tail = Turn(t, headers[h])]

AdvanceTail ==
  /\ producer.step = "advance"
  /\ SetTail(Len(headers), Header.tail + 1)
  /\ Goes("requisition")
  /\ UNCHANGED <<indices, call, storage, entries, tailBlock>>

(* requisition_block(), no matter which, and reset_empty(); without a block  *)
(* the tail goes back.                                                       *)
Requisition ==
  /\ producer.step = "requisition"
  /\ IF pool = {} THEN Goes("rewind") /\ UNCHANGED storage
     ELSE LET b == CHOOSE b \in pool : TRUE IN
            /\ pool' = pool \ {b}
            /\ elementsCompletelyDequeued' = [elementsCompletelyDequeued EXCEPT ![b] = 0]
            /\ producer' = [producer EXCEPT !.step = "publish", !.made = Append(@, b)]
            /\ UNCHANGED element
  /\ UNCHANGED <<indices, call, blockIndex, tailBlock>>

(* rewind_block_index_tail() *)
RewindTail ==
  /\ producer.step = "rewind"
  /\ SetTail(Len(headers), Header.tail - 1)
  /\ entries' = [entries EXCEPT ![Header.index[Header.tail]].value = Null]
  /\ Fails
  /\ UNCHANGED <<indices, call, storage, tailBlock>>

(* enqueue() constructs an element that may throw before it publishes.       *)
ThrowEarly ==
  LET b == producer.made[1] IN
  /\ producer.step = "publish" /\ ~producer.bulk
  /\ SetTail(Len(headers), Header.tail - 1)
  /\ entries' = [entries EXCEPT ![Header.index[Header.tail]].value = Null]
  /\ pool' = pool \union {b}
  /\ producer' = Idle
  /\ UNCHANGED <<indices, call, element, elementsCompletelyDequeued, tailBlock>>

(* The block gets into the index, before any element of it is in the queue.  *)
PublishBlock ==
  LET p == producer IN
  /\ p.step = "publish"
  /\ entries' = [entries EXCEPT ![Header.index[Header.tail]].value = p.made[Len(p.made)]]
  /\ producer' = IF Len(p.made) = p.missing THEN [p EXCEPT !.step = "construct"]
                 ELSE [p EXCEPT !.step = "head", !.base = Index(@ + BlockSize)]
  /\ UNCHANGED <<indices, call, storage, headers, tailBlock>>

(* The elements are constructed, one block after the other.                  *)
TargetBlock(k) ==
  LET i == tailIndex + k
      part == IF FirstBase = tailIndex THEN producer.made ELSE <<tailBlock>> \o producer.made
  IN part[(Base(i) - Base(tailIndex)) \div BlockSize + 1]
LastBlock == TargetBlock(producer.count - 1)

Construct ==
  /\ producer.step = "construct"
  /\ element' = [b \in Blocks |-> [s \in 0..(BlockSize - 1) |->
                   LET here == {k \in 0..(producer.count - 1) :
                                  TargetBlock(k) = b /\ (tailIndex + k) % BlockSize = s}
                   IN IF here = {} THEN element[b][s]
                      ELSE Index(tailIndex + CHOOSE k \in here : TRUE)]]
  /\ producer' = [step |-> "store", count |-> producer.count, last |-> LastBlock]
  /\ UNCHANGED <<indices, call, elementsCompletelyDequeued, pool, blockIndex, tailBlock>>

(* A constructor throws in enqueue_bulk(): what was built is destroyed.      *)
ThrowLate ==
  /\ producer.step = "construct" /\ producer.bulk
  /\ Fails
  /\ UNCHANGED <<indices, call, storage, blockIndex, tailBlock>>

(* get_block_index_index_for_index(): how far is the block from that of the  *)
(* entry at t?                                                               *)
Slot(i, h, t) ==
  Turn(t + Signed(Index(Base(i) - entries[h.index[t]].key)) \div BlockSize, h)

(* The blocks of a call that fails are taken out of the index from the first *)
(* on, the tail goes back with each, and then they are returned.             *)
Revert ==
  LET p == producer
      base == Index(FirstBase + p.undone * BlockSize)
      e == Header.index[Slot(base, Header, Header.tail)]
  IN /\ p.step = "revert"
     /\ entries' = [entries EXCEPT ![e].value = Null]
     /\ SetTail(Len(headers), Header.tail - 1)
     /\ IF p.undone + 1 < Len(p.made)
        THEN producer' = [p EXCEPT !.undone = @ + 1] /\ UNCHANGED pool
        ELSE producer' = Idle /\ pool' = pool \union {p.made[k] : k \in 1..Len(p.made)}
     /\ UNCHANGED <<indices, call, element, elementsCompletelyDequeued, tailBlock>>

(* Now the elements are in the queue. *)
StoreTail ==
  /\ producer.step = "store"
  /\ tailIndex' = Index(tailIndex + producer.count)
  /\ tailBlock' = producer.last
  /\ producer' = Idle
  /\ UNCHANGED <<headIndex, dequeueOptimisticCount, dequeueOvercommit, call, storage, blockIndex>>

-----------------------------------------------------------------------------
(* A consumer looks its first element up, and goes through the ring.         *)
Find(c) ==
  LET r == call[c] IN
  /\ r.step = "find"
  /\ Calls(c, [step |-> "load tail", index |-> r.index, n |-> r.n, h |-> Len(headers)])
  /\ UNCHANGED <<indices, storage, blockIndex, tailBlock, producer>>

LoadTail(c) ==
  LET r == call[c] IN
  /\ r.step = "load tail"
  /\ Calls(c, [step |-> "load key", index |-> r.index, n |-> r.n, h |-> r.h,
               tail |-> headers[r.h].tail])
  /\ UNCHANGED <<indices, storage, blockIndex, tailBlock, producer>>

LoadKey(c) ==
  LET r == call[c] IN
  /\ r.step = "load key"
  /\ Calls(c, [step |-> "take", index |-> r.index, n |-> r.n, h |-> r.h,
               slot |-> Slot(r.index, headers[r.h], r.tail)])
  /\ UNCHANGED <<indices, storage, blockIndex, tailBlock, producer>>

EntryOf(r) == headers[r.h].index[r.slot]
BlockOf(r) == entries[EntryOf(r)].value

(* The elements that lie in this block are moved out and destroyed.  When    *)
(* moving one throws, this is done to the rest all the same.                 *)
Take(c) ==
  LET r == call[c]
      b == BlockOf(r)
      s == r.index % BlockSize
  IN /\ r.step = "take"
     /\ element' = [element EXCEPT ![b] = [k \in DOMAIN @ |->
                       IF k \in s..(s + InBlock(r) - 1) THEN Gone ELSE @[k]]]
     /\ Calls(c, [step |-> "count", index |-> r.index, n |-> r.n, h |-> r.h, slot |-> r.slot,
                  block |-> b])
     /\ UNCHANGED <<indices, elementsCompletelyDequeued, pool, blockIndex, tailBlock, producer>>

(* On to the next block, or back to the caller.                              *)
GoesOn(c) ==
  LET r == call[c] IN
  Calls(c, IF r.n = InBlock(r) THEN Idle
           ELSE [step |-> "take", index |-> Index(r.index + InBlock(r)), n |-> r.n - InBlock(r),
                 h |-> r.h, slot |-> Turn(r.slot + 1, headers[r.h])])

(* set_many_empty(): who takes the last element out clears the block away.   *)
CountOut(c) ==
  LET r == call[c]
      count == elementsCompletelyDequeued[r.block] + InBlock(r)
  IN /\ r.step = "count"
     /\ elementsCompletelyDequeued' = [elementsCompletelyDequeued EXCEPT ![r.block] = count]
     /\ IF count = BlockSize THEN Calls(c, [r EXCEPT !.step = "clear"]) ELSE GoesOn(c)
     /\ UNCHANGED <<indices, element, pool, blockIndex, tailBlock, producer>>

ClearEntry(c) ==
  LET r == call[c] IN
  /\ r.step = "clear"
  /\ entries' = [entries EXCEPT ![EntryOf(r)].value = Null]
  /\ Calls(c, [r EXCEPT !.step = "return"])
  /\ UNCHANGED <<indices, storage, headers, tailBlock, producer>>

(* add_block_to_free_list() *)
ReturnBlock(c) ==
  LET r == call[c] IN
  /\ r.step = "return"
  /\ pool' = pool \union {r.block}
  /\ GoesOn(c)
  /\ UNCHANGED <<indices, element, elementsCompletelyDequeued, blockIndex, tailBlock, producer>>

Dequeue(c) ==
  \/ AskFor(c) /\ UNCHANGED <<storage, blockIndex, tailBlock, producer>>
  \/ Find(c) \/ LoadTail(c) \/ LoadKey(c) \/ Take(c) \/ CountOut(c) \/ ClearEntry(c)
  \/ ReturnBlock(c)

Produce ==
  \/ Enqueue(FALSE, 1) \/ (\E count \in Counts : Enqueue(TRUE, count))
  \/ ReadHead \/ InsertEntry \/ GrowIndex \/ InsertFails \/ AdvanceTail \/ Requisition
  \/ RewindTail \/ ThrowEarly \/ PublishBlock \/ Construct \/ ThrowLate \/ Revert \/ StoreTail

Next == Produce \/ \E c \in Consumers : Dequeue(c)

Spec == Init /\ [][Next]_vars

-----------------------------------------------------------------------------
(* ~ImplicitProducer() destroys what is left.  It looks a block up for the   *)
(* first index and for each at which one begins, returns it when it comes to *)
(* the next one, and returns the block of the tail at the end.               *)
Left == Index(tailIndex - headIndex)
Looks == {k \in 0..(Left - 1) : k = 0 \/ (headIndex + k) % BlockSize = 0}
BlockAt(i) == entries[Header.index[Slot(i, Header, Header.tail)]].value
TimesReturned(b) ==
  Cardinality({k \in Looks : (\E j \in Looks : j > k) /\ BlockAt(Index(headIndex + k)) = b})
    + (IF b = tailBlock /\ (Left > 0 \/ tailIndex % BlockSize # 0) THEN 1 ELSE 0)

(* An index leads to the block its element was put into, as long as the      *)
(* element has not been taken.                                               *)
Holds(b, i, n) ==
  /\ b \in Blocks \ pool
  /\ \A k \in 0..(n - 1) : element[b][(i + k) % BlockSize] = Index(i + k)

(* Every consumer finds the elements it has claimed, in a block that nobody  *)
(* has given back meanwhile, and no block is counted out twice; when all     *)
(* calls have returned, every element in the queue can be found, every block *)
(* is in the queue or in the pool, and the destructor returns the blocks     *)
(* once.  So an element that was enqueued is dequeued or destroyed once, and *)
(* no block leaks, whatever fails and wraps.                                 *)
ElementsFoundOnce ==
  /\ \A c \in Consumers :
       LET r == call[c] IN
       CASE r.step = "load key" -> entries[headers[r.h].index[r.tail]].key # INVALID_BLOCK_BASE
         [] r.step = "take"     -> /\ entries[EntryOf(r)].key = Base(r.index)
                                   /\ Holds(BlockOf(r), r.index, InBlock(r))
         [] r.step = "count"    -> elementsCompletelyDequeued[r.block] + InBlock(r) <= BlockSize
         [] OTHER               -> TRUE
  /\ (producer.step = "idle" /\ \A c \in Consumers : call[c].step = "idle") =>
       /\ CountersSettled
       /\ \A i \in Queued : Holds(BlockAt(i), i, 1)
       /\ \A b \in Blocks :
            LET used == IF b \in pool THEN 0 ELSE 1
            IN /\ Cardinality({e \in DOMAIN entries : entries[e].value = b}) = used
               /\ TimesReturned(b) = used
=============================================================================
