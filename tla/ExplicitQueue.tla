---------------------------- MODULE ExplicitQueue ----------------------------
(***************************************************************************)
(* ExplicitProducer of ConcurrentQueue (util/concurrentqueue.h): the queue *)
(* behind a ProducerToken.  It keeps its blocks in a circular list, from   *)
(* the tail's successor, the oldest, to the tail, and uses a block again   *)
(* when all flags of it say that its elements are gone.  The block index   *)
(* is a ring of entries, base and block, in which the producer writes over *)
(* the oldest; it is copied into one of twice the size when it is full.    *)
(*                                                                         *)
(* An element is the index it was enqueued at, its constructor may throw;  *)
(* the pool is a set.  Writes to what nobody else can reach yet are part   *)
(* of the access that follows.                                             *)
(***************************************************************************)
EXTENDS InnerQueue

CONSTANTS Blocks,      \* the blocks there are
          IndexSize,   \* EXPLICIT_INITIAL_INDEX_SIZE, a power of two
          MaxSubqueue, \* MAX_SUBQUEUE_SIZE, less than IndexRange \div 2
          Counts,      \* how many elements a call of enqueue_bulk() brings
          MaxElements, \* bound: how many are enqueued
          Failures     \* may enqueue_bulk() be refused memory or throw?

VARIABLES element,    \* per block and slot: the element, or Gone
          emptyFlags, \* per block: the slots that are flagged
          pool,       \* the blocks nobody uses
          next,       \* per block: its successor in the circular list
          tailBlock,  \* the block the producer fills
          headers,    \* the block indices, the current one last
          pr_blockIndexSlotsUsed, \* how many blocks the index is for
          pr_blockIndexFront,     \* its next slot
          producer    \* the producer's next access, with its locals

vars == <<indices, call, element, emptyFlags, pool, next, tailBlock, headers,
          pr_blockIndexSlotsUsed, pr_blockIndexFront, producer>>
shared == <<element, emptyFlags, pool>>
own == <<next, tailBlock, pr_blockIndexSlotsUsed, pr_blockIndexFront>>

Slots == 0..(BlockSize - 1)
NoEntry == [base |-> 0, block |-> Null]
Header == headers[Len(headers)]
Turn(k, h) == k % h.size

Init ==
  /\ tailIndex = 0 /\ headIndex = 0 /\ dequeueOptimisticCount = 0 /\ dequeueOvercommit = 0
  /\ call = [c \in Consumers |-> Idle]
  /\ element = [b \in Blocks |-> [s \in Slots |-> Gone]]
  /\ emptyFlags = [b \in Blocks |-> {}]
  /\ pool = Blocks
  /\ next = [b \in Blocks |-> Null]
  /\ tailBlock = Null
  /\ headers = <<[size |-> IndexSize, front |-> IndexSize - 1,
                  entries |-> [k \in 0..(IndexSize - 1) |-> NoEntry]]>>
  /\ pr_blockIndexSlotsUsed = 0 /\ pr_blockIndexFront = 0
  /\ producer = Idle

-----------------------------------------------------------------------------
(* The bases of the blocks that count more elements need.                    *)
FirstBase == IF tailIndex % BlockSize = 0 THEN tailIndex ELSE Base(tailIndex) + BlockSize
NewBlocks(count) == (Base(tailIndex + count - 1) - FirstBase) \div BlockSize + 1

Enqueue(bulk, count) ==
  /\ producer.step = "idle"
  /\ tailIndex + count <= MaxElements
  /\ producer' = [step |-> IF NewBlocks(count) > 0 THEN "ahead" ELSE "construct",
                  bulk |-> bulk, count |-> count, base |-> Index(FirstBase), missing |-> NewBlocks(count),
                  start |-> tailBlock, first |-> Null,
                  front |-> pr_blockIndexFront, used |-> pr_blockIndexSlotsUsed]
  /\ UNCHANGED <<indices, call, shared, own, headers>>

Goes(to) == producer' = [producer EXCEPT !.step = to]

(* is_empty(): consumers flag the slots in any order.                        *)
AllEmpty(b) == emptyFlags[b] = Slots

FirstIs(b) == IF producer.first = Null THEN b ELSE producer.first

(* The next slot of the index gets the block b; enqueue() exposes it at once *)
(* and enqueue_bulk() when it has all its blocks.                            *)
WriteEntry(b, hs) ==
  LET n == Len(hs) IN
  headers' = [hs EXCEPT ![n].entries[pr_blockIndexFront] = [base |-> producer.base, block |-> b]]

AdvanceFront == pr_blockIndexFront' = Turn(pr_blockIndexFront + 1, Header)

GotBlock(b, more) ==
  producer' = [producer EXCEPT !.first = FirstIs(b), !.missing = @ - 1, !.base = Index(@ + BlockSize),
                               !.step = IF producer.missing = 1 THEN "reset" ELSE more]

(* The block ahead is empty and can be used again.  In enqueue() the entry   *)
(* of the index is written in a later step, when the element is there.       *)
ReuseBlock ==
  LET b == next[tailBlock] IN
  /\ producer.step = "ahead" /\ tailBlock # Null
  /\ b # producer.first /\ AllEmpty(b)
  /\ tailBlock' = b
  /\ IF producer.bulk
     THEN /\ GotBlock(b, "ahead") /\ WriteEntry(b, headers) /\ AdvanceFront
          /\ UNCHANGED emptyFlags
     ELSE /\ Goes("throw or index")
          /\ emptyFlags' = [emptyFlags EXCEPT ![b] = {}]
          /\ UNCHANGED <<headers, pr_blockIndexFront>>
  /\ UNCHANGED <<indices, call, element, pool, next, pr_blockIndexSlotsUsed>>

NothingAhead ==
  /\ producer.step = "ahead"
  /\ tailBlock # Null => next[tailBlock] = producer.first \/ ~AllEmpty(next[tailBlock])
  /\ Goes("head")
  /\ UNCHANGED <<indices, call, shared, own, headers>>

(* A call that fails goes back to where it started, but keeps the blocks it  *)
(* has put into the circular list.                                           *)
Revert ==
  /\ producer' = Idle
  /\ IF producer.bulk
     THEN /\ pr_blockIndexFront' = producer.front
          /\ pr_blockIndexSlotsUsed' = producer.used
          /\ tailBlock' = IF producer.start = Null THEN producer.first ELSE producer.start
     ELSE UNCHANGED <<pr_blockIndexFront, pr_blockIndexSlotsUsed, tailBlock>>
  /\ UNCHANGED <<indices, call, shared, next, headers>>

MayFail == Failures \/ ~producer.bulk
IndexIsFull == pr_blockIndexSlotsUsed = Header.size
IsFull == \/ ~CircularLess(headIndex, Index(producer.base + BlockSize))
          \/ MaxSubqueue - BlockSize < Index(producer.base - headIndex)

ReadHead ==
  /\ producer.step = "head" /\ ~IsFull
  /\ Goes(IF IndexIsFull THEN "grow" ELSE "requisition")
  /\ UNCHANGED <<indices, call, shared, own, headers>>

TooFull == producer.step = "head" /\ IsFull /\ MayFail /\ Revert

(* new_block_index(): the entries in use are copied, oldest first.  There    *)
(* may be no memory, and try_enqueue() does not ask for it.                  *)
GrowIndex ==
  LET h == Header
      oldest == pr_blockIndexFront - pr_blockIndexSlotsUsed
  IN /\ producer.step = "grow"
     /\ headers' = Append(headers,
                     [size |-> 2 * h.size,
                      front |-> (producer.used + 2 * h.size - 1) % (2 * h.size),
                      entries |-> [k \in 0..(2 * h.size - 1) |->
                        IF k < pr_blockIndexSlotsUsed THEN h.entries[Turn(oldest + k, h)]
                        ELSE NoEntry]])
     /\ pr_blockIndexFront' = pr_blockIndexSlotsUsed
     /\ producer' = [producer EXCEPT !.step = "requisition", !.front = producer.used]
     /\ UNCHANGED <<indices, call, shared, next, tailBlock, pr_blockIndexSlotsUsed>>

GrowFails == producer.step = "grow" /\ MayFail /\ Revert

(* requisition_block(): a new block, no matter which, behind the tail.       *)
(* In enqueue_bulk() it counts as empty until the call is sure to succeed.   *)
Requisition ==
  /\ producer.step = "requisition"
  /\ pool # {}
  /\ LET b == CHOOSE b \in pool : TRUE IN
       /\ pool' = pool \ {b}
       /\ next' = IF tailBlock = Null THEN [next EXCEPT ![b] = b]
                  ELSE [next EXCEPT ![b] = next[tailBlock], ![tailBlock] = b]
       /\ tailBlock' = b
       /\ pr_blockIndexSlotsUsed' = pr_blockIndexSlotsUsed + 1
       /\ IF producer.bulk
          THEN /\ GotBlock(b, "head") /\ WriteEntry(b, headers) /\ AdvanceFront
               /\ emptyFlags' = [emptyFlags EXCEPT ![b] = Slots]
          ELSE /\ Goes("throw or index")
               /\ emptyFlags' = [emptyFlags EXCEPT ![b] = {}]
               /\ UNCHANGED <<headers, pr_blockIndexFront>>
  /\ UNCHANGED <<indices, call, element>>

RequisitionFails == producer.step = "requisition" /\ pool = {} /\ MayFail /\ Revert

(* The constructor of the element throws in enqueue().                       *)
Throw ==
  /\ producer.step = "throw or index"
  /\ pr_blockIndexSlotsUsed' = producer.used
  /\ tailBlock' = IF producer.start = Null THEN tailBlock ELSE producer.start
  /\ producer' = Idle
  /\ UNCHANGED <<indices, call, shared, next, headers, pr_blockIndexFront>>

(* enqueue(): with the element there, the entry is written, and then exposed.*)
IndexBlock ==
  /\ producer.step = "throw or index"
  /\ element' = [element EXCEPT ![tailBlock][0] = tailIndex]
  /\ WriteEntry(tailBlock, headers)
  /\ Goes("expose")
  /\ UNCHANGED <<indices, call, emptyFlags, pool, own>>

(* enqueue_bulk(): all the blocks are there and are not empty any more.      *)
ToTheTail(b) ==
  LET walk[k \in 0..Cardinality(Blocks)] ==
        IF k = 0 THEN {b} ELSE walk[k - 1] \union {next[a] : a \in walk[k - 1] \ {tailBlock}}
  IN walk[Cardinality(Blocks)]

ResetFlags ==
  /\ producer.step = "reset"
  /\ emptyFlags' = [b \in Blocks |-> IF b \in ToTheTail(producer.first) THEN {} ELSE emptyFlags[b]]
  /\ Goes("construct")
  /\ UNCHANGED <<indices, call, element, pool, own, headers>>

(* The block of the k-th element of the call, in the order of the list.      *)
TargetBlock(k) ==
  LET steps == (Base(tailIndex + k) - Base(tailIndex)) \div BlockSize
      begin == IF tailIndex % BlockSize = 0
               THEN IF producer.bulk THEN producer.first ELSE tailBlock
               ELSE producer.start
      walk[j \in 0..steps] == IF j = 0 THEN begin ELSE next[walk[j - 1]]
  IN walk[steps]

Construct ==
  /\ producer.step = "construct"
  /\ element' = [b \in Blocks |-> [s \in Slots |->
                   LET here == {k \in 0..(producer.count - 1) :
                                  TargetBlock(k) = b /\ (tailIndex + k) % BlockSize = s}
                   IN IF here = {} THEN element[b][s]
                      ELSE Index(tailIndex + CHOOSE k \in here : TRUE)]]
  /\ Goes(IF producer.first = Null THEN "store" ELSE "expose")
  /\ UNCHANGED <<indices, call, emptyFlags, pool, own, headers>>

(* A constructor throws; in enqueue_bulk() what was built is destroyed.      *)
ThrowLate == producer.step = "construct" /\ MayFail /\ Revert

Expose ==
  LET n == Len(headers) IN
  /\ producer.step = "expose"
  /\ IF producer.bulk
     THEN /\ headers' = [headers EXCEPT ![n].front = Turn(pr_blockIndexFront - 1, Header)]
          /\ UNCHANGED pr_blockIndexFront
     ELSE /\ headers' = [headers EXCEPT ![n].front = pr_blockIndexFront]
          /\ AdvanceFront
  /\ Goes("store")
  /\ UNCHANGED <<indices, call, shared, next, tailBlock, pr_blockIndexSlotsUsed>>

StoreTail ==
  /\ producer.step = "store"
  /\ tailIndex' = Index(tailIndex + producer.count)
  /\ producer' = Idle
  /\ UNCHANGED <<headIndex, dequeueOptimisticCount, dequeueOvercommit, call, shared, own, headers>>

-----------------------------------------------------------------------------
(* A consumer looks its first element up from the front of the index.        *)
Find(c) ==
  LET r == call[c] IN
  /\ r.step = "find"
  /\ Calls(c, [step |-> "load front", index |-> r.index, n |-> r.n, h |-> Len(headers)])
  /\ UNCHANGED <<indices, shared, own, headers, producer>>

LoadFront(c) ==
  LET r == call[c] IN
  /\ r.step = "load front"
  /\ Calls(c, [step |-> "load base", index |-> r.index, n |-> r.n, h |-> r.h,
               front |-> headers[r.h].front])
  /\ UNCHANGED <<indices, shared, own, headers, producer>>

Slot(i, h, front) == Turn(front + Signed(Index(Base(i) - h.entries[front].base)) \div BlockSize, h)

LoadBase(c) ==
  LET r == call[c] IN
  /\ r.step = "load base"
  /\ Calls(c, [step |-> "take", index |-> r.index, n |-> r.n, h |-> r.h,
               slot |-> Slot(r.index, headers[r.h], r.front)])
  /\ UNCHANGED <<indices, shared, own, headers, producer>>

EntryOf(r) == headers[r.h].entries[r.slot]
SlotsOf(r) == LET s == r.index % BlockSize IN s..(s + InBlock(r) - 1)

(* The elements that lie in this block are moved out and destroyed.  When    *)
(* moving one throws, this is done to the rest all the same.                 *)
Take(c) ==
  LET r == call[c]
      b == EntryOf(r).block
  IN /\ r.step = "take"
     /\ element' = [element EXCEPT ![b] = [s \in Slots |-> IF s \in SlotsOf(r) THEN Gone ELSE @[s]]]
     /\ Calls(c, [step |-> "flag", index |-> r.index, n |-> r.n, h |-> r.h, slot |-> r.slot,
                  block |-> b])
     /\ UNCHANGED <<indices, emptyFlags, pool, own, headers, producer>>

(* set_empty(), set_many_empty(): the producer may use the slots again.  The *)
(* consumer goes on to the next block, or back to its caller.                *)
Flag(c) ==
  LET r == call[c] IN
  /\ r.step = "flag"
  /\ emptyFlags' = [emptyFlags EXCEPT ![r.block] = @ \union SlotsOf(r)]
  /\ Calls(c, IF r.n = InBlock(r) THEN Idle
              ELSE [step |-> "take", index |-> Index(r.index + InBlock(r)), n |-> r.n - InBlock(r),
                    h |-> r.h, slot |-> Turn(r.slot + 1, headers[r.h])])
  /\ UNCHANGED <<indices, element, pool, own, headers, producer>>

Dequeue(c) ==
  \/ AskFor(c) /\ UNCHANGED <<shared, own, headers, producer>>
  \/ Find(c) \/ LoadFront(c) \/ LoadBase(c) \/ Take(c) \/ Flag(c)

Produce ==
  \/ Enqueue(FALSE, 1) \/ (\E count \in Counts : Enqueue(TRUE, count))
  \/ ReuseBlock \/ NothingAhead \/ ReadHead \/ TooFull \/ GrowIndex \/ GrowFails
  \/ Requisition \/ RequisitionFails \/ Throw \/ IndexBlock \/ ResetFlags
  \/ Construct \/ ThrowLate \/ Expose \/ StoreTail

Next == Produce \/ \E c \in Consumers : Dequeue(c)

Spec == Init /\ [][Next]_vars

-----------------------------------------------------------------------------
(* ~ExplicitProducer() looks for the block that is dequeued in part, in the  *)
(* index from the oldest entry on, and destroys the elements of the blocks   *)
(* that are not flagged empty, from there and up to the tail.                *)
HalfDequeued ==
  LET at(k) == Header.entries[Turn(pr_blockIndexFront - pr_blockIndexSlotsUsed + k, Header)]
      reached == {k \in 0..(Header.size - 1) : ~CircularLess(Index(at(k).base + BlockSize), headIndex)}
  IN at(CHOOSE k \in reached : \A j \in reached : k <= j).block
Destroyed ==
  IF tailBlock = Null THEN {}
  ELSE LET begin(b) == IF headIndex % BlockSize # 0 /\ b = HalfDequeued THEN headIndex % BlockSize ELSE 0
           end(b) == IF b = tailBlock /\ tailIndex % BlockSize # 0 THEN tailIndex % BlockSize
                     ELSE BlockSize
       IN UNION {{b} \X (begin(b)..(end(b) - 1)) : b \in {b \in ToTheTail(next[tailBlock]) : ~AllEmpty(b)}}

(* The blocks that a constructor which threw in enqueue() has left, with     *)
(* nothing in them and nothing flagged.                                      *)
LeftBehind == {b \in Blocks \ pool : emptyFlags[b] = {} /\ \A s \in Slots : element[b][s] = Gone}

Holds(e, i, n) ==
  /\ e.block \in Blocks \ pool
  /\ e.base = Base(i)
  /\ \A k \in 0..(n - 1) : element[e.block][(i + k) % BlockSize] = Index(i + k)

(* Whatever the producer is about, its index has an entry for every block    *)
(* with elements in the queue: entries are only written over those of blocks *)
(* whose elements are gone, since as many blocks are counted as there are.   *)
Entry(i) == Header.entries[Slot(i, Header, Header.front)]
IndexHasRoom == \A i \in Queued : Holds(Entry(i), i, 1)

(* Every consumer finds the elements it has claimed, by an entry and in a    *)
(* block that the producer has not turned over to others meanwhile, and no   *)
(* slot is flagged empty twice; every element in the queue can be found.     *)
(* When all calls have returned the counters agree, and the destructor finds *)
(* each of the elements that are left, and nothing else but the slots of     *)
(* blocks that a constructor which threw has left.                           *)
ElementsFoundOnce ==
  /\ \A c \in Consumers :
       LET r == call[c] IN
       CASE r.step = "take" -> Holds(EntryOf(r), r.index, InBlock(r))
         [] r.step = "flag" -> emptyFlags[r.block] \intersect SlotsOf(r) = {}
         [] OTHER           -> TRUE
  /\ IndexHasRoom
  /\ (producer.step = "idle" /\ \A c \in Consumers : call[c].step = "idle") =>
       /\ CountersSettled
       /\ {d \in Destroyed : d[1] \notin LeftBehind} =
            {d \in Blocks \X Slots : element[d[1]][d[2]] # Gone}
=============================================================================
