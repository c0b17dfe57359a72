----------------------------- MODULE InnerQueue -----------------------------
(***************************************************************************)
(* The queue of one producer in ConcurrentQueue (util/concurrentqueue.h)   *)
(* as its consumers see it: ProducerBase, and the way in which dequeue()   *)
(* and dequeue_bulk() of both kinds of producers come by the indices of    *)
(* their elements.  A consumer first adds what it wants to an optimistic   *)
(* count, then looks whether there was that much, and gives the excess     *)
(* back through a second counter; only then it advances headIndex, which   *)
(* therefore never passes tailIndex.                                       *)
(*                                                                         *)
(* ImplicitQueue and ExplicitQueue extend this module with the producer    *)
(* and with the way from an index to an element.  An action is one access  *)
(* to an atomic; accesses take effect in one order.  index_t wraps.        *)
(***************************************************************************)
EXTENDS Integers, Sequences, FiniteSets

CONSTANTS Consumers,
          BlockSize,   \* QUEUE_BLOCK_SIZE, a power of two greater than one
          IndexRange,  \* the number of values of index_t, a power of two
          Maxes,       \* per consumer: how many elements a call asks for
          Excess,      \* what consumers have given back before
          MaxExcess    \* bound: when so much is given back, calls do not overlap any more

Null == "null"  \* no block
Gone == -1      \* no element
Idle == [step |-> "idle"]

VARIABLES tailIndex,              \* where to enqueue next
          headIndex,              \* where to dequeue next
          dequeueOptimisticCount, \* what consumers have asked for
          dequeueOvercommit,      \* what of it they have given back
          call                    \* per consumer: its next access, with its locals

indices == <<tailIndex, headIndex, dequeueOptimisticCount, dequeueOvercommit>>

Index(i) == i % IndexRange
Base(i) == i - (i % BlockSize)
CircularLess(a, b) == Index(a - b) > IndexRange \div 2

(* The difference of two indices as a signed number. *)
Signed(i) == IF i >= IndexRange \div 2 THEN i - IndexRange ELSE i

Lesser(a, b) == IF a < b THEN a ELSE b

Calls(c, r) == call' = [call EXCEPT ![c] = r]

-----------------------------------------------------------------------------
(* The call begins; dequeue() asks for one element.  tailIndex and           *)
(* dequeueOvercommit only grow, and are old when they are used.  A call that *)
(* overlaps with others may give back, one by itself does not.               *)
Look(c) ==
  /\ call[c].step = "idle"
  /\ Index(dequeueOvercommit - Excess) < MaxExcess \/ \A d \in Consumers : call[d].step = "idle"
  /\ \E max \in Maxes[c] :
       Calls(c, [step |-> "compare", max |-> max, tail |-> tailIndex, over |-> dequeueOvercommit])
  /\ UNCHANGED indices

Compare(c) ==
  LET r == call[c]
      desired == Index(r.tail - (dequeueOptimisticCount - r.over))
  IN /\ r.step = "compare"
     /\ Calls(c, IF CircularLess(0, desired)
                 THEN [step |-> "reserve", want |-> Lesser(desired, r.max), over |-> r.over]
                 ELSE Idle)
     /\ UNCHANGED indices

Reserve(c) ==
  LET r == call[c] IN
  /\ r.step = "reserve"
  /\ dequeueOptimisticCount' = Index(dequeueOptimisticCount + r.want)
  /\ Calls(c, [step |-> "check", want |-> r.want, over |-> r.over, mine |-> dequeueOptimisticCount])
  /\ UNCHANGED <<tailIndex, headIndex, dequeueOvercommit>>

(* How much of it is there? *)
Check(c) ==
  LET r == call[c]
      actual == Index(tailIndex - (r.mine - r.over))
      n == IF CircularLess(0, actual) THEN Lesser(r.want, actual) ELSE 0
  IN /\ r.step = "check"
     /\ Calls(c, IF n < r.want THEN [step |-> "give back", n |-> n, excess |-> r.want - n]
                 ELSE [step |-> "claim", n |-> n])
     /\ UNCHANGED indices

GiveBack(c) ==
  LET r == call[c] IN
  /\ r.step = "give back"
  /\ dequeueOvercommit' = Index(dequeueOvercommit + r.excess)
  /\ Calls(c, IF r.n = 0 THEN Idle ELSE [step |-> "claim", n |-> r.n])
  /\ UNCHANGED <<tailIndex, headIndex, dequeueOptimisticCount>>

(* From here on the n elements from index on are this consumer's.            *)
Claim(c) ==
  LET r == call[c] IN
  /\ r.step = "claim"
  /\ headIndex' = Index(headIndex + r.n)
  /\ Calls(c, [step |-> "find", index |-> headIndex, n |-> r.n])
  /\ UNCHANGED <<tailIndex, dequeueOptimisticCount, dequeueOvercommit>>

AskFor(c) ==
  Look(c) \/ Compare(c) \/ Reserve(c) \/ Check(c) \/ GiveBack(c) \/ Claim(c)

-----------------------------------------------------------------------------
(* How many of its elements a consumer finds in the block of the first.      *)
InBlock(r) == Lesser(r.n, BlockSize - (r.index % BlockSize))

(* The indices of the elements in the queue.                                 *)
Queued == {Index(headIndex + k) : k \in 0..(Index(tailIndex - headIndex) - 1)}

(* The counters agree when no call is under way.                             *)
CountersSettled ==
  /\ headIndex = Index(dequeueOptimisticCount - dequeueOvercommit)
  /\ ~CircularLess(tailIndex, headIndex)
=============================================================================
