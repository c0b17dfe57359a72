----------------------------- MODULE MCSharing -----------------------------
(* Small instances of what many threads share: SharedMutex, and the parts of *)
(* the lock-free ConcurrentQueue.  An execution is one of the component      *)
(* named by the variable component; the variables of the others keep the     *)
(* value they have at rest.  The two kinds of producers share variables.     *)
(*                                                                           *)
(* SharedMutex: a reader limit of two, reached by two of three coroutines    *)
(* while the third is a writer or one reader too many.                       *)
EXTENDS SharedMutex, TLC

CONSTANTS Components,                                   \* which of them
          ListThreads, Nodes,                           \* FreeList
          Consumers, BlockSize, IndexRange, MaxExcess,  \* InnerQueue
          c1, c2,                                       \* two consumers
          ImplicitBlocks, IndexCapacity, Start, Excess,     \* ImplicitQueue
          ExplicitBlocks, IndexSize, MaxSubqueue, Failures, \* ExplicitQueue
          Counts, MaxElements,                          \* both
          HashThreads, HashOf, Size, MaxEnds,           \* ProducerHash
          Quota, OffsetRange, MaxProducers, MaxQueued,  \* QueueConsumers
          Queues, Tokens, OwnerThreads, Producers, Tables \* QueueOwners

VARIABLES component,
          freeListHead, freeListRefs, freeListNext, has, at, node, seen, back,
          tailIndex, headIndex, dequeueOptimisticCount, dequeueOvercommit, call,
          element, pool, tailBlock, headers, producer,
          elementsCompletelyDequeued, entries,
          emptyFlags, next, pr_blockIndexSlotsUsed, pr_blockIndexFront,
          tables, count, resizing, inactive, hashCall, ends, mine,
          listed, producerCount, size, enqueued, globalOffset, token, consumerCall, stayed,
          overlooked,
          alive, list, isExplicit, parent, tokenOf, inactiveOf, producerOf, hash, prev,
          entriesOf, tail

(* One consumer takes single elements and the other ones two at once.        *)
OneAndTwo == c1 :> {1} @@ c2 :> {2}

(* All threads have the last slot of the table for their first.              *)
AllCollide == [t \in HashThreads |-> 3]

TheirOffset == c1 :> 0 @@ c2 :> 1
TheirWays   == c1 :> {"token"} @@ c2 :> {"bestOfThree", "inOrder"}

List     == INSTANCE FreeList WITH Threads <- ListThreads
Implicit == INSTANCE ImplicitQueue WITH Blocks <- ImplicitBlocks, Maxes <- OneAndTwo
Explicit == INSTANCE ExplicitQueue WITH Blocks <- ExplicitBlocks, Maxes <- OneAndTwo, Excess <- 0
Hash     == INSTANCE ProducerHash WITH Threads <- HashThreads, Hash <- HashOf, call <- hashCall
Several  == INSTANCE QueueConsumers WITH Ways <- TheirWays, InitialOffset <- TheirOffset,
              Maxes <- {1, 2}, MaxElements <- MaxQueued, call <- consumerCall
Owners   == INSTANCE QueueOwners WITH Threads <- OwnerThreads, token <- tokenOf,
              inactive <- inactiveOf, producer <- producerOf, entries <- entriesOf

ASSUME InstanceAssumption ==
  List!FreeListAssumption /\ Several!ConsumersAssumption /\ Owners!OwnersAssumption
  /\ Hash!HashAssumption

mutexVars    == <<pc, mut, entered, readers>>
listVars     == <<freeListHead, freeListRefs, freeListNext, has, at, node, seen, back>>
producerVars == <<tailIndex, headIndex, dequeueOptimisticCount, dequeueOvercommit, call,
                  element, pool, tailBlock, headers, producer>>
implicitVars == <<elementsCompletelyDequeued, entries>>
explicitVars == <<emptyFlags, next, pr_blockIndexSlotsUsed, pr_blockIndexFront>>
hashVars     == <<tables, count, resizing, inactive, hashCall, ends, mine>>
severalVars  == <<listed, producerCount, size, enqueued, globalOffset, token, consumerCall,
                  stayed, overlooked>>
ownerVars    == <<alive, list, isExplicit, parent, tokenOf, inactiveOf, producerOf, hash, prev,
                  entriesOf, tail>>

ImplicitAtRest == elementsCompletelyDequeued = <<>> /\ entries = <<>>
ExplicitAtRest ==
  /\ emptyFlags = <<>> /\ next = <<>>
  /\ pr_blockIndexSlotsUsed = 0 /\ pr_blockIndexFront = 0
ProducersAtRest ==
  /\ tailIndex = 0 /\ headIndex = 0 /\ dequeueOptimisticCount = 0 /\ dequeueOvercommit = 0
  /\ call = <<>> /\ element = <<>> /\ pool = {} /\ tailBlock = "null" /\ headers = <<>>
  /\ producer = <<>>

MCInit ==
  /\ component \in Components
  /\ Init /\ List!Init /\ Hash!Init /\ Several!Init /\ Owners!Init
  /\ component # "FreeList" => has[CHOOSE t \in ListThreads : TRUE] = Nodes
  /\ CASE component = "ImplicitQueue" -> Implicit!Init /\ ExplicitAtRest
       [] component = "ExplicitQueue" -> Explicit!Init /\ ImplicitAtRest
       [] OTHER -> ImplicitAtRest /\ ExplicitAtRest /\ ProducersAtRest

MCNext ==
  \/ component = "SharedMutex" /\ Next /\ UNCHANGED <<component, listVars, producerVars, implicitVars, explicitVars, hashVars, severalVars, ownerVars>>
  \/ component = "FreeList" /\ List!Next /\ UNCHANGED <<component, mutexVars, producerVars, implicitVars, explicitVars, hashVars, severalVars, ownerVars>>
  \/ component = "ImplicitQueue" /\ Implicit!Next /\ UNCHANGED <<component, mutexVars, listVars, explicitVars, hashVars, severalVars, ownerVars>>
  \/ component = "ExplicitQueue" /\ Explicit!Next /\ UNCHANGED <<component, mutexVars, listVars, implicitVars, hashVars, severalVars, ownerVars>>
  \/ component = "ProducerHash" /\ Hash!Next /\ UNCHANGED <<component, mutexVars, listVars, producerVars, implicitVars, explicitVars, severalVars, ownerVars>>
  \/ component = "QueueConsumers" /\ Several!Next /\ UNCHANGED <<component, mutexVars, listVars, producerVars, implicitVars, explicitVars, hashVars, ownerVars>>
  \/ component = "QueueOwners" /\ Owners!Next /\ UNCHANGED <<component, mutexVars, listVars, producerVars, implicitVars, explicitVars, hashVars, severalVars>>

MCSpec ==
  MCInit /\ [][MCNext]_<<component, mutexVars, listVars, producerVars, implicitVars, explicitVars,
                         hashVars, severalVars, ownerVars>>

(* A node of the free list is in the list or with one thread.                *)
NoNodeTwiceOrLost == component = "FreeList" => List!NoNodeTwiceOrLost

(* What is enqueued, with a token or without, is dequeued once.  The calls   *)
(* come that far: every probe of a table of producers ends.                  *)
ElementsFoundOnce ==
  /\ component = "ImplicitQueue" => Implicit!ElementsFoundOnce
  /\ component = "ExplicitQueue" => Explicit!ElementsFoundOnce
  /\ component = "ProducerHash"  => Hash!TablesKeepRoom

(* "check that the block index has room" (concurrentqueue.h:2211): the       *)
(* producer writes over no entry of a block with elements in the queue.      *)
IndexHasRoom == component = "ExplicitQueue" => Explicit!IndexHasRoom

(* A thread keeps its own producer as long as it lives.                      *)
ProducerOfItsThread == component = "ProducerHash" => Hash!ProducerOfItsThread

(* A call that comes back short has found every producer empty.              *)
NothingOverlooked == component = "QueueConsumers" => Several!NothingOverlooked

(* Tokens, producers, queues, tables and threads point to each other.        *)
OwnersAgree == component = "QueueOwners" => Owners!OwnersAgree
=============================================================================
