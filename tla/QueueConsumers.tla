--------------------------- MODULE QueueConsumers ---------------------------
(***************************************************************************)
(* How consumers of a ConcurrentQueue choose among its producers           *)
(* (util/concurrentqueue.h): try_dequeue(), which goes for the fullest of  *)
(* three, the functions that go through all of them in order, and those    *)
(* with a ConsumerToken, which stays with a producer until a quota makes   *)
(* all consumers move on by one.                                           *)
(*                                                                         *)
(* The queue of a producer (ImplicitQueue, ExplicitQueue) is a number of   *)
(* elements here, and dequeueing from one is one step.  Producers are      *)
(* numbered in the order of the list, whose tail is the newest.            *)
(***************************************************************************)
EXTENDS Integers, FiniteSets

CONSTANTS Consumers,
          Ways,          \* per consumer: the functions it calls
          InitialOffset, \* per consumer: the initialOffset of its token
          Quota,         \* EXPLICIT_CONSUMER_CONSUMPTION_QUOTA_BEFORE_ROTATE
          OffsetRange,   \* the number of values of globalExplicitConsumerOffset
          Maxes,         \* how many elements a call asks for; more than one in bulk
          MaxProducers,  \* bound: how many producers there come to be
          MaxElements    \* bound: how many elements are enqueued

ConsumersAssumption ==
  /\ InitialOffset \in [Consumers -> Nat]
  /\ OffsetRange \in Nat \ {0}
  /\ Maxes \subseteq Nat \ {0}
  /\ MaxProducers \in Nat

None == 0
Idle == [step |-> "idle"]

VARIABLES listed,        \* producerListTail: how many producers are in the list
          producerCount,
          size,          \* per producer: its elements
          enqueued,      \* how many elements were enqueued
          globalOffset,  \* globalExplicitConsumerOffset
          token,         \* per consumer: its ConsumerToken
          call,          \* per consumer: its next access, with its locals
          stayed,        \* per consumer: the producers that have had elements all through its call
          overlooked     \* those of the calls that came back with less than they asked for

vars == <<listed, producerCount, size, enqueued, globalOffset, token, call, stayed, overlooked>>
producers == <<listed, producerCount, size, enqueued>>

NonEmpty == {p \in 1..listed : size[p] > 0}
Lesser(a, b) == IF a < b THEN a ELSE b

Init ==
  /\ listed = 0 /\ producerCount = 0
  /\ size = [p \in 1..MaxProducers |-> 0] /\ enqueued = 0
  /\ globalOffset = 0
  /\ token = [c \in Consumers |-> [current |-> None, desired |-> None, items |-> 0,
                                   known |-> OffsetRange - 1]]
  /\ call = [c \in Consumers |-> Idle]
  /\ stayed = [c \in Consumers |-> {}] /\ overlooked = {}

(* add_producer(): the producer is counted before it is in the list.         *)
CountProducer ==
  /\ producerCount < MaxProducers
  /\ producerCount' = producerCount + 1
  /\ UNCHANGED <<listed, size, enqueued, globalOffset, token, call, stayed, overlooked>>

ListProducer ==
  /\ listed < producerCount
  /\ listed' = listed + 1
  /\ UNCHANGED <<producerCount, size, enqueued, globalOffset, token, call, stayed, overlooked>>

Enqueue(p) ==
  /\ p <= listed /\ enqueued < MaxElements
  /\ size' = [size EXCEPT ![p] = @ + 1]
  /\ enqueued' = enqueued + 1
  /\ UNCHANGED <<listed, producerCount, globalOffset, token, call, stayed, overlooked>>

-----------------------------------------------------------------------------
Calls(c, r) == call' = [call EXCEPT ![c] = r]

Begins(c, way, r) ==
  /\ call[c].step = "idle" /\ way \in Ways[c]
  /\ Calls(c, r)
  /\ stayed' = [stayed EXCEPT ![c] = NonEmpty]
  /\ UNCHANGED <<producers, globalOffset, token, overlooked>>

(* Whose calls take n elements from p leaves a mark in every call.           *)
Take(p, n) ==
  /\ size' = [size EXCEPT ![p] = @ - n]
  /\ stayed' = [c \in Consumers |-> IF size[p] = n THEN stayed[c] \ {p} ELSE stayed[c]]
  /\ UNCHANGED <<listed, producerCount, enqueued>>

Succeeds(c) == Calls(c, Idle) /\ UNCHANGED overlooked
ComesBackShort(c) == Calls(c, Idle) /\ overlooked' = overlooked \union stayed'[c]
GoesOn(c, r) == Calls(c, r) /\ UNCHANGED overlooked

(* try_dequeue(item)                                                         *)
BestOfThree(c) ==
  Begins(c, "bestOfThree", [step |-> "score", at |-> listed, best |-> None, bestSize |-> 0,
                            nonEmpty |-> 0])

(* size_approx() of one producer after the other, until three have elements. *)
Score(c) ==
  LET r == call[c]
      n == size[r.at]
  IN /\ r.step = "score" /\ r.at > 0 /\ r.nonEmpty < 3
     /\ Calls(c, [r EXCEPT !.at = @ - 1, !.nonEmpty = IF n > 0 THEN @ + 1 ELSE @,
                           !.best = IF n > r.bestSize THEN r.at ELSE @,
                           !.bestSize = IF n > @ THEN n ELSE @])
     /\ UNCHANGED <<producers, globalOffset, token, stayed, overlooked>>

AllEmpty(c) ==
  LET r == call[c] IN
  /\ r.step = "score" /\ r.at = 0 /\ r.nonEmpty = 0
  /\ UNCHANGED stayed
  /\ ComesBackShort(c)
  /\ UNCHANGED <<producers, globalOffset, token>>

Scored(c) == call[c].step = "score" /\ call[c].nonEmpty > 0 /\ (call[c].at = 0 \/ call[c].nonEmpty = 3)

(* Mutant: when somebody else was faster, the others are not tried.          *)
TryBestOnly(c) ==
  LET p == call[c].best
      n == Lesser(size[p], 1)
  IN /\ Scored(c)
     /\ Take(p, n)
     /\ IF n = 1 THEN Succeeds(c) ELSE ComesBackShort(c)
     /\ UNCHANGED <<globalOffset, token>>

TryBest(c) ==
  LET p == call[c].best
      n == Lesser(size[p], 1)
  IN /\ Scored(c)
     /\ Take(p, n)
     /\ IF n = 1 THEN Succeeds(c)
        ELSE GoesOn(c, [step |-> "walk", at |-> listed, but |-> p, left |-> 1])
     /\ UNCHANGED <<globalOffset, token>>

(* try_dequeue_non_interleaved(), try_dequeue_bulk() without a token         *)
InOrder(c, max) ==
  Begins(c, "inOrder", [step |-> "walk", at |-> listed, but |-> None, left |-> max])

Walk(c) ==
  LET r == call[c]
      n == IF r.at = r.but THEN 0 ELSE Lesser(size[r.at], r.left)
  IN /\ r.step = "walk" /\ r.at > 0
     /\ Take(r.at, n)
     /\ IF n = r.left THEN Succeeds(c)
        ELSE GoesOn(c, [r EXCEPT !.at = @ - 1, !.left = @ - n])
     /\ UNCHANGED <<globalOffset, token>>

WalkEnds(c) ==
  /\ call[c].step = "walk" /\ call[c].at = 0
  /\ UNCHANGED stayed
  /\ ComesBackShort(c)
  /\ UNCHANGED <<producers, globalOffset, token>>

-----------------------------------------------------------------------------
(* try_dequeue(token, item), try_dequeue_bulk(token, ...): has there been a  *)
(* rotation?  If so, the tail of the list is loaded.                         *)
WithToken(c, max) ==
  LET t == token[c]
      rotated == t.desired = None \/ t.known # globalOffset
  IN /\ ~(t.desired = None /\ listed = 0)
     /\ Begins(c, "token", IF rotated THEN [step |-> "rotate", left |-> max, max |-> max, tail |-> listed]
                  ELSE [step |-> "current", left |-> max, max |-> max])

(* next_prod(), and from the oldest to the tail; n of these steps            *)
Following(p, tail) == IF p = 1 THEN tail ELSE p - 1
Ahead(p, tail, n) == ((p - 1 - n) % tail) + 1

(* update_current_producer_after_rotation()                                  *)
Rotate(c) ==
  LET r == call[c]
      t == token[c]
      start == IF t.desired # None THEN t.desired
               ELSE Ahead(r.tail, r.tail, producerCount - 1 - (InitialOffset[c] % producerCount))
      delta == ((globalOffset + OffsetRange - t.known) % OffsetRange) % producerCount
      desired == Ahead(start, r.tail, delta)
  IN /\ r.step = "rotate"
     /\ token' = [token EXCEPT ![c] = [current |-> desired, desired |-> desired, items |-> 0,
                                       known |-> globalOffset]]
     /\ Calls(c, [step |-> "current", left |-> r.left, max |-> r.max])
     /\ UNCHANGED <<producers, globalOffset, stayed, overlooked>>

(* When the quota of this producer is used up, everybody moves on.           *)
TryCurrent(c) ==
  LET r == call[c]
      p == token[c].current
      n == Lesser(size[p], r.left)
      items == token[c].items + n
  IN /\ r.step = "current"
     /\ Take(p, n)
     /\ token' = [token EXCEPT ![c].items = items]
     /\ globalOffset' = IF n = r.left /\ (items = Quota \/ (items > Quota /\ r.max > 1))
                        THEN (globalOffset + 1) % OffsetRange ELSE globalOffset
     /\ IF n = r.left THEN Succeeds(c)
        ELSE GoesOn(c, [step |-> "tail", left |-> r.left - n])

LoadTail(c) ==
  LET r == call[c] IN
  /\ r.step = "tail"
  /\ Calls(c, [step |-> "ring", left |-> r.left, tail |-> listed,
               at |-> Following(token[c].current, listed)])
  /\ UNCHANGED <<producers, globalOffset, token, stayed, overlooked>>

(* The other producers, from the current one around the list.  A producer    *)
(* with elements becomes the current one.                                    *)
TryNext(c) ==
  LET r == call[c]
      n == Lesser(size[r.at], r.left)
  IN /\ r.step = "ring" /\ r.at # token[c].current
     /\ Take(r.at, n)
     /\ token' = IF n = 0 THEN token
                 ELSE [token EXCEPT ![c].current = r.at, ![c].items = n]
     /\ IF n = r.left THEN Succeeds(c)
        ELSE GoesOn(c, [r EXCEPT !.at = Following(@, r.tail), !.left = @ - n])
     /\ UNCHANGED globalOffset

WentAround(c) ==
  /\ call[c].step = "ring" /\ call[c].at = token[c].current
  /\ UNCHANGED stayed
  /\ ComesBackShort(c)
  /\ UNCHANGED <<producers, globalOffset, token>>

Next ==
  \/ CountProducer \/ ListProducer \/ (\E p \in 1..MaxProducers : Enqueue(p))
  \/ \E c \in Consumers :
       \/ BestOfThree(c) \/ Score(c) \/ AllEmpty(c) \/ TryBest(c)
       \/ (\E max \in Maxes : InOrder(c, max)) \/ Walk(c) \/ WalkEnds(c)
       \/ (\E max \in Maxes : WithToken(c, max)) \/ Rotate(c) \/ TryCurrent(c)
       \/ LoadTail(c) \/ TryNext(c) \/ WentAround(c)

Spec == Init /\ [][Next]_vars

-----------------------------------------------------------------------------
(* A call that comes back with less than it asked for has found every        *)
(* producer empty: there is none that had elements during the whole call,    *)
(* although the order in which a call tries them is made of data that other  *)
(* calls change meanwhile ("all producer streams appeared empty at the time  *)
(* they were checked").  The position of a token is a producer of the list.  *)
NothingOverlooked ==
  /\ overlooked = {}
  /\ \A c \in Consumers : token[c].desired <= listed /\ token[c].current <= listed
=============================================================================
