---------------------------- MODULE SharingProofs ----------------------------
(***************************************************************************)
(* Proofs about what many threads share, as MCSharing composes it: the     *)
(* list of spare blocks, FreeList, how consumers choose among the          *)
(* producers, QueueConsumers, what the tokens, producers, threads and      *)
(* tables of a queue keep of each other, QueueOwners, and how a thread     *)
(* comes by its producer, ProducerHash.                                    *)
(***************************************************************************)
EXTENDS MCSharing, Sequences, FiniteSetTheorems, SequenceTheorems, WellFoundedInduction, TLAPS

-----------------------------------------------------------------------------
(* The list starts as its module says and makes its steps only, when it is   *)
(* the component that runs and when it rests.                                *)
LEMMA ListRuns ==
  /\ MCInit => List!Init
  /\ [MCNext]_<<component, mutexVars, listVars, producerVars, implicitVars, explicitVars,
                hashVars, severalVars, ownerVars>> => [List!Next]_listVars
  <1>1. MCInit => List!Init
    BY DEF MCInit
  <1>2. MCNext => List!Next \/ UNCHANGED listVars
    BY DEF MCNext
  <1> QED
    BY <1>1, <1>2

-----------------------------------------------------------------------------
(* Induction.  The finite subsets of the numbers are well-founded, and so    *)
(* are the intervals 0..n among them.                                        *)

(* A set of natural numbers that is not empty has a least element.           *)
LEMMA LeastNumber ==
  ASSUME NEW T \in SUBSET Nat, T # {}
  PROVE  \E m \in T : \A k \in T : m <= k
  <1> DEFINE R == StrictSubsetOrdering(Nat)
             F == FiniteSubsetsOf(Nat)
             U == {0..t : t \in T}
  <1>1. IsWellFoundedOn(R, F)
    BY FS_StrictSubsetOrderingWellFounded
  <1>2. U \subseteq F
    <2> SUFFICES ASSUME NEW t \in T PROVE 0..t \in F
      OBVIOUS
    <2>1. IsFiniteSet(0..t)
      BY FS_Interval
    <2> QED
      BY <2>1 DEF FiniteSubsetsOf
  <1>3. U # {}
    OBVIOUS
  <1>4. PICK x \in U : \A y \in U : <<y, x>> \notin R
    <2> HIDE DEF R, F, U
    <2> QED
      BY <1>1, <1>2, <1>3, WFMin
  <1>5. PICK m \in T : x = 0..m
    OBVIOUS
  <1>6. ASSUME NEW k \in T, k < m PROVE FALSE
    <2>1. 0..k \subseteq 0..m /\ 0..k # 0..m
      BY <1>6
    <2>2. <<0..k, 0..m>> \in R
      BY <2>1 DEF StrictSubsetOrdering
    <2> QED
      BY <2>2, <1>4, <1>5
  <1> QED
    BY <1>6

-----------------------------------------------------------------------------
(* The list.  A path is the sequence of the nodes from the head on; the set  *)
(* S is listed when it holds the nodes of a path.                            *)
ListPlaces == Nodes \union {List!Null}
Elements(q) == {q[i] : i \in 1..Len(q)}

IsPath(q, h, links) ==
  /\ h = IF Len(q) = 0 THEN List!Null ELSE q[1]
  /\ \A i \in 1..Len(q) : links[q[i]] = IF i = Len(q) THEN List!Null ELSE q[i + 1]
  /\ \A i, j \in 1..Len(q) : q[i] = q[j] => i = j

IsList(S, h, links) == \E q \in Seq(Nodes) : IsPath(q, h, links) /\ Elements(q) = S

(* Null is no node. *)
LEMMA NullIsNoNode == List!Null \notin Nodes /\ IsFiniteSet(ListThreads)
BY InstanceAssumption DEF List!FreeListAssumption, List!IsFiniteSet, IsFiniteSet

(* The empty list. *)
LEMMA ListEmpty == ASSUME NEW links PROVE IsList({}, List!Null, links)
  <1>1. <<>> \in Seq(Nodes) /\ Len(<<>>) = 0
    OBVIOUS
  <1>2. IsPath(<<>>, List!Null, links) /\ Elements(<<>>) = {}
    BY <1>1 DEF IsPath, Elements
  <1> QED
    BY <1>1, <1>2 DEF IsList

(* A node that links to the head can become the head.                        *)
LEMMA ListGrows ==
  ASSUME NEW S, NEW h, NEW links, IsList(S, h, links),
         NEW n \in Nodes, n \notin S, links[n] = h
  PROVE  IsList(S \union {n}, n, links)
  <1> PICK q \in Seq(Nodes) : IsPath(q, h, links) /\ Elements(q) = S
    BY DEF IsList
  <1> DEFINE r == <<n>> \o q
  <1>1. /\ r \in Seq(Nodes) /\ Len(r) = Len(q) + 1 /\ Len(q) \in Nat
        /\ \A i \in 1..Len(r) : r[i] = IF i = 1 THEN n ELSE q[i - 1]
    <2>1. <<n>> \in Seq(Nodes) /\ Len(<<n>>) = 1 /\ <<n>>[1] = n
      OBVIOUS
    <2>2. /\ r \in Seq(Nodes) /\ Len(r) = 1 + Len(q)
          /\ \A i \in 1..(1 + Len(q)) : r[i] = IF i <= 1 THEN <<n>>[i] ELSE q[i - 1]
      BY <2>1, ConcatProperties
    <2>3. Len(q) \in Nat
      OBVIOUS
    <2> HIDE DEF r
    <2> QED
      BY <2>1, <2>2, <2>3
  <1> HIDE DEF r
  <1>2. \A i \in 1..Len(q) : q[i] # n /\ q[i] \in S
    BY DEF Elements
  <1>3. Elements(r) = S \union {n}
    <2>1. \A x \in S : \E i \in 1..Len(q) : x = q[i]
      BY DEF Elements
    <2>2. \A i \in 1..Len(q) : i + 1 \in 1..Len(r) /\ r[i + 1] = q[i]
      BY <1>1
    <2>3. 1 \in 1..Len(r) /\ r[1] = n
      BY <1>1
    <2>4. \A i \in 1..Len(r) : r[i] \in S \union {n}
      BY <1>1, <1>2
    <2> QED
      BY <2>1, <2>2, <2>3, <2>4, SMTT(20) DEF Elements
  <1>4. \A i \in 1..Len(r) : links[r[i]] = IF i = Len(r) THEN List!Null ELSE r[i + 1]
    <2> SUFFICES ASSUME NEW i \in 1..Len(r)
                 PROVE  links[r[i]] = IF i = Len(r) THEN List!Null ELSE r[i + 1]
      OBVIOUS
    <2>1. CASE i = 1
      BY <2>1, <1>1 DEF IsPath
    <2>2. CASE i # 1
      <3>1. i - 1 \in 1..Len(q) /\ r[i] = q[i - 1]
        BY <2>2, <1>1
      <3>2. links[q[i - 1]] = IF i - 1 = Len(q) THEN List!Null ELSE q[(i - 1) + 1]
        BY <3>1 DEF IsPath
      <3>3. i # Len(r) => r[i + 1] = q[i]
        BY <2>2, <1>1
      <3> QED
        BY <3>1, <3>2, <3>3, <1>1
    <2> QED
      BY <2>1, <2>2
  <1>5. \A i, j \in 1..Len(r) : r[i] = r[j] => i = j
    <2> SUFFICES ASSUME NEW i \in 1..Len(r), NEW j \in 1..Len(r), r[i] = r[j] PROVE i = j
      OBVIOUS
    <2>1. \A k \in 1..Len(r) : k # 1 => k - 1 \in 1..Len(q) /\ r[k] = q[k - 1] /\ r[k] # n
      BY <1>1, <1>2
    <2>2. r[1] = n
      BY <1>1
    <2>3. i # 1 /\ j # 1 => i - 1 = j - 1
      BY <2>1, ZenonT(30) DEF IsPath
    <2> QED
      BY <2>1, <2>2, <2>3
  <1>6. IsPath(r, n, links)
    BY <1>1, <1>4, <1>5 DEF IsPath
  <1> QED
    BY <1>1, <1>3, <1>6 DEF IsList

(* Without its head a list is what the head links to.                        *)
LEMMA ListShrinks ==
  ASSUME NEW S, NEW h \in Nodes, NEW links, IsList(S, h, links)
  PROVE  h \in S /\ IsList(S \ {h}, links[h], links)
  <1> PICK q \in Seq(Nodes) : IsPath(q, h, links) /\ Elements(q) = S
    BY DEF IsList
  <1>1. Len(q) \in Nat /\ Len(q) # 0 /\ h = q[1] /\ q # <<>>
    BY NullIsNoNode DEF IsPath
  <1> DEFINE r == Tail(q)
  <1>2. /\ r \in Seq(Nodes) /\ Len(r) = Len(q) - 1
        /\ \A i \in 1..Len(r) : r[i] = q[i + 1]
    BY <1>1, HeadTailProperties
  <1> HIDE DEF r
  <1>3. h \in S
    BY <1>1 DEF Elements
  <1>4. \A i, j \in 1..Len(q) : q[i] = q[j] => i = j
    BY DEF IsPath
  <1>5. Elements(r) = S \ {h}
    <2>1. ASSUME NEW x \in S \ {h} PROVE x \in Elements(r)
      <3> PICK i \in 1..Len(q) : x = q[i]
        BY DEF Elements
      <3>1. i # 1
        BY <1>1
      <3>2. i - 1 \in 1..Len(r) /\ r[i - 1] = x
        BY <3>1, <1>1, <1>2
      <3> QED
        BY <3>2 DEF Elements
    <2>2. ASSUME NEW i \in 1..Len(r) PROVE r[i] \in S \ {h}
      <3>1. i + 1 \in 1..Len(q) /\ 1 \in 1..Len(q) /\ i + 1 # 1 /\ r[i] = q[i + 1]
        BY <1>1, <1>2
      <3> QED
        BY <3>1, <1>1, <1>4 DEF Elements
    <2> QED
      BY <2>1, <2>2 DEF Elements
  <1>6. \A i \in 1..Len(q) : links[q[i]] = IF i = Len(q) THEN List!Null ELSE q[i + 1]
    BY DEF IsPath
  <1>7. IsPath(r, links[h], links)
    <2>1. links[h] = IF Len(r) = 0 THEN List!Null ELSE r[1]
      BY <1>1, <1>2, <1>6
    <2>2. \A i \in 1..Len(r) : links[r[i]] = IF i = Len(r) THEN List!Null ELSE r[i + 1]
      BY <1>1, <1>2, <1>6
    <2>3. \A i, j \in 1..Len(r) : r[i] = r[j] => i = j
      BY <1>1, <1>2, <1>4
    <2> QED
      BY <2>1, <2>2, <2>3 DEF IsPath
  <1> QED
    BY <1>2, <1>3, <1>5, <1>7 DEF IsList

(* The list stays when only nodes outside of it link to another one.         *)
LEMMA ListKept ==
  ASSUME NEW S, NEW h, NEW links, IsList(S, h, links),
         NEW others, \A n \in S : others[n] = links[n]
  PROVE  IsList(S, h, others)
  <1> PICK q \in Seq(Nodes) : IsPath(q, h, links) /\ Elements(q) = S
    BY DEF IsList
  <1>1. \A i \in 1..Len(q) : others[q[i]] = links[q[i]]
    BY DEF Elements
  <1>2. IsPath(q, h, others)
    BY <1>1 DEF IsPath
  <1> QED
    BY <1>2 DEF IsList

(* A walk from the head meets the nodes of the list.                         *)
LEMMA WalkMeetsTheList ==
  ASSUME NEW S, IsList(S, freeListHead, freeListNext)
  PROVE  List!Listed = S
  <1> PICK q \in Seq(Nodes) : IsPath(q, freeListHead, freeListNext) /\ Elements(q) = S
    BY DEF IsList
  <1>1. Len(q) \in Nat /\ \A i \in 1..Len(q) : q[i] \in S /\ q[i] \in Nodes
    BY DEF Elements
  <1>2. /\ freeListHead = IF Len(q) = 0 THEN List!Null ELSE q[1]
        /\ \A i \in 1..Len(q) : freeListNext[q[i]] = IF i = Len(q) THEN List!Null ELSE q[i + 1]
    BY DEF IsPath
  <1> DEFINE Closed(T) == /\ freeListHead \in T \union {List!Null}
                          /\ \A m \in T : freeListNext[m] \in T \union {List!Null}
  <1>3. S \in SUBSET Nodes /\ Closed(S)
    <2>1. S \in SUBSET Nodes
      BY <1>1 DEF Elements
    <2>2. freeListHead \in S \union {List!Null}
      BY <1>1, <1>2
    <2>3. ASSUME NEW m \in S PROVE freeListNext[m] \in S \union {List!Null}
      <3> PICK i \in 1..Len(q) : m = q[i]
        BY DEF Elements
      <3>1. i # Len(q) => i + 1 \in 1..Len(q)
        BY <1>1
      <3> QED
        BY <3>1, <1>1, <1>2
    <2> QED
      BY <2>1, <2>2, <2>3
  <1>4. ASSUME NEW T \in SUBSET Nodes, Closed(T), NEW n \in S PROVE n \in T
    <2> DEFINE Missed == {i \in 1..Len(q) : q[i] \notin T}
    <2>1. Missed \in SUBSET Nat
      OBVIOUS
    <2>2. ASSUME Missed # {} PROVE FALSE
      <3>1. PICK i \in Missed : \A k \in Missed : i <= k
        <4> HIDE DEF Missed
        <4> QED
          BY <2>1, <2>2, LeastNumber
      <3>2. i \in 1..Len(q) /\ q[i] \notin T /\ q[i] # List!Null
        BY <1>1, NullIsNoNode
      <3>3. CASE i = 1
        BY <3>2, <3>3, <1>1, <1>2, <1>4
      <3>4. CASE i # 1
        <4>1. i - 1 \in 1..Len(q) /\ i - 1 < i /\ (i - 1) + 1 = i /\ i - 1 # Len(q)
          BY <3>2, <3>4, <1>1
        <4>2. i - 1 \notin Missed
          BY <3>1, <4>1
        <4>3. q[i - 1] \in T
          BY <4>1, <4>2
        <4>4. freeListNext[q[i - 1]] = q[i]
          BY <4>1, <1>2
        <4> QED
          BY <4>3, <4>4, <3>2, <1>4
      <3> QED
        BY <3>3, <3>4
    <2> QED
      BY <2>2 DEF Elements
  <1>5. \A n \in Nodes : n \in List!Listed <=> \A T \in SUBSET Nodes : Closed(T) => n \in T
    BY DEF List!Listed
  <1>6. List!Listed \subseteq Nodes
    BY DEF List!Listed
  <1> HIDE DEF Closed
  <1>7. \A n \in Nodes : n \in List!Listed <=> n \in S
    BY <1>3, <1>4, <1>5
  <1> QED
    BY <1>3, <1>6, <1>7

-----------------------------------------------------------------------------
(* The invariant.  A node is in one place: one thread has it, one thread is  *)
(* adding it, one thread owns what was the list's reference (it has just set *)
(* it, or has just taken the node off the list), it is listed, or its flag   *)
(* is set and the threads that still refer to it will find it.  Its count is *)
(* the number of those who refer to it.                                      *)
Words     == [flag : BOOLEAN, n : Int]
Adding    == {"loadHeadToAdd", "setNext", "setRefs"}
Owning    == {"push", "retreat", "settle"}
Referring == {"loadNext", "pop", "letGo", "settle"}

Adds(t, n)   == node[t] = n /\ at[t] \in Adding
Owns(t, n)   == node[t] = n /\ at[t] \in Owning
Refers(t, n) == node[t] = n /\ at[t] \in Referring

ListTypeOK ==
  /\ freeListHead \in ListPlaces
  /\ freeListRefs \in [Nodes -> Words]
  /\ freeListNext \in [Nodes -> ListPlaces]
  /\ has \in [ListThreads -> SUBSET Nodes]
  /\ at \in [ListThreads -> {"idle", "loadHead", "loadRefs", "takeReference"}
                              \union Adding \union Owning \union Referring]
  /\ node \in [ListThreads -> ListPlaces]
  /\ back \in [ListThreads -> ListPlaces]
  /\ seen \in [ListThreads -> ListPlaces \union Words]

(* What thread t has loaded is still true where the code relies on it: only  *)
(* a thread that adds a node changes its link, and nobody refers to it then. *)
ThreadOK(t) ==
  /\ at[t] \notin {"idle", "loadHead"} => node[t] \in Nodes
  /\ at[t] \in {"setNext", "setRefs", "push", "retreat", "pop"} => seen[t] \in ListPlaces
  /\ at[t] \in Adding => freeListRefs[node[t]] = List!Refs(TRUE, 0)
  /\ at[t] \in {"setRefs", "push", "pop"} => freeListNext[node[t]] = seen[t]
  /\ at[t] = "takeReference" => seen[t] \in Words /\ seen[t].n # 0

(* The list's reference, and those of threads.                               *)
References(S, n) ==
  {<<1, t>> : t \in {u \in ListThreads : Refers(u, n)}}
    \union {x \in {<<0, 0>>} : n \in S \/ \E u \in ListThreads : Owns(u, n)}

OnePlace(S, n) ==
  /\ \A t, u \in ListThreads :
       /\ n \in has[t] /\ n \in has[u] => t = u
       /\ (Adds(t, n) \/ Owns(t, n)) /\ (Adds(u, n) \/ Owns(u, n)) => t = u
       /\ n \in has[t] => ~Adds(u, n) /\ ~Owns(u, n)
  /\ n \in S => \A t \in ListThreads : n \notin has[t] /\ ~Adds(t, n) /\ ~Owns(t, n)
  /\ freeListRefs[n].flag =>
       /\ n \notin S
       /\ \A t \in ListThreads : n \notin has[t] /\ ~Owns(t, n)
       /\ freeListRefs[n].n = 0 => \E t \in ListThreads : Adds(t, n)
  /\ \/ n \in S \/ freeListRefs[n].flag
     \/ \E t \in ListThreads : n \in has[t] \/ Adds(t, n) \/ Owns(t, n)

NodeOK(S, n) ==
  /\ freeListRefs[n].n = Cardinality(References(S, n))
  /\ OnePlace(S, n)

Holds(S) ==
  /\ IsList(S, freeListHead, freeListNext)
  /\ \A n \in Nodes : NodeOK(S, n)

ListInv ==
  /\ ListTypeOK
  /\ \A t \in ListThreads : ThreadOK(t)
  /\ \E S \in SUBSET Nodes : Holds(S)

(* The count of a node counts.                                               *)
LEMMA ReferencesFinite ==
  ASSUME NEW S, NEW n
  PROVE  /\ IsFiniteSet(References(S, n))
         /\ Cardinality(References(S, n)) \in Nat
         /\ Cardinality(References(S, n)) = 0 <=> References(S, n) = {}
  <1>1. IsFiniteSet(ListThreads)
    BY NullIsNoNode
  <1> DEFINE A == {<<1, t>> : t \in {u \in ListThreads : Refers(u, n)}}
             B == {x \in {<<0, 0>>} : n \in S \/ \E u \in ListThreads : Owns(u, n)}
  <1>2. IsFiniteSet({u \in ListThreads : Refers(u, n)})
    BY <1>1, FS_Subset
  <1>3. IsFiniteSet(A)
    <2> DEFINE T == {u \in ListThreads : Refers(u, n)}
               f == [u \in T |-> <<1, u>>]
    <2>1. f \in Surjection(T, A)
      BY DEF Surjection
    <2> HIDE DEF T, f, A
    <2> QED
      BY <1>2, <2>1, FS_Surjection DEF T
  <1>4. IsFiniteSet(B)
    <2>1. IsFiniteSet({<<0, 0>>})
      BY FS_Singleton
    <2> QED
      BY <2>1, FS_Subset
  <1>5. IsFiniteSet(A \union B)
    <2> HIDE DEF A, B
    <2> QED
      BY <1>3, <1>4, FS_Union
  <1>6. References(S, n) = A \union B
    BY DEF References
  <1> QED
    BY <1>5, <1>6, FS_CardinalityType, FS_EmptySet

(* A node about which nothing changes.                                       *)
LEMMA SameNode ==
  ASSUME NEW S, NEW T, NEW n, NodeOK(S, n),
         n \in S <=> n \in T, freeListRefs'[n] = freeListRefs[n],
         \A u \in ListThreads : /\ n \in has'[u] <=> n \in has[u]
                                /\ Adds(u, n)' <=> Adds(u, n)
                                /\ Owns(u, n)' <=> Owns(u, n)
                                /\ Refers(u, n)' <=> Refers(u, n)
  PROVE  NodeOK(T, n)'
  <1>1. References(T, n)' = References(S, n)
    BY DEF References
  <1>2. Cardinality(References(T, n))' = Cardinality(References(S, n))
    BY <1>1
  <1>3. OnePlace(T, n)'
    BY DEF NodeOK, OnePlace
  <1> QED
    BY <1>2, <1>3 DEF NodeOK

(* Only thread t has moved, which works on node n.                           *)
Moves(t, n) ==
  /\ \A u \in ListThreads \ {t} : /\ at'[u] = at[u] /\ node'[u] = node[u]
                                  /\ seen'[u] = seen[u] /\ has'[u] = has[u]
  /\ \A m \in Nodes \ {n} :
       /\ freeListRefs'[m] = freeListRefs[m] /\ freeListNext'[m] = freeListNext[m]
       /\ m \in has'[t] <=> m \in has[t]
       /\ Adds(t, m)' <=> Adds(t, m)
       /\ Owns(t, m)' <=> Owns(t, m)
       /\ Refers(t, m)' <=> Refers(t, m)

(* What is left to show of a step is the new state of its thread and of its  *)
(* node, the new list, and what others who work on the node rely on.         *)
LEMMA OneNodeChanges ==
  ASSUME ListInv, NEW t \in ListThreads, NEW n \in Nodes, Moves(t, n),
         NEW S \in SUBSET Nodes, Holds(S), NEW T \in SUBSET Nodes,
         \A m \in Nodes \ {n} : m \in S <=> m \in T,
         ListTypeOK', ThreadOK(t)',
         \A u \in ListThreads \ {t} :
           node[u] = n /\ at[u] \notin {"idle", "loadHead"} => ThreadOK(u)',
         IsList(T, freeListHead', freeListNext'), NodeOK(T, n)'
  PROVE  ListInv'
  <1>1. ASSUME NEW m \in Nodes PROVE NodeOK(T, m)'
    <2>1. CASE m = n
      BY <2>1
    <2>2. CASE m # n
      <3>1. NodeOK(S, m)
        BY DEF Holds
      <3>2. \A u \in ListThreads : /\ m \in has'[u] <=> m \in has[u]
                                   /\ Adds(u, m)' <=> Adds(u, m)
                                   /\ Owns(u, m)' <=> Owns(u, m)
                                   /\ Refers(u, m)' <=> Refers(u, m)
        BY <2>2 DEF Moves, Adds, Owns, Refers
      <3>3. freeListRefs'[m] = freeListRefs[m]
        BY <2>2 DEF Moves
      <3> QED
        BY <2>2, <3>1, <3>2, <3>3, SameNode
    <2> QED
      BY <2>1, <2>2
  <1>2. ASSUME NEW u \in ListThreads PROVE ThreadOK(u)'
    <2>1. CASE u = t
      BY <2>1
    <2>2. CASE u # t /\ node[u] = n /\ at[u] \notin {"idle", "loadHead"}
      BY <2>2
    <2>3. CASE u # t /\ ~(node[u] = n /\ at[u] \notin {"idle", "loadHead"})
      <3>1. ThreadOK(u)
        BY DEF ListInv
      <3>2. at'[u] = at[u] /\ node'[u] = node[u] /\ seen'[u] = seen[u]
        BY <2>3 DEF Moves
      <3>3. CASE at[u] \in {"idle", "loadHead"}
        BY <3>2, <3>3 DEF ThreadOK, Adding
      <3>4. CASE at[u] \notin {"idle", "loadHead"}
        <4>1. node[u] \in Nodes \ {n}
          BY <2>3, <3>1, <3>4 DEF ThreadOK
        <4>2. /\ freeListRefs'[node[u]] = freeListRefs[node[u]]
              /\ freeListNext'[node[u]] = freeListNext[node[u]]
          BY <4>1 DEF Moves
        <4> QED
          BY <3>1, <3>2, <4>2 DEF ThreadOK, Adding, Words, ListPlaces, List!Refs
      <3> QED
        BY <3>3, <3>4
    <2> QED
      BY <2>1, <2>2, <2>3
  <1> QED
    BY <1>1, <1>2 DEF ListInv, Holds

(* A step of thread t that changes nothing but what it remembers.            *)
LEMMA NothingChanges ==
  ASSUME ListInv, NEW t \in ListThreads,
         UNCHANGED <<freeListHead, freeListRefs, freeListNext, has>>,
         \A u \in ListThreads \ {t} : at'[u] = at[u] /\ node'[u] = node[u] /\ seen'[u] = seen[u],
         \A m \in Nodes : /\ Adds(t, m)' <=> Adds(t, m)
                          /\ Owns(t, m)' <=> Owns(t, m)
                          /\ Refers(t, m)' <=> Refers(t, m),
         ListTypeOK', ThreadOK(t)'
  PROVE  ListInv'
  <1> PICK S \in SUBSET Nodes : Holds(S)
    BY DEF ListInv
  <1>1. ASSUME NEW m \in Nodes PROVE NodeOK(S, m)'
    <2>1. NodeOK(S, m)
      BY DEF Holds
    <2>2. \A u \in ListThreads : /\ m \in has'[u] <=> m \in has[u]
                                 /\ Adds(u, m)' <=> Adds(u, m)
                                 /\ Owns(u, m)' <=> Owns(u, m)
                                 /\ Refers(u, m)' <=> Refers(u, m)
      BY DEF Adds, Owns, Refers
    <2> QED
      BY <2>1, <2>2, SameNode
  <1>2. ASSUME NEW u \in ListThreads PROVE ThreadOK(u)'
    <2>1. CASE u = t
      BY <2>1
    <2>2. CASE u # t
      BY <2>2 DEF ListInv, ThreadOK
    <2> QED
      BY <2>1, <2>2
  <1>3. IsList(S, freeListHead', freeListNext')
    BY DEF Holds
  <1> QED
    BY <1>1, <1>2, <1>3 DEF ListInv, Holds

(* At first one thread has all the nodes.                                    *)
LEMMA ListInit == List!Init => ListInv
  <1> SUFFICES ASSUME List!Init PROVE ListInv
    OBVIOUS
  <1> PICK t \in ListThreads : has = [u \in ListThreads |-> IF u = t THEN Nodes ELSE {}]
    BY DEF List!Init
  <1>1. ListTypeOK
    BY DEF List!Init, ListTypeOK, ListPlaces, Words, List!NoRefs, List!Refs
  <1>2. ASSUME NEW u \in ListThreads PROVE ThreadOK(u)
    BY DEF List!Init, ThreadOK, Adding
  <1>3. ASSUME NEW n \in Nodes PROVE NodeOK({}, n)
    <2>1. \A u \in ListThreads : ~Adds(u, n) /\ ~Owns(u, n) /\ ~Refers(u, n)
      BY DEF List!Init, Adds, Owns, Refers, Adding, Owning, Referring
    <2>2. freeListRefs[n].n = 0 /\ freeListRefs[n].flag = FALSE
      BY DEF List!Init, List!NoRefs, List!Refs
    <2>3. References({}, n) = {}
      BY <2>1 DEF References
    <2>4. Cardinality(References({}, n)) = 0
      BY <2>3, FS_EmptySet
    <2>5. OnePlace({}, n)
      BY <2>1, <2>2 DEF OnePlace
    <2> QED
      BY <2>2, <2>4, <2>5 DEF NodeOK
  <1>4. IsList({}, freeListHead, freeListNext)
    BY ListEmpty DEF List!Init
  <1> QED
    BY <1>1, <1>2, <1>3, <1>4 DEF ListInv, Holds

-----------------------------------------------------------------------------
(* The steps.  A thread that is in the loop of try_get(), or idle, has no    *)
(* part in any node.                                                         *)

(* What the names of the accesses say about a thread's part in a node.       *)
LEMMA Parts ==
  ASSUME NEW t, NEW n
  PROVE  /\ at[t] \in {"idle", "loadHead", "loadRefs", "takeReference"} =>
              ~Adds(t, n) /\ ~Owns(t, n) /\ ~Refers(t, n)
         /\ at[t] \in Adding => (Adds(t, n) <=> node[t] = n) /\ ~Owns(t, n) /\ ~Refers(t, n)
         /\ at[t] \in {"push", "retreat"} =>
              (Owns(t, n) <=> node[t] = n) /\ ~Adds(t, n) /\ ~Refers(t, n)
         /\ at[t] \in {"loadNext", "pop", "letGo"} =>
              (Refers(t, n) <=> node[t] = n) /\ ~Adds(t, n) /\ ~Owns(t, n)
         /\ at[t] = "settle" =>
              (Refers(t, n) <=> node[t] = n) /\ (Owns(t, n) <=> node[t] = n) /\ ~Adds(t, n)
BY DEF Adds, Owns, Refers, Adding, Owning, Referring

(* The same after a step. *)
LEMMA PartsNext ==
  ASSUME NEW t, NEW n
  PROVE  /\ at'[t] \in {"idle", "loadHead", "loadRefs", "takeReference"} =>
              ~Adds(t, n)' /\ ~Owns(t, n)' /\ ~Refers(t, n)'
         /\ at'[t] \in Adding => (Adds(t, n)' <=> node'[t] = n) /\ ~Owns(t, n)' /\ ~Refers(t, n)'
         /\ at'[t] \in {"push", "retreat"} =>
              (Owns(t, n)' <=> node'[t] = n) /\ ~Adds(t, n)' /\ ~Refers(t, n)'
         /\ at'[t] \in {"loadNext", "pop", "letGo"} =>
              (Refers(t, n)' <=> node'[t] = n) /\ ~Adds(t, n)' /\ ~Owns(t, n)'
         /\ at'[t] = "settle" =>
              (Refers(t, n)' <=> node'[t] = n) /\ (Owns(t, n)' <=> node'[t] = n) /\ ~Adds(t, n)'
BY DEF Adds, Owns, Refers, Adding, Owning, Referring

(* The loop of try_get() goes on with a head, or ends. *)
LEMMA Loops ==
  ASSUME ListTypeOK, NEW t \in ListThreads, NEW h \in ListPlaces, List!Loop(t, h)
  PROVE  /\ \A u \in ListThreads \ {t} : at'[u] = at[u] /\ node'[u] = node[u] /\ seen'[u] = seen[u]
         /\ at'[t] \in {"idle", "loadRefs"}
         /\ at' \in [ListThreads -> {"idle", "loadHead", "loadRefs", "takeReference"}
                                     \union Adding \union Owning \union Referring]
         /\ node' \in [ListThreads -> ListPlaces]
         /\ back' \in [ListThreads -> ListPlaces]
         /\ seen' \in [ListThreads -> ListPlaces \union Words]
         /\ ThreadOK(t)'
         /\ \A m : ~Adds(t, m)' /\ ~Owns(t, m)' /\ ~Refers(t, m)'
  <1>1. /\ at' = [at EXCEPT ![t] = IF h = List!Null THEN "idle" ELSE "loadRefs"]
        /\ node' = [node EXCEPT ![t] = h]
        /\ seen' = [seen EXCEPT ![t] = List!Null]
        /\ back' = [back EXCEPT ![t] = List!Null]
    BY DEF List!Loop
  <1>2. List!Null \in ListPlaces
    BY DEF ListPlaces
  <1>3. at'[t] \in {"idle", "loadRefs"} /\ (at'[t] = "loadRefs" => node'[t] \in Nodes)
    BY <1>1 DEF ListTypeOK, ListPlaces
  <1>4. ThreadOK(t)'
    BY <1>3 DEF ThreadOK, Adding
  <1>5. \A m : ~Adds(t, m)' /\ ~Owns(t, m)' /\ ~Refers(t, m)'
    BY <1>3, PartsNext
  <1>6. /\ node' \in [ListThreads -> ListPlaces]
        /\ back' \in [ListThreads -> ListPlaces]
        /\ seen' \in [ListThreads -> ListPlaces \union Words]
    BY <1>1, <1>2 DEF ListTypeOK
  <1>7. at' \in [ListThreads -> {"idle", "loadHead", "loadRefs", "takeReference"}
                                  \union Adding \union Owning \union Referring]
    BY <1>1 DEF ListTypeOK
  <1>8. \A u \in ListThreads \ {t} : at'[u] = at[u] /\ node'[u] = node[u] /\ seen'[u] = seen[u]
    BY <1>1 DEF ListTypeOK
  <1> QED
    BY <1>3, <1>4, <1>5, <1>6, <1>7, <1>8

(* It starts again. *)
LEMMA Reloads ==
  ASSUME ListTypeOK, NEW t \in ListThreads, List!Reload(t)
  PROVE  /\ \A u \in ListThreads \ {t} : at'[u] = at[u] /\ node'[u] = node[u] /\ seen'[u] = seen[u]
         /\ at' \in [ListThreads -> {"idle", "loadHead", "loadRefs", "takeReference"}
                                     \union Adding \union Owning \union Referring]
         /\ node' \in [ListThreads -> ListPlaces]
         /\ back' \in [ListThreads -> ListPlaces]
         /\ seen' \in [ListThreads -> ListPlaces \union Words]
         /\ ThreadOK(t)'
         /\ \A m : ~Adds(t, m)' /\ ~Owns(t, m)' /\ ~Refers(t, m)'
  <1>1. /\ at' = [at EXCEPT ![t] = "loadHead"]
        /\ node' = [node EXCEPT ![t] = List!Null]
        /\ seen' = [seen EXCEPT ![t] = List!Null]
        /\ back' = back
    BY DEF List!Reload
  <1>2. List!Null \in ListPlaces
    BY DEF ListPlaces
  <1>3. at'[t] = "loadHead"
    BY <1>1 DEF ListTypeOK
  <1>4. ThreadOK(t)'
    BY <1>3 DEF ThreadOK, Adding
  <1>5. \A m : ~Adds(t, m)' /\ ~Owns(t, m)' /\ ~Refers(t, m)'
    BY <1>3, PartsNext
  <1>6. /\ node' \in [ListThreads -> ListPlaces]
        /\ back' \in [ListThreads -> ListPlaces]
        /\ seen' \in [ListThreads -> ListPlaces \union Words]
    BY <1>1, <1>2 DEF ListTypeOK
  <1>7. at' \in [ListThreads -> {"idle", "loadHead", "loadRefs", "takeReference"}
                                  \union Adding \union Owning \union Referring]
    BY <1>1 DEF ListTypeOK
  <1>8. \A u \in ListThreads \ {t} : at'[u] = at[u] /\ node'[u] = node[u] /\ seen'[u] = seen[u]
    BY <1>1 DEF ListTypeOK
  <1> QED
    BY <1>3, <1>4, <1>5, <1>6, <1>7, <1>8

(* The accesses that only load.                                              *)
LEMMA LoadsKeep ==
  ASSUME ListInv, NEW t \in ListThreads,
         \/ List!LoadHeadToAdd(t) \/ List!LoadHead(t) \/ List!LoadRefs(t) \/ List!LoadNext(t)
  PROVE  ListInv'
  <1>0. ListTypeOK /\ ThreadOK(t)
    BY DEF ListInv
  <1>1. CASE List!LoadHeadToAdd(t)
    <2>1. /\ at[t] = "loadHeadToAdd" /\ at' = [at EXCEPT ![t] = "setNext"]
          /\ seen' = [seen EXCEPT ![t] = freeListHead]
          /\ UNCHANGED <<freeListHead, freeListRefs, freeListNext, has, node, back>>
      BY <1>1 DEF List!LoadHeadToAdd, List!Goes
    <2>2. at[t] \in Adding /\ at'[t] \in Adding
      BY <1>0, <2>1 DEF ListTypeOK, Adding
    <2>3. ListTypeOK'
      BY <1>0, <2>1 DEF ListTypeOK, Adding
    <2>4. ThreadOK(t)'
      BY <1>0, <2>1, <2>2 DEF ListTypeOK, ThreadOK
    <2>5. \A m \in Nodes : /\ Adds(t, m)' <=> Adds(t, m)
                           /\ Owns(t, m)' <=> Owns(t, m)
                           /\ Refers(t, m)' <=> Refers(t, m)
      BY <2>1, <2>2, Parts, PartsNext
    <2>6. \A u \in ListThreads \ {t} : at'[u] = at[u] /\ node'[u] = node[u] /\ seen'[u] = seen[u]
      BY <1>0, <2>1 DEF ListTypeOK
    <2> QED
      BY <2>1, <2>3, <2>4, <2>5, <2>6, NothingChanges
  <1>2. CASE List!LoadHead(t)
    <2>1. /\ at[t] \in {"idle", "loadHead"} /\ List!Loop(t, freeListHead)
          /\ UNCHANGED <<freeListHead, freeListRefs, freeListNext, has>>
      BY <1>2 DEF List!LoadHead
    <2>2. freeListHead \in ListPlaces
      BY <1>0 DEF ListTypeOK
    <2>3. /\ \A u \in ListThreads \ {t} : at'[u] = at[u] /\ node'[u] = node[u] /\ seen'[u] = seen[u]
          /\ at' \in [ListThreads -> {"idle", "loadHead", "loadRefs", "takeReference"}
                                      \union Adding \union Owning \union Referring]
          /\ node' \in [ListThreads -> ListPlaces]
          /\ back' \in [ListThreads -> ListPlaces]
          /\ seen' \in [ListThreads -> ListPlaces \union Words]
          /\ ThreadOK(t)'
          /\ \A m : ~Adds(t, m)' /\ ~Owns(t, m)' /\ ~Refers(t, m)'
      BY <1>0, <2>1, <2>2, Loops
    <2>4. \A m \in Nodes : ~Adds(t, m) /\ ~Owns(t, m) /\ ~Refers(t, m)
      BY <2>1, Parts
    <2>5. ListTypeOK'
      BY <1>0, <2>1, <2>3 DEF ListTypeOK
    <2> QED
      BY <2>1, <2>3, <2>4, <2>5, NothingChanges
  <1>3. CASE List!LoadRefs(t) /\ freeListRefs[node[t]].n = 0
    <2>1. /\ at[t] = "loadRefs" /\ List!Reload(t)
          /\ UNCHANGED <<freeListHead, freeListRefs, freeListNext, has>>
      BY <1>3 DEF List!LoadRefs
    <2>3. /\ \A u \in ListThreads \ {t} : at'[u] = at[u] /\ node'[u] = node[u] /\ seen'[u] = seen[u]
          /\ at' \in [ListThreads -> {"idle", "loadHead", "loadRefs", "takeReference"}
                                      \union Adding \union Owning \union Referring]
          /\ node' \in [ListThreads -> ListPlaces]
          /\ back' \in [ListThreads -> ListPlaces]
          /\ seen' \in [ListThreads -> ListPlaces \union Words]
          /\ ThreadOK(t)'
          /\ \A m : ~Adds(t, m)' /\ ~Owns(t, m)' /\ ~Refers(t, m)'
      BY <1>0, <2>1, Reloads
    <2>4. \A m \in Nodes : ~Adds(t, m) /\ ~Owns(t, m) /\ ~Refers(t, m)
      BY <2>1, Parts
    <2>5. ListTypeOK'
      BY <1>0, <2>1, <2>3 DEF ListTypeOK
    <2> QED
      BY <2>1, <2>3, <2>4, <2>5, NothingChanges
  <1>4. CASE List!LoadRefs(t) /\ freeListRefs[node[t]].n # 0
    <2>1. /\ at[t] = "loadRefs" /\ at' = [at EXCEPT ![t] = "takeReference"]
          /\ seen' = [seen EXCEPT ![t] = freeListRefs[node[t]]]
          /\ UNCHANGED <<freeListHead, freeListRefs, freeListNext, has, node, back>>
      BY <1>4 DEF List!LoadRefs
    <2>2. node[t] \in Nodes /\ freeListRefs[node[t]] \in Words
      BY <1>0, <2>1 DEF ThreadOK, ListTypeOK
    <2>3. at'[t] = "takeReference" /\ seen'[t] = freeListRefs[node[t]]
      BY <1>0, <2>1 DEF ListTypeOK
    <2>4. ListTypeOK'
      BY <1>0, <2>1, <2>2 DEF ListTypeOK
    <2>5. ThreadOK(t)'
      BY <1>4, <2>1, <2>2, <2>3 DEF ThreadOK, Adding
    <2>6. \A m \in Nodes : /\ ~Adds(t, m) /\ ~Owns(t, m) /\ ~Refers(t, m)
                           /\ ~Adds(t, m)' /\ ~Owns(t, m)' /\ ~Refers(t, m)'
      BY <2>1, <2>3, Parts, PartsNext
    <2>7. \A u \in ListThreads \ {t} : at'[u] = at[u] /\ node'[u] = node[u] /\ seen'[u] = seen[u]
      BY <1>0, <2>1 DEF ListTypeOK
    <2> QED
      BY <2>1, <2>4, <2>5, <2>6, <2>7, NothingChanges
  <1>5. CASE List!LoadNext(t)
    <2>1. /\ at[t] = "loadNext" /\ at' = [at EXCEPT ![t] = "pop"]
          /\ seen' = [seen EXCEPT ![t] = freeListNext[node[t]]]
          /\ UNCHANGED <<freeListHead, freeListRefs, freeListNext, has, node, back>>
      BY <1>5 DEF List!LoadNext, List!Goes
    <2>2. node[t] \in Nodes /\ freeListNext[node[t]] \in ListPlaces
      BY <1>0, <2>1 DEF ThreadOK, ListTypeOK
    <2>3. at'[t] = "pop" /\ seen'[t] = freeListNext[node[t]]
      BY <1>0, <2>1 DEF ListTypeOK
    <2>4. ListTypeOK'
      BY <1>0, <2>1, <2>2 DEF ListTypeOK, Referring
    <2>5. ThreadOK(t)'
      BY <2>1, <2>2, <2>3 DEF ThreadOK, Adding
    <2>6. \A m \in Nodes : /\ Adds(t, m)' <=> Adds(t, m)
                           /\ Owns(t, m)' <=> Owns(t, m)
                           /\ Refers(t, m)' <=> Refers(t, m)
      BY <2>1, <2>3, Parts, PartsNext
    <2>7. \A u \in ListThreads \ {t} : at'[u] = at[u] /\ node'[u] = node[u] /\ seen'[u] = seen[u]
      BY <1>0, <2>1 DEF ListTypeOK
    <2> QED
      BY <2>1, <2>4, <2>5, <2>6, <2>7, NothingChanges
  <1> QED
    BY <1>1, <1>2, <1>3, <1>4, <1>5

(* Without a count, nobody refers to the node and it is not listed.          *)
LEMMA NoReferences ==
  ASSUME NEW S, NEW n, NodeOK(S, n), freeListRefs[n].n = 0
  PROVE  n \notin S /\ \A u \in ListThreads : ~Refers(u, n) /\ ~Owns(u, n)
  <1>1. References(S, n) = {}
    BY ReferencesFinite DEF NodeOK
  <1> QED
    BY <1>1 DEF References

(* The parts of the threads that do not move. *)
LEMMA OthersStay ==
  ASSUME NEW t, \A u \in ListThreads \ {t} : at'[u] = at[u] /\ node'[u] = node[u]
  PROVE  \A u \in ListThreads \ {t} : \A m : /\ Adds(u, m)' <=> Adds(u, m)
                                             /\ Owns(u, m)' <=> Owns(u, m)
                                             /\ Refers(u, m)' <=> Refers(u, m)
BY DEF Adds, Owns, Refers

(* add(): the node is no longer with its thread, and the flag is set. *)
LEMMA AddKeeps ==
  ASSUME ListInv, NEW t \in ListThreads, NEW n \in Nodes, List!Add(t, n)
  PROVE  ListInv'
  <1>0. ListTypeOK /\ ThreadOK(t)
    BY DEF ListInv
  <1> PICK S \in SUBSET Nodes : Holds(S)
    BY DEF ListInv
  <1>1. NodeOK(S, n) /\ OnePlace(S, n)
    BY DEF Holds, NodeOK
  <1>2. /\ at[t] = "idle" /\ n \in has[t]
        /\ has' = [has EXCEPT ![t] = has[t] \ {n}]
        /\ freeListRefs' = [freeListRefs EXCEPT ![n] = [freeListRefs[n] EXCEPT !.flag = TRUE]]
        /\ UNCHANGED <<freeListHead, freeListNext, seen>>
    BY DEF List!Add
  <1>3. \A m \in Nodes : ~Adds(t, m) /\ ~Owns(t, m) /\ ~Refers(t, m)
    BY <1>2, Parts
  <1>4. /\ freeListRefs[n] \in Words /\ freeListRefs[n].flag = FALSE
        /\ n \notin S /\ \A u \in ListThreads : ~Adds(u, n) /\ ~Owns(u, n)
    BY <1>0, <1>1, <1>2 DEF OnePlace, ListTypeOK, Words
  <1>5. /\ freeListRefs'[n] \in Words
        /\ freeListRefs'[n].flag = TRUE /\ freeListRefs'[n].n = freeListRefs[n].n
        /\ freeListRefs' \in [Nodes -> Words]
        /\ \A m \in Nodes \ {n} : freeListRefs'[m] = freeListRefs[m]
    BY <1>0, <1>2, <1>4 DEF ListTypeOK, Words
  <1>6. /\ has' \in [ListThreads -> SUBSET Nodes]
        /\ \A u \in ListThreads : \A m \in Nodes :
             m \in has'[u] <=> m \in has[u] /\ ~(u = t /\ m = n)
        /\ \A u \in ListThreads \ {t} : has'[u] = has[u]
    BY <1>0, <1>2 DEF ListTypeOK
  <1>7. CASE freeListRefs[n] = List!NoRefs
    <2>1. /\ at' = [at EXCEPT ![t] = "loadHeadToAdd"]
          /\ node' = [node EXCEPT ![t] = n]
          /\ back' = [back EXCEPT ![t] = List!Null]
      BY <1>7 DEF List!Add
    <2>2. /\ at'[t] = "loadHeadToAdd" /\ node'[t] = n
          /\ \A u \in ListThreads \ {t} : at'[u] = at[u] /\ node'[u] = node[u] /\ seen'[u] = seen[u]
      BY <1>0, <1>2, <2>1 DEF ListTypeOK
    <2>3. ListTypeOK'
      BY <1>0, <1>2, <1>5, <1>6, <2>1 DEF ListTypeOK, Adding, ListPlaces
    <2>4. freeListRefs'[n] = List!Refs(TRUE, 0) /\ freeListRefs[n].n = 0
      BY <1>5, <1>7 DEF Words, List!Refs, List!NoRefs
    <2>5. ThreadOK(t)'
      BY <2>2, <2>4 DEF ThreadOK
    <2>6. /\ Adds(t, n)' /\ ~Owns(t, n)' /\ ~Refers(t, n)'
          /\ \A m \in Nodes \ {n} : ~Adds(t, m)' /\ ~Owns(t, m)' /\ ~Refers(t, m)'
      BY <2>2, PartsNext DEF Adding
    <2>7. \A u \in ListThreads \ {t} : \A m : /\ Adds(u, m)' <=> Adds(u, m)
                                              /\ Owns(u, m)' <=> Owns(u, m)
                                              /\ Refers(u, m)' <=> Refers(u, m)
      BY <2>2, OthersStay
    <2>8. References(S, n)' = References(S, n)
      BY <1>3, <2>6, <2>7 DEF References
    <2>9. OnePlace(S, n)'
      BY <1>1, <1>2, <1>4, <1>5, <1>6, <2>6, <2>7 DEF OnePlace
    <2>10. NodeOK(S, n)'
      BY <1>1, <1>5, <2>8, <2>9 DEF NodeOK
    <2>11. Moves(t, n)
      BY <1>2, <1>3, <1>5, <1>6, <2>2, <2>6 DEF Moves
    <2>12. ASSUME NEW u \in ListThreads \ {t}, node[u] = n, at[u] \notin {"idle", "loadHead"}
           PROVE  ThreadOK(u)'
      <3>1. ThreadOK(u) /\ at'[u] = at[u] /\ node'[u] = n /\ seen'[u] = seen[u] /\ at[u] \notin Adding
        BY <1>4, <2>2, <2>12 DEF ListInv, Adds
      <3> QED
        BY <1>2, <2>12, <3>1 DEF ThreadOK
    <2>13. IsList(S, freeListHead', freeListNext')
      BY <1>2 DEF Holds
    <2> QED
      BY <2>3, <2>5, <2>10, <2>11, <2>12, <2>13, OneNodeChanges
  <1>8. CASE freeListRefs[n] # List!NoRefs
    <2>1. UNCHANGED <<at, node, back>>
      BY <1>8 DEF List!Add
    <2>2. freeListRefs[n].n # 0
      BY <1>4, <1>8 DEF Words, List!Refs, List!NoRefs
    <2>3. ListTypeOK'
      BY <1>0, <1>2, <1>5, <1>6, <2>1 DEF ListTypeOK
    <2>4. ThreadOK(t)'
      BY <1>2, <2>1 DEF ThreadOK, Adding
    <2>5. \A u \in ListThreads : \A m : /\ Adds(u, m)' <=> Adds(u, m)
                                        /\ Owns(u, m)' <=> Owns(u, m)
                                        /\ Refers(u, m)' <=> Refers(u, m)
      BY <2>1 DEF Adds, Owns, Refers
    <2>6. References(S, n)' = References(S, n)
      BY <2>5 DEF References
    <2>7. OnePlace(S, n)'
      BY <1>1, <1>2, <1>4, <1>5, <1>6, <2>2, <2>5 DEF OnePlace
    <2>8. NodeOK(S, n)'
      BY <1>1, <1>5, <2>6, <2>7 DEF NodeOK
    <2>9. Moves(t, n)
      BY <1>2, <1>5, <1>6, <2>1, <2>5 DEF Moves
    <2>10. ASSUME NEW u \in ListThreads \ {t}, node[u] = n, at[u] \notin {"idle", "loadHead"}
           PROVE  ThreadOK(u)'
      <3>1. ThreadOK(u) /\ at[u] \notin Adding
        BY <1>4, <2>10 DEF ListInv, Adds
      <3> QED
        BY <1>2, <2>1, <2>10, <3>1 DEF ThreadOK
    <2>11. IsList(S, freeListHead', freeListNext')
      BY <1>2 DEF Holds
    <2> QED
      BY <2>3, <2>4, <2>8, <2>9, <2>10, <2>11, OneNodeChanges
  <1> QED
    BY <1>7, <1>8

(* The link of a node that is being added: nobody refers to it. *)
LEMMA SetNextKeeps ==
  ASSUME ListInv, NEW t \in ListThreads, List!SetNext(t)
  PROVE  ListInv'
  <1>0. ListTypeOK /\ ThreadOK(t)
    BY DEF ListInv
  <1> PICK S \in SUBSET Nodes : Holds(S)
    BY DEF ListInv
  <1>1. /\ at[t] = "setNext" /\ at' = [at EXCEPT ![t] = "setRefs"]
        /\ freeListNext' = [freeListNext EXCEPT ![node[t]] = seen[t]]
        /\ UNCHANGED <<freeListHead, freeListRefs, has, node, seen, back>>
    BY DEF List!SetNext, List!Goes, List!Local
  <1> PICK n \in Nodes : n = node[t]
    BY <1>0, <1>1 DEF ThreadOK
  <1>2. /\ at'[t] = "setRefs" /\ seen[t] \in ListPlaces
        /\ freeListRefs[n] = List!Refs(TRUE, 0)
        /\ \A u \in ListThreads \ {t} : at'[u] = at[u]
    BY <1>0, <1>1 DEF ThreadOK, ListTypeOK, Adding
  <1>3. /\ freeListNext' \in [Nodes -> ListPlaces] /\ freeListNext'[n] = seen[t]
        /\ \A m \in Nodes \ {n} : freeListNext'[m] = freeListNext[m]
    BY <1>0, <1>1, <1>2 DEF ListTypeOK
  <1>4. ListTypeOK'
    BY <1>0, <1>1, <1>3 DEF ListTypeOK, Adding
  <1>5. NodeOK(S, n) /\ OnePlace(S, n)
    BY DEF Holds, NodeOK
  <1>6. n \notin S /\ \A u \in ListThreads : ~Refers(u, n) /\ ~Owns(u, n)
    BY <1>2, <1>5, NoReferences DEF List!Refs
  <1>7. Adds(t, n) /\ \A u \in ListThreads \ {t} : ~Adds(u, n)
    BY <1>1, <1>5 DEF OnePlace, Adds, Adding
  <1>8. ThreadOK(t)'
    BY <1>1, <1>2, <1>3 DEF ThreadOK
  <1>9. \A u \in ListThreads : \A m : /\ Adds(u, m)' <=> Adds(u, m)
                                      /\ Owns(u, m)' <=> Owns(u, m)
                                      /\ Refers(u, m)' <=> Refers(u, m)
    <2>1. \A m : /\ Adds(t, m)' <=> Adds(t, m)
                 /\ Owns(t, m)' <=> Owns(t, m)
                 /\ Refers(t, m)' <=> Refers(t, m)
      BY <1>1, <1>2, Parts, PartsNext DEF Adding
    <2> QED
      BY <1>1, <1>2, <2>1, OthersStay
  <1>10. NodeOK(S, n)'
    BY <1>1, <1>5, <1>9, SameNode
  <1>11. Moves(t, n)
    BY <1>1, <1>2, <1>3, <1>9 DEF Moves
  <1>12. ASSUME NEW u \in ListThreads \ {t}, node[u] = n, at[u] \notin {"idle", "loadHead"}
         PROVE  ThreadOK(u)'
    <2>1. ThreadOK(u) /\ at[u] \notin Adding \union Owning \union Referring
      BY <1>6, <1>7, <1>12 DEF ListInv, Adds, Owns, Refers
    <2>2. at'[u] = at[u] /\ node'[u] = n /\ seen'[u] = seen[u]
      BY <1>1, <1>2, <1>12
    <2> QED
      BY <1>12, <2>1, <2>2 DEF ThreadOK, Adding, Owning, Referring
  <1>13. IsList(S, freeListHead', freeListNext')
    <2>1. IsList(S, freeListHead, freeListNext) /\ \A m \in S : freeListNext'[m] = freeListNext[m]
      BY <1>3, <1>6 DEF Holds
    <2> QED
      BY <1>1, <2>1, ListKept
  <1> QED
    BY <1>4, <1>8, <1>10, <1>11, <1>12, <1>13, OneNodeChanges

(* The count becomes one, for the list. *)
LEMMA SetRefsKeeps ==
  ASSUME ListInv, NEW t \in ListThreads, List!SetRefs(t)
  PROVE  ListInv'
  <1>0. ListTypeOK /\ ThreadOK(t)
    BY DEF ListInv
  <1> PICK S \in SUBSET Nodes : Holds(S)
    BY DEF ListInv
  <1>1. /\ at[t] = "setRefs" /\ at' = [at EXCEPT ![t] = "push"]
        /\ freeListRefs' = [freeListRefs EXCEPT ![node[t]] = List!Refs(FALSE, 1)]
        /\ UNCHANGED <<freeListHead, freeListNext, has, node, seen, back>>
    BY DEF List!SetRefs, List!Goes, List!Local
  <1> PICK n \in Nodes : n = node[t]
    BY <1>0, <1>1 DEF ThreadOK
  <1>2. /\ at'[t] = "push" /\ seen[t] \in ListPlaces /\ freeListNext[n] = seen[t]
        /\ freeListRefs[n] = List!Refs(TRUE, 0)
        /\ \A u \in ListThreads \ {t} : at'[u] = at[u]
    BY <1>0, <1>1 DEF ThreadOK, ListTypeOK, Adding
  <1>3. /\ freeListRefs' \in [Nodes -> Words]
        /\ freeListRefs'[n].n = 1 /\ freeListRefs'[n].flag = FALSE
        /\ \A m \in Nodes \ {n} : freeListRefs'[m] = freeListRefs[m]
    BY <1>0, <1>1 DEF ListTypeOK, Words, List!Refs
  <1>4. ListTypeOK'
    BY <1>0, <1>1, <1>3 DEF ListTypeOK, Owning
  <1>5. NodeOK(S, n) /\ OnePlace(S, n)
    BY DEF Holds, NodeOK
  <1>6. n \notin S /\ \A u \in ListThreads : ~Refers(u, n) /\ ~Owns(u, n)
    BY <1>2, <1>5, NoReferences DEF List!Refs
  <1>7. Adds(t, n) /\ \A u \in ListThreads \ {t} : ~Adds(u, n)
    BY <1>1, <1>5 DEF OnePlace, Adds, Adding
  <1>8. ThreadOK(t)'
    BY <1>1, <1>2 DEF ThreadOK, Adding
  <1>9. /\ Owns(t, n)' /\ ~Adds(t, n)' /\ ~Refers(t, n)'
        /\ \A m \in Nodes \ {n} : /\ ~Owns(t, m)' /\ ~Adds(t, m)' /\ ~Refers(t, m)'
                                  /\ ~Owns(t, m) /\ ~Adds(t, m) /\ ~Refers(t, m)
    BY <1>1, <1>2, Parts, PartsNext DEF Adding
  <1>10. \A u \in ListThreads \ {t} : \A m : /\ Adds(u, m)' <=> Adds(u, m)
                                             /\ Owns(u, m)' <=> Owns(u, m)
                                             /\ Refers(u, m)' <=> Refers(u, m)
    BY <1>1, <1>2, OthersStay
  <1>11. NodeOK(S, n)'
    <2>1. References(S, n)' = {<<0, 0>>}
      BY <1>6, <1>9, <1>10 DEF References
    <2>2. Cardinality(References(S, n))' = 1
      BY <2>1, FS_Singleton
    <2>3. OnePlace(S, n)'
      BY <1>1, <1>3, <1>5, <1>6, <1>7, <1>9, <1>10 DEF OnePlace
    <2> QED
      BY <1>3, <2>2, <2>3 DEF NodeOK
  <1>12. Moves(t, n)
    BY <1>1, <1>2, <1>3, <1>9 DEF Moves
  <1>13. ASSUME NEW u \in ListThreads \ {t}, node[u] = n, at[u] \notin {"idle", "loadHead"}
         PROVE  ThreadOK(u)'
    <2>1. ThreadOK(u) /\ at[u] \notin Adding
      BY <1>7, <1>13 DEF ListInv, Adds
    <2>2. at'[u] = at[u] /\ node'[u] = n /\ seen'[u] = seen[u] /\ freeListNext' = freeListNext
      BY <1>1, <1>2, <1>13
    <2> QED
      BY <1>13, <2>1, <2>2 DEF ThreadOK
  <1>14. IsList(S, freeListHead', freeListNext')
    BY <1>1 DEF Holds
  <1> QED
    BY <1>4, <1>8, <1>11, <1>12, <1>13, <1>14, OneNodeChanges

(* The node becomes the head, with the list's reference; or another head is  *)
(* found.                                                                    *)
LEMMA PushKeeps ==
  ASSUME ListInv, NEW t \in ListThreads, List!Push(t)
  PROVE  ListInv'
  <1>0. ListTypeOK /\ ThreadOK(t)
    BY DEF ListInv
  <1> PICK S \in SUBSET Nodes : Holds(S)
    BY DEF ListInv
  <1>1. at[t] = "push" /\ UNCHANGED <<freeListRefs, freeListNext, has>>
    BY DEF List!Push
  <1> PICK n \in Nodes : n = node[t]
    BY <1>0, <1>1 DEF ThreadOK
  <1>2. /\ Owns(t, n) /\ ~Adds(t, n) /\ ~Refers(t, n)
        /\ \A m \in Nodes \ {n} : ~Owns(t, m) /\ ~Adds(t, m) /\ ~Refers(t, m)
    BY <1>1, Parts
  <1>3. NodeOK(S, n) /\ OnePlace(S, n)
    BY DEF Holds, NodeOK
  <1>4. CASE freeListHead = seen[t]
    <2>1. freeListHead' = n /\ List!Loop(t, back[t]) /\ back[t] \in ListPlaces
      BY <1>0, <1>4 DEF List!Push, ListTypeOK
    <2>2. /\ \A u \in ListThreads \ {t} : at'[u] = at[u] /\ node'[u] = node[u] /\ seen'[u] = seen[u]
          /\ at' \in [ListThreads -> {"idle", "loadHead", "loadRefs", "takeReference"}
                                      \union Adding \union Owning \union Referring]
          /\ node' \in [ListThreads -> ListPlaces]
          /\ back' \in [ListThreads -> ListPlaces]
          /\ seen' \in [ListThreads -> ListPlaces \union Words]
          /\ ThreadOK(t)'
          /\ \A m : ~Adds(t, m)' /\ ~Owns(t, m)' /\ ~Refers(t, m)'
      BY <1>0, <2>1, Loops
    <2>3. ListTypeOK'
      BY <1>0, <1>1, <2>1, <2>2 DEF ListTypeOK, ListPlaces
    <2>4. n \notin S /\ \A u \in ListThreads \ {t} : ~Adds(u, n) /\ ~Owns(u, n) /\ n \notin has[u]
      BY <1>2, <1>3 DEF OnePlace
    <2>5. n \notin has[t] /\ freeListRefs[n].flag = FALSE
      <3>1. freeListRefs[n].flag \in BOOLEAN
        BY <1>0 DEF ListTypeOK, Words
      <3> QED
        BY <1>2, <1>3, <3>1 DEF OnePlace
    <2>6. \A u \in ListThreads \ {t} : \A m : /\ Adds(u, m)' <=> Adds(u, m)
                                              /\ Owns(u, m)' <=> Owns(u, m)
                                              /\ Refers(u, m)' <=> Refers(u, m)
      BY <2>2, OthersStay
    <2> DEFINE T == S \union {n}
    <2>7. References(T, n)' = References(S, n)
      BY <1>2, <2>2, <2>6 DEF References
    <2>8. OnePlace(T, n)'
      BY <1>1, <2>2, <2>4, <2>5, <2>6 DEF OnePlace
    <2>9. NodeOK(T, n)'
      BY <1>1, <1>3, <2>7, <2>8 DEF NodeOK
    <2>10. IsList(T, freeListHead', freeListNext')
      <3>1. freeListNext[n] = freeListHead
        BY <1>0, <1>1, <1>4 DEF ThreadOK
      <3> QED
        BY <1>1, <2>1, <2>4, <3>1, ListGrows DEF Holds
    <2>11. Moves(t, n)
      BY <1>1, <1>2, <2>2 DEF Moves
    <2>12. ASSUME NEW u \in ListThreads \ {t}, node[u] = n, at[u] \notin {"idle", "loadHead"}
           PROVE  ThreadOK(u)'
      BY <1>1, <2>2 DEF ListInv, ThreadOK
    <2>13. T \in SUBSET Nodes /\ \A m \in Nodes \ {n} : m \in S <=> m \in T
      OBVIOUS
    <2> HIDE DEF T
    <2> QED
      BY <2>2, <2>3, <2>9, <2>10, <2>11, <2>12, <2>13, OneNodeChanges
  <1>5. CASE freeListHead # seen[t]
    <2>1. /\ at' = [at EXCEPT ![t] = "retreat"]
          /\ seen' = [seen EXCEPT ![t] = freeListHead]
          /\ UNCHANGED <<freeListHead, node, back>>
      BY <1>5 DEF List!Push
    <2>2. /\ at'[t] = "retreat" /\ seen'[t] = freeListHead /\ freeListHead \in ListPlaces
          /\ \A u \in ListThreads \ {t} : at'[u] = at[u] /\ node'[u] = node[u] /\ seen'[u] = seen[u]
      BY <1>0, <2>1 DEF ListTypeOK
    <2>3. ListTypeOK'
      BY <1>0, <1>1, <2>1 DEF ListTypeOK, Owning
    <2>4. ThreadOK(t)'
      BY <2>1, <2>2 DEF ThreadOK, Adding
    <2>5. \A m \in Nodes : /\ Adds(t, m)' <=> Adds(t, m)
                           /\ Owns(t, m)' <=> Owns(t, m)
                           /\ Refers(t, m)' <=> Refers(t, m)
      BY <1>1, <2>1, <2>2, Parts, PartsNext
    <2> QED
      BY <1>1, <2>1, <2>2, <2>3, <2>4, <2>5, NothingChanges
  <1> QED
    BY <1>4, <1>5

(* The list's reference is given back, the flag is left; the last one who    *)
(* refers to the node adds it.                                               *)
LEMMA RetreatKeeps ==
  ASSUME ListInv, NEW t \in ListThreads, List!Retreat(t)
  PROVE  ListInv'
  <1>0. ListTypeOK /\ ThreadOK(t)
    BY DEF ListInv
  <1> PICK S \in SUBSET Nodes : Holds(S)
    BY DEF ListInv
  <1>1. /\ at[t] = "retreat" /\ UNCHANGED <<freeListHead, freeListNext, has>>
        /\ freeListRefs' = [freeListRefs EXCEPT
             ![node[t]] = List!Refs(TRUE, freeListRefs[node[t]].n - 1)]
    BY DEF List!Retreat
  <1> PICK n \in Nodes : n = node[t]
    BY <1>0, <1>1 DEF ThreadOK
  <1>2. /\ Owns(t, n) /\ ~Adds(t, n) /\ ~Refers(t, n)
        /\ \A m \in Nodes \ {n} : ~Owns(t, m) /\ ~Adds(t, m) /\ ~Refers(t, m)
    BY <1>1, Parts
  <1>3. NodeOK(S, n) /\ OnePlace(S, n)
    BY DEF Holds, NodeOK
  <1>4. /\ n \notin S /\ \A u \in ListThreads : n \notin has[u]
        /\ \A u \in ListThreads \ {t} : ~Adds(u, n) /\ ~Owns(u, n)
    BY <1>2, <1>3 DEF OnePlace
  <1>5. /\ freeListRefs' \in [Nodes -> Words] /\ freeListRefs'[n].flag = TRUE
        /\ freeListRefs[n].n \in Int /\ freeListRefs'[n].n = freeListRefs[n].n - 1
        /\ freeListRefs'[n] = List!Refs(TRUE, freeListRefs[n].n - 1)
        /\ \A m \in Nodes \ {n} : freeListRefs'[m] = freeListRefs[m]
    BY <1>0, <1>1 DEF ListTypeOK, Words, List!Refs
  <1>6. /\ \A u \in ListThreads \ {t} : at'[u] = at[u] /\ node'[u] = node[u] /\ seen'[u] = seen[u]
        /\ ListTypeOK' /\ ThreadOK(t)' /\ ~Owns(t, n)' /\ ~Refers(t, n)'
        /\ \A m \in Nodes \ {n} : ~Owns(t, m)' /\ ~Adds(t, m)' /\ ~Refers(t, m)'
        /\ freeListRefs[n].n = 1 => Adds(t, n)'
        /\ freeListRefs[n].n # 1 => ~Adds(t, n)'
    <2>1. CASE freeListRefs[n].n = 1
      <3>1. at' = [at EXCEPT ![t] = "setNext"] /\ UNCHANGED <<node, seen, back>>
        BY <2>1 DEF List!Retreat, List!Local
      <3>2. at'[t] = "setNext" /\ seen[t] \in ListPlaces
        BY <1>0, <1>1, <3>1 DEF ListTypeOK, ThreadOK
      <3>3. freeListRefs'[n] = List!Refs(TRUE, 0)
        BY <1>5, <2>1
      <3>4. ListTypeOK'
        BY <1>0, <1>1, <1>5, <3>1 DEF ListTypeOK, Adding
      <3>5. ThreadOK(t)'
        BY <3>1, <3>2, <3>3 DEF ThreadOK
      <3>6. /\ Adds(t, n)' /\ ~Owns(t, n)' /\ ~Refers(t, n)'
            /\ \A m \in Nodes \ {n} : ~Owns(t, m)' /\ ~Adds(t, m)' /\ ~Refers(t, m)'
        BY <3>1, <3>2, PartsNext DEF Adding
      <3>7. \A u \in ListThreads \ {t} :
              at'[u] = at[u] /\ node'[u] = node[u] /\ seen'[u] = seen[u]
        BY <1>0, <3>1 DEF ListTypeOK
      <3> QED
        BY <2>1, <3>4, <3>5, <3>6, <3>7
    <2>2. CASE freeListRefs[n].n # 1
      <3>1. List!Loop(t, back[t]) /\ back[t] \in ListPlaces
        BY <1>0, <2>2 DEF List!Retreat, ListTypeOK
      <3>2. /\ \A u \in ListThreads \ {t} :
                 at'[u] = at[u] /\ node'[u] = node[u] /\ seen'[u] = seen[u]
            /\ at' \in [ListThreads -> {"idle", "loadHead", "loadRefs", "takeReference"}
                                        \union Adding \union Owning \union Referring]
            /\ node' \in [ListThreads -> ListPlaces]
            /\ back' \in [ListThreads -> ListPlaces]
            /\ seen' \in [ListThreads -> ListPlaces \union Words]
            /\ ThreadOK(t)'
            /\ \A m : ~Adds(t, m)' /\ ~Owns(t, m)' /\ ~Refers(t, m)'
        BY <1>0, <3>1, Loops
      <3>3. ListTypeOK'
        BY <1>0, <1>1, <1>5, <3>2 DEF ListTypeOK
      <3> QED
        BY <2>2, <3>2, <3>3
    <2> QED
      BY <2>1, <2>2
  <1>7. \A u \in ListThreads \ {t} : \A m : /\ Adds(u, m)' <=> Adds(u, m)
                                            /\ Owns(u, m)' <=> Owns(u, m)
                                            /\ Refers(u, m)' <=> Refers(u, m)
    BY <1>6, OthersStay
  <1>8. freeListRefs'[n].n = Cardinality(References(S, n))'
    <2>1. <<0, 0>> \in References(S, n)
      BY <1>2 DEF References
    <2>2. References(S, n)' = References(S, n) \ {<<0, 0>>}
      BY <1>2, <1>4, <1>6, <1>7 DEF References
    <2>3. Cardinality(References(S, n) \ {<<0, 0>>}) = Cardinality(References(S, n)) - 1
      BY <2>1, ReferencesFinite, FS_RemoveElement, ZenonT(30)
    <2> QED
      BY <1>3, <1>5, <2>2, <2>3 DEF NodeOK
  <1>9. OnePlace(S, n)'
    <2>1. freeListRefs'[n].n = 0 => freeListRefs[n].n = 1
      <3>1. PICK c \in Int : c = freeListRefs[n].n
        BY <1>5
      <3>2. freeListRefs'[n].n = c - 1
        BY <1>5, <3>1
      <3> QED
        BY <3>1, <3>2
    <2>2. freeListRefs'[n].n = 0 => \E u \in ListThreads : Adds(u, n)'
      BY <1>6, <2>1
    <2>3. \A u \in ListThreads : n \notin has'[u] /\ ~Owns(u, n)'
      BY <1>1, <1>4, <1>6, <1>7
    <2>4. \A u \in ListThreads \ {t} : ~Adds(u, n)'
      BY <1>4, <1>7
    <2>5. freeListRefs'[n].flag
      BY <1>5
    <2> QED
      BY <1>4, <2>2, <2>3, <2>4, <2>5 DEF OnePlace
  <1>10. NodeOK(S, n)'
    BY <1>8, <1>9 DEF NodeOK
  <1>11. Moves(t, n)
    BY <1>1, <1>2, <1>5, <1>6 DEF Moves
  <1>12. ASSUME NEW u \in ListThreads \ {t}, node[u] = n, at[u] \notin {"idle", "loadHead"}
         PROVE  ThreadOK(u)'
    <2>1. ThreadOK(u) /\ at[u] \notin Adding
      BY <1>4, <1>12 DEF ListInv, Adds
    <2>2. at'[u] = at[u] /\ node'[u] = n /\ seen'[u] = seen[u] /\ freeListNext' = freeListNext
      BY <1>1, <1>6, <1>12
    <2> QED
      BY <1>12, <2>1, <2>2 DEF ThreadOK
  <1>13. IsList(S, freeListHead', freeListNext')
    BY <1>1 DEF Holds
  <1> QED
    BY <1>6, <1>10, <1>11, <1>12, <1>13, OneNodeChanges

(* A thread refers to a node that is referred to. *)
LEMMA TakeReferenceKeeps ==
  ASSUME ListInv, NEW t \in ListThreads, List!TakeReference(t)
  PROVE  ListInv'
  <1>0. ListTypeOK /\ ThreadOK(t)
    BY DEF ListInv
  <1> PICK S \in SUBSET Nodes : Holds(S)
    BY DEF ListInv
  <1>1. at[t] = "takeReference" /\ UNCHANGED <<freeListHead, freeListNext, has>>
    BY DEF List!TakeReference
  <1> PICK n \in Nodes : n = node[t]
    BY <1>0, <1>1 DEF ThreadOK
  <1>2. \A m : ~Owns(t, m) /\ ~Adds(t, m) /\ ~Refers(t, m)
    BY <1>1, Parts
  <1>3. NodeOK(S, n) /\ OnePlace(S, n)
    BY DEF Holds, NodeOK
  <1>4. CASE freeListRefs[n] # seen[t]
    <2>1. List!Reload(t) /\ UNCHANGED freeListRefs
      BY <1>4 DEF List!TakeReference
    <2>2. /\ \A u \in ListThreads \ {t} : at'[u] = at[u] /\ node'[u] = node[u] /\ seen'[u] = seen[u]
          /\ at' \in [ListThreads -> {"idle", "loadHead", "loadRefs", "takeReference"}
                                      \union Adding \union Owning \union Referring]
          /\ node' \in [ListThreads -> ListPlaces]
          /\ back' \in [ListThreads -> ListPlaces]
          /\ seen' \in [ListThreads -> ListPlaces \union Words]
          /\ ThreadOK(t)'
          /\ \A m : ~Adds(t, m)' /\ ~Owns(t, m)' /\ ~Refers(t, m)'
      BY <1>0, <2>1, Reloads
    <2>3. ListTypeOK'
      BY <1>0, <1>1, <2>1, <2>2 DEF ListTypeOK
    <2> QED
      BY <1>1, <1>2, <2>1, <2>2, <2>3, NothingChanges
  <1>5. CASE freeListRefs[n] = seen[t]
    <2>1. /\ freeListRefs' = [freeListRefs EXCEPT
               ![n] = [freeListRefs[n] EXCEPT !.n = freeListRefs[n].n + 1]]
          /\ at' = [at EXCEPT ![t] = "loadNext"]
          /\ seen' = [seen EXCEPT ![t] = List!Null]
          /\ UNCHANGED <<node, back>>
      BY <1>5 DEF List!TakeReference
    <2>2. freeListRefs[n] \in Words /\ freeListRefs[n].n # 0
      BY <1>0, <1>1, <1>5 DEF ListTypeOK, ThreadOK
    <2>3. /\ freeListRefs' \in [Nodes -> Words]
          /\ freeListRefs'[n].n = freeListRefs[n].n + 1
          /\ freeListRefs'[n].flag = freeListRefs[n].flag
          /\ \A m \in Nodes \ {n} : freeListRefs'[m] = freeListRefs[m]
      BY <1>0, <2>1, <2>2 DEF ListTypeOK, Words
    <2>4. /\ at'[t] = "loadNext"
          /\ \A u \in ListThreads \ {t} : at'[u] = at[u] /\ node'[u] = node[u] /\ seen'[u] = seen[u]
      BY <1>0, <2>1 DEF ListTypeOK
    <2>5. ListTypeOK'
      BY <1>0, <1>1, <2>1, <2>3 DEF ListTypeOK, Referring, ListPlaces
    <2>6. ThreadOK(t)'
      BY <2>1, <2>4 DEF ThreadOK, Adding
    <2>7. /\ Refers(t, n)' /\ ~Owns(t, n)' /\ ~Adds(t, n)'
          /\ \A m \in Nodes \ {n} : ~Owns(t, m)' /\ ~Adds(t, m)' /\ ~Refers(t, m)'
      BY <2>1, <2>4, PartsNext
    <2>8. \A u \in ListThreads \ {t} : \A m : /\ Adds(u, m)' <=> Adds(u, m)
                                              /\ Owns(u, m)' <=> Owns(u, m)
                                              /\ Refers(u, m)' <=> Refers(u, m)
      BY <2>4, OthersStay
    <2>9. freeListRefs'[n].n = Cardinality(References(S, n))'
      <3>1. References(S, n)' = References(S, n) \union {<<1, t>>}
        BY <1>2, <2>7, <2>8 DEF References
      <3>2. <<1, t>> \notin References(S, n)
        BY <1>2 DEF References
      <3>3. Cardinality(References(S, n) \union {<<1, t>>}) = Cardinality(References(S, n)) + 1
        BY <3>2, ReferencesFinite, FS_AddElement
      <3> QED
        BY <1>3, <2>3, <3>1, <3>3 DEF NodeOK
    <2>10. \A u \in ListThreads : ~Adds(u, n)
      <3> SUFFICES ASSUME NEW u \in ListThreads, Adds(u, n) PROVE FALSE
        OBVIOUS
      <3>1. freeListRefs[n] = List!Refs(TRUE, 0)
        BY DEF ListInv, ThreadOK, Adds
      <3> QED
        BY <2>2, <3>1 DEF List!Refs
    <2>11. OnePlace(S, n)'
      <3>1. freeListRefs'[n].n # 0
        <4>1. Cardinality(References(S, n)) \in Nat
          BY ReferencesFinite
        <4> QED
          BY <1>3, <2>3, <4>1 DEF NodeOK
      <3> QED
        BY <1>1, <1>2, <1>3, <2>3, <2>7, <2>8, <3>1 DEF OnePlace
    <2>12. NodeOK(S, n)'
      BY <2>9, <2>11 DEF NodeOK
    <2>13. Moves(t, n)
      BY <1>1, <1>2, <2>1, <2>3, <2>4, <2>7 DEF Moves
    <2>14. ASSUME NEW u \in ListThreads \ {t}, node[u] = n, at[u] \notin {"idle", "loadHead"}
           PROVE  ThreadOK(u)'
      <3>1. ThreadOK(u) /\ at[u] \notin Adding
        BY <2>10, <2>14 DEF ListInv, Adds
      <3>2. at'[u] = at[u] /\ node'[u] = n /\ seen'[u] = seen[u] /\ freeListNext' = freeListNext
        BY <1>1, <2>1, <2>4, <2>14
      <3> QED
        BY <2>14, <3>1, <3>2 DEF ThreadOK
    <2>15. IsList(S, freeListHead', freeListNext')
      BY <1>1 DEF Holds
    <2> QED
      BY <2>5, <2>6, <2>12, <2>13, <2>14, <2>15, OneNodeChanges
  <1> QED
    BY <1>4, <1>5

(* The head is taken off, whose link the thread still knows; or it is not    *)
(* the head any more.                                                        *)
LEMMA PopKeeps ==
  ASSUME ListInv, NEW t \in ListThreads, List!Pop(t)
  PROVE  ListInv'
  <1>0. ListTypeOK /\ ThreadOK(t)
    BY DEF ListInv
  <1> PICK S \in SUBSET Nodes : Holds(S)
    BY DEF ListInv
  <1>1. /\ at[t] = "pop" /\ UNCHANGED <<freeListRefs, freeListNext, has, node>>
        /\ seen' = [seen EXCEPT ![t] = List!Null]
    BY DEF List!Pop
  <1> PICK n \in Nodes : n = node[t]
    BY <1>0, <1>1 DEF ThreadOK
  <1>2. /\ ~Owns(t, n) /\ ~Adds(t, n) /\ Refers(t, n)
        /\ \A m \in Nodes \ {n} : ~Owns(t, m) /\ ~Adds(t, m) /\ ~Refers(t, m)
    BY <1>1, Parts
  <1>3. NodeOK(S, n) /\ OnePlace(S, n)
    BY DEF Holds, NodeOK
  <1>4. CASE freeListHead = n
    <2>1. /\ freeListHead' = seen[t] /\ at' = [at EXCEPT ![t] = "settle"]
          /\ UNCHANGED back
      BY <1>4 DEF List!Pop
    <2>2. seen[t] = freeListNext[n] /\ seen[t] \in ListPlaces
      BY <1>0, <1>1 DEF ThreadOK
    <2> DEFINE T == S \ {n}
    <2>3. n \in S /\ IsList(T, freeListHead', freeListNext')
      <3>1. n \in S /\ IsList(S \ {n}, freeListNext[n], freeListNext)
        BY <1>4, ListShrinks DEF Holds
      <3> QED
        BY <1>1, <2>1, <2>2, <3>1
    <2>4. /\ at'[t] = "settle"
          /\ \A u \in ListThreads \ {t} : at'[u] = at[u] /\ node'[u] = node[u] /\ seen'[u] = seen[u]
      BY <1>0, <1>1, <2>1 DEF ListTypeOK
    <2>5. ListTypeOK'
      BY <1>0, <1>1, <2>1, <2>2 DEF ListTypeOK, Referring, ListPlaces
    <2>6. ThreadOK(t)'
      BY <1>1, <2>4 DEF ThreadOK, Adding
    <2>7. /\ Refers(t, n)' /\ Owns(t, n)' /\ ~Adds(t, n)'
          /\ \A m \in Nodes \ {n} : ~Owns(t, m)' /\ ~Adds(t, m)' /\ ~Refers(t, m)'
      BY <1>1, <2>4, PartsNext
    <2>8. \A u \in ListThreads \ {t} : \A m : /\ Adds(u, m)' <=> Adds(u, m)
                                              /\ Owns(u, m)' <=> Owns(u, m)
                                              /\ Refers(u, m)' <=> Refers(u, m)
      BY <2>4, OthersStay
    <2>9. /\ \A u \in ListThreads : n \notin has[u] /\ ~Adds(u, n) /\ ~Owns(u, n)
          /\ ~freeListRefs[n].flag
      BY <1>3, <2>3 DEF OnePlace
    <2>10. References(T, n)' = References(S, n)
      BY <1>2, <2>3, <2>7, <2>8 DEF References
    <2>11. OnePlace(T, n)'
      BY <1>1, <2>7, <2>8, <2>9 DEF OnePlace
    <2>12. NodeOK(T, n)'
      BY <1>1, <1>3, <2>10, <2>11 DEF NodeOK
    <2>13. Moves(t, n)
      BY <1>1, <1>2, <2>4, <2>7 DEF Moves
    <2>14. ASSUME NEW u \in ListThreads \ {t}, node[u] = n, at[u] \notin {"idle", "loadHead"}
           PROVE  ThreadOK(u)'
      BY <1>1, <2>4 DEF ListInv, ThreadOK
    <2>15. T \in SUBSET Nodes /\ \A m \in Nodes \ {n} : m \in S <=> m \in T
      OBVIOUS
    <2> HIDE DEF T
    <2> QED
      BY <2>3, <2>5, <2>6, <2>12, <2>13, <2>14, <2>15, OneNodeChanges
  <1>5. CASE freeListHead # n
    <2>1. /\ back' = [back EXCEPT ![t] = freeListHead]
          /\ at' = [at EXCEPT ![t] = "letGo"]
          /\ UNCHANGED freeListHead
      BY <1>5 DEF List!Pop
    <2>2. /\ at'[t] = "letGo"
          /\ \A u \in ListThreads \ {t} : at'[u] = at[u] /\ node'[u] = node[u] /\ seen'[u] = seen[u]
      BY <1>0, <1>1, <2>1 DEF ListTypeOK
    <2>3. ListTypeOK'
      BY <1>0, <1>1, <2>1 DEF ListTypeOK, Referring, ListPlaces
    <2>4. ThreadOK(t)'
      BY <1>1, <2>2 DEF ThreadOK, Adding
    <2>5. \A m \in Nodes : /\ Adds(t, m)' <=> Adds(t, m)
                           /\ Owns(t, m)' <=> Owns(t, m)
                           /\ Refers(t, m)' <=> Refers(t, m)
      BY <1>1, <2>2, Parts, PartsNext
    <2> QED
      BY <1>1, <2>1, <2>2, <2>3, <2>4, <2>5, NothingChanges
  <1> QED
    BY <1>4, <1>5

(* The thread has the node; its reference and the list's are given back. *)
LEMMA SettleKeeps ==
  ASSUME ListInv, NEW t \in ListThreads, List!Settle(t)
  PROVE  ListInv'
  <1>0. ListTypeOK /\ ThreadOK(t)
    BY DEF ListInv
  <1> PICK S \in SUBSET Nodes : Holds(S)
    BY DEF ListInv
  <1>1. /\ at[t] = "settle" /\ UNCHANGED <<freeListHead, freeListNext>>
        /\ freeListRefs' = [freeListRefs EXCEPT
             ![node[t]] = [freeListRefs[node[t]] EXCEPT !.n = freeListRefs[node[t]].n - 2]]
        /\ has' = [has EXCEPT ![t] = has[t] \union {node[t]}]
        /\ List!Loop(t, List!Null) /\ List!Null \in ListPlaces
    BY DEF List!Settle, ListPlaces
  <1> PICK n \in Nodes : n = node[t]
    BY <1>0, <1>1 DEF ThreadOK
  <1>2. /\ Owns(t, n) /\ ~Adds(t, n) /\ Refers(t, n)
        /\ \A m \in Nodes \ {n} : ~Owns(t, m) /\ ~Adds(t, m) /\ ~Refers(t, m)
    BY <1>1, Parts
  <1>3. NodeOK(S, n) /\ OnePlace(S, n)
    BY DEF Holds, NodeOK
  <1>4. /\ n \notin S /\ \A u \in ListThreads : n \notin has[u]
        /\ \A u \in ListThreads \ {t} : ~Adds(u, n) /\ ~Owns(u, n)
        /\ ~freeListRefs[n].flag
    BY <1>2, <1>3 DEF OnePlace
  <1>5. /\ freeListRefs' \in [Nodes -> Words]
        /\ freeListRefs[n].n \in Int /\ freeListRefs'[n].n = freeListRefs[n].n - 2
        /\ freeListRefs'[n].flag = freeListRefs[n].flag
        /\ \A m \in Nodes \ {n} : freeListRefs'[m] = freeListRefs[m]
    BY <1>0, <1>1 DEF ListTypeOK, Words
  <1>6. /\ has' \in [ListThreads -> SUBSET Nodes]
        /\ \A u \in ListThreads : \A m \in Nodes :
             m \in has'[u] <=> m \in has[u] \/ (u = t /\ m = n)
        /\ \A u \in ListThreads \ {t} : has'[u] = has[u]
    BY <1>0, <1>1 DEF ListTypeOK
  <1>7. /\ \A u \in ListThreads \ {t} : at'[u] = at[u] /\ node'[u] = node[u] /\ seen'[u] = seen[u]
        /\ at' \in [ListThreads -> {"idle", "loadHead", "loadRefs", "takeReference"}
                                    \union Adding \union Owning \union Referring]
        /\ node' \in [ListThreads -> ListPlaces]
        /\ back' \in [ListThreads -> ListPlaces]
        /\ seen' \in [ListThreads -> ListPlaces \union Words]
        /\ ThreadOK(t)'
        /\ \A m : ~Adds(t, m)' /\ ~Owns(t, m)' /\ ~Refers(t, m)'
    BY <1>0, <1>1, Loops
  <1>8. ListTypeOK'
    BY <1>0, <1>1, <1>5, <1>6, <1>7 DEF ListTypeOK
  <1>9. \A u \in ListThreads \ {t} : \A m : /\ Adds(u, m)' <=> Adds(u, m)
                                            /\ Owns(u, m)' <=> Owns(u, m)
                                            /\ Refers(u, m)' <=> Refers(u, m)
    BY <1>7, OthersStay
  <1>10. freeListRefs'[n].n = Cardinality(References(S, n))'
    <2> DEFINE R == References(S, n) \ {<<0, 0>>}
    <2>1. <<0, 0>> \in References(S, n) /\ <<1, t>> \in R
      BY <1>2 DEF References
    <2>2. References(S, n)' = R \ {<<1, t>>}
      BY <1>2, <1>4, <1>7, <1>9 DEF References
    <2>3. IsFiniteSet(R) /\ Cardinality(R) = Cardinality(References(S, n)) - 1
      BY <2>1, ReferencesFinite, FS_RemoveElement
    <2>4. Cardinality(R \ {<<1, t>>}) = Cardinality(R) - 1
      <3> HIDE DEF R
      <3> QED
        BY <2>1, <2>3, FS_RemoveElement
    <2>5. Cardinality(References(S, n)) = freeListRefs[n].n
      BY <1>3 DEF NodeOK
    <2>6. Cardinality(References(S, n))' = Cardinality(R \ {<<1, t>>})
      BY <2>2
    <2> HIDE DEF R
    <2> QED
      BY <1>5, <2>3, <2>4, <2>5, <2>6
  <1>11. OnePlace(S, n)'
    <2>1. n \in has'[t] /\ \A u \in ListThreads \ {t} : n \notin has'[u]
      BY <1>4, <1>6
    <2>2. \A u \in ListThreads : ~Adds(u, n)' /\ ~Owns(u, n)'
      BY <1>4, <1>7, <1>9
    <2> QED
      BY <1>4, <1>5, <2>1, <2>2 DEF OnePlace
  <1>12. NodeOK(S, n)'
    BY <1>10, <1>11 DEF NodeOK
  <1>13. Moves(t, n)
    BY <1>1, <1>2, <1>5, <1>6, <1>7 DEF Moves
  <1>14. ASSUME NEW u \in ListThreads \ {t}, node[u] = n, at[u] \notin {"idle", "loadHead"}
         PROVE  ThreadOK(u)'
    <2>1. ThreadOK(u) /\ at[u] \notin Adding
      BY <1>4, <1>14 DEF ListInv, Adds
    <2>2. at'[u] = at[u] /\ node'[u] = n /\ seen'[u] = seen[u] /\ freeListNext' = freeListNext
      BY <1>1, <1>7, <1>14
    <2> QED
      BY <1>14, <2>1, <2>2 DEF ThreadOK
  <1>15. IsList(S, freeListHead', freeListNext')
    BY <1>1 DEF Holds
  <1> QED
    BY <1>7, <1>8, <1>12, <1>13, <1>14, <1>15, OneNodeChanges

(* A word is its flag and its count. *)
LEMMA WordIs ==
  ASSUME NEW w \in Words, NEW c \in Int
  PROVE  w = List!Refs(TRUE, c) <=> w.flag = TRUE /\ w.n = c
BY DEF Words, List!Refs

(* The thread's reference is given back; if it was the last one and the flag *)
(* is set, the thread adds the node.                                         *)
LEMMA LetGoKeeps ==
  ASSUME ListInv, NEW t \in ListThreads, List!LetGo(t)
  PROVE  ListInv'
  <1>0. ListTypeOK /\ ThreadOK(t)
    BY DEF ListInv
  <1> PICK S \in SUBSET Nodes : Holds(S)
    BY DEF ListInv
  <1>1. /\ at[t] = "letGo" /\ UNCHANGED <<freeListHead, freeListNext, has>>
        /\ freeListRefs' = [freeListRefs EXCEPT
             ![node[t]] = [freeListRefs[node[t]] EXCEPT !.n = freeListRefs[node[t]].n - 1]]
    BY DEF List!LetGo
  <1> PICK n \in Nodes : n = node[t]
    BY <1>0, <1>1 DEF ThreadOK
  <1>2. /\ ~Owns(t, n) /\ ~Adds(t, n) /\ Refers(t, n)
        /\ \A m \in Nodes \ {n} : ~Owns(t, m) /\ ~Adds(t, m) /\ ~Refers(t, m)
    BY <1>1, Parts
  <1>3. NodeOK(S, n) /\ OnePlace(S, n)
    BY DEF Holds, NodeOK
  <1>4. <<1, t>> \in References(S, n)
    BY <1>2 DEF References
  <1>5. /\ freeListRefs' \in [Nodes -> Words]
        /\ freeListRefs[n] \in Words /\ freeListRefs'[n] \in Words
        /\ freeListRefs[n].n \in Int /\ freeListRefs'[n].n = freeListRefs[n].n - 1
        /\ freeListRefs'[n].flag = freeListRefs[n].flag
        /\ \A m \in Nodes \ {n} : freeListRefs'[m] = freeListRefs[m]
    BY <1>0, <1>1 DEF ListTypeOK, Words
  <1>6. freeListRefs[n].n # 0 /\ \A u \in ListThreads : ~Adds(u, n)
    <2>1. freeListRefs[n].n # 0
      BY <1>2, <1>3, NoReferences
    <2>2. ASSUME NEW u \in ListThreads, Adds(u, n) PROVE FALSE
      <3>1. freeListRefs[n] = List!Refs(TRUE, 0)
        BY <2>2 DEF ListInv, ThreadOK, Adds
      <3> QED
        BY <2>1, <3>1 DEF List!Refs
    <2> QED
      BY <2>1, <2>2
  <1> DEFINE last == freeListRefs[n].flag /\ freeListRefs[n].n = 1
  <1>7. last <=> freeListRefs[n] = List!Refs(TRUE, 1)
    <2>1. freeListRefs[n].flag \in BOOLEAN
      BY <1>0 DEF ListTypeOK, Words
    <2>2. freeListRefs[n] = List!Refs(TRUE, 1)
            <=> freeListRefs[n].flag = TRUE /\ freeListRefs[n].n = 1
      BY <1>5, WordIs, 1 \in Int
    <2> QED
      BY <2>1, <2>2
  <1>8. /\ \A u \in ListThreads \ {t} : at'[u] = at[u] /\ node'[u] = node[u] /\ seen'[u] = seen[u]
        /\ ListTypeOK' /\ ThreadOK(t)' /\ ~Owns(t, n)' /\ ~Refers(t, n)'
        /\ \A m \in Nodes \ {n} : ~Owns(t, m)' /\ ~Adds(t, m)' /\ ~Refers(t, m)'
        /\ Adds(t, n)' <=> last
    <2>1. CASE last
      <3>1. at' = [at EXCEPT ![t] = "loadHeadToAdd"] /\ UNCHANGED <<node, seen, back>>
        BY <1>7, <2>1 DEF List!LetGo, List!Local
      <3>2. at'[t] = "loadHeadToAdd"
        BY <1>0, <3>1 DEF ListTypeOK
      <3>3. freeListRefs'[n] = List!Refs(TRUE, 0)
        <4>1. freeListRefs[n].flag = TRUE
          BY <1>0, <2>1 DEF ListTypeOK, Words
        <4>2. freeListRefs'[n].flag = TRUE /\ freeListRefs'[n].n = 0
          BY <1>5, <2>1, <4>1
        <4> QED
          BY <1>5, <4>2, WordIs, 0 \in Int
      <3>4. ListTypeOK'
        BY <1>0, <1>1, <1>5, <3>1 DEF ListTypeOK, Adding
      <3>5. ThreadOK(t)'
        BY <3>1, <3>2, <3>3 DEF ThreadOK
      <3>6. /\ Adds(t, n)' /\ ~Owns(t, n)' /\ ~Refers(t, n)'
            /\ \A m \in Nodes \ {n} : ~Owns(t, m)' /\ ~Adds(t, m)' /\ ~Refers(t, m)'
        BY <3>1, <3>2, PartsNext DEF Adding
      <3>7. \A u \in ListThreads \ {t} :
              at'[u] = at[u] /\ node'[u] = node[u] /\ seen'[u] = seen[u]
        BY <1>0, <3>1 DEF ListTypeOK
      <3> QED
        BY <2>1, <3>4, <3>5, <3>6, <3>7
    <2>2. CASE ~last
      <3>1. List!Loop(t, back[t]) /\ back[t] \in ListPlaces
        BY <1>0, <1>7, <2>2 DEF List!LetGo, ListTypeOK
      <3>2. /\ \A u \in ListThreads \ {t} :
                 at'[u] = at[u] /\ node'[u] = node[u] /\ seen'[u] = seen[u]
            /\ at' \in [ListThreads -> {"idle", "loadHead", "loadRefs", "takeReference"}
                                        \union Adding \union Owning \union Referring]
            /\ node' \in [ListThreads -> ListPlaces]
            /\ back' \in [ListThreads -> ListPlaces]
            /\ seen' \in [ListThreads -> ListPlaces \union Words]
            /\ ThreadOK(t)'
            /\ \A m : ~Adds(t, m)' /\ ~Owns(t, m)' /\ ~Refers(t, m)'
        BY <1>0, <3>1, Loops
      <3>3. ListTypeOK'
        BY <1>0, <1>1, <1>5, <3>2 DEF ListTypeOK
      <3> QED
        BY <2>2, <3>2, <3>3
    <2> QED
      BY <2>1, <2>2
  <1>9. \A u \in ListThreads \ {t} : \A m : /\ Adds(u, m)' <=> Adds(u, m)
                                            /\ Owns(u, m)' <=> Owns(u, m)
                                            /\ Refers(u, m)' <=> Refers(u, m)
    BY <1>8, OthersStay
  <1>10. freeListRefs'[n].n = Cardinality(References(S, n))'
    <2>1. References(S, n)' = References(S, n) \ {<<1, t>>}
      BY <1>2, <1>8, <1>9 DEF References
    <2>2. Cardinality(References(S, n) \ {<<1, t>>}) = Cardinality(References(S, n)) - 1
      BY <1>4, ReferencesFinite, FS_RemoveElement
    <2> QED
      BY <1>3, <1>5, <2>1, <2>2 DEF NodeOK
  <1>11. OnePlace(S, n)'
    <2>1. freeListRefs'[n].n = 0 => freeListRefs[n].n = 1
      <3>1. PICK c \in Int : c = freeListRefs[n].n
        BY <1>5
      <3>2. freeListRefs'[n].n = c - 1
        BY <1>5, <3>1
      <3> QED
        BY <3>1, <3>2
    <2>2. freeListRefs'[n].flag /\ freeListRefs'[n].n = 0 => \E u \in ListThreads : Adds(u, n)'
      BY <1>5, <1>8, <2>1
    <2>3. \A u \in ListThreads : has'[u] = has[u] /\ (Owns(u, n)' <=> Owns(u, n))
      BY <1>1, <1>2, <1>8, <1>9
    <2>4. \A u \in ListThreads : Adds(u, n)' => u = t /\ freeListRefs[n].flag
      BY <1>6, <1>8, <1>9
    <2> QED
      BY <1>3, <1>5, <1>6, <2>2, <2>3, <2>4 DEF OnePlace
  <1>12. NodeOK(S, n)'
    BY <1>10, <1>11 DEF NodeOK
  <1>13. Moves(t, n)
    BY <1>1, <1>2, <1>5, <1>8 DEF Moves
  <1>14. ASSUME NEW u \in ListThreads \ {t}, node[u] = n, at[u] \notin {"idle", "loadHead"}
         PROVE  ThreadOK(u)'
    <2>1. ThreadOK(u) /\ at[u] \notin Adding
      BY <1>6, <1>14 DEF ListInv, Adds
    <2>2. at'[u] = at[u] /\ node'[u] = n /\ seen'[u] = seen[u] /\ freeListNext' = freeListNext
      BY <1>1, <1>8, <1>14
    <2> QED
      BY <1>14, <2>1, <2>2 DEF ThreadOK
  <1>15. IsList(S, freeListHead', freeListNext')
    BY <1>1 DEF Holds
  <1> QED
    BY <1>8, <1>12, <1>13, <1>14, <1>15, OneNodeChanges

(* The invariant is kept. *)
LEMMA ListStep == ListInv /\ [List!Next]_listVars => ListInv'
  <1> SUFFICES ASSUME ListInv, [List!Next]_listVars PROVE ListInv'
    OBVIOUS
  <1>1. ASSUME NEW t \in ListThreads, List!AddStep(t) PROVE ListInv'
    BY <1>1, AddKeeps, LoadsKeep, SetNextKeeps, SetRefsKeeps, PushKeeps, RetreatKeeps
       DEF List!AddStep
  <1>2. ASSUME NEW t \in ListThreads, List!TryGet(t) PROVE ListInv'
    BY <1>2, LoadsKeep, TakeReferenceKeeps, PopKeeps, SettleKeeps, LetGoKeeps DEF List!TryGet
  <1>3. CASE UNCHANGED listVars
    <2>1. UNCHANGED <<freeListHead, freeListRefs, freeListNext, has, at, node, seen, back>>
      BY <1>3 DEF listVars
    <2>2. ListTypeOK'
      BY <2>1 DEF ListInv, ListTypeOK
    <2>3. \A t \in ListThreads : ThreadOK(t)'
      BY <2>1 DEF ListInv, ThreadOK
    <2>4. ASSUME NEW S \in SUBSET Nodes, Holds(S) PROVE Holds(S)'
      BY <2>1, <2>4, SameNode DEF Holds, Adds, Owns, Refers
    <2> QED
      BY <2>2, <2>3, <2>4 DEF ListInv
  <1> QED
    BY <1>1, <1>2, <1>3 DEF List!Next

(* Nobody is in the middle of a call: no count but the list's is left. *)
LEMMA NobodyCalls ==
  ASSUME ListInv, NEW S \in SUBSET Nodes, Holds(S), \A t \in ListThreads : at[t] = "idle",
         NEW n \in Nodes
  PROVE  /\ n \in S <=> \A t \in ListThreads : n \notin has[t]
         /\ freeListRefs[n] = IF n \in S THEN List!Refs(FALSE, 1) ELSE List!NoRefs
  <1>1. \A u \in ListThreads : ~Adds(u, n) /\ ~Owns(u, n) /\ ~Refers(u, n)
    BY Parts
  <1>2. NodeOK(S, n) /\ OnePlace(S, n)
    BY DEF Holds, NodeOK
  <1>3. freeListRefs[n] \in Words
    BY DEF ListInv, ListTypeOK
  <1>4. n \in S => freeListRefs[n].n = 1
    <2> SUFFICES ASSUME n \in S PROVE freeListRefs[n].n = 1
      OBVIOUS
    <2>1. References(S, n) = {<<0, 0>>}
      BY <1>1 DEF References
    <2> QED
      BY <1>2, <2>1, FS_Singleton DEF NodeOK
  <1>5. n \notin S => freeListRefs[n].n = 0
    <2> SUFFICES ASSUME n \notin S PROVE freeListRefs[n].n = 0
      OBVIOUS
    <2>1. References(S, n) = {}
      BY <1>1 DEF References
    <2> QED
      BY <1>2, <2>1, FS_EmptySet DEF NodeOK
  <1>6. freeListRefs[n].flag = FALSE
    BY <1>1, <1>2, <1>3, <1>4, <1>5 DEF OnePlace, Words
  <1>7. n \in S <=> \A t \in ListThreads : n \notin has[t]
    BY <1>1, <1>2, <1>6 DEF OnePlace
  <1>8. freeListRefs[n] = IF n \in S THEN List!Refs(FALSE, 1) ELSE List!NoRefs
    BY <1>3, <1>4, <1>5, <1>6 DEF Words, List!Refs, List!NoRefs
  <1> QED
    BY <1>7, <1>8

(* The invariant says that no node is given out twice or lost. *)
LEMMA ListInvImplies == ListInv => List!NoNodeTwiceOrLost
  <1> SUFFICES ASSUME ListInv PROVE List!NoNodeTwiceOrLost
    OBVIOUS
  <1> PICK S \in SUBSET Nodes : Holds(S)
    BY DEF ListInv
  <1>1. List!Listed = S
    BY WalkMeetsTheList DEF Holds
  <1>2. \A n \in Nodes : OnePlace(S, n)
    BY DEF Holds, NodeOK
  <1>3. has \in [ListThreads -> SUBSET Nodes]
    BY DEF ListInv, ListTypeOK
  <1>4. ASSUME NEW t \in ListThreads
        PROVE  /\ has[t] \cap List!Listed = {}
               /\ \A u \in ListThreads \ {t} : has[t] \cap has[u] = {}
               /\ at[t] = "settle" => ~freeListRefs[node[t]].flag
    <2>1. has[t] \cap S = {}
      BY <1>2, <1>3 DEF OnePlace
    <2>2. \A u \in ListThreads \ {t} : has[t] \cap has[u] = {}
      BY <1>2, <1>3 DEF OnePlace
    <2>3. ASSUME at[t] = "settle" PROVE ~freeListRefs[node[t]].flag
      <3>1. node[t] \in Nodes /\ Owns(t, node[t])
        BY <2>3 DEF ListInv, ThreadOK, Owns, Owning
      <3> QED
        BY <1>2, <3>1 DEF OnePlace
    <2> QED
      BY <1>1, <2>1, <2>2, <2>3
  <1>5. ASSUME \A t \in ListThreads : at[t] = "idle"
        PROVE  /\ S = Nodes \ UNION {has[t] : t \in ListThreads}
               /\ \A n \in Nodes : freeListRefs[n] = IF n \in S THEN List!Refs(FALSE, 1)
                                                     ELSE List!NoRefs
    <2>1. \A n \in Nodes :
            /\ n \in S <=> \A t \in ListThreads : n \notin has[t]
            /\ freeListRefs[n] = IF n \in S THEN List!Refs(FALSE, 1) ELSE List!NoRefs
      BY <1>5, NobodyCalls
    <2> QED
      BY <2>1, ZenonT(30)
  <1> QED
    BY <1>1, <1>4, <1>5 DEF List!NoNodeTwiceOrLost

(* However calls of add() and try_get() overlap, a spare block is not given  *)
(* to two threads and none is lost (util/concurrentqueue.h:1694-1790).       *)
THEOREM NoBlockTwiceOrLost == MCSpec => []NoNodeTwiceOrLost
  <1>1. MCInit => ListInv
    BY ListRuns, ListInit
  <1>2. ListInv /\ [MCNext]_<<component, mutexVars, listVars, producerVars, implicitVars,
                              explicitVars, hashVars, severalVars, ownerVars>> => ListInv'
    BY ListRuns, ListStep
  <1>3. ListInv => NoNodeTwiceOrLost
    BY ListInvImplies DEF NoNodeTwiceOrLost
  <1> QED
    BY <1>1, <1>2, <1>3, PTL DEF MCSpec

-----------------------------------------------------------------------------
(* Consumers and producers.  A call keeps what is left to try in its locals: *)
(* every producer that has had elements all through the call is still ahead  *)
(* of it, and a producer that is found empty is not such a producer.         *)

(* The consumers start as their module says and make its steps only.         *)
LEMMA SeveralRuns ==
  /\ MCInit => Several!Init
  /\ [MCNext]_<<component, mutexVars, listVars, producerVars, implicitVars, explicitVars,
                hashVars, severalVars, ownerVars>> => [Several!Next]_severalVars
  <1>1. MCInit => Several!Init
    BY DEF MCInit
  <1>2. MCNext => Several!Next \/ UNCHANGED severalVars
    BY DEF MCNext
  <1> QED
    BY <1>1, <1>2

(* The constants. *)
LEMMA ConsumerConstants ==
  /\ TheirOffset \in [Consumers -> Nat]
  /\ OffsetRange \in Nat \ {0}
  /\ MaxProducers \in Nat
BY InstanceAssumption DEF Several!ConsumersAssumption

Positions == [current : Nat, desired : Nat, items : Int, known : Int]
Scores    == [step : {"score"}, at : Nat, best : Nat, bestSize : Nat, nonEmpty : Nat]
Walks     == [step : {"walk"}, at : Nat, but : Nat, left : Nat]
Rotates   == [step : {"rotate"}, left : Nat, max : Nat, tail : Nat]
Currents  == [step : {"current"}, left : Nat, max : Nat]
Tails     == [step : {"tail"}, left : Nat]
Rings     == [step : {"ring"}, left : Nat, tail : Nat, at : Nat]

SeveralTypeOK ==
  /\ listed \in Nat /\ producerCount \in Nat
  /\ listed <= producerCount /\ producerCount <= MaxProducers
  /\ size \in [1..MaxProducers -> Nat]
  /\ globalOffset \in Int
  /\ token \in [Consumers -> Positions]
  /\ DOMAIN consumerCall = Consumers
  /\ stayed \in [Consumers -> SUBSET Nat]
  /\ overlooked = {}

TokenOK(c) ==
  /\ token[c].desired = Several!None <=> token[c].current = Several!None
  /\ token[c].desired <= listed /\ token[c].current <= listed

(* The producers from at on around the list, up to the current one.          *)
AheadOf(current, from, last) ==
  IF from < current THEN (1..from) \union ((current + 1)..last) ELSE (current + 1)..from

ScoreOK(c) ==
  LET r == consumerCall[c] IN
  /\ r \in Scores /\ r.at <= listed
  /\ r.nonEmpty = 0 => r.bestSize = 0 /\ stayed[c] \subseteq 1..r.at
  /\ r.nonEmpty # 0 => r.best \in 1..listed
WalkOK(c) ==
  LET r == consumerCall[c] IN
  /\ r \in Walks /\ r.at <= listed /\ r.left # 0
  /\ stayed[c] \subseteq 1..r.at /\ r.but \notin stayed[c]
RotateOK(c) ==
  LET r == consumerCall[c] IN
  /\ r \in Rotates /\ r.left # 0 /\ r.tail \in 1..listed /\ token[c].desired <= r.tail
CurrentOK(c) ==
  /\ consumerCall[c] \in Currents /\ consumerCall[c].left # 0
  /\ token[c].current # Several!None
TailOK(c) ==
  /\ consumerCall[c] \in Tails /\ consumerCall[c].left # 0
  /\ token[c].current # Several!None /\ token[c].current \notin stayed[c]
RingOK(c) ==
  LET r == consumerCall[c] IN
  /\ r \in Rings /\ r.left # 0 /\ r.tail <= listed /\ r.at \in 1..r.tail
  /\ token[c].current \in 1..r.tail
  /\ stayed[c] \subseteq AheadOf(token[c].current, r.at, r.tail)

CallOK(c) ==
  \/ consumerCall[c] = Several!Idle
  \/ ScoreOK(c) \/ WalkOK(c) \/ RotateOK(c) \/ CurrentOK(c) \/ TailOK(c) \/ RingOK(c)

ConsumerOK(c) ==
  /\ stayed[c] \subseteq Several!NonEmpty
  /\ TokenOK(c)
  /\ CallOK(c)

SeveralInv == SeveralTypeOK /\ \A c \in Consumers : ConsumerOK(c)

(* What a consumer is about to do tells what its call holds. *)
LEMMA WhichCall ==
  ASSUME NEW c, CallOK(c)
  PROVE  /\ consumerCall[c].step = "score" => ScoreOK(c)
         /\ consumerCall[c].step = "walk" => WalkOK(c)
         /\ consumerCall[c].step = "rotate" => RotateOK(c)
         /\ consumerCall[c].step = "current" => CurrentOK(c)
         /\ consumerCall[c].step = "tail" => TailOK(c)
         /\ consumerCall[c].step = "ring" => RingOK(c)
  <1>1. ScoreOK(c) => consumerCall[c].step = "score"
    BY DEF ScoreOK, Scores
  <1>2. WalkOK(c) => consumerCall[c].step = "walk"
    BY DEF WalkOK, Walks
  <1>3. RotateOK(c) => consumerCall[c].step = "rotate"
    BY DEF RotateOK, Rotates
  <1>4. CurrentOK(c) => consumerCall[c].step = "current"
    BY DEF CurrentOK, Currents
  <1>5. TailOK(c) => consumerCall[c].step = "tail"
    BY DEF TailOK, Tails
  <1>6. RingOK(c) => consumerCall[c].step = "ring"
    BY DEF RingOK, Rings
  <1>7. consumerCall[c] = Several!Idle => consumerCall[c].step = "idle"
    BY DEF Several!Idle
  <1> QED
    BY <1>1, <1>2, <1>3, <1>4, <1>5, <1>6, <1>7 DEF CallOK

(* The lesser of two numbers. *)
LEMMA LesserIs ==
  ASSUME NEW a \in Nat, NEW b \in Nat
  PROVE  /\ Several!Lesser(a, b) \in Nat
         /\ Several!Lesser(a, b) <= a /\ Several!Lesser(a, b) <= b
         /\ Several!Lesser(a, b) # b => Several!Lesser(a, b) = a /\ a < b
BY DEF Several!Lesser

(* The list only grows and what stayed only shrinks: a consumer that does    *)
(* not move is as well off as before.                                        *)
LEMMA OtherConsumer ==
  ASSUME NEW c, ConsumerOK(c), listed \in Nat, listed' \in Nat, listed <= listed',
         token[c] \in Positions, token'[c] = token[c], consumerCall'[c] = consumerCall[c],
         stayed'[c] \subseteq stayed[c], stayed'[c] \subseteq Several!NonEmpty'
  PROVE  ConsumerOK(c)'
  <1>1. TokenOK(c)'
    BY DEF ConsumerOK, TokenOK, Positions
  <1>2. ScoreOK(c) => ScoreOK(c)'
    BY DEF ScoreOK, Scores
  <1>3. WalkOK(c) => WalkOK(c)'
    BY DEF WalkOK, Walks
  <1>4. RotateOK(c) => RotateOK(c)'
    BY DEF RotateOK, Rotates
  <1>5. CurrentOK(c) => CurrentOK(c)'
    BY DEF CurrentOK
  <1>6. TailOK(c) => TailOK(c)'
    BY DEF TailOK
  <1>7. RingOK(c) => RingOK(c)'
    BY DEF RingOK, Rings
  <1> QED
    BY <1>1, <1>2, <1>3, <1>4, <1>5, <1>6, <1>7 DEF ConsumerOK, CallOK

(* Taking elements from a producer. *)
LEMMA TakeKeeps ==
  ASSUME SeveralTypeOK, \A d \in Consumers : stayed[d] \subseteq Several!NonEmpty,
         NEW p \in 1..listed, NEW n \in Nat, n <= size[p], Several!Take(p, n)
  PROVE  /\ size' \in [1..MaxProducers -> Nat]
         /\ stayed' \in [Consumers -> SUBSET Nat]
         /\ UNCHANGED <<listed, producerCount, enqueued>>
         /\ \A d \in Consumers : /\ stayed'[d] \subseteq stayed[d]
                                 /\ stayed'[d] \subseteq Several!NonEmpty'
                                 /\ n = size[p] => p \notin stayed'[d]
  <1>1. /\ size' = [size EXCEPT ![p] = size[p] - n]
        /\ stayed' = [d \in Consumers |-> IF size[p] = n THEN stayed[d] \ {p} ELSE stayed[d]]
        /\ UNCHANGED <<listed, producerCount, enqueued>>
    BY DEF Several!Take
  <1>2. p \in 1..MaxProducers /\ size[p] \in Nat
    BY ConsumerConstants DEF SeveralTypeOK
  <1>3. size' \in [1..MaxProducers -> Nat] /\ size'[p] = size[p] - n
    BY <1>1, <1>2 DEF SeveralTypeOK
  <1>4. \A m \in 1..MaxProducers : m # p => size'[m] = size[m]
    BY <1>1 DEF SeveralTypeOK
  <1>5. stayed' \in [Consumers -> SUBSET Nat]
    BY <1>1 DEF SeveralTypeOK
  <1>6. ASSUME NEW d \in Consumers
        PROVE  /\ stayed'[d] \subseteq stayed[d]
               /\ stayed'[d] \subseteq Several!NonEmpty'
               /\ n = size[p] => p \notin stayed'[d]
    <2>1. stayed'[d] \subseteq stayed[d] /\ (n = size[p] => p \notin stayed'[d])
      BY <1>1
    <2>2. ASSUME NEW m \in stayed'[d] PROVE m \in Several!NonEmpty'
      <3>1. m \in 1..listed /\ size[m] > 0 /\ m \in 1..MaxProducers
        BY <2>1, <2>2, ConsumerConstants DEF Several!NonEmpty, SeveralTypeOK
      <3>2. size'[m] > 0
        BY <1>2, <1>3, <1>4, <2>1, <2>2, <3>1
      <3> QED
        BY <1>1, <3>1, <3>2 DEF Several!NonEmpty
    <2> QED
      BY <2>1, <2>2
  <1> QED
    BY <1>1, <1>3, <1>5, <1>6

(* One step of a consumer: the rest of the invariant.                        *)
LEMMA OneConsumerMoves ==
  ASSUME SeveralInv, NEW c \in Consumers, UNCHANGED <<listed, producerCount>>,
         size' \in [1..MaxProducers -> Nat], globalOffset' \in Int,
         token' \in [Consumers -> Positions], DOMAIN consumerCall' = Consumers,
         stayed' \in [Consumers -> SUBSET Nat], overlooked' = {},
         \A d \in Consumers \ {c} :
           /\ token'[d] = token[d] /\ consumerCall'[d] = consumerCall[d]
           /\ stayed'[d] \subseteq stayed[d]
           /\ stayed'[d] \subseteq Several!NonEmpty',
         ConsumerOK(c)'
  PROVE  SeveralInv'
  <1>1. SeveralTypeOK'
    BY DEF SeveralInv, SeveralTypeOK
  <1>2. ASSUME NEW d \in Consumers PROVE ConsumerOK(d)'
    <2>1. CASE d = c
      BY <2>1
    <2>2. CASE d # c
      <3>1. listed \in Nat /\ listed' \in Nat /\ listed <= listed' /\ token[d] \in Positions
        BY DEF SeveralInv, SeveralTypeOK
      <3> QED
        BY <2>2, <3>1, OtherConsumer DEF SeveralInv
    <2> QED
      BY <2>1, <2>2
  <1> QED
    BY <1>1, <1>2 DEF SeveralInv

(* At first there is no producer. *)
LEMMA SeveralInit == Several!Init => SeveralInv
  <1> SUFFICES ASSUME Several!Init PROVE SeveralInv
    OBVIOUS
  <1>1. SeveralTypeOK
    BY ConsumerConstants DEF Several!Init, SeveralTypeOK, Positions, Several!None
  <1>2. ASSUME NEW c \in Consumers PROVE ConsumerOK(c)
    BY DEF Several!Init, ConsumerOK, TokenOK, CallOK, Several!None, Several!NonEmpty
  <1> QED
    BY <1>1, <1>2 DEF SeveralInv

(* A call begins. *)
LEMMA BeginsKeeps ==
  ASSUME SeveralInv, NEW c \in Consumers, NEW way, NEW r, Several!Begins(c, way, r)
  PROVE  /\ UNCHANGED <<listed, producerCount, size, globalOffset, token, overlooked>>
         /\ DOMAIN consumerCall' = Consumers /\ consumerCall'[c] = r
         /\ stayed' \in [Consumers -> SUBSET Nat]
         /\ stayed'[c] = Several!NonEmpty
         /\ \A d \in Consumers \ {c} :
              consumerCall'[d] = consumerCall[d] /\ stayed'[d] = stayed[d]
         /\ CallOK(c)' => SeveralInv'
  <1>1. /\ consumerCall' = [consumerCall EXCEPT ![c] = r]
        /\ stayed' = [stayed EXCEPT ![c] = Several!NonEmpty]
        /\ UNCHANGED <<listed, producerCount, size, globalOffset, token, overlooked>>
    BY DEF Several!Begins, Several!Calls, Several!producers
  <1>2. DOMAIN consumerCall' = Consumers /\ consumerCall'[c] = r
    BY <1>1 DEF SeveralInv, SeveralTypeOK
  <1>3. Several!NonEmpty \subseteq Nat
    BY DEF Several!NonEmpty
  <1>4. stayed' \in [Consumers -> SUBSET Nat] /\ stayed'[c] = Several!NonEmpty
    BY <1>1, <1>3 DEF SeveralInv, SeveralTypeOK
  <1>5. \A d \in Consumers \ {c} : consumerCall'[d] = consumerCall[d] /\ stayed'[d] = stayed[d]
    BY <1>1 DEF SeveralInv, SeveralTypeOK
  <1>6. ASSUME CallOK(c)' PROVE SeveralInv'
    <2>1. Several!NonEmpty' = Several!NonEmpty
      BY <1>1 DEF Several!NonEmpty
    <2>2. ConsumerOK(c)'
      <3>1. TokenOK(c)'
        BY <1>1 DEF SeveralInv, ConsumerOK, TokenOK
      <3> QED
        BY <1>4, <1>6, <2>1, <3>1 DEF ConsumerOK
    <2>3. SeveralTypeOK
      BY DEF SeveralInv
    <2>4. \A d \in Consumers \ {c} :
           /\ token'[d] = token[d] /\ consumerCall'[d] = consumerCall[d]
           /\ stayed'[d] \subseteq stayed[d]
           /\ stayed'[d] \subseteq Several!NonEmpty'
      BY <1>1, <1>5, <2>1 DEF SeveralInv, ConsumerOK
    <2> QED
      BY <1>1, <1>2, <1>4, <2>2, <2>3, <2>4, OneConsumerMoves DEF SeveralTypeOK
  <1> QED
    BY <1>1, <1>2, <1>4, <1>5, <1>6

(* A consumer moves on without taking anything; its token may change.        *)
LEMMA MovesOn ==
  ASSUME SeveralInv, NEW c \in Consumers, NEW r, consumerCall' = [consumerCall EXCEPT ![c] = r],
         UNCHANGED <<listed, producerCount, size, globalOffset, stayed, overlooked>>,
         token' \in [Consumers -> Positions],
         \A d \in Consumers \ {c} : token'[d] = token[d]
  PROVE  /\ consumerCall'[c] = r
         /\ TokenOK(c)' /\ CallOK(c)' => SeveralInv'
  <1>1. DOMAIN consumerCall' = Consumers /\ consumerCall'[c] = r
    BY DEF SeveralInv, SeveralTypeOK
  <1>2. \A d \in Consumers \ {c} : consumerCall'[d] = consumerCall[d]
    BY DEF SeveralInv, SeveralTypeOK
  <1>3. ASSUME TokenOK(c)', CallOK(c)' PROVE SeveralInv'
    <2>1. Several!NonEmpty' = Several!NonEmpty
      BY DEF Several!NonEmpty
    <2>2. ConsumerOK(c)'
      BY <1>3, <2>1 DEF ConsumerOK, SeveralInv
    <2>3. SeveralTypeOK
      BY DEF SeveralInv
    <2>4. \A d \in Consumers \ {c} :
           /\ token'[d] = token[d] /\ consumerCall'[d] = consumerCall[d]
           /\ stayed'[d] \subseteq stayed[d]
           /\ stayed'[d] \subseteq Several!NonEmpty'
      BY <1>2, <2>1 DEF SeveralInv, ConsumerOK
    <2> QED
      BY <1>1, <2>2, <2>3, <2>4, OneConsumerMoves DEF SeveralTypeOK
  <1> QED
    BY <1>1, <1>3

(* A consumer takes n elements of producer p, or finds none.                 *)
LEMMA MovesAndTakes ==
  ASSUME SeveralInv, NEW c \in Consumers, NEW r, consumerCall' = [consumerCall EXCEPT ![c] = r],
         NEW p \in 1..listed, NEW n \in Nat, n <= size[p], Several!Take(p, n),
         overlooked' = {}, globalOffset' \in Int, token' \in [Consumers -> Positions],
         \A d \in Consumers \ {c} : token'[d] = token[d]
  PROVE  /\ consumerCall'[c] = r /\ listed' = listed
         /\ stayed'[c] \subseteq stayed[c]
         /\ n = size[p] => p \notin stayed'[c]
         /\ TokenOK(c)' /\ CallOK(c)' => SeveralInv'
  <1>1. DOMAIN consumerCall' = Consumers /\ consumerCall'[c] = r
    BY DEF SeveralInv, SeveralTypeOK
  <1>2. \A d \in Consumers \ {c} : consumerCall'[d] = consumerCall[d]
    BY DEF SeveralInv, SeveralTypeOK
  <1>3. SeveralTypeOK /\ \A d \in Consumers : stayed[d] \subseteq Several!NonEmpty
    BY DEF SeveralInv, ConsumerOK
  <1>4. /\ size' \in [1..MaxProducers -> Nat]
        /\ stayed' \in [Consumers -> SUBSET Nat]
        /\ UNCHANGED <<listed, producerCount, enqueued>>
        /\ \A d \in Consumers : /\ stayed'[d] \subseteq stayed[d]
                                /\ stayed'[d] \subseteq Several!NonEmpty'
                                /\ n = size[p] => p \notin stayed'[d]
    BY <1>3, TakeKeeps
  <1>5. ASSUME TokenOK(c)', CallOK(c)' PROVE SeveralInv'
    <2>1. ConsumerOK(c)'
      BY <1>4, <1>5 DEF ConsumerOK
    <2> QED
      BY <1>1, <1>2, <1>4, <2>1, OneConsumerMoves
  <1> QED
    BY <1>1, <1>4, <1>5

(* Producers come, and elements. *)
LEMMA ProducersKeep ==
  ASSUME SeveralInv,
         \/ Several!CountProducer \/ Several!ListProducer
         \/ \E p \in 1..MaxProducers : Several!Enqueue(p)
  PROVE  SeveralInv'
  <1>0. SeveralTypeOK
    BY DEF SeveralInv
  <1>1. UNCHANGED <<globalOffset, token, consumerCall, stayed, overlooked>>
    BY DEF Several!CountProducer, Several!ListProducer, Several!Enqueue
  <1>2. /\ listed' \in Nat /\ listed <= listed' /\ producerCount' \in Nat
        /\ listed' <= producerCount' /\ producerCount' <= MaxProducers
    BY <1>0, ConsumerConstants
       DEF Several!CountProducer, Several!ListProducer, Several!Enqueue, SeveralTypeOK
  <1>3. /\ size' \in [1..MaxProducers -> Nat]
        /\ \A p \in 1..MaxProducers : size[p] <= size'[p]
    <2>1. CASE UNCHANGED size
      BY <1>0, <2>1 DEF SeveralTypeOK
    <2>2. ASSUME NEW p \in 1..MaxProducers, Several!Enqueue(p)
          PROVE  /\ size' \in [1..MaxProducers -> Nat]
                 /\ \A m \in 1..MaxProducers : size[m] <= size'[m]
      BY <1>0, <2>2 DEF Several!Enqueue, SeveralTypeOK
    <2> QED
      BY <2>1, <2>2 DEF Several!CountProducer, Several!ListProducer
  <1>4. Several!NonEmpty \subseteq Several!NonEmpty'
    <2> SUFFICES ASSUME NEW p \in Several!NonEmpty PROVE p \in Several!NonEmpty'
      OBVIOUS
    <2>1. p \in 1..listed /\ size[p] > 0 /\ p \in 1..MaxProducers
      BY <1>0, ConsumerConstants DEF Several!NonEmpty, SeveralTypeOK
    <2>2. p \in 1..listed' /\ size'[p] > 0
      BY <1>0, <1>2, <1>3, <2>1 DEF SeveralTypeOK
    <2> QED
      BY <2>2 DEF Several!NonEmpty
  <1>5. SeveralTypeOK'
    BY <1>0, <1>1, <1>2, <1>3 DEF SeveralTypeOK
  <1>6. ASSUME NEW d \in Consumers PROVE ConsumerOK(d)'
    <2>1. ConsumerOK(d) /\ token[d] \in Positions /\ listed \in Nat
      BY DEF SeveralInv, SeveralTypeOK
    <2>2. stayed'[d] \subseteq stayed[d] /\ stayed'[d] \subseteq Several!NonEmpty'
      BY <1>1, <1>4, <2>1 DEF ConsumerOK
    <2> QED
      BY <1>1, <1>2, <2>1, <2>2, OtherConsumer
  <1> QED
    BY <1>5, <1>6 DEF SeveralInv

(* The calls begin. *)
LEMMA CallsBegin ==
  ASSUME SeveralInv, NEW c \in Consumers,
         \/ Several!BestOfThree(c)
         \/ \E max \in {1, 2} : Several!InOrder(c, max) \/ Several!WithToken(c, max)
  PROVE  SeveralInv'
  <1>0. SeveralTypeOK /\ TokenOK(c) /\ token[c] \in Positions /\ listed \in Nat
    BY DEF SeveralInv, ConsumerOK, SeveralTypeOK
  <1>1. CASE Several!BestOfThree(c)
    <2> DEFINE r == [step |-> "score", at |-> listed, best |-> Several!None,
                     bestSize |-> 0, nonEmpty |-> 0]
    <2>1. Several!Begins(c, "bestOfThree", r)
      BY <1>1 DEF Several!BestOfThree
    <2>2. r \in Scores /\ r.at = listed /\ r.nonEmpty = 0 /\ r.bestSize = 0
      BY <1>0 DEF Scores, Several!None
    <2> HIDE DEF r
    <2>4. /\ UNCHANGED <<listed, token>> /\ consumerCall'[c] = r
          /\ stayed'[c] = Several!NonEmpty /\ (CallOK(c)' => SeveralInv')
      BY <2>1, BeginsKeeps
    <2>5. ScoreOK(c)'
      BY <1>0, <2>2, <2>4 DEF ScoreOK, Several!NonEmpty
    <2> QED
      BY <2>4, <2>5 DEF CallOK
  <1>2. ASSUME NEW max \in {1, 2}, Several!InOrder(c, max) PROVE SeveralInv'
    <2> DEFINE r == [step |-> "walk", at |-> listed, but |-> Several!None, left |-> max]
    <2>1. Several!Begins(c, "inOrder", r)
      BY <1>2 DEF Several!InOrder
    <2>2. r \in Walks /\ r.at = listed /\ r.but = 0 /\ r.left # 0
      BY <1>0 DEF Walks, Several!None
    <2> HIDE DEF r
    <2>3. /\ UNCHANGED <<listed, token>> /\ consumerCall'[c] = r
          /\ stayed'[c] = Several!NonEmpty /\ (CallOK(c)' => SeveralInv')
      BY <2>1, BeginsKeeps
    <2>4. WalkOK(c)'
      BY <1>0, <2>2, <2>3 DEF WalkOK, Several!NonEmpty
    <2> QED
      BY <2>3, <2>4 DEF CallOK
  <1>3. ASSUME NEW max \in {1, 2}, Several!WithToken(c, max) PROVE SeveralInv'
    <2> DEFINE rotated == token[c].desired = Several!None \/ token[c].known # globalOffset
               r == [step |-> "rotate", left |-> max, max |-> max, tail |-> listed]
               s == [step |-> "current", left |-> max, max |-> max]
    <2>1. /\ ~(token[c].desired = Several!None /\ listed = 0)
          /\ Several!Begins(c, "token", IF rotated THEN r ELSE s)
      BY <1>3 DEF Several!WithToken
    <2>2. r \in Rotates /\ r.left # 0 /\ r.tail = listed
      BY <1>0 DEF Rotates
    <2>3. s \in Currents /\ s.left # 0
      BY DEF Currents
    <2>4. token[c].desired \in Nat /\ token[c].desired <= listed
      BY <1>0 DEF TokenOK, Positions
    <2>5. listed \in 1..listed
      BY <1>0, <2>1, <2>4 DEF Several!None
    <2>6. CASE rotated
      <3> HIDE DEF r, s
      <3>1. Several!Begins(c, "token", r)
        BY <2>1, <2>6
      <3>2. /\ UNCHANGED <<listed, token>> /\ consumerCall'[c] = r
            /\ (CallOK(c)' => SeveralInv')
        BY <3>1, BeginsKeeps
      <3>3. RotateOK(c)'
        BY <2>2, <2>4, <2>5, <3>2 DEF RotateOK
      <3> QED
        BY <3>2, <3>3 DEF CallOK
    <2>7. CASE ~rotated
      <3>1. token[c].current # Several!None
        BY <1>0, <2>7 DEF TokenOK
      <3> HIDE DEF r, s
      <3>2. Several!Begins(c, "token", s)
        BY <2>1, <2>7
      <3>3. /\ UNCHANGED <<listed, token>> /\ consumerCall'[c] = s
            /\ (CallOK(c)' => SeveralInv')
        BY <3>2, BeginsKeeps
      <3>4. CurrentOK(c)'
        BY <2>3, <3>1, <3>3 DEF CurrentOK
      <3> QED
        BY <3>3, <3>4 DEF CallOK
    <2> QED
      BY <2>6, <2>7
  <1> QED
    BY <1>1, <1>2, <1>3

(* A call comes back short when nothing is ahead of it. *)
LEMMA ComesBackShortKeeps ==
  ASSUME SeveralInv, NEW c \in Consumers,
         Several!AllEmpty(c) \/ Several!WalkEnds(c) \/ Several!WentAround(c)
  PROVE  SeveralInv'
  <1>0. TokenOK(c) /\ CallOK(c) /\ overlooked = {} /\ token \in [Consumers -> Positions]
    BY DEF SeveralInv, ConsumerOK, SeveralTypeOK
  <1>1. stayed[c] = {}
    <2>1. CASE Several!AllEmpty(c)
      <3>1. ScoreOK(c) /\ consumerCall[c].at = 0 /\ consumerCall[c].nonEmpty = 0
        BY <1>0, <2>1, WhichCall DEF Several!AllEmpty
      <3> QED
        BY <3>1 DEF ScoreOK
    <2>2. CASE Several!WalkEnds(c)
      <3>1. WalkOK(c) /\ consumerCall[c].at = 0
        BY <1>0, <2>2, WhichCall DEF Several!WalkEnds
      <3> QED
        BY <3>1 DEF WalkOK
    <2>3. CASE Several!WentAround(c)
      <3>1. RingOK(c) /\ consumerCall[c].at = token[c].current
        BY <1>0, <2>3, WhichCall DEF Several!WentAround
      <3> QED
        BY <3>1 DEF RingOK, AheadOf
    <2> QED
      BY <2>1, <2>2, <2>3
  <1>2. /\ consumerCall' = [consumerCall EXCEPT ![c] = Several!Idle]
        /\ UNCHANGED <<listed, producerCount, size, globalOffset, token, stayed>>
        /\ overlooked' = overlooked \union stayed'[c]
    BY DEF Several!AllEmpty, Several!WalkEnds, Several!WentAround, Several!ComesBackShort,
           Several!Calls, Several!producers
  <1>3. overlooked' = overlooked
    BY <1>0, <1>1, <1>2
  <1>4. consumerCall'[c] = Several!Idle /\ (TokenOK(c)' /\ CallOK(c)' => SeveralInv')
    BY <1>0, <1>2, <1>3, MovesOn
  <1>5. TokenOK(c)'
    BY <1>0, <1>2 DEF TokenOK
  <1> QED
    BY <1>4, <1>5 DEF CallOK

(* One more producer is looked at for the best of three. *)
LEMMA ScoreKeeps ==
  ASSUME SeveralInv, NEW c \in Consumers, Several!Score(c)
  PROVE  SeveralInv'
  <1>0. /\ TokenOK(c) /\ CallOK(c) /\ stayed[c] \subseteq Several!NonEmpty
        /\ SeveralTypeOK /\ token \in [Consumers -> Positions]
    BY DEF SeveralInv, ConsumerOK, SeveralTypeOK
  <1> DEFINE r == consumerCall[c]
             n == size[r.at]
             s == [r EXCEPT !.at = r.at - 1, !.nonEmpty = IF n > 0 THEN r.nonEmpty + 1 ELSE r.nonEmpty,
                            !.best = IF n > r.bestSize THEN r.at ELSE r.best,
                            !.bestSize = IF n > r.bestSize THEN n ELSE r.bestSize]
  <1>1. /\ r.step = "score" /\ r.at > 0 /\ r.nonEmpty < 3
        /\ consumerCall' = [consumerCall EXCEPT ![c] = s]
        /\ UNCHANGED <<listed, producerCount, size, globalOffset, token, stayed, overlooked>>
    BY DEF Several!Score, Several!Calls, Several!producers
  <1>2. ScoreOK(c)
    BY <1>0, <1>1, WhichCall
  <1>3. /\ r \in Scores /\ r.at \in 1..listed /\ r.at \in 1..MaxProducers /\ n \in Nat
        /\ r.bestSize \in Nat /\ r.nonEmpty \in Nat /\ r.best \in Nat
    BY <1>0, <1>1, <1>2, ConsumerConstants DEF ScoreOK, Scores, SeveralTypeOK
  <1>4. /\ s \in Scores /\ s.at = r.at - 1
        /\ s.nonEmpty = (IF n > 0 THEN r.nonEmpty + 1 ELSE r.nonEmpty)
        /\ s.best = (IF n > r.bestSize THEN r.at ELSE r.best)
        /\ s.bestSize = (IF n > r.bestSize THEN n ELSE r.bestSize)
    <2> DEFINE a == r.at - 1
               b == IF n > 0 THEN r.nonEmpty + 1 ELSE r.nonEmpty
               k == IF n > r.bestSize THEN r.at ELSE r.best
               z == IF n > r.bestSize THEN n ELSE r.bestSize
    <2>1. a \in Nat /\ b \in Nat /\ k \in Nat /\ z \in Nat
      BY <1>3
    <2>2. s = [r EXCEPT !.at = a, !.nonEmpty = b, !.best = k, !.bestSize = z]
      OBVIOUS
    <2> HIDE DEF a, b, k, z, s
    <2>3. s \in Scores /\ s.at = a /\ s.nonEmpty = b /\ s.best = k /\ s.bestSize = z
      BY <1>3, <2>1, <2>2 DEF Scores
    <2> QED
      BY <2>3 DEF a, b, k, z
  <1>5. n = 0 => r.at \notin stayed[c]
    BY <1>0 DEF Several!NonEmpty
  <1>6. /\ r.nonEmpty = 0 => r.bestSize = 0 /\ stayed[c] \subseteq 1..r.at
        /\ r.nonEmpty # 0 => r.best \in 1..listed
        /\ listed \in Nat
    BY <1>0, <1>2 DEF ScoreOK, SeveralTypeOK
  <1> HIDE DEF s
  <1>7. consumerCall'[c] = s /\ (TokenOK(c)' /\ CallOK(c)' => SeveralInv')
    BY <1>0, <1>1, MovesOn
  <1>8. /\ s.at <= listed
        /\ s.nonEmpty = 0 => s.bestSize = 0 /\ stayed[c] \subseteq 1..s.at
        /\ s.nonEmpty # 0 => s.best \in 1..listed
    <2> HIDE DEF r, n
    <2>1. s.at <= listed
      BY <1>3, <1>4, <1>6
    <2>2. CASE n = 0
      <3>1. s.nonEmpty = r.nonEmpty /\ s.best = r.best /\ s.bestSize = r.bestSize
        BY <1>3, <1>4, <2>2
      <3>2. stayed[c] \subseteq 1..r.at => stayed[c] \subseteq 1..s.at
        BY <1>3, <1>4, <1>5, <2>2
      <3> QED
        BY <1>6, <2>1, <3>1, <3>2
    <2>3. CASE n # 0
      <3>1. s.nonEmpty # 0
        BY <1>3, <1>4, <2>3
      <3>2. s.best \in 1..listed
        BY <1>3, <1>4, <1>6, <2>3
      <3> QED
        BY <2>1, <3>1, <3>2
    <2> QED
      BY <2>2, <2>3
  <1>9. ScoreOK(c)'
    BY <1>1, <1>4, <1>7, <1>8 DEF ScoreOK
  <1>10. TokenOK(c)'
    BY <1>0, <1>1 DEF TokenOK
  <1> QED
    BY <1>7, <1>9, <1>10 DEF CallOK

(* All but the current producer are ahead of the one that follows it.        *)
LEMMA AheadOfTheNext ==
  ASSUME NEW last \in Nat, NEW current \in 1..last, NEW S, S \subseteq 1..last, current \notin S
  PROVE  /\ Several!Following(current, last) \in 1..last
         /\ S \subseteq AheadOf(current, Several!Following(current, last), last)
BY DEF Several!Following, AheadOf

(* One producer after the other around the list.                             *)
LEMMA AheadOfOneLess ==
  ASSUME NEW last \in Nat, NEW current \in 1..last, NEW from \in 1..last, from # current,
         NEW S, S \subseteq AheadOf(current, from, last), from \notin S
  PROVE  /\ Several!Following(from, last) \in 1..last
         /\ S \subseteq AheadOf(current, Several!Following(from, last), last)
BY DEF Several!Following, AheadOf

(* What is ahead is in the list. *)
LEMMA AheadIsListed ==
  ASSUME NEW last \in Nat, NEW current \in 1..last, NEW from \in 1..last
  PROVE  AheadOf(current, from, last) \subseteq 1..last
BY DEF AheadOf

(* The best of the three is tried, and then all others in order.             *)
LEMMA TryBestKeeps ==
  ASSUME SeveralInv, NEW c \in Consumers, Several!TryBest(c)
  PROVE  SeveralInv'
  <1>0. /\ TokenOK(c) /\ CallOK(c) /\ stayed[c] \subseteq Several!NonEmpty
        /\ SeveralTypeOK /\ token \in [Consumers -> Positions] /\ globalOffset \in Int
        /\ overlooked = {} /\ listed \in Nat
    BY DEF SeveralInv, ConsumerOK, SeveralTypeOK
  <1>1. consumerCall[c].step = "score" /\ consumerCall[c].nonEmpty > 0
    BY DEF Several!TryBest, Several!Scored
  <1>2. ScoreOK(c)
    BY <1>0, <1>1, WhichCall
  <1> PICK p \in 1..listed : p = consumerCall[c].best
    BY <1>1, <1>2 DEF ScoreOK, Scores
  <1> PICK n \in Nat : n = Several!Lesser(size[p], 1) /\ n <= size[p] /\ (n # 1 => n = size[p])
    <2>1. size[p] \in Nat
      BY <1>0, ConsumerConstants DEF SeveralTypeOK
    <2> QED
      BY <2>1, LesserIs
  <1>3. Several!Take(p, n) /\ UNCHANGED <<globalOffset, token>>
    BY DEF Several!TryBest
  <1>4. TokenOK(c)' <=> TokenOK(c)
    BY <1>3 DEF TokenOK, Several!Take
  <1>5. CASE n = 1
    <2>1. consumerCall' = [consumerCall EXCEPT ![c] = Several!Idle] /\ overlooked' = {}
      BY <1>0, <1>5 DEF Several!TryBest, Several!Succeeds, Several!Calls
    <2>2. consumerCall'[c] = Several!Idle /\ (TokenOK(c)' /\ CallOK(c)' => SeveralInv')
      BY <1>0, <1>3, <2>1, MovesAndTakes
    <2> QED
      BY <1>0, <1>4, <2>2 DEF CallOK
  <1>6. CASE n # 1
    <2> DEFINE r == [step |-> "walk", at |-> listed, but |-> p, left |-> 1]
    <2>1. consumerCall' = [consumerCall EXCEPT ![c] = r] /\ overlooked' = {}
      BY <1>0, <1>6 DEF Several!TryBest, Several!GoesOn, Several!Calls
    <2>2. r \in Walks /\ r.at = listed /\ r.but = p /\ r.left = 1
      BY <1>0 DEF Walks
    <2> HIDE DEF r
    <2>3. /\ consumerCall'[c] = r /\ listed' = listed
          /\ stayed'[c] \subseteq stayed[c] /\ p \notin stayed'[c]
          /\ TokenOK(c)' /\ CallOK(c)' => SeveralInv'
      BY <1>0, <1>3, <1>6, <2>1, MovesAndTakes
    <2>4. stayed'[c] \subseteq 1..listed
      BY <1>0, <2>3 DEF Several!NonEmpty
    <2>5. WalkOK(c)'
      BY <1>0, <2>2, <2>3, <2>4 DEF WalkOK
    <2> QED
      BY <1>0, <1>4, <2>3, <2>5 DEF CallOK
  <1> QED
    BY <1>5, <1>6

(* One producer after the other. *)
LEMMA WalkKeeps ==
  ASSUME SeveralInv, NEW c \in Consumers, Several!Walk(c)
  PROVE  SeveralInv'
  <1>0. /\ TokenOK(c) /\ CallOK(c) /\ stayed[c] \subseteq Several!NonEmpty
        /\ SeveralTypeOK /\ token \in [Consumers -> Positions] /\ globalOffset \in Int
        /\ overlooked = {} /\ listed \in Nat
    BY DEF SeveralInv, ConsumerOK, SeveralTypeOK
  <1> PICK r : r = consumerCall[c]
    OBVIOUS
  <1>1. r.step = "walk" /\ r.at > 0
    BY DEF Several!Walk
  <1>2. WalkOK(c)
    BY <1>0, <1>1, WhichCall
  <1>3. /\ r \in Walks /\ r.at \in 1..listed /\ r.left \in Nat /\ r.left # 0
        /\ stayed[c] \subseteq 1..r.at /\ r.but \notin stayed[c]
    BY <1>1, <1>2 DEF WalkOK, Walks
  <1> PICK n \in Nat : /\ n = IF r.at = r.but THEN 0 ELSE Several!Lesser(size[r.at], r.left)
                       /\ n <= size[r.at] /\ n <= r.left
                       /\ n # r.left => r.at = r.but \/ n = size[r.at]
    <2>1. size[r.at] \in Nat
      BY <1>0, <1>3, ConsumerConstants DEF SeveralTypeOK
    <2>2. CASE r.at = r.but
      BY <1>3, <2>1, <2>2
    <2>3. CASE r.at # r.but
      BY <1>3, <2>1, <2>3, LesserIs
    <2> QED
      BY <2>2, <2>3
  <1>4. Several!Take(r.at, n) /\ UNCHANGED <<globalOffset, token>>
    BY DEF Several!Walk
  <1>5. TokenOK(c)' <=> TokenOK(c)
    BY <1>4 DEF TokenOK, Several!Take
  <1>6. CASE n = r.left
    <2>1. consumerCall' = [consumerCall EXCEPT ![c] = Several!Idle] /\ overlooked' = {}
      BY <1>0, <1>6 DEF Several!Walk, Several!Succeeds, Several!Calls
    <2>2. consumerCall'[c] = Several!Idle /\ (TokenOK(c)' /\ CallOK(c)' => SeveralInv')
      BY <1>0, <1>3, <1>4, <2>1, MovesAndTakes
    <2> QED
      BY <1>0, <1>5, <2>2 DEF CallOK
  <1>7. CASE n # r.left
    <2> DEFINE s == [r EXCEPT !.at = r.at - 1, !.left = r.left - n]
    <2>1. consumerCall' = [consumerCall EXCEPT ![c] = s] /\ overlooked' = {}
      BY <1>0, <1>7 DEF Several!Walk, Several!GoesOn, Several!Calls
    <2>2. s \in Walks /\ s.at = r.at - 1 /\ s.but = r.but /\ s.left # 0
      <3> DEFINE a == r.at - 1
                 b == r.left - n
      <3>1. a \in Nat /\ b \in Nat /\ b # 0
        BY <1>3, <1>7
      <3> HIDE DEF a, b
      <3>2. s \in Walks /\ s.at = a /\ s.but = r.but /\ s.left = b
        BY <1>3, <3>1 DEF Walks, a, b
      <3> QED
        BY <3>1, <3>2 DEF a
    <2> HIDE DEF s
    <2>3. /\ consumerCall'[c] = s /\ listed' = listed
          /\ stayed'[c] \subseteq stayed[c] /\ (n = size[r.at] => r.at \notin stayed'[c])
          /\ TokenOK(c)' /\ CallOK(c)' => SeveralInv'
      BY <1>0, <1>3, <1>4, <2>1, MovesAndTakes, ZenonT(30)
    <2>4. r.at \notin stayed'[c]
      BY <1>3, <1>7, <2>3
    <2>5. stayed'[c] \subseteq 1..s.at /\ s.at <= listed
      BY <1>0, <1>3, <2>2, <2>3, <2>4
    <2>6. WalkOK(c)'
      BY <1>3, <2>2, <2>3, <2>5 DEF WalkOK
    <2> QED
      BY <1>0, <1>5, <2>3, <2>6 DEF CallOK
  <1> QED
    BY <1>6, <1>7

(* A token finds its place in the list. *)
LEMMA RotateKeeps ==
  ASSUME SeveralInv, NEW c \in Consumers, Several!Rotate(c)
  PROVE  SeveralInv'
  <1>0. /\ TokenOK(c) /\ CallOK(c) /\ SeveralTypeOK /\ token \in [Consumers -> Positions]
        /\ listed \in Nat /\ producerCount \in Nat /\ listed <= producerCount
        /\ globalOffset \in Int
    BY DEF SeveralInv, ConsumerOK, SeveralTypeOK
  <1> PICK r : r = consumerCall[c]
    OBVIOUS
  <1> PICK o \in Nat : o = TheirOffset[c]
    BY ConsumerConstants
  <1> DEFINE place == token[c]
             start == IF place.desired # Several!None THEN place.desired
                      ELSE Several!Ahead(r.tail, r.tail, producerCount - 1 - (o % producerCount))
             delta == ((globalOffset + OffsetRange - place.known) % OffsetRange) % producerCount
             desired == Several!Ahead(start, r.tail, delta)
             new == [current |-> desired, desired |-> desired, items |-> 0,
                     known |-> globalOffset]
             s == [step |-> "current", left |-> r.left, max |-> r.max]
  <1>1. /\ r.step = "rotate" /\ token' = [token EXCEPT ![c] = new]
        /\ consumerCall' = [consumerCall EXCEPT ![c] = s]
        /\ UNCHANGED <<listed, producerCount, size, enqueued, globalOffset, stayed, overlooked>>
    BY DEF Several!Rotate, Several!Calls, Several!producers
  <1>2. RotateOK(c)
    BY <1>0, <1>1, WhichCall
  <1>3. /\ r \in Rotates /\ r.left # 0 /\ r.tail \in 1..listed /\ r.left \in Nat /\ r.max \in Nat
        /\ producerCount \in Nat \ {0}
    BY <1>0, <1>2 DEF RotateOK, Rotates
  <1>4. \A p, n \in Int : Several!Ahead(p, r.tail, n) \in 1..r.tail
    <2> SUFFICES ASSUME NEW p \in Int, NEW n \in Int
                 PROVE  Several!Ahead(p, r.tail, n) \in 1..r.tail
      OBVIOUS
    <2> PICK k \in Nat \ {0} : k = r.tail
      BY <1>3
    <2> PICK i \in Int : i = p - 1 - n
      OBVIOUS
    <2>1. i % k \in 0..(k - 1)
      OBVIOUS
    <2> QED
      BY <2>1 DEF Several!Ahead
  <1>5. delta \in Int /\ o % producerCount \in Int
    <2> PICK g \in Int : g = globalOffset + OffsetRange - place.known
      BY <1>0, ConsumerConstants DEF Positions
    <2>1. g % OffsetRange \in Int
      BY ConsumerConstants
    <2>2. (g % OffsetRange) % producerCount \in Int
      BY <1>3, <2>1
    <2>3. o % producerCount \in Int
      BY <1>3
    <2> QED
      BY <2>2, <2>3
  <1>6. start \in Int
    <2> PICK k \in Int : k = o % producerCount
      BY <1>5
    <2>1. producerCount - 1 - k \in Int /\ r.tail \in Int /\ place.desired \in Int
      BY <1>0, <1>3 DEF Positions
    <2>2. Several!Ahead(r.tail, r.tail, producerCount - 1 - k) \in Int
      BY <1>4, <2>1
    <2> QED
      BY <2>1, <2>2
  <1> HIDE DEF delta, start
  <1>7. desired \in 1..r.tail
    BY <1>4, <1>5, <1>6
  <1> HIDE DEF desired
  <1>8. /\ new \in Positions /\ new.current = desired /\ new.desired = desired
        /\ desired \in Nat /\ desired # 0 /\ desired <= listed
    BY <1>0, <1>3, <1>7 DEF Positions
  <1>9. s \in Currents /\ s.left # 0
    BY <1>3 DEF Currents
  <1> HIDE DEF new, s
  <1>10. /\ token' \in [Consumers -> Positions] /\ token'[c] = new
         /\ \A d \in Consumers \ {c} : token'[d] = token[d]
    BY <1>0, <1>1, <1>8
  <1>11. consumerCall'[c] = s /\ (TokenOK(c)' /\ CallOK(c)' => SeveralInv')
    BY <1>1, <1>10, MovesOn
  <1>12. TokenOK(c)'
    BY <1>1, <1>8, <1>10 DEF TokenOK, Several!None
  <1>13. CurrentOK(c)'
    BY <1>8, <1>9, <1>10, <1>11 DEF CurrentOK, Several!None
  <1> QED
    BY <1>11, <1>12, <1>13 DEF CallOK

(* The current producer of the token is tried. *)
LEMMA TryCurrentKeeps ==
  ASSUME SeveralInv, NEW c \in Consumers, Several!TryCurrent(c)
  PROVE  SeveralInv'
  <1>0. /\ TokenOK(c) /\ CallOK(c) /\ SeveralTypeOK /\ token \in [Consumers -> Positions]
        /\ globalOffset \in Int /\ overlooked = {} /\ listed \in Nat
    BY DEF SeveralInv, ConsumerOK, SeveralTypeOK
  <1> PICK r : r = consumerCall[c]
    OBVIOUS
  <1>1. r.step = "current"
    BY DEF Several!TryCurrent
  <1>2. CurrentOK(c)
    BY <1>0, <1>1, WhichCall
  <1>3. /\ r \in Currents /\ r.left \in Nat /\ r.left # 0 /\ r.max \in Nat
        /\ token[c] \in Positions /\ token[c].current # 0 /\ token[c].desired # 0
    BY <1>0, <1>2 DEF CurrentOK, Currents, TokenOK, Several!None
  <1> PICK p \in 1..listed : p = token[c].current
    BY <1>0, <1>3 DEF TokenOK, Positions
  <1> PICK n \in Nat : /\ n = Several!Lesser(size[p], r.left)
                       /\ n <= size[p] /\ n <= r.left /\ (n # r.left => n = size[p])
    <2>1. size[p] \in Nat
      BY <1>0, ConsumerConstants DEF SeveralTypeOK
    <2> QED
      BY <1>3, <2>1, LesserIs
  <1> PICK items \in Int : items = token[c].items + n
    BY <1>3 DEF Positions
  <1>4. Several!Take(p, n) /\ token' = [token EXCEPT ![c] = [token[c] EXCEPT !.items = items]]
    BY DEF Several!TryCurrent
  <1>5. globalOffset' \in Int
    <2>1. (globalOffset + 1) % OffsetRange \in Int
      BY <1>0, ConsumerConstants
    <2>2. globalOffset' = (globalOffset + 1) % OffsetRange \/ globalOffset' = globalOffset
      BY DEF Several!TryCurrent
    <2> QED
      BY <1>0, <2>1, <2>2
  <1>6. /\ token' \in [Consumers -> Positions]
        /\ token'[c].current = p /\ token'[c].desired = token[c].desired
        /\ \A d \in Consumers \ {c} : token'[d] = token[d]
    <2> PICK new : new = [token[c] EXCEPT !.items = items]
      OBVIOUS
    <2>1. new \in Positions /\ new.current = p /\ new.desired = token[c].desired
      BY <1>3 DEF Positions
    <2>2. token' = [token EXCEPT ![c] = new]
      BY <1>4
    <2> QED
      BY <1>0, <2>1, <2>2
  <1>7. TokenOK(c)'
    <2>1. listed' = listed
      BY <1>4 DEF Several!Take
    <2> QED
      BY <1>0, <1>6, <2>1 DEF TokenOK
  <1>8. CASE n = r.left
    <2>1. consumerCall' = [consumerCall EXCEPT ![c] = Several!Idle] /\ overlooked' = {}
      BY <1>0, <1>8 DEF Several!TryCurrent, Several!Succeeds, Several!Calls
    <2>2. consumerCall'[c] = Several!Idle /\ (TokenOK(c)' /\ CallOK(c)' => SeveralInv')
      BY <1>4, <1>5, <1>6, <2>1, MovesAndTakes
    <2> QED
      BY <1>7, <2>2 DEF CallOK
  <1>9. CASE n # r.left
    <2> DEFINE s == [step |-> "tail", left |-> r.left - n]
    <2>1. consumerCall' = [consumerCall EXCEPT ![c] = s] /\ overlooked' = {}
      BY <1>0, <1>9 DEF Several!TryCurrent, Several!GoesOn, Several!Calls
    <2>2. s \in Tails /\ s.left # 0
      BY <1>3, <1>9 DEF Tails
    <2> HIDE DEF s
    <2>3. /\ consumerCall'[c] = s /\ p \notin stayed'[c]
          /\ TokenOK(c)' /\ CallOK(c)' => SeveralInv'
      BY <1>4, <1>5, <1>6, <1>9, <2>1, MovesAndTakes, ZenonT(30)
    <2>4. TailOK(c)'
      BY <1>6, <2>2, <2>3 DEF TailOK, Several!None
    <2> QED
      BY <1>7, <2>3, <2>4 DEF CallOK
  <1> QED
    BY <1>8, <1>9

(* The tail of the list is loaded: all others are ahead. *)
LEMMA LoadTailKeeps ==
  ASSUME SeveralInv, NEW c \in Consumers, Several!LoadTail(c)
  PROVE  SeveralInv'
  <1>0. /\ TokenOK(c) /\ CallOK(c) /\ stayed[c] \subseteq Several!NonEmpty
        /\ token \in [Consumers -> Positions] /\ listed \in Nat
    BY DEF SeveralInv, ConsumerOK, SeveralTypeOK
  <1> PICK r : r = consumerCall[c]
    OBVIOUS
  <1> DEFINE s == [step |-> "ring", left |-> r.left, tail |-> listed,
                   at |-> Several!Following(token[c].current, listed)]
  <1>1. /\ r.step = "tail" /\ consumerCall' = [consumerCall EXCEPT ![c] = s]
        /\ UNCHANGED <<listed, producerCount, size, globalOffset, token, stayed, overlooked>>
    BY DEF Several!LoadTail, Several!Calls, Several!producers
  <1>2. TailOK(c)
    BY <1>0, <1>1, WhichCall
  <1>3. /\ r.left \in Nat /\ r.left # 0 /\ token[c].current \notin stayed[c]
        /\ token[c].current \in 1..listed
    BY <1>0, <1>2 DEF TailOK, Tails, TokenOK, Positions, Several!None
  <1>4. stayed[c] \subseteq 1..listed
    BY <1>0 DEF Several!NonEmpty
  <1> PICK from : from = Several!Following(token[c].current, listed)
    OBVIOUS
  <1>5. from \in 1..listed /\ stayed[c] \subseteq AheadOf(token[c].current, from, listed)
    BY <1>0, <1>3, <1>4, AheadOfTheNext
  <1>6. s \in Rings /\ s.left # 0 /\ s.tail = listed /\ s.at = from
    BY <1>0, <1>3, <1>5 DEF Rings
  <1> HIDE DEF s
  <1>7. consumerCall'[c] = s /\ (TokenOK(c)' /\ CallOK(c)' => SeveralInv')
    BY <1>0, <1>1, MovesOn
  <1>8. RingOK(c)'
    BY <1>0, <1>1, <1>3, <1>5, <1>6, <1>7 DEF RingOK
  <1>9. TokenOK(c)'
    BY <1>0, <1>1 DEF TokenOK
  <1> QED
    BY <1>7, <1>8, <1>9 DEF CallOK

(* Around the list. *)
LEMMA TryNextKeeps ==
  ASSUME SeveralInv, NEW c \in Consumers, Several!TryNext(c)
  PROVE  SeveralInv'
  <1>0. /\ TokenOK(c) /\ CallOK(c) /\ stayed[c] \subseteq Several!NonEmpty
        /\ SeveralTypeOK /\ token \in [Consumers -> Positions] /\ globalOffset \in Int
        /\ overlooked = {} /\ listed \in Nat
    BY DEF SeveralInv, ConsumerOK, SeveralTypeOK
  <1> PICK r : r = consumerCall[c]
    OBVIOUS
  <1> PICK p : p = token[c].current
    OBVIOUS
  <1>1. r.step = "ring" /\ r.at # p
    BY DEF Several!TryNext
  <1>2. RingOK(c)
    BY <1>0, <1>1, WhichCall
  <1>3. /\ r \in Rings /\ r.left \in Nat /\ r.left # 0 /\ r.tail \in Nat /\ r.tail <= listed
        /\ r.at \in 1..r.tail /\ r.at \in 1..listed /\ p \in 1..r.tail
        /\ stayed[c] \subseteq AheadOf(p, r.at, r.tail) /\ token[c] \in Positions
    BY <1>0, <1>2 DEF RingOK, Rings
  <1> PICK n \in Nat : /\ n = Several!Lesser(size[r.at], r.left)
                       /\ n <= size[r.at] /\ n <= r.left /\ (n # r.left => n = size[r.at])
    <2>1. size[r.at] \in Nat
      BY <1>0, <1>3, ConsumerConstants DEF SeveralTypeOK
    <2> QED
      BY <1>3, <2>1, LesserIs
  <1>4. /\ Several!Take(r.at, n) /\ UNCHANGED globalOffset /\ listed' = listed
        /\ token' = IF n = 0 THEN token
                    ELSE [token EXCEPT ![c] = [token[c] EXCEPT !.current = r.at, !.items = n]]
    BY DEF Several!TryNext, Several!Take
  <1>5. /\ token' \in [Consumers -> Positions]
        /\ token'[c].current = (IF n = 0 THEN p ELSE r.at)
        /\ token'[c].desired = token[c].desired
        /\ \A d \in Consumers \ {c} : token'[d] = token[d]
    <2>1. CASE n = 0
      BY <1>0, <1>4, <2>1
    <2>2. CASE n # 0
      <3> PICK new : new = [token[c] EXCEPT !.current = r.at, !.items = n]
        OBVIOUS
      <3>0. r.at \in Nat /\ token[c] \in Positions /\ n \in Int
        BY <1>3
      <3>1. new \in Positions /\ new.current = r.at /\ new.desired = token[c].desired
        BY <3>0 DEF Positions
      <3>2. token' = [token EXCEPT ![c] = new]
        BY <1>4, <2>2
      <3> QED
        BY <1>0, <2>2, <3>1, <3>2
    <2> QED
      BY <2>1, <2>2
  <1>6. TokenOK(c)'
    BY <1>0, <1>3, <1>4, <1>5 DEF TokenOK, Several!None
  <1>7. CASE n = r.left
    <2>1. consumerCall' = [consumerCall EXCEPT ![c] = Several!Idle] /\ overlooked' = {}
      BY <1>0, <1>7 DEF Several!TryNext, Several!Succeeds, Several!Calls
    <2>2. consumerCall'[c] = Several!Idle /\ (TokenOK(c)' /\ CallOK(c)' => SeveralInv')
      BY <1>0, <1>3, <1>4, <1>5, <2>1, MovesAndTakes
    <2> QED
      BY <1>6, <2>2 DEF CallOK
  <1>8. CASE n # r.left
    <2> DEFINE s == [r EXCEPT !.at = Several!Following(r.at, r.tail), !.left = r.left - n]
    <2>1. consumerCall' = [consumerCall EXCEPT ![c] = s] /\ overlooked' = {}
      BY <1>0, <1>8 DEF Several!TryNext, Several!GoesOn, Several!Calls
    <2> PICK from : from = Several!Following(r.at, r.tail)
      OBVIOUS
    <2>2. from \in 1..r.tail
      BY <1>3 DEF Several!Following
    <2>3. s \in Rings /\ s.left # 0 /\ s.tail = r.tail /\ s.at = from
      <3> PICK b \in Nat : b = r.left - n /\ b # 0
        BY <1>3, <1>8
      <3>1. s = [r EXCEPT !.at = from, !.left = b] /\ from \in Nat
        BY <1>3, <2>2
      <3> HIDE DEF s
      <3> QED
        BY <1>3, <3>1 DEF Rings
    <2> HIDE DEF s
    <2>4. /\ consumerCall'[c] = s
          /\ stayed'[c] \subseteq stayed[c] /\ r.at \notin stayed'[c]
          /\ TokenOK(c)' /\ CallOK(c)' => SeveralInv'
      BY <1>0, <1>3, <1>4, <1>5, <1>8, <2>1, MovesAndTakes, ZenonT(30)
    <2>5. stayed'[c] \subseteq AheadOf(token'[c].current, from, r.tail)
      <3>1. CASE n = 0
        <4>1. stayed'[c] \subseteq AheadOf(p, r.at, r.tail)
          BY <1>3, <2>4
        <4> QED
          BY <1>1, <1>3, <1>5, <2>4, <3>1, <4>1, AheadOfOneLess
      <3>2. CASE n # 0
        <4>1. stayed'[c] \subseteq 1..r.tail
          BY <1>3, <2>4, AheadIsListed
        <4> QED
          BY <1>3, <1>5, <2>4, <3>2, <4>1, AheadOfTheNext
      <3> QED
        BY <3>1, <3>2
    <2>6. token'[c].current \in 1..r.tail
      BY <1>3, <1>5
    <2>7. RingOK(c)'
      BY <1>3, <1>4, <2>2, <2>3, <2>4, <2>5, <2>6 DEF RingOK
    <2> QED
      BY <1>6, <2>4, <2>7 DEF CallOK
  <1> QED
    BY <1>7, <1>8

(* The invariant is kept. *)
LEMMA SeveralStep == SeveralInv /\ [Several!Next]_severalVars => SeveralInv'
  <1> SUFFICES ASSUME SeveralInv, [Several!Next]_severalVars PROVE SeveralInv'
    OBVIOUS
  <1>1. CASE UNCHANGED severalVars
    <2>1. UNCHANGED <<listed, producerCount, size, enqueued, globalOffset, token, consumerCall,
                      stayed, overlooked>>
      BY <1>1 DEF severalVars
    <2>2. SeveralTypeOK'
      BY <2>1 DEF SeveralInv, SeveralTypeOK
    <2>3. Several!NonEmpty' = Several!NonEmpty
      BY <2>1 DEF Several!NonEmpty
    <2>4. ASSUME NEW d \in Consumers PROVE ConsumerOK(d)'
      <3>1. ConsumerOK(d) /\ token[d] \in Positions /\ listed \in Nat
        BY DEF SeveralInv, SeveralTypeOK
      <3> QED
        BY <2>1, <2>3, <3>1, OtherConsumer DEF ConsumerOK
    <2> QED
      BY <2>2, <2>4 DEF SeveralInv
  <1>2. CASE Several!CountProducer \/ Several!ListProducer
               \/ \E p \in 1..MaxProducers : Several!Enqueue(p)
    BY <1>2, ProducersKeep
  <1>3. ASSUME NEW c \in Consumers,
               \/ Several!BestOfThree(c) \/ Several!Score(c) \/ Several!AllEmpty(c)
               \/ Several!TryBest(c)
               \/ (\E max \in {1, 2} : Several!InOrder(c, max))
               \/ Several!Walk(c) \/ Several!WalkEnds(c)
               \/ (\E max \in {1, 2} : Several!WithToken(c, max))
               \/ Several!Rotate(c) \/ Several!TryCurrent(c)
               \/ Several!LoadTail(c) \/ Several!TryNext(c) \/ Several!WentAround(c)
        PROVE  SeveralInv'
    BY <1>3, CallsBegin, ScoreKeeps, ComesBackShortKeeps, TryBestKeeps, WalkKeeps, RotateKeeps,
       TryCurrentKeeps, LoadTailKeeps, TryNextKeeps
  <1> QED
    BY <1>1, <1>2, <1>3 DEF Several!Next

(* A call that comes back short has found every producer empty, and a token  *)
(* stands at a producer of the list (util/concurrentqueue.h:1341-1518).      *)
THEOREM NoProducerOverlooked == MCSpec => []NothingOverlooked
  <1>1. MCInit => SeveralInv
    BY SeveralRuns, SeveralInit
  <1>2. SeveralInv /\ [MCNext]_<<component, mutexVars, listVars, producerVars, implicitVars,
                                 explicitVars, hashVars, severalVars, ownerVars>> => SeveralInv'
    BY SeveralRuns, SeveralStep
  <1>3. SeveralInv => NothingOverlooked
    BY DEF NothingOverlooked, Several!NothingOverlooked, SeveralInv, SeveralTypeOK, ConsumerOK,
           TokenOK
  <1> QED
    BY <1>1, <1>2, <1>3, PTL DEF MCSpec

-----------------------------------------------------------------------------
(* Who points to whom.  The tables of a queue are a path from its current    *)
(* table to the one within the queue.                                        *)
Links   == Queues \union Tables
Set(s)  == {s[i] : i \in 1..Len(s)}
Once(s) == \A i, j \in 1..Len(s) : s[i] = s[j] => i = j

(* s leads from h to q and ends there.                                       *)
Leads(s, h, q, links) ==
  /\ s \in Seq(Links) /\ Len(s) # 0 /\ Once(s)
  /\ s[1] = h /\ s[Len(s)] = q /\ links[q] = Owners!Null
  /\ \A i \in 1..(Len(s) - 1) : s[i] \in Tables /\ links[s[i]] = s[i + 1]

(* The tables from h on, by any links.                                       *)
From(h, links, k, f) ==
  IF k = 0 THEN {h} ELSE f[k - 1] \union ({links[g] : g \in f[k - 1]} \ {Owners!Null})
Reached(h, links) ==
  LET walk[k \in 0..Owners!Cardinality(Tables)] ==
        IF k = 0 THEN {h}
        ELSE walk[k - 1] \union ({links[g] : g \in walk[k - 1]} \ {Owners!Null})
  IN walk[Owners!Cardinality(Tables)]

(* The constants. *)
LEMMA OwnersConstants ==
  /\ IsFiniteSet(Tables) /\ Queues \cap Tables = {}
  /\ Owners!Null \notin Links /\ Owners!Null \notin Tokens /\ Owners!Null \notin Producers
  /\ Owners!NoToken \notin Producers /\ Owners!NoToken # Owners!Null
BY InstanceAssumption DEF Owners!OwnersAssumption, Owners!IsFiniteSet, IsFiniteSet, Links,
   Owners!Null, Owners!NoToken

LEMMA SameCardinality == \A S : Owners!Cardinality(S) = Cardinality(S)
BY DEF Owners!Cardinality, Cardinality, Owners!IsFiniteSet, IsFiniteSet

(* How many tables a path has.                                               *)
LEMMA PathIsShort ==
  ASSUME NEW s, NEW h, NEW q, NEW links, Leads(s, h, q, links)
  PROVE  Cardinality(Tables) \in Nat /\ Len(s) - 1 <= Cardinality(Tables)
  <1>1. IsFiniteSet(Tables) /\ Cardinality(Tables) \in Nat
    BY OwnersConstants, FS_CardinalityType
  <1>2. Len(s) \in Nat /\ Len(s) # 0
    BY DEF Leads
  <1> DEFINE D == 1..(Len(s) - 1)
             f == [i \in D |-> s[i]]
  <1>3. IsFiniteSet(D) /\ Cardinality(D) = Len(s) - 1
    <2>1. \A n \in Nat : IsFiniteSet(1..n) /\ Cardinality(1..n) = n
      BY FS_Interval
    <2>2. Len(s) - 1 \in Nat
      BY <1>2
    <2> QED
      BY <2>1, <2>2
  <1>4. f \in Injection(D, Tables)
    <2>1. \A i \in D : i \in 1..Len(s) /\ s[i] \in Tables
      BY <1>2 DEF Leads
    <2> HIDE DEF D
    <2> QED
      BY <2>1 DEF Injection, IsInjective, Leads, Once
  <1>5. Cardinality(D) <= Cardinality(Tables)
    <2> HIDE DEF D, f
    <2> QED
      BY <1>1, <1>4, FS_Injection
  <1> QED
    BY <1>1, <1>3, <1>5

(* The tables that are reached are those of the path.                        *)
LEMMA PathIsReached ==
  ASSUME NEW s, NEW h, NEW q, NEW links, Leads(s, h, q, links)
  PROVE  Reached(h, links) = Set(s)
  <1> DEFINE N == Cardinality(Tables)
             upTo(k) == {s[i] : i \in {j \in 1..Len(s) : j <= k + 1}}
             g == [k \in 0..N |-> upTo(k)]
             Right(f) == f = [k \in 0..N |-> From(h, links, k, f)]
             walk == CHOOSE f : Right(f)
  <1>1. N \in Nat /\ Len(s) - 1 <= N /\ Len(s) \in Nat /\ Len(s) # 0
    BY PathIsShort DEF Leads
  <1>2. Reached(h, links) = walk[N]
    BY SameCardinality DEF Reached, From
  <1> HIDE DEF N
  <1>3. ASSUME NEW k \in 0..N PROVE From(h, links, k, g) = upTo(k)
    <2>1. CASE k = 0
      <3>1. upTo(0) = {s[1]}
        BY <1>1
      <3> QED
        BY <2>1, <3>1 DEF From, Leads
    <2>2. CASE k # 0
      <3>1. k - 1 \in 0..N /\ g[k - 1] = upTo(k - 1) /\ k \in Nat
        BY <2>2, <1>1
      <3>2. From(h, links, k, g) = upTo(k - 1) \union ({links[x] : x \in upTo(k - 1)} \ {Owners!Null})
        BY <2>2, <3>1 DEF From
      <3>3. ASSUME NEW x \in upTo(k - 1), links[x] # Owners!Null PROVE links[x] \in upTo(k)
        <4>1. PICK i \in 1..Len(s) : i <= k /\ x = s[i]
          BY <3>1
        <4>2. i # Len(s)
          BY <3>3, <4>1 DEF Leads
        <4>3. i \in 1..(Len(s) - 1) /\ links[s[i]] = s[i + 1]
          BY <1>1, <4>1, <4>2 DEF Leads
        <4>4. i + 1 \in {j \in 1..Len(s) : j <= k + 1}
          BY <1>1, <3>1, <4>1, <4>3
        <4> QED
          BY <4>1, <4>3, <4>4
      <3>4. ASSUME NEW x \in upTo(k), x \notin upTo(k - 1)
            PROVE  x \in {links[y] : y \in upTo(k - 1)} \ {Owners!Null}
        <4>1. PICK i \in 1..Len(s) : i <= k + 1 /\ x = s[i]
          OBVIOUS
        <4>2. i = k + 1
          BY <3>1, <3>4, <4>1
        <4>3. k \in 1..(Len(s) - 1) /\ k \in {j \in 1..Len(s) : j <= (k - 1) + 1}
          BY <1>1, <2>2, <3>1, <4>1, <4>2
        <4>4. links[s[k]] = x /\ s[k] \in upTo(k - 1)
          BY <4>1, <4>2, <4>3 DEF Leads
        <4>5. x # Owners!Null
          BY <4>1, OwnersConstants DEF Leads
        <4> QED
          BY <4>4, <4>5
      <3>5. upTo(k - 1) \subseteq upTo(k)
        BY <3>1
      <3> QED
        BY <3>2, <3>3, <3>4, <3>5
    <2> QED
      BY <2>1, <2>2
  <1>4. Right(g)
    BY <1>3
  <1>5. Right(walk)
    <2> HIDE DEF Right, g
    <2> QED
      BY <1>4
  <1>6. \A k \in 0..N : walk[k] = From(h, links, k, walk)
    <2> HIDE DEF walk
    <2> QED
      BY <1>5
  <1> HIDE DEF walk
  <1>7. \A k \in 0..N : walk[k] = g[k]
    <2> DEFINE T == {k \in 0..N : walk[k] # g[k]}
    <2> SUFFICES ASSUME T # {} PROVE FALSE
      OBVIOUS
    <2>0. T \in SUBSET Nat /\ \A k \in 0..N : k \in T <=> walk[k] # g[k]
      BY <1>1
    <2>00. T \subseteq 0..N
      OBVIOUS
    <2> HIDE DEF T, g
    <2>1. PICK m \in T : \A k \in T : m <= k
      BY <2>0, LeastNumber
    <2>2. m \in 0..N /\ walk[m] # g[m]
      BY <2>0, <2>00
    <2>3. walk[m] = From(h, links, m, walk) /\ g[m] = From(h, links, m, g)
      BY <1>6, <1>4, <2>2
    <2>4. m # 0
      BY <2>2, <2>3 DEF From
    <2>5. m - 1 \in 0..N /\ m - 1 \notin T
      BY <1>1, <2>1, <2>2, <2>4
    <2>6. walk[m - 1] = g[m - 1]
      BY <2>0, <2>5
    <2> QED
      BY <2>2, <2>3, <2>4, <2>6 DEF From
  <1>8. g[N] = Set(s)
    <2>1. {j \in 1..Len(s) : j <= N + 1} = 1..Len(s)
      BY <1>1
    <2>2. N \in 0..N
      BY <1>1
    <2> QED
      BY <2>1, <2>2 DEF Set
  <1>9. N \in 0..N
    BY <1>1
  <1> HIDE DEF g
  <1> QED
    BY <1>2, <1>7, <1>8, <1>9

(* C holds the tables on the path from h to q.                               *)
IsChain(C, h, q, links) == \E s \in Seq(Links) : Leads(s, h, q, links) /\ Set(s) = C

LEMMA ChainReached ==
  ASSUME NEW C, NEW h, NEW q, NEW links, IsChain(C, h, q, links)
  PROVE  Reached(h, links) = C
BY PathIsReached DEF IsChain

(* It begins and ends where it should, and ends only there.                  *)
LEMMA ChainHas ==
  ASSUME NEW C, NEW h, NEW q, NEW links, IsChain(C, h, q, links)
  PROVE  /\ C \subseteq Tables \union {q} /\ h \in C /\ q \in C
         /\ \A g \in C : links[g] = Owners!Null <=> g = q
  <1> PICK s \in Seq(Links) : Leads(s, h, q, links) /\ Set(s) = C
    BY DEF IsChain
  <1>1. Len(s) \in Nat /\ Len(s) # 0
    BY DEF Leads
  <1>2. \A g \in C : \E i \in 1..Len(s) : g = s[i]
    BY DEF Set
  <1>3. \A i \in 1..Len(s) : i = Len(s) \/ i \in 1..(Len(s) - 1)
    BY <1>1
  <1>4. 1 \in 1..Len(s) /\ Len(s) \in 1..Len(s)
    BY <1>1
  <1>5. h \in C /\ q \in C
    BY <1>4 DEF Leads, Set
  <1>6. ASSUME NEW i \in 1..(Len(s) - 1) PROVE links[s[i]] # Owners!Null /\ s[i] # q
    <2>1. i + 1 \in 1..Len(s) /\ i \in 1..Len(s) /\ i # Len(s)
      BY <1>1
    <2>2. links[s[i]] \in Links
      BY <2>1 DEF Leads
    <2> QED
      BY <1>4, <2>1, <2>2, OwnersConstants DEF Leads, Once
  <1> QED
    BY <1>2, <1>3, <1>5, <1>6 DEF Leads

(* A queue with the table that it comes with.                                *)
LEMMA ChainOfOne ==
  ASSUME NEW q \in Queues, NEW links, links[q] = Owners!Null
  PROVE  IsChain({q}, q, q, links)
  <1>1. <<q>> \in Seq(Links) /\ Len(<<q>>) = 1 /\ <<q>>[1] = q
    BY DEF Links
  <1>2. Leads(<<q>>, q, q, links) /\ Set(<<q>>) = {q}
    BY <1>1 DEF Leads, Set, Once
  <1> QED
    BY <1>1, <1>2 DEF IsChain

(* Its links are the same. *)
LEMMA ChainKept ==
  ASSUME NEW C, NEW h, NEW q, NEW links, IsChain(C, h, q, links),
         NEW others, \A g \in C : others[g] = links[g]
  PROVE  IsChain(C, h, q, others)
  <1> PICK s \in Seq(Links) : Leads(s, h, q, links) /\ Set(s) = C
    BY DEF IsChain
  <1>1. \A i \in 1..Len(s) : s[i] \in C
    BY DEF Set
  <1>2. \A i \in 1..(Len(s) - 1) : i \in 1..Len(s)
    BY DEF Leads
  <1>3. q \in C
    BY ChainHas
  <1>4. Leads(s, h, q, others)
    BY <1>1, <1>2, <1>3 DEF Leads
  <1> QED
    BY <1>4 DEF IsChain

(* A table is put before the first one.                                      *)
LEMMA ChainGrows ==
  ASSUME NEW C, NEW h, NEW q, NEW links, NEW n \in Tables, NEW others, NEW D,
         IsChain(C, h, q, links), n \notin C, D = C \union {n},
         others[n] = h, \A g \in C : others[g] = links[g]
  PROVE  IsChain(D, n, q, others)
  <1> PICK s \in Seq(Links) : Leads(s, h, q, links) /\ Set(s) = C
    BY DEF IsChain
  <1> DEFINE r == <<n>> \o s
  <1>0. Len(s) \in Nat /\ Len(s) # 0 /\ q \in C
    BY ChainHas DEF Leads
  <1>1. /\ r \in Seq(Links) /\ Len(r) = Len(s) + 1
        /\ \A i \in 1..Len(r) : r[i] = IF i = 1 THEN n ELSE s[i - 1]
    <2>1. <<n>> \in Seq(Links) /\ Len(<<n>>) = 1 /\ <<n>>[1] = n
      BY DEF Links
    <2>2. /\ r \in Seq(Links) /\ Len(r) = 1 + Len(s)
          /\ \A i \in 1..(1 + Len(s)) : r[i] = IF i <= 1 THEN <<n>>[i] ELSE s[i - 1]
      BY <2>1, ConcatProperties
    <2> HIDE DEF r
    <2> QED
      BY <1>0, <2>1, <2>2
  <1> HIDE DEF r
  <1>2. \A i \in 1..Len(s) : s[i] # n /\ s[i] \in C
    BY DEF Set
  <1>3. Set(r) = C \union {n}
    <2>1. \A x \in C : \E i \in 1..Len(s) : x = s[i]
      BY DEF Set
    <2>2. \A i \in 1..Len(s) : i + 1 \in 1..Len(r) /\ r[i + 1] = s[i]
      BY <1>0, <1>1
    <2>3. 1 \in 1..Len(r) /\ r[1] = n
      BY <1>0, <1>1
    <2>4. \A i \in 1..Len(r) : r[i] \in C \union {n}
      BY <1>0, <1>1, <1>2
    <2> QED
      BY <2>1, <2>2, <2>3, <2>4, SMTT(20) DEF Set
  <1>4. Once(r)
    <2> SUFFICES ASSUME NEW i \in 1..Len(r), NEW j \in 1..Len(r), r[i] = r[j] PROVE i = j
      BY DEF Once
    <2>1. i # 1 => i - 1 \in 1..Len(s) /\ r[i] = s[i - 1]
      BY <1>0, <1>1
    <2>2. j # 1 => j - 1 \in 1..Len(s) /\ r[j] = s[j - 1]
      BY <1>0, <1>1
    <2>3. i # 1 /\ j # 1 => i - 1 = j - 1
      BY <2>1, <2>2 DEF Leads, Once
    <2>4. r[1] = n
      BY <1>0, <1>1
    <2> QED
      BY <1>0, <1>1, <1>2, <2>1, <2>2, <2>3, <2>4
  <1>5. ASSUME NEW i \in 1..(Len(r) - 1) PROVE r[i] \in Tables /\ others[r[i]] = r[i + 1]
    <2>1. r[i + 1] = s[i] /\ i \in 1..Len(s)
      BY <1>0, <1>1
    <2>2. CASE i = 1
      BY <1>0, <1>1, <2>1, <2>2 DEF Leads
    <2>3. CASE i # 1
      <3>1. r[i] = s[i - 1] /\ i - 1 \in 1..(Len(s) - 1) /\ i - 1 \in 1..Len(s)
        BY <1>0, <1>1, <2>1, <2>3
      <3>2. links[s[i - 1]] = s[(i - 1) + 1] /\ s[i - 1] \in Tables
        BY <3>1 DEF Leads
      <3>3. (i - 1) + 1 = i
        OBVIOUS
      <3> QED
        BY <1>2, <2>1, <3>1, <3>2, <3>3
    <2> QED
      BY <2>2, <2>3
  <1>6. r[1] = n /\ r[Len(r)] = q /\ others[q] = Owners!Null
    BY <1>0, <1>1 DEF Leads
  <1>7. Leads(r, n, q, others)
    BY <1>0, <1>1, <1>4, <1>5, <1>6 DEF Leads
  <1> QED
    BY <1>1, <1>3, <1>7 DEF IsChain

(* The last table changes its place from that within q to that within o.     *)
LEMMA ChainMoves ==
  ASSUME NEW C, NEW h, NEW q \in Queues, NEW links, IsChain(C, h, q, links),
         NEW o \in Queues,
         NEW others, others[o] = Owners!Null,
         \A g \in C \ {q} : others[g] = IF links[g] = q THEN o ELSE links[g]
  PROVE  IsChain((C \ {q}) \union {o}, IF h = q THEN o ELSE h, o, others)
  <1> PICK s \in Seq(Links) : Leads(s, h, q, links) /\ Set(s) = C
    BY DEF IsChain
  <1> DEFINE r == [i \in 1..Len(s) |-> IF s[i] = q THEN o ELSE s[i]]
  <1>0. Len(s) \in Nat /\ Len(s) # 0 /\ q \in C /\ o \in Links
    BY ChainHas DEF Leads, Links
  <1>1. \A i \in 1..Len(s) : s[i] \in Links /\ s[i] \in C
    BY DEF Set
  <1>2. /\ r \in Seq(Links) /\ Len(r) = Len(s)
        /\ \A i \in 1..Len(r) : r[i] = IF s[i] = q THEN o ELSE s[i]
    BY <1>0, <1>1
  <1> HIDE DEF r
  <1>3. \A i \in 1..Len(s) : /\ s[i] = q <=> i = Len(s)
                             /\ i # Len(s) => s[i] \in Tables /\ i \in 1..(Len(s) - 1)
    <2> SUFFICES ASSUME NEW i \in 1..Len(s)
                 PROVE  /\ s[i] = q <=> i = Len(s)
                        /\ i # Len(s) => s[i] \in Tables /\ i \in 1..(Len(s) - 1)
      OBVIOUS
    <2>1. Len(s) \in 1..Len(s)
      BY <1>0
    <2>2. i # Len(s) => i \in 1..(Len(s) - 1)
      BY <1>0
    <2> QED
      BY <2>1, <2>2 DEF Leads, Once
  <1>4. \A i \in 1..Len(s) : s[i] # o \/ o = q
    BY <1>3, OwnersConstants
  <1>5. Once(r)
    BY <1>2, <1>4 DEF Leads, Once
  <1>6. Set(r) = (C \ {q}) \union {o}
    <2>1. \A x \in C : \E i \in 1..Len(s) : x = s[i]
      BY DEF Set
    <2>2. Len(s) \in 1..Len(s) /\ r[Len(s)] = o
      BY <1>0, <1>2, <1>3
    <2>3. \A i \in 1..Len(r) : r[i] \in (C \ {q}) \union {o}
      BY <1>1, <1>2
    <2>4. \A i \in 1..Len(s) : s[i] # q => r[i] = s[i]
      BY <1>2
    <2> QED
      BY <1>2, <2>1, <2>2, <2>3, <2>4, SMTT(20) DEF Set
  <1>7. ASSUME NEW i \in 1..(Len(r) - 1) PROVE r[i] \in Tables /\ others[r[i]] = r[i + 1]
    <2>1. i \in 1..(Len(s) - 1) /\ i \in 1..Len(s) /\ i + 1 \in 1..Len(s) /\ i # Len(s)
      BY <1>0, <1>2
    <2>2. s[i] \in C \ {q} /\ s[i] \in Tables /\ links[s[i]] = s[i + 1]
      BY <1>1, <1>3, <2>1 DEF Leads
    <2> QED
      BY <1>2, <2>1, <2>2
  <1>8. r[1] = (IF h = q THEN o ELSE h) /\ r[Len(r)] = o
    <2>1. 1 \in 1..Len(s) /\ Len(s) \in 1..Len(s)
      BY <1>0
    <2> QED
      BY <1>2, <1>3, <2>1 DEF Leads
  <1>9. Leads(r, IF h = q THEN o ELSE h, o, others)
    BY <1>0, <1>2, <1>5, <1>7, <1>8 DEF Leads
  <1> QED
    BY <1>2, <1>6, <1>9 DEF IsChain

-----------------------------------------------------------------------------
(* The invariant of the owners. *)
TablesOf(q) == Reached(hash[q], prev)
Subscribed(p) == \E t \in OwnerThreads : p \in Set(tail[t])
InSomeList(p) == parent[p] \in Queues /\ p \in Set(list[parent[p]])

OwnersTypeOK ==
  /\ alive \subseteq Queues
  /\ list \in [Queues -> Seq(Producers)]
  /\ isExplicit \in [Producers -> BOOLEAN] /\ inactiveOf \in [Producers -> BOOLEAN]
  /\ parent \in [Producers -> Queues \union {Owners!Null}]
  /\ tokenOf \in [Producers -> Tokens \union {Owners!Null}]
  /\ producerOf \in [Tokens -> Producers \union {Owners!Null, Owners!NoToken}]
  /\ hash \in [Queues -> Links]
  /\ prev \in [Links -> Links \union {Owners!Null}]
  /\ entriesOf \in [Links -> [OwnerThreads -> Producers \union {Owners!Null}]]
  /\ tail \in [OwnerThreads -> Seq(Producers)]

(* The tables of a queue end in it, and no two queues share one.  A place    *)
(* without a queue is as its constructor wants it.                           *)
ChainsOK ==
  /\ \A q \in Queues : IsChain(TablesOf(q), hash[q], q, prev)
  /\ \A q, r \in Queues : q # r => TablesOf(q) \cap TablesOf(r) = {}
  /\ \A q \in Queues \ alive :
       list[q] = <<>> /\ hash[q] = q /\ entriesOf[q] = Owners!NoEntries

ListsOK == \A q \in Queues : Once(list[q]) /\ \A p \in Set(list[q]) : parent[p] = q

TokenOfOK(k) ==
  producerOf[k] \in Producers =>
    LET p == producerOf[k] IN InSomeList(p) /\ isExplicit[p] /\ tokenOf[p] = k /\ ~inactiveOf[p]

ProducerOK(p) ==
  InSomeList(p) =>
    /\ tokenOf[p] # Owners!Null => producerOf[tokenOf[p]] = p
    /\ isExplicit[p] => (inactiveOf[p] <=> tokenOf[p] = Owners!Null)
    /\ ~isExplicit[p] => (inactiveOf[p] <=> ~Subscribed(p))

EntryOK(q, h, t) ==
  entriesOf[h][t] # Owners!Null =>
    entriesOf[h][t] \in Set(list[q]) /\ entriesOf[h][t] \in Set(tail[t])

ListenersOK(t) ==
  /\ Once(tail[t])
  /\ \A p \in Set(tail[t]) :
       /\ InSomeList(p) /\ ~isExplicit[p]
       /\ \E h \in TablesOf(parent[p]) : entriesOf[h][t] = p
  /\ \A p, r \in Set(tail[t]) : parent[p] = parent[r] => p = r
  /\ \A u \in OwnerThreads \ {t} : Set(tail[t]) \cap Set(tail[u]) = {}

OwnersInv ==
  /\ OwnersTypeOK /\ ChainsOK /\ ListsOK
  /\ \A k \in Tokens : TokenOfOK(k)
  /\ \A p \in Producers : ProducerOK(p)
  /\ \A q \in Queues : \A h \in TablesOf(q) : \A t \in OwnerThreads : EntryOK(q, h, t)
  /\ \A t \in OwnerThreads : ListenersOK(t)

(* The components of the owners as their module says.                        *)
LEMMA OwnersRun ==
  /\ MCInit => Owners!Init
  /\ [MCNext]_<<component, mutexVars, listVars, producerVars, implicitVars, explicitVars,
                hashVars, severalVars, ownerVars>> => [Owners!Next]_ownerVars
  <1>1. MCInit => Owners!Init
    BY DEF MCInit
  <1>2. MCNext => Owners!Next \/ UNCHANGED ownerVars
    BY DEF MCNext
  <1> QED
    BY <1>1, <1>2

LEMMA SetsOfLists ==
  /\ \A s : Owners!InList(s) = Set(s)
  /\ Set(<<>>) = {} /\ Once(<<>>)
BY DEF Owners!InList, Set, Once

LEMMA SetIsOf == ASSUME NEW S, NEW s \in Seq(S) PROVE Set(s) \subseteq S
BY DEF Set

LEMMA ChainsAreReached == \A h : Owners!Chain(h) = Reached(h, prev)
BY DEF Owners!Chain, Reached

(* What the constructors leave. *)
LEMMA OwnersInit == Owners!Init => OwnersInv
  <1> SUFFICES ASSUME Owners!Init PROVE OwnersInv
    OBVIOUS
  <1>1. /\ alive = {} /\ list = [q \in Queues |-> <<>>]
        /\ parent = [p \in Producers |-> Owners!Null]
        /\ tokenOf = [p \in Producers |-> Owners!Null]
        /\ isExplicit = [p \in Producers |-> FALSE] /\ inactiveOf = [p \in Producers |-> FALSE]
        /\ producerOf = [k \in Tokens |-> Owners!NoToken]
        /\ hash = [q \in Queues |-> q]
        /\ prev = [h \in Links |-> Owners!Null]
        /\ entriesOf = [h \in Links |-> Owners!NoEntries]
        /\ tail = [t \in OwnerThreads |-> <<>>]
    BY DEF Owners!Init, Links
  <1>2. Owners!NoEntries = [t \in OwnerThreads |-> Owners!Null]
    BY DEF Owners!NoEntries
  <1>3. OwnersTypeOK
    BY <1>1, <1>2 DEF OwnersTypeOK, Links
  <1>4. ASSUME NEW q \in Queues PROVE IsChain({q}, hash[q], q, prev) /\ TablesOf(q) = {q}
    <2>1. IsChain({q}, q, q, prev) /\ hash[q] = q
      BY <1>1, ChainOfOne DEF Links
    <2> QED
      BY <2>1, ChainReached DEF TablesOf
  <1>5. ChainsOK
    BY <1>1, <1>4 DEF ChainsOK, Links
  <1>6. \A q \in Queues : Set(list[q]) = {} /\ Once(list[q])
    BY <1>1, SetsOfLists
  <1>7. \A t \in OwnerThreads : Set(tail[t]) = {} /\ Once(tail[t])
    BY <1>1, SetsOfLists
  <1>8. ListsOK /\ \A t \in OwnerThreads : ListenersOK(t)
    BY <1>6, <1>7 DEF ListsOK, ListenersOK
  <1>9. /\ \A k \in Tokens : TokenOfOK(k)
        /\ \A p \in Producers : ProducerOK(p)
    BY <1>1, <1>6, OwnersConstants DEF TokenOfOK, ProducerOK, InSomeList
  <1>10. \A q \in Queues : \A h \in TablesOf(q) : \A t \in OwnerThreads : EntryOK(q, h, t)
    BY <1>1, <1>2, <1>4 DEF EntryOK, Links
  <1> QED
    BY <1>3, <1>5, <1>8, <1>9, <1>10 DEF OwnersInv

(* What a recycled or created producer is.                                   *)
LEMMA GetsIs ==
  ASSUME OwnersInv, NEW q \in alive, NEW explicit \in BOOLEAN, NEW p \in Producers,
         Owners!Gets(q, explicit, p)
  PROVE  \/ p \in Owners!Listed /\ p \in Set(list[q]) /\ inactiveOf[p] /\ isExplicit[p] = explicit
         \/ p \notin Owners!Listed /\ \A r \in Queues : p \notin Set(list[r])
  <1> DEFINE usable == {k \in 1..Len(list[q]) :
                          inactiveOf[list[q][k]] /\ isExplicit[list[q][k]] = explicit}
             free == Producers \ Owners!Listed
  <1>0. q \in Queues /\ list[q] \in Seq(Producers) /\ p # Owners!Null
    BY OwnersConstants DEF OwnersInv, OwnersTypeOK
  <1>1. CASE usable # {}
    <2>1. usable \in SUBSET Nat
      BY <1>0
    <2>2. PICK m \in usable : \A k \in usable : m <= k
      BY <1>1, <2>1, LeastNumber
    <2>3. p = list[q][CHOOSE k \in usable : \A j \in usable : k <= j]
      BY <1>1 DEF Owners!Gets
    <2>4. PICK k \in usable : p = list[q][k]
      BY <2>2, <2>3
    <2>5. p \in Set(list[q]) /\ inactiveOf[p] /\ isExplicit[p] = explicit
      BY <2>4 DEF Set
    <2>6. p \in Owners!Listed
      BY <2>5, SetsOfLists DEF Owners!Listed
    <2> QED
      BY <2>5, <2>6
  <1>2. CASE usable = {} /\ free # {}
    <2>1. p = CHOOSE f \in free : TRUE
      BY <1>2 DEF Owners!Gets
    <2>2. p \in free
      BY <1>2, <2>1
    <2>3. ASSUME NEW r \in Queues, p \in Set(list[r]) PROVE FALSE
      <3>1. r \in alive
        BY <2>3, SetsOfLists DEF OwnersInv, ChainsOK
      <3> QED
        BY <2>2, <2>3, <3>1, SetsOfLists DEF Owners!Listed
    <2> QED
      BY <2>2, <2>3
  <1>3. CASE usable = {} /\ free = {}
    BY <1>0, <1>3 DEF Owners!Gets
  <1> QED
    BY <1>1, <1>2, <1>3

(* It has no token and no listener yet.                                      *)
LEMMA GotIsUnused ==
  ASSUME OwnersInv, NEW q \in alive, NEW explicit \in BOOLEAN, NEW p \in Producers,
         Owners!Gets(q, explicit, p)
  PROVE  /\ \A k \in Tokens : producerOf[k] # p
         /\ ~Subscribed(p)
         /\ p \in Owners!Listed => tokenOf[p] = Owners!Null
  <1> USE DEF OwnersInv
  <1>0. q \in Queues /\ (p \in Set(list[q]) => parent[p] = q)
    BY DEF OwnersTypeOK, ListsOK
  <1>1. CASE p \in Owners!Listed
    <2>1. p \in Set(list[q]) /\ inactiveOf[p] /\ isExplicit[p] = explicit /\ InSomeList(p)
      BY <1>0, <1>1, GetsIs DEF InSomeList
    <2>2. \A k \in Tokens : producerOf[k] # p
      BY <2>1 DEF TokenOfOK
    <2>3. tokenOf[p] = Owners!Null
      BY <2>1, <2>2 DEF ProducerOK, OwnersTypeOK
    <2>4. ~Subscribed(p)
      <3>1. ~isExplicit[p] => ~Subscribed(p)
        BY <2>1 DEF ProducerOK
      <3>2. \A t \in OwnerThreads : p \in Set(tail[t]) => ~isExplicit[p]
        BY DEF ListenersOK
      <3> QED
        BY <3>1, <3>2 DEF Subscribed
    <2> QED
      BY <2>2, <2>3, <2>4
  <1>2. CASE p \notin Owners!Listed
    <2>1. ~InSomeList(p)
      BY <1>2, GetsIs DEF InSomeList
    <2> QED
      BY <1>2, <2>1 DEF TokenOfOK, ListenersOK, Subscribed
  <1> QED
    BY <1>1, <1>2

(* An element is put before the others.                                      *)
LEMMA OnceMore ==
  ASSUME NEW S, NEW s \in Seq(S), NEW n \in S, Once(s), n \notin Set(s)
  PROVE  /\ <<n>> \o s \in Seq(S) /\ Once(<<n>> \o s)
         /\ Set(<<n>> \o s) = Set(s) \union {n}
  <1> DEFINE r == <<n>> \o s
  <1>0. Len(s) \in Nat
    OBVIOUS
  <1>1. /\ r \in Seq(S) /\ Len(r) = Len(s) + 1
        /\ \A i \in 1..Len(r) : r[i] = IF i = 1 THEN n ELSE s[i - 1]
    <2>1. <<n>> \in Seq(S) /\ Len(<<n>>) = 1 /\ <<n>>[1] = n
      OBVIOUS
    <2>2. /\ r \in Seq(S) /\ Len(r) = 1 + Len(s)
          /\ \A i \in 1..(1 + Len(s)) : r[i] = IF i <= 1 THEN <<n>>[i] ELSE s[i - 1]
      BY <2>1, ConcatProperties
    <2> HIDE DEF r
    <2> QED
      BY <1>0, <2>1, <2>2
  <1> HIDE DEF r
  <1>2. \A i \in 1..Len(s) : s[i] # n /\ s[i] \in Set(s)
    BY DEF Set
  <1>3. Set(r) = Set(s) \union {n}
    <2>1. \A x \in Set(s) : \E i \in 1..Len(s) : x = s[i]
      BY DEF Set
    <2>2. \A i \in 1..Len(s) : i + 1 \in 1..Len(r) /\ r[i + 1] = s[i]
      BY <1>0, <1>1
    <2>3. 1 \in 1..Len(r) /\ r[1] = n
      BY <1>0, <1>1
    <2>4. \A i \in 1..Len(r) : r[i] \in Set(s) \union {n}
      BY <1>0, <1>1, <1>2
    <2>5. \A x : x \in Set(r) <=> \E i \in 1..Len(r) : x = r[i]
      BY DEF Set
    <2> QED
      BY <2>1, <2>2, <2>3, <2>4, <2>5
  <1>4. Once(r)
    <2> SUFFICES ASSUME NEW i \in 1..Len(r), NEW j \in 1..Len(r), r[i] = r[j] PROVE i = j
      BY DEF Once
    <2>1. i # 1 => i - 1 \in 1..Len(s) /\ r[i] = s[i - 1]
      BY <1>0, <1>1
    <2>2. j # 1 => j - 1 \in 1..Len(s) /\ r[j] = s[j - 1]
      BY <1>0, <1>1
    <2>3. i # 1 /\ j # 1 => i - 1 = j - 1
      BY <2>1, <2>2 DEF Once
    <2>4. r[1] = n
      BY <1>0, <1>1
    <2> QED
      BY <1>0, <1>1, <1>2, <2>1, <2>2, <2>3, <2>4
  <1> QED
    BY <1>1, <1>3, <1>4 DEF r

(* It becomes one of the producers of q.                                     *)
Activated(q, explicit, p, k) ==
  /\ list' \in [Queues -> Seq(Producers)]
  /\ isExplicit' \in [Producers -> BOOLEAN] /\ inactiveOf' \in [Producers -> BOOLEAN]
  /\ parent' \in [Producers -> Queues \union {Owners!Null}]
  /\ tokenOf' \in [Producers -> Tokens \union {Owners!Null}]
  /\ Once(list'[q]) /\ Set(list'[q]) = Set(list[q]) \union {p}
  /\ \A r \in Queues \ {q} : list'[r] = list[r] /\ p \notin Set(list[r])
  /\ parent'[p] = q /\ isExplicit'[p] = explicit /\ tokenOf'[p] = k /\ ~inactiveOf'[p]
  /\ \A o \in Producers \ {p} :
       /\ parent'[o] = parent[o] /\ isExplicit'[o] = isExplicit[o]
       /\ tokenOf'[o] = tokenOf[o] /\ inactiveOf'[o] = inactiveOf[o]

LEMMA ActivateIs ==
  ASSUME OwnersInv, NEW q \in alive, NEW explicit \in BOOLEAN, NEW p \in Producers,
         NEW k \in Tokens \union {Owners!Null}, explicit \/ k = Owners!Null,
         Owners!Gets(q, explicit, p), Owners!Activate(q, explicit, p, k)
  PROVE  Activated(q, explicit, p, k)
  <1>0. /\ OwnersTypeOK /\ ListsOK /\ q \in Queues
        /\ list[q] \in Seq(Producers) /\ Once(list[q])
    BY DEF OwnersInv, OwnersTypeOK, ListsOK
  <1>1. /\ isExplicit' = [isExplicit EXCEPT ![p] = explicit]
        /\ inactiveOf' = [inactiveOf EXCEPT ![p] = FALSE]
    BY DEF Owners!Activate
  <1>2. CASE p \in Owners!Listed
    <2>1. /\ list' = list /\ parent' = parent
          /\ tokenOf' = IF explicit THEN [tokenOf EXCEPT ![p] = k] ELSE tokenOf
      BY <1>2 DEF Owners!Activate
    <2>2. p \in Set(list[q]) /\ parent[p] = q /\ \A r \in Queues \ {q} : p \notin Set(list[r])
      BY <1>0, <1>2, GetsIs DEF ListsOK
    <2>3. tokenOf[p] = Owners!Null
      BY <1>2, GotIsUnused
    <2> QED
      BY <1>0, <1>1, <2>1, <2>2, <2>3 DEF OwnersTypeOK, Activated
  <1>3. CASE p \notin Owners!Listed
    <2>1. /\ list' = [list EXCEPT ![q] = <<p>> \o list[q]]
          /\ parent' = [parent EXCEPT ![p] = q] /\ tokenOf' = [tokenOf EXCEPT ![p] = k]
      BY <1>3 DEF Owners!Activate
    <2>2. \A r \in Queues : p \notin Set(list[r])
      BY <1>3, GetsIs
    <2>3. /\ <<p>> \o list[q] \in Seq(Producers)
          /\ Once(<<p>> \o list[q]) /\ Set(<<p>> \o list[q]) = Set(list[q]) \union {p}
      BY <1>0, <2>2, OnceMore
    <2>4. list' \in [Queues -> Seq(Producers)] /\ list'[q] = <<p>> \o list[q]
      BY <1>0, <2>1, <2>3 DEF OwnersTypeOK
    <2>5. \A r \in Queues \ {q} : list'[r] = list[r]
      BY <1>0, <2>1 DEF OwnersTypeOK
    <2> QED
      BY <1>0, <1>1, <2>1, <2>2, <2>3, <2>4, <2>5 DEF OwnersTypeOK, Activated
  <1> QED
    BY <1>2, <1>3

(* The lists are still right. *)
LEMMA ActivatedLists ==
  ASSUME OwnersInv, NEW q \in Queues, NEW p \in Producers, NEW explicit, NEW k,
         Activated(q, explicit, p, k)
  PROVE  /\ ListsOK' /\ InSomeList(p)'
         /\ \A o \in Producers \ {p} : InSomeList(o)' <=> InSomeList(o)
  <1>0. OwnersTypeOK /\ ListsOK
    BY DEF OwnersInv
  <1>1. \A r \in Queues : Set(list[r]) \subseteq Producers
    BY <1>0, SetIsOf DEF OwnersTypeOK
  <1>2. ListsOK'
    <2> SUFFICES ASSUME NEW r \in Queues
                 PROVE  Once(list'[r]) /\ \A o \in Set(list'[r]) : parent'[o] = r
      BY DEF ListsOK
    <2>1. CASE r = q
      BY <1>0, <1>1, <2>1 DEF ListsOK, Activated
    <2>2. CASE r # q
      BY <1>0, <1>1, <2>2 DEF ListsOK, Activated
    <2> QED
      BY <2>1, <2>2
  <1>3. InSomeList(p)'
    BY DEF InSomeList, Activated
  <1>4. ASSUME NEW o \in Producers \ {p} PROVE InSomeList(o)' <=> InSomeList(o)
    <2>1. parent'[o] = parent[o] /\ Set(list'[q]) = Set(list[q]) \union {p}
      BY DEF Activated
    <2>2. \A r \in Queues \ {q} : list'[r] = list[r]
      BY DEF Activated
    <2> QED
      BY <2>1, <2>2 DEF InSomeList
  <1> QED
    BY <1>2, <1>3, <1>4

-----------------------------------------------------------------------------
(* Tokens. *)

(* What an operation on tokens leaves alone.                                 *)
LEMMA OnlyTokensChange ==
  ASSUME OwnersInv, UNCHANGED <<alive, list, isExplicit, parent, hash, prev, entriesOf, tail>>,
         inactiveOf' \in [Producers -> BOOLEAN],
         tokenOf' \in [Producers -> Tokens \union {Owners!Null}],
         producerOf' \in [Tokens -> Producers \union {Owners!Null, Owners!NoToken}],
         \A k \in Tokens : TokenOfOK(k)', \A p \in Producers : ProducerOK(p)'
  PROVE  OwnersInv'
  <1>1. \A q \in Queues : TablesOf(q)' = TablesOf(q)
    BY DEF TablesOf
  <1>2. OwnersTypeOK' /\ ListsOK'
    BY DEF OwnersInv, OwnersTypeOK, ListsOK
  <1>3. ChainsOK'
    BY <1>1 DEF OwnersInv, ChainsOK
  <1>4. \A q \in Queues : \A h \in TablesOf(q)' : \A t \in OwnerThreads : EntryOK(q, h, t)'
    BY <1>1 DEF OwnersInv, EntryOK
  <1>5. ASSUME NEW t \in OwnerThreads PROVE ListenersOK(t)'
    <2>1. ListenersOK(t)
      BY DEF OwnersInv
    <2>2. \A p \in Set(tail[t]) : InSomeList(p)' /\ TablesOf(parent[p])' = TablesOf(parent[p])
      BY <1>1, <2>1 DEF InSomeList, ListenersOK
    <2> QED
      BY <2>1, <2>2 DEF ListenersOK
  <1> QED
    BY <1>2, <1>3, <1>4, <1>5 DEF OwnersInv

(* ProducerToken(queue) without memory. *)
LEMMA TokenWithoutProducer ==
  ASSUME OwnersInv, NEW k \in Tokens, producerOf[k] = Owners!NoToken,
         producerOf' = [producerOf EXCEPT ![k] = Owners!Null],
         UNCHANGED <<alive, list, isExplicit, parent, tokenOf, inactiveOf, hash, prev, entriesOf,
                     tail>>
  PROVE  OwnersInv'
  <1>1. producerOf \in [Tokens -> Producers \union {Owners!Null, Owners!NoToken}]
    BY DEF OwnersInv, OwnersTypeOK
  <1>2. /\ producerOf' \in [Tokens -> Producers \union {Owners!Null, Owners!NoToken}]
        /\ producerOf'[k] = Owners!Null /\ \A j \in Tokens \ {k} : producerOf'[j] = producerOf[j]
    BY <1>1
  <1>3. \A j \in Tokens : TokenOfOK(j)'
    BY <1>2, OwnersConstants DEF OwnersInv, TokenOfOK, InSomeList
  <1>4. ASSUME NEW p \in Producers PROVE ProducerOK(p)'
    <2>1. ProducerOK(p) /\ p # Owners!NoToken /\ tokenOf[p] \in Tokens \union {Owners!Null}
      BY OwnersConstants DEF OwnersInv, OwnersTypeOK
    <2> QED
      BY <1>2, <2>1 DEF ProducerOK, InSomeList, Subscribed
  <1>5. /\ inactiveOf' \in [Producers -> BOOLEAN]
        /\ tokenOf' \in [Producers -> Tokens \union {Owners!Null}]
    BY DEF OwnersInv, OwnersTypeOK
  <1> QED
    BY <1>2, <1>3, <1>4, <1>5, OnlyTokensChange

(* ProducerToken(queue) *)
LEMMA TokenGetsProducer ==
  ASSUME OwnersInv, NEW q \in alive, NEW k \in Tokens, NEW p \in Producers,
         producerOf[k] = Owners!NoToken, producerOf' = [producerOf EXCEPT ![k] = p],
         Owners!Gets(q, TRUE, p), Owners!Activate(q, TRUE, p, k),
         UNCHANGED <<alive, hash, prev, entriesOf, tail>>
  PROVE  OwnersInv'
  <1>0. /\ OwnersTypeOK /\ q \in Queues /\ p # Owners!Null /\ p # Owners!NoToken
        /\ k # Owners!Null
    BY OwnersConstants DEF OwnersInv, OwnersTypeOK
  <1>1. /\ producerOf' \in [Tokens -> Producers \union {Owners!Null, Owners!NoToken}]
        /\ producerOf'[k] = p /\ \A j \in Tokens \ {k} : producerOf'[j] = producerOf[j]
    BY <1>0 DEF OwnersTypeOK
  <1>2. Activated(q, TRUE, p, k)
    BY ActivateIs
  <1>3. OwnersTypeOK'
    BY <1>0, <1>1, <1>2 DEF OwnersTypeOK, Activated
  <1>4. \A r \in Queues : TablesOf(r)' = TablesOf(r)
    BY DEF TablesOf
  <1>5. ChainsOK'
    BY <1>0, <1>2, <1>4 DEF OwnersInv, ChainsOK, Activated
  <1>6. /\ ListsOK' /\ InSomeList(p)'
        /\ \A o \in Producers \ {p} : InSomeList(o)' <=> InSomeList(o)
    BY <1>0, <1>2, ActivatedLists
  <1>7. ~Subscribed(p) /\ \A j \in Tokens : producerOf[j] # p
    BY GotIsUnused
  <1>8. ASSUME NEW j \in Tokens PROVE TokenOfOK(j)'
    <2>1. CASE j = k
      BY <1>1, <1>2, <1>6, <2>1 DEF TokenOfOK, Activated
    <2>2. CASE j # k
      BY <1>1, <1>2, <1>6, <1>7, <2>2 DEF OwnersInv, TokenOfOK, Activated
    <2> QED
      BY <2>1, <2>2
  <1>9. ASSUME NEW o \in Producers PROVE ProducerOK(o)'
    <2>1. CASE o = p
      BY <1>0, <1>1, <1>2, <2>1 DEF ProducerOK, Activated
    <2>2. CASE o # p
      <3>1. ProducerOK(o) /\ o # Owners!NoToken /\ tokenOf[o] \in Tokens \union {Owners!Null}
        BY OwnersConstants DEF OwnersInv, OwnersTypeOK
      <3>2. Subscribed(o)' <=> Subscribed(o)
        BY DEF Subscribed
      <3> QED
        BY <1>1, <1>2, <1>6, <2>2, <3>1, <3>2 DEF ProducerOK, Activated
    <2> QED
      BY <2>1, <2>2
  <1>10. \A r \in Queues : Set(list[r]) \subseteq Set(list'[r])
    BY <1>2 DEF Activated
  <1>11. \A r \in Queues : \A h \in TablesOf(r)' : \A t \in OwnerThreads : EntryOK(r, h, t)'
    BY <1>4, <1>10 DEF OwnersInv, EntryOK
  <1>12. ASSUME NEW t \in OwnerThreads PROVE ListenersOK(t)'
    <2>1. ListenersOK(t) /\ tail[t] \in Seq(Producers) /\ p \notin Set(tail[t])
      BY <1>0, <1>7 DEF OwnersInv, OwnersTypeOK, Subscribed
    <2>2. \A o \in Set(tail[t]) : o \in Producers \ {p}
      BY <2>1, SetIsOf
    <2>3. \A o \in Set(tail[t]) : InSomeList(o)' /\ ~isExplicit'[o] /\ parent'[o] = parent[o]
                                  /\ parent[o] \in Queues
      BY <1>2, <1>6, <2>1, <2>2 DEF ListenersOK, InSomeList, Activated
    <2> QED
      BY <1>4, <2>1, <2>3 DEF ListenersOK
  <1> QED
    BY <1>3, <1>5, <1>6, <1>8, <1>9, <1>11, <1>12 DEF OwnersInv

LEMMA NewTokenKeeps ==
  ASSUME OwnersInv, NEW k \in Tokens, NEW q \in Queues, Owners!NewToken(k, q)
  PROVE  OwnersInv'
  <1> PICK p \in Producers \union {Owners!Null} :
        /\ Owners!Gets(q, TRUE, p)
        /\ producerOf' = [producerOf EXCEPT ![k] = p]
        /\ IF p # Owners!Null THEN Owners!Activate(q, TRUE, p, k)
           ELSE UNCHANGED <<list, isExplicit, parent, tokenOf, inactiveOf>>
    BY DEF Owners!NewToken
  <1>1. producerOf[k] = Owners!NoToken /\ q \in alive
    BY DEF Owners!NewToken
  <1>2. UNCHANGED <<alive, hash, prev, entriesOf, tail>>
    BY DEF Owners!NewToken, Owners!tables
  <1>3. CASE p = Owners!Null
    BY <1>1, <1>2, <1>3, TokenWithoutProducer
  <1>4. CASE p # Owners!Null
    BY <1>1, <1>2, <1>4, TokenGetsProducer
  <1> QED
    BY <1>3, <1>4

(* The tokens after the exchange have the producers, and these have them.    *)
LEMMA MoveTokenKeeps ==
  ASSUME OwnersInv, NEW k \in Tokens, NEW other \in Tokens, Owners!MoveToken(k, other)
  PROVE  OwnersInv'
  <1> PICK p : p = producerOf[other]
    OBVIOUS
  <1>0. OwnersTypeOK /\ p \in Producers \union {Owners!Null} /\ k # other
    BY DEF OwnersInv, OwnersTypeOK, Owners!MoveToken
  <1>1. /\ producerOf[k] = Owners!NoToken
        /\ producerOf' = [producerOf EXCEPT ![k] = p, ![other] = Owners!Null]
        /\ tokenOf' = IF p # Owners!Null THEN [tokenOf EXCEPT ![p] = k] ELSE tokenOf
        /\ UNCHANGED <<alive, list, isExplicit, parent, inactiveOf, hash, prev, entriesOf, tail>>
    BY DEF Owners!MoveToken, Owners!tables
  <1>2. /\ producerOf' \in [Tokens -> Producers \union {Owners!Null, Owners!NoToken}]
        /\ producerOf'[k] = p /\ producerOf'[other] = Owners!Null
        /\ \A j \in Tokens \ {k, other} : producerOf'[j] = producerOf[j]
    BY <1>0, <1>1 DEF OwnersTypeOK
  <1>3. /\ tokenOf' \in [Producers -> Tokens \union {Owners!Null}]
        /\ p # Owners!Null => tokenOf'[p] = k
        /\ \A o \in Producers \ {p} : tokenOf'[o] = tokenOf[o]
    BY <1>0, <1>1 DEF OwnersTypeOK
  <1>4. ASSUME NEW j \in Tokens PROVE TokenOfOK(j)'
    <2>1. CASE j = k
      <3>1. TokenOfOK(other) /\ (p \in Producers => p # Owners!Null)
        BY OwnersConstants DEF OwnersInv
      <3> QED
        BY <1>1, <1>2, <1>3, <2>1, <3>1 DEF TokenOfOK, InSomeList
    <2>2. CASE j = other
      BY <1>2, <2>2, OwnersConstants DEF TokenOfOK
    <2>3. CASE j # k /\ j # other
      <3>1. TokenOfOK(j) /\ TokenOfOK(other)
        BY DEF OwnersInv
      <3>2. producerOf[j] \in Producers => producerOf[j] # p
        BY <2>3, <3>1 DEF TokenOfOK
      <3> QED
        BY <1>1, <1>2, <1>3, <2>3, <3>1, <3>2 DEF TokenOfOK, InSomeList
    <2> QED
      BY <2>1, <2>2, <2>3
  <1>5. ASSUME NEW o \in Producers PROVE ProducerOK(o)'
    <2>0. /\ InSomeList(o)' = InSomeList(o) /\ Subscribed(o)' = Subscribed(o) /\ ProducerOK(o)
          /\ o # Owners!NoToken /\ o # Owners!Null /\ k # Owners!Null
          /\ tokenOf[o] \in Tokens \union {Owners!Null}
      BY <1>0, <1>1, OwnersConstants DEF OwnersInv, OwnersTypeOK, InSomeList, Subscribed
    <2>1. CASE o = p
      <3>1. TokenOfOK(other) /\ k # Owners!Null /\ other # Owners!Null
        BY OwnersConstants DEF OwnersInv
      <3>2. tokenOf[o] = other /\ isExplicit[o] /\ ~inactiveOf[o]
        BY <2>1, <3>1 DEF TokenOfOK
      <3> QED
        BY <1>1, <1>2, <1>3, <2>0, <2>1, <3>1, <3>2 DEF ProducerOK
    <2>2. CASE o # p
      BY <1>1, <1>2, <1>3, <2>0, <2>2 DEF ProducerOK
    <2> QED
      BY <2>1, <2>2
  <1>6. inactiveOf' \in [Producers -> BOOLEAN]
    BY <1>0, <1>1 DEF OwnersTypeOK
  <1> QED
    BY <1>1, <1>2, <1>3, <1>4, <1>5, <1>6, OnlyTokensChange

LEMMA SwapTokensKeeps ==
  ASSUME OwnersInv, NEW k \in Tokens, NEW other \in Tokens, Owners!SwapTokens(k, other)
  PROVE  OwnersInv'
  <1> PICK p, r : p = producerOf[other] /\ r = producerOf[k]
    OBVIOUS
  <1>0. /\ OwnersTypeOK
        /\ p \in Producers \union {Owners!Null} /\ r \in Producers \union {Owners!Null}
    BY DEF OwnersInv, OwnersTypeOK, Owners!SwapTokens
  <1>1. /\ producerOf' = [producerOf EXCEPT ![k] = p, ![other] = r]
        /\ tokenOf' = [o \in Producers |->
                         CASE o = r -> other [] o = p /\ o # r -> k [] OTHER -> tokenOf[o]]
        /\ UNCHANGED <<alive, list, isExplicit, parent, inactiveOf, hash, prev, entriesOf, tail>>
    BY DEF Owners!SwapTokens, Owners!tables
  <1>2. /\ producerOf' \in [Tokens -> Producers \union {Owners!Null, Owners!NoToken}]
        /\ producerOf'[other] = r /\ producerOf'[k] = p
        /\ \A j \in Tokens \ {k, other} : producerOf'[j] = producerOf[j]
    BY <1>0, <1>1 DEF OwnersTypeOK
  <1>3. /\ tokenOf' \in [Producers -> Tokens \union {Owners!Null}]
        /\ r \in Producers => tokenOf'[r] = other
        /\ p \in Producers /\ p # r => tokenOf'[p] = k
        /\ \A o \in Producers \ {p, r} : tokenOf'[o] = tokenOf[o]
    BY <1>0, <1>1 DEF OwnersTypeOK
  <1>4. /\ TokenOfOK(k) /\ TokenOfOK(other)
        /\ p = r /\ p \in Producers => k = other
    BY DEF OwnersInv, TokenOfOK
  <1>5. ASSUME NEW j \in Tokens PROVE TokenOfOK(j)'
    <2>1. CASE j = k
      BY <1>0, <1>1, <1>2, <1>3, <1>4, <2>1 DEF TokenOfOK, InSomeList
    <2>2. CASE j = other
      BY <1>0, <1>1, <1>2, <1>3, <1>4, <2>2 DEF TokenOfOK, InSomeList
    <2>3. CASE j # k /\ j # other
      <3>1. TokenOfOK(j)
        BY DEF OwnersInv
      <3>2. producerOf[j] \in Producers => producerOf[j] # p /\ producerOf[j] # r
        BY <1>4, <2>3, <3>1 DEF TokenOfOK
      <3> QED
        BY <1>1, <1>2, <1>3, <2>3, <3>1, <3>2 DEF TokenOfOK, InSomeList
    <2> QED
      BY <2>1, <2>2, <2>3
  <1>6. ASSUME NEW o \in Producers PROVE ProducerOK(o)'
    <2>0. /\ InSomeList(o)' = InSomeList(o) /\ Subscribed(o)' = Subscribed(o) /\ ProducerOK(o)
          /\ o # Owners!NoToken /\ o # Owners!Null /\ k # Owners!Null /\ other # Owners!Null
          /\ tokenOf[o] \in Tokens \union {Owners!Null}
      BY <1>0, <1>1, OwnersConstants DEF OwnersInv, OwnersTypeOK, InSomeList, Subscribed
    <2>1. CASE o = r \/ o = p
      <3>1. isExplicit[o] /\ ~inactiveOf[o] /\ (tokenOf'[o] = k \/ tokenOf'[o] = other)
        BY <1>3, <1>4, <2>1 DEF TokenOfOK
      <3>2. producerOf'[tokenOf'[o]] = o
        BY <1>2, <1>3, <1>4, <2>1
      <3> QED
        BY <1>1, <2>0, <3>1, <3>2 DEF ProducerOK
    <2>2. CASE o # p /\ o # r
      BY <1>1, <1>2, <1>3, <2>0, <2>2 DEF ProducerOK
    <2> QED
      BY <2>1, <2>2
  <1>7. inactiveOf' \in [Producers -> BOOLEAN]
    BY <1>0, <1>1 DEF OwnersTypeOK
  <1> QED
    BY <1>1, <1>2, <1>3, <1>5, <1>6, <1>7, OnlyTokensChange

(* The producer of a token that is gone can be recycled.                     *)
LEMMA DestroyTokenKeeps ==
  ASSUME OwnersInv, NEW k \in Tokens, Owners!DestroyToken(k)
  PROVE  OwnersInv'
  <1> PICK p : p = producerOf[k]
    OBVIOUS
  <1>0. OwnersTypeOK /\ p \in Producers \union {Owners!Null}
    BY DEF OwnersInv, OwnersTypeOK, Owners!DestroyToken
  <1>1. /\ producerOf' = [producerOf EXCEPT ![k] = Owners!NoToken]
        /\ tokenOf' = IF p = Owners!Null THEN tokenOf ELSE [tokenOf EXCEPT ![p] = Owners!Null]
        /\ inactiveOf' = IF p = Owners!Null THEN inactiveOf ELSE [inactiveOf EXCEPT ![p] = TRUE]
        /\ UNCHANGED <<alive, list, isExplicit, parent, hash, prev, entriesOf, tail>>
    BY DEF Owners!DestroyToken, Owners!tables
  <1>2. /\ producerOf' \in [Tokens -> Producers \union {Owners!Null, Owners!NoToken}]
        /\ producerOf'[k] = Owners!NoToken
        /\ \A j \in Tokens \ {k} : producerOf'[j] = producerOf[j]
    BY <1>0, <1>1 DEF OwnersTypeOK
  <1>3. /\ tokenOf' \in [Producers -> Tokens \union {Owners!Null}]
        /\ inactiveOf' \in [Producers -> BOOLEAN]
        /\ p # Owners!Null => tokenOf'[p] = Owners!Null /\ inactiveOf'[p]
        /\ \A o \in Producers \ {p} : tokenOf'[o] = tokenOf[o] /\ inactiveOf'[o] = inactiveOf[o]
    BY <1>0, <1>1 DEF OwnersTypeOK
  <1>4. TokenOfOK(k) /\ Owners!NoToken \notin Producers /\ Owners!Null \notin Producers
    BY OwnersConstants DEF OwnersInv
  <1>5. ASSUME NEW j \in Tokens PROVE TokenOfOK(j)'
    <2>1. CASE j = k
      BY <1>2, <1>4, <2>1 DEF TokenOfOK
    <2>2. CASE j # k
      <3>1. TokenOfOK(j)
        BY DEF OwnersInv
      <3>2. producerOf[j] \in Producers => producerOf[j] # p
        BY <1>4, <2>2, <3>1 DEF TokenOfOK
      <3> QED
        BY <1>1, <1>2, <1>3, <2>2, <3>1, <3>2 DEF TokenOfOK, InSomeList
    <2> QED
      BY <2>1, <2>2
  <1>6. ASSUME NEW o \in Producers PROVE ProducerOK(o)'
    <2>0. /\ InSomeList(o)' = InSomeList(o) /\ Subscribed(o)' = Subscribed(o) /\ ProducerOK(o)
          /\ o # Owners!NoToken /\ o # Owners!Null
          /\ tokenOf[o] \in Tokens \union {Owners!Null}
      BY <1>0, <1>1, OwnersConstants DEF OwnersInv, OwnersTypeOK, InSomeList, Subscribed
    <2>1. CASE o = p
      BY <1>1, <1>3, <1>4, <2>0, <2>1 DEF ProducerOK, TokenOfOK
    <2>2. CASE o # p
      BY <1>1, <1>2, <1>3, <2>0, <2>2 DEF ProducerOK
    <2> QED
      BY <2>1, <2>2
  <1> QED
    BY <1>1, <1>2, <1>3, <1>5, <1>6, OnlyTokensChange

-----------------------------------------------------------------------------
(* Threads. *)

LEMMA EnqueueKeeps ==
  ASSUME OwnersInv, NEW t \in OwnerThreads, NEW q \in Queues, Owners!Enqueue(t, q)
  PROVE  OwnersInv'
  <1> DEFINE found == {entriesOf[h][t] : h \in TablesOf(q)} \ {Owners!Null}
  <1> PICK h : h = hash[q]
    OBVIOUS
  <1>0. OwnersTypeOK /\ h \in TablesOf(q) /\ h \in Links
    <2>1. OwnersTypeOK /\ ChainsOK /\ h \in Links
      BY DEF OwnersInv, OwnersTypeOK
    <2> QED
      BY <2>1, ChainHas DEF ChainsOK, TablesOf
  <1>1. /\ found # {}
        /\ entriesOf' = [entriesOf EXCEPT ![h] = [entriesOf[h] EXCEPT ![t] =
                           IF entriesOf[h][t] = Owners!Null THEN CHOOSE p \in found : TRUE
                           ELSE entriesOf[h][t]]]
        /\ UNCHANGED <<alive, list, isExplicit, parent, tokenOf, inactiveOf, producerOf, hash,
                       prev, tail>>
    BY ChainsAreReached DEF Owners!Enqueue, TablesOf
  <1> PICK x : x = IF entriesOf[h][t] = Owners!Null THEN CHOOSE p \in found : TRUE
                   ELSE entriesOf[h][t]
    OBVIOUS
  <1>2. x \in found
    BY <1>0, <1>1
  <1>3. x \in Set(list[q]) /\ x \in Set(tail[t]) /\ x \in Producers
    <2>1. PICK g \in TablesOf(q) : x = entriesOf[g][t] /\ x # Owners!Null
      BY <1>2
    <2>2. EntryOK(q, g, t)
      BY DEF OwnersInv
    <2>3. Set(list[q]) \subseteq Producers
      BY <1>0, SetIsOf DEF OwnersTypeOK
    <2> QED
      BY <2>1, <2>2, <2>3 DEF EntryOK
  <1>4. /\ entriesOf' = [entriesOf EXCEPT ![h] = [entriesOf[h] EXCEPT ![t] = x]]
        /\ entriesOf[h] \in [OwnerThreads -> Producers \union {Owners!Null}]
        /\ entriesOf[h][t] # Owners!Null => x = entriesOf[h][t]
    BY <1>0, <1>1 DEF OwnersTypeOK
  <1>5. /\ entriesOf' \in [Links -> [OwnerThreads -> Producers \union {Owners!Null}]]
        /\ entriesOf'[h][t] = x
        /\ \A g \in Links, u \in OwnerThreads :
             \/ entriesOf'[g][u] = entriesOf[g][u]
             \/ g = h /\ u = t /\ entriesOf[g][u] = Owners!Null
        /\ \A g \in Links \ {h} : entriesOf'[g] = entriesOf[g]
    BY <1>0, <1>3, <1>4 DEF OwnersTypeOK
  <1>6. \A r \in Queues : TablesOf(r)' = TablesOf(r) /\ TablesOf(r) \subseteq Links
    <2>1. \A r \in Queues : TablesOf(r) \subseteq Links
      BY ChainHas DEF OwnersInv, ChainsOK, Links
    <2> QED
      BY <1>1, <2>1 DEF TablesOf
  <1>7. OwnersTypeOK'
    BY <1>0, <1>1, <1>5 DEF OwnersTypeOK
  <1>8. ChainsOK'
    <2>1. ASSUME NEW r \in Queues \ alive PROVE entriesOf'[r] = entriesOf[r]
      <3>1. r # q /\ hash[r] = r
        BY DEF OwnersInv, ChainsOK, Owners!Enqueue
      <3>2. r \in TablesOf(r) /\ r \in Links
        BY <3>1, ChainHas DEF OwnersInv, ChainsOK, Links
      <3>3. r # h
        BY <1>0, <3>1, <3>2 DEF OwnersInv, ChainsOK
      <3> QED
        BY <1>5, <3>2, <3>3
    <2> QED
      BY <1>1, <1>6, <2>1 DEF OwnersInv, ChainsOK
  <1>9. /\ ListsOK' /\ (\A k \in Tokens : TokenOfOK(k)') /\ \A p \in Producers : ProducerOK(p)'
    BY <1>1 DEF OwnersInv, ListsOK, TokenOfOK, ProducerOK, InSomeList, Subscribed
  <1>10. ASSUME NEW r \in Queues, NEW g \in TablesOf(r)', NEW u \in OwnerThreads
         PROVE  EntryOK(r, g, u)'
    <2>1. EntryOK(r, g, u) /\ g \in Links /\ g \in TablesOf(r)
      BY <1>6 DEF OwnersInv
    <2>2. CASE entriesOf'[g][u] = entriesOf[g][u]
      BY <1>1, <2>1, <2>2 DEF EntryOK
    <2>3. CASE g = h /\ u = t
      <3>1. r = q
        BY <1>0, <2>1, <2>3 DEF OwnersInv, ChainsOK
      <3> QED
        BY <1>1, <1>3, <1>5, <2>3, <3>1 DEF EntryOK
    <2> QED
      BY <1>5, <2>1, <2>2, <2>3
  <1>11. ASSUME NEW u \in OwnerThreads PROVE ListenersOK(u)'
    <2>1. ListenersOK(u) /\ tail[u] \in Seq(Producers)
      BY <1>0 DEF OwnersInv, OwnersTypeOK
    <2>2. ASSUME NEW p \in Set(tail[u])
          PROVE  InSomeList(p)' /\ ~isExplicit'[p] /\ \E g \in TablesOf(parent[p])' : entriesOf'[g][u] = p
      <3>1. InSomeList(p) /\ ~isExplicit[p] /\ p \in Producers
        BY <2>1, SetIsOf DEF ListenersOK
      <3>2. PICK g \in TablesOf(parent[p]) : entriesOf[g][u] = p
        BY <2>1 DEF ListenersOK
      <3>3. g \in Links /\ g \in TablesOf(parent[p])'
        <4>1. parent[p] \in Queues /\ TablesOf(parent[p])' = TablesOf(parent[p])
          BY <1>1, <3>1 DEF InSomeList, TablesOf
        <4> QED
          BY <1>6, <4>1
      <3>4. entriesOf'[g][u] = p
        BY <1>5, <3>1, <3>2, <3>3, OwnersConstants
      <3> QED
        BY <1>1, <3>1, <3>3, <3>4 DEF InSomeList
    <2> QED
      BY <1>1, <2>1, <2>2 DEF ListenersOK, TablesOf
  <1> QED
    BY <1>7, <1>8, <1>9, <1>10, <1>11 DEF OwnersInv

(* A new table is put before those of q. *)
LEMMA NewTable ==
  ASSUME OwnersInv, NEW q \in alive, NEW new \in Tables, \A r \in alive : new \notin TablesOf(r),
         prev'[new] = hash[q], \A g \in Links \ {new} : prev'[g] = prev[g],
         hash'[q] = new, \A r \in Queues \ {q} : hash'[r] = hash[r]
  PROVE  /\ \A r \in Queues : new \notin TablesOf(r)
         /\ TablesOf(q)' = TablesOf(q) \union {new}
         /\ \A r \in Queues \ {q} : hash'[r] = hash[r] /\ TablesOf(r)' = TablesOf(r)
         /\ \A r \in Queues : IsChain(TablesOf(r)', hash'[r], r, prev')
  <1>0. OwnersTypeOK /\ q \in Queues /\ ChainsOK
    BY DEF OwnersInv, OwnersTypeOK
  <1>1. ASSUME NEW r \in Queues
        PROVE  /\ IsChain(TablesOf(r), hash[r], r, prev)
               /\ TablesOf(r) \subseteq Tables \union {r}
    BY <1>0, ChainHas DEF ChainsOK
  <1>2. ASSUME NEW r \in Queues PROVE new \notin TablesOf(r)
    <2>1. CASE r \notin alive
      <3>1. hash[r] = r /\ prev[r] = Owners!Null
        BY <1>0, <1>1, <2>1, ChainHas DEF ChainsOK
      <3>2. IsChain({r}, r, r, prev)
        BY <3>1, ChainOfOne
      <3>3. Reached(r, prev) = {r}
        BY <3>2, ChainReached
      <3> QED
        BY <3>1, <3>3, OwnersConstants DEF TablesOf
    <2> QED
      BY <2>1
  <1>6. ASSUME NEW r \in Queues PROVE \A g \in TablesOf(r) : prev'[g] = prev[g]
    BY <1>1, <1>2 DEF Links
  <1>7. ASSUME NEW r \in Queues \ {q}
        PROVE  IsChain(TablesOf(r), hash'[r], r, prev') /\ TablesOf(r)' = TablesOf(r)
    <2>1. IsChain(TablesOf(r), hash[r], r, prev')
      <3> HIDE DEF TablesOf
      <3> QED
        BY <1>1, <1>6, ChainKept
    <2>2. Reached(hash[r], prev') = TablesOf(r)
      BY <2>1, ChainReached
    <2> QED
      BY <2>1, <2>2 DEF TablesOf
  <1>8. IsChain(TablesOf(q) \union {new}, new, q, prev')
    <2>1. IsChain(TablesOf(q), hash[q], q, prev) /\ new \notin TablesOf(q)
      BY <1>0, <1>1, <1>2
    <2>2. prev'[new] = hash[q] /\ \A g \in TablesOf(q) : prev'[g] = prev[g]
      BY <1>0, <1>6
    <2> HIDE DEF TablesOf
    <2> QED
      BY <2>1, <2>2, ChainGrows
  <1>9. Reached(new, prev') = TablesOf(q) \union {new}
    BY <1>8, ChainReached
  <1>10. TablesOf(q)' = TablesOf(q) \union {new}
    BY <1>9 DEF TablesOf
  <1>11. IsChain(TablesOf(q)', hash'[q], q, prev')
    BY <1>8, <1>10
  <1>12. ASSUME NEW r \in Queues \ {q}
         PROVE  hash'[r] = hash[r] /\ TablesOf(r)' = TablesOf(r)
                /\ IsChain(TablesOf(r)', hash'[r], r, prev')
    BY <1>7
  <1> HIDE DEF TablesOf
  <1> QED
    BY <1>2, <1>10, <1>11, <1>12

(* The current table of q, the old one or a new one, has a new entry.        *)
FirstEntry(t, q, p, h) ==
  LET grows == h \notin TablesOf(q) IN
  /\ \/ ~grows /\ h = hash[q] /\ UNCHANGED <<prev, hash>>
     \/ /\ grows /\ h \in Tables /\ \A r \in alive : h \notin TablesOf(r)
        /\ prev' = [prev EXCEPT ![h] = hash[q]] /\ hash' = [hash EXCEPT ![q] = h]
  /\ entriesOf' = [entriesOf EXCEPT ![h] =
                     [(IF grows THEN Owners!NoEntries ELSE entriesOf[h]) EXCEPT ![t] = p]]
  /\ tail' = [tail EXCEPT ![t] = <<p>> \o tail[t]]

LEMMA FirstEnqueueIs ==
  ASSUME OwnersInv, NEW t \in OwnerThreads, NEW q \in Queues, Owners!FirstEnqueue(t, q)
  PROVE  /\ q \in alive /\ alive' = alive /\ producerOf' = producerOf
         /\ \A g \in TablesOf(q) : entriesOf[g][t] = Owners!Null
         /\ \E p \in Producers, h \in Links :
              /\ Owners!Gets(q, FALSE, p) /\ Owners!Activate(q, FALSE, p, Owners!Null)
              /\ FirstEntry(t, q, p, h)
  <1> DEFINE free == Tables \ UNION {Owners!Chain(hash[r]) : r \in alive}
             new  == CHOOSE h \in free : TRUE
             Place(grows) == IF grows THEN new ELSE hash[q]
  <1>0. /\ q \in alive /\ alive' = alive /\ producerOf' = producerOf
        /\ \A g \in Owners!Chain(hash[q]) : entriesOf[g][t] = Owners!Null
    BY DEF Owners!FirstEnqueue
  <1>1. PICK p \in Producers, grows \in BOOLEAN :
          /\ Owners!Gets(q, FALSE, p) /\ Owners!Activate(q, FALSE, p, Owners!Null)
          /\ grows => free # {}
          /\ prev' = IF grows THEN [prev EXCEPT ![new] = hash[q]] ELSE prev
          /\ hash' = [hash EXCEPT ![q] = Place(grows)]
          /\ entriesOf' = [entriesOf EXCEPT ![Place(grows)] =
                             [(IF grows THEN Owners!NoEntries ELSE entriesOf[Place(grows)])
                                EXCEPT ![t] = p]]
          /\ tail' = [tail EXCEPT ![t] = <<p>> \o tail[t]]
    BY DEF Owners!FirstEnqueue
  <1>2. \A r : Owners!Chain(hash[r]) = TablesOf(r)
    BY ChainsAreReached DEF TablesOf
  <1>3. /\ hash \in [Queues -> Links] /\ hash[q] \in TablesOf(q) /\ hash[q] \in Links
    BY ChainHas DEF OwnersInv, OwnersTypeOK, ChainsOK
  <1>4. CASE ~grows
    <2>1. Place(grows) = hash[q] /\ hash' = hash /\ prev' = prev
      BY <1>1, <1>3, <1>4
    <2>2. FirstEntry(t, q, p, hash[q])
      BY <1>1, <1>3, <1>4, <2>1 DEF FirstEntry
    <2> QED
      BY <1>0, <1>1, <1>2, <1>3, <2>2
  <1>5. CASE grows
    <2>1. new \in free
      BY <1>1, <1>5
    <2>2. new \in Tables /\ \A r \in alive : new \notin TablesOf(r)
      BY <1>2, <2>1
    <2>3. FirstEntry(t, q, p, new) /\ new \in Links
      <3> HIDE DEF free
      <3>1. Place(grows) = new
        BY <1>5
      <3> HIDE DEF new
      <3> QED
        BY <1>0, <1>1, <1>5, <2>2, <3>1 DEF FirstEntry, Links
    <2> HIDE DEF new
    <2> QED
      BY <1>0, <1>1, <1>2, <2>3
  <1> QED
    BY <1>4, <1>5

LEMMA FirstEnqueueKeeps ==
  ASSUME OwnersInv, NEW t \in OwnerThreads, NEW q \in Queues, Owners!FirstEnqueue(t, q)
  PROVE  OwnersInv'
  <1> PICK p \in Producers, h \in Links :
        /\ Owners!Gets(q, FALSE, p) /\ Owners!Activate(q, FALSE, p, Owners!Null)
        /\ FirstEntry(t, q, p, h)
    BY FirstEnqueueIs
  <1> PICK grows : grows = (h \notin TablesOf(q))
    OBVIOUS
  <1>0. /\ OwnersTypeOK /\ q \in alive /\ p # Owners!Null /\ p # Owners!NoToken
        /\ alive' = alive /\ producerOf' = producerOf
        /\ \A g \in TablesOf(q) : entriesOf[g][t] = Owners!Null
    BY OwnersConstants, FirstEnqueueIs DEF OwnersInv
  <1>1. /\ prev' \in [Links -> Links \union {Owners!Null}] /\ hash' \in [Queues -> Links]
        /\ grows => \A r \in Queues : h \notin TablesOf(r)
        /\ ~grows => h \in TablesOf(q)
        /\ TablesOf(q)' = TablesOf(q) \union {h} /\ hash'[q] = h
        /\ \A r \in Queues \ {q} : hash'[r] = hash[r] /\ TablesOf(r)' = TablesOf(r)
        /\ \A r \in Queues : IsChain(TablesOf(r)', hash'[r], r, prev')
    <2>1. CASE ~grows
      <3>1. h = hash[q] /\ UNCHANGED <<prev, hash>> /\ h \in TablesOf(q)
        BY <2>1 DEF FirstEntry
      <3>2. \A r \in Queues : TablesOf(r)' = TablesOf(r)
        BY <3>1 DEF TablesOf
      <3> QED
        BY <1>0, <2>1, <3>1, <3>2 DEF OwnersInv, OwnersTypeOK, ChainsOK
    <2>2. CASE grows
      <3>1. /\ h \in Tables /\ \A r \in alive : h \notin TablesOf(r)
            /\ prev' = [prev EXCEPT ![h] = hash[q]] /\ hash' = [hash EXCEPT ![q] = h]
        BY <2>2 DEF FirstEntry
      <3>2. /\ prev' \in [Links -> Links \union {Owners!Null}] /\ hash' \in [Queues -> Links]
            /\ prev'[h] = hash[q] /\ \A g \in Links \ {h} : prev'[g] = prev[g]
            /\ hash'[q] = h /\ \A r \in Queues \ {q} : hash'[r] = hash[r]
        BY <1>0, <3>1 DEF OwnersTypeOK
      <3> QED
        BY <1>0, <2>2, <3>1, <3>2, NewTable
    <2> QED
      BY <2>1, <2>2
  <1>2. Activated(q, FALSE, p, Owners!Null)
    BY <1>0, ActivateIs
  <1>3. ~Subscribed(p) /\ \A j \in Tokens : producerOf[j] # p
    BY <1>0, GotIsUnused
  <1>4. /\ ListsOK' /\ InSomeList(p)'
        /\ \A o \in Producers \ {p} : InSomeList(o)' <=> InSomeList(o)
    BY <1>0, <1>2, ActivatedLists
  <1>5. \A r \in Queues : TablesOf(r) \subseteq Links /\ TablesOf(r) \subseteq TablesOf(r)'
    <2>1. \A r \in Queues : TablesOf(r) \subseteq Links
      BY ChainHas DEF OwnersInv, ChainsOK, Links
    <2> QED
      BY <1>1, <2>1
  <1>7. /\ entriesOf' \in [Links -> [OwnerThreads -> Producers \union {Owners!Null}]]
        /\ entriesOf'[h][t] = p
        /\ \A g \in Links \ {h} : entriesOf'[g] = entriesOf[g]
        /\ \A u \in OwnerThreads \ {t} :
             entriesOf'[h][u] = IF grows THEN Owners!Null ELSE entriesOf[h][u]
    <2>1. \A u \in OwnerThreads : Owners!NoEntries[u] = Owners!Null
      BY DEF Owners!NoEntries
    <2>2. Owners!NoEntries \in [OwnerThreads -> Producers \union {Owners!Null}]
      BY DEF Owners!NoEntries
    <2>3. entriesOf' = [entriesOf EXCEPT ![h] =
                          [(IF grows THEN Owners!NoEntries ELSE entriesOf[h]) EXCEPT ![t] = p]]
      BY DEF FirstEntry
    <2> QED
      BY <1>0, <2>1, <2>2, <2>3 DEF OwnersTypeOK
  <1>8. /\ tail' \in [OwnerThreads -> Seq(Producers)]
        /\ Once(tail'[t]) /\ Set(tail'[t]) = Set(tail[t]) \union {p}
        /\ \A u \in OwnerThreads \ {t} : tail'[u] = tail[u]
    <2>1. tail[t] \in Seq(Producers) /\ Once(tail[t]) /\ p \notin Set(tail[t])
      BY <1>0, <1>3 DEF OwnersInv, OwnersTypeOK, ListenersOK, Subscribed
    <2>2. /\ <<p>> \o tail[t] \in Seq(Producers)
          /\ Once(<<p>> \o tail[t]) /\ Set(<<p>> \o tail[t]) = Set(tail[t]) \union {p}
      BY <2>1, OnceMore
    <2> QED
      BY <1>0, <2>2 DEF OwnersTypeOK, FirstEntry
  <1>9. OwnersTypeOK'
    BY <1>0, <1>1, <1>2, <1>7, <1>8 DEF OwnersTypeOK, Activated
  <1>10. ChainsOK'
    <2>1. ASSUME NEW r \in Queues, NEW s \in Queues, r # s PROVE TablesOf(r)' \cap TablesOf(s)' = {}
      <3>1. TablesOf(r) \cap TablesOf(s) = {}
        BY <2>1 DEF OwnersInv, ChainsOK
      <3>2. \A o \in Queues \ {q} : h \notin TablesOf(o)
        BY <1>1 DEF OwnersInv, ChainsOK
      <3> QED
        BY <1>1, <2>1, <3>1, <3>2
    <2>2. ASSUME NEW r \in Queues \ alive
          PROVE  list'[r] = <<>> /\ hash'[r] = r /\ entriesOf'[r] = Owners!NoEntries
      <3>1. r # q /\ list[r] = <<>> /\ hash[r] = r /\ entriesOf[r] = Owners!NoEntries
        BY <1>0 DEF OwnersInv, ChainsOK
      <3>2. r \in TablesOf(r) /\ r \in Links
        BY <3>1, ChainHas DEF OwnersInv, ChainsOK, Links
      <3>3. r # h
        BY <1>1, <3>1, <3>2 DEF OwnersInv, ChainsOK
      <3> QED
        BY <1>1, <1>2, <1>7, <3>1, <3>2, <3>3 DEF Activated
    <2> QED
      BY <1>0, <1>1, <2>1, <2>2 DEF ChainsOK
  <1>11. ASSUME NEW j \in Tokens PROVE TokenOfOK(j)'
    BY <1>0, <1>2, <1>3, <1>4 DEF OwnersInv, TokenOfOK, Activated
  <1>12. ASSUME NEW o \in Producers PROVE ProducerOK(o)'
    <2>1. CASE o = p
      <3>1. Subscribed(p)'
        BY <1>8 DEF Subscribed
      <3> QED
        BY <1>2, <2>1, <3>1 DEF ProducerOK, Activated
    <2>2. CASE o # p
      <3>1. ProducerOK(o)
        BY DEF OwnersInv
      <3>2. Subscribed(o)' <=> Subscribed(o)
        BY <1>8, <2>2 DEF Subscribed
      <3> QED
        BY <1>0, <1>2, <1>4, <2>2, <3>1, <3>2 DEF ProducerOK, Activated
    <2> QED
      BY <2>1, <2>2
  <1>13. ASSUME NEW r \in Queues, NEW g \in TablesOf(r)', NEW u \in OwnerThreads
         PROVE  EntryOK(r, g, u)'
    <2>1. Set(list[r]) \subseteq Set(list'[r]) /\ Set(tail[u]) \subseteq Set(tail'[u])
      BY <1>2, <1>8 DEF Activated
    <2>2. p \in Set(list'[q]) /\ p \in Set(tail'[t])
      BY <1>2, <1>8 DEF Activated
    <2>3. CASE g # h
      <3>1. g \in TablesOf(r)
        BY <1>1, <2>3
      <3>2. EntryOK(r, g, u) /\ entriesOf'[g] = entriesOf[g]
        BY <1>5, <1>7, <2>3, <3>1 DEF OwnersInv
      <3> QED
        BY <2>1, <3>2 DEF EntryOK
    <2>4. CASE g = h
      <3>1. r = q
        BY <1>1, <2>4 DEF OwnersInv, ChainsOK
      <3>2. CASE u = t
        BY <1>7, <2>2, <2>4, <3>1, <3>2 DEF EntryOK
      <3>3. CASE u # t /\ grows
        BY <1>7, <2>4, <3>3 DEF EntryOK
      <3>4. CASE u # t /\ ~grows
        <4>1. EntryOK(q, h, u) /\ entriesOf'[h][u] = entriesOf[h][u]
          BY <1>1, <1>7, <3>4 DEF OwnersInv
        <4> QED
          BY <2>1, <2>4, <3>1, <4>1 DEF EntryOK
      <3> QED
        BY <3>2, <3>3, <3>4
    <2> QED
      BY <2>3, <2>4
  <1>14. ASSUME NEW u \in OwnerThreads PROVE ListenersOK(u)'
    <2>1. ListenersOK(u) /\ tail[u] \in Seq(Producers) /\ p \notin Set(tail[u])
      BY <1>0, <1>3 DEF OwnersInv, OwnersTypeOK, Subscribed
    <2>2. ASSUME NEW o \in Set(tail[u])
          PROVE  /\ InSomeList(o)' /\ ~isExplicit'[o] /\ parent'[o] = parent[o]
                 /\ \E g \in TablesOf(parent[o])' : entriesOf'[g][u] = o
      <3>1. InSomeList(o) /\ ~isExplicit[o] /\ o \in Producers /\ o # p
        BY <2>1, SetIsOf DEF ListenersOK
      <3>2. PICK g \in TablesOf(parent[o]) : entriesOf[g][u] = o
        BY <2>1 DEF ListenersOK
      <3>3. InSomeList(o)' /\ ~isExplicit'[o] /\ parent'[o] = parent[o]
        BY <1>2, <1>4, <3>1 DEF Activated
      <3>4. TablesOf(parent[o])' = Reached(hash'[parent[o]], prev')
        BY <3>3 DEF TablesOf
      <3>5. g \in TablesOf(parent[o])' /\ g \in Links
        BY <1>5, <3>1, <3>4 DEF InSomeList, TablesOf
      <3>6. entriesOf'[g][u] = o
        <4>1. g = h => ~grows /\ parent[o] = q
          BY <1>1, <3>1 DEF InSomeList, OwnersInv, ChainsOK
        <4>2. CASE g = h
          <5>1. u # t
            BY <1>0, <3>1, <3>2, <4>1, <4>2, OwnersConstants
          <5> QED
            BY <1>7, <3>2, <4>1, <4>2, <5>1
        <4> QED
          BY <1>7, <3>2, <3>5, <4>2
      <3> QED
        BY <3>3, <3>5, <3>6
    <2>3. /\ InSomeList(p)' /\ ~isExplicit'[p] /\ parent'[p] = q
          /\ \E g \in TablesOf(parent[p])' : entriesOf'[g][t] = p
      <3>1. InSomeList(p)' /\ ~isExplicit'[p] /\ parent'[p] = q
        BY <1>2, <1>4 DEF Activated
      <3>2. TablesOf(parent[p])' = TablesOf(q)'
        BY <3>1 DEF TablesOf
      <3> QED
        BY <1>1, <1>7, <3>1, <3>2
    <2>4. u = t => \A o \in Set(tail[u]) : parent[o] # q
      <3> SUFFICES ASSUME u = t, NEW o \in Set(tail[u]), parent[o] = q PROVE FALSE
        OBVIOUS
      <3>1. PICK g \in TablesOf(q) : entriesOf[g][t] = o
        BY <2>1 DEF ListenersOK
      <3>2. o \in Producers
        BY <2>1, SetIsOf
      <3> QED
        BY <1>0, <3>1, <3>2, OwnersConstants
    <2>5. CASE u = t
      <3>1. \A w \in OwnerThreads \ {t} : p \notin Set(tail[w])
        BY <1>3 DEF Subscribed
      <3>2. /\ Once(tail'[u]) /\ Set(tail'[u]) = Set(tail[u]) \union {p}
            /\ \A w \in OwnerThreads \ {u} : Set(tail'[u]) \cap Set(tail'[w]) = {}
        BY <1>8, <2>1, <2>5, <3>1 DEF ListenersOK
      <3>3. \A o \in Set(tail'[u]) : InSomeList(o)' /\ ~isExplicit'[o]
              /\ \E g \in TablesOf(parent[o])' : entriesOf'[g][u] = o
        BY <2>2, <2>3, <2>5, <3>2
      <3>4. \A o, r \in Set(tail'[u]) : parent'[o] = parent'[r] => o = r
        BY <2>1, <2>2, <2>3, <2>4, <2>5, <3>2 DEF ListenersOK
      <3> QED
        BY <3>2, <3>3, <3>4 DEF ListenersOK
    <2>6. CASE u # t
      BY <1>8, <2>1, <2>2, <2>6 DEF ListenersOK
    <2> QED
      BY <2>5, <2>6
  <1> QED
    BY <1>4, <1>9, <1>10, <1>11, <1>12, <1>13, <1>14 DEF OwnersInv

(* The listeners are called, the thread leaves the tables, and its producers *)
(* can be recycled.                                                          *)
LEMMA ThreadExitKeeps ==
  ASSUME OwnersInv, NEW t \in OwnerThreads, Owners!ThreadExit(t)
  PROVE  OwnersInv'
  <1> PICK leaving : leaving = Set(tail[t])
    OBVIOUS
  <1>0. /\ OwnersTypeOK /\ ListenersOK(t) /\ leaving \subseteq Producers
        /\ UNCHANGED <<alive, list, isExplicit, parent, tokenOf, producerOf, hash, prev>>
        /\ tail' = [tail EXCEPT ![t] = <<>>]
        /\ inactiveOf' = [p \in Producers |-> (p \in leaving) \/ inactiveOf[p]]
    BY SetsOfLists, SetIsOf DEF OwnersInv, OwnersTypeOK, Owners!ThreadExit
  <1>1. \A r \in Queues : TablesOf(r)' = TablesOf(r) /\ TablesOf(r) \subseteq Links
    BY <1>0, ChainHas DEF OwnersInv, ChainsOK, Links, TablesOf
  <1>2. entriesOf' = [h \in Links |-> IF \E p \in leaving : h \in TablesOf(parent[p])
                                    THEN [entriesOf[h] EXCEPT ![t] = Owners!Null]
                                    ELSE entriesOf[h]]
    <2>1. DOMAIN entriesOf = Links /\ leaving = Owners!InList(tail[t])
      BY <1>0, SetsOfLists DEF OwnersTypeOK
    <2>2. \A p : Owners!Chain(hash[parent[p]]) = TablesOf(parent[p])
      BY ChainsAreReached DEF TablesOf
    <2> QED
      BY <2>1, <2>2 DEF Owners!ThreadExit
  <1>3. /\ entriesOf' \in [Links -> [OwnerThreads -> Producers \union {Owners!Null}]]
        /\ \A h \in Links, u \in OwnerThreads \ {t} : entriesOf'[h][u] = entriesOf[h][u]
        /\ \A h \in Links : entriesOf[h] = Owners!NoEntries => entriesOf'[h] = Owners!NoEntries
    <2>1. \A h \in Links : entriesOf[h] \in [OwnerThreads -> Producers \union {Owners!Null}]
      BY <1>0 DEF OwnersTypeOK
    <2>2. [Owners!NoEntries EXCEPT ![t] = Owners!Null] = Owners!NoEntries
      BY DEF Owners!NoEntries
    <2> QED
      BY <1>2, <2>1, <2>2
  <1>4. \A r \in Queues, h \in Links : h \in TablesOf(r) => entriesOf'[h][t] = Owners!Null
    <2> SUFFICES ASSUME NEW r \in Queues, NEW h \in Links, h \in TablesOf(r),
                        entriesOf'[h][t] # Owners!Null
                 PROVE  FALSE
      OBVIOUS
    <2>1. /\ entriesOf[h] \in [OwnerThreads -> Producers \union {Owners!Null}]
          /\ entriesOf'[h] = entriesOf[h] /\ ~\E p \in leaving : h \in TablesOf(parent[p])
      BY <1>0, <1>2 DEF OwnersTypeOK
    <2>2. entriesOf[h][t] \in leaving /\ entriesOf[h][t] \in Set(list[r])
      BY <2>1 DEF OwnersInv, EntryOK
    <2>3. parent[entriesOf[h][t]] = r
      BY <2>2 DEF OwnersInv, ListsOK
    <2> QED
      BY <2>1, <2>2, <2>3
  <1>5. /\ tail' \in [OwnerThreads -> Seq(Producers)]
        /\ Set(tail'[t]) = {} /\ Once(tail'[t])
        /\ \A u \in OwnerThreads \ {t} : tail'[u] = tail[u]
    BY <1>0, SetsOfLists DEF OwnersTypeOK
  <1>6. /\ inactiveOf' \in [Producers -> BOOLEAN]
        /\ \A p \in leaving : inactiveOf'[p]
        /\ \A p \in Producers \ leaving : inactiveOf'[p] = inactiveOf[p]
    BY <1>0 DEF OwnersTypeOK
  <1>7. OwnersTypeOK'
    BY <1>0, <1>3, <1>5, <1>6 DEF OwnersTypeOK
  <1>8. ChainsOK'
    <2>1. \A r \in Queues : r \in Links
      BY DEF Links
    <2> QED
      BY <1>0, <1>1, <1>3, <2>1 DEF OwnersInv, ChainsOK
  <1>9. ListsOK'
    BY <1>0 DEF OwnersInv, ListsOK
  <1>10. ASSUME NEW k \in Tokens PROVE TokenOfOK(k)'
    <2>1. TokenOfOK(k)
      BY DEF OwnersInv
    <2>2. \A p \in leaving : ~isExplicit[p]
      BY <1>0 DEF ListenersOK
    <2> QED
      BY <1>0, <1>6, <2>1, <2>2 DEF TokenOfOK, InSomeList
  <1>11. ASSUME NEW p \in Producers PROVE ProducerOK(p)'
    <2>1. ProducerOK(p) /\ (InSomeList(p)' <=> InSomeList(p))
      BY <1>0 DEF OwnersInv, InSomeList
    <2>2. CASE p \in leaving
      <3>1. ~isExplicit[p] /\ \A u \in OwnerThreads \ {t} : p \notin Set(tail[u])
        BY <1>0, <2>2 DEF ListenersOK
      <3>2. ~Subscribed(p)' /\ inactiveOf'[p]
        BY <1>5, <1>6, <2>2, <3>1 DEF Subscribed
      <3> QED
        BY <1>0, <2>1, <3>1, <3>2 DEF ProducerOK
    <2>3. CASE p \notin leaving
      <3>1. inactiveOf'[p] = inactiveOf[p] /\ (Subscribed(p)' <=> Subscribed(p))
        BY <1>5, <1>6, <2>3 DEF Subscribed
      <3> QED
        BY <1>0, <2>1, <3>1 DEF ProducerOK
    <2> QED
      BY <2>2, <2>3
  <1>12. ASSUME NEW r \in Queues, NEW h \in TablesOf(r)', NEW u \in OwnerThreads
         PROVE  EntryOK(r, h, u)'
    <2>1. h \in TablesOf(r) /\ h \in Links /\ EntryOK(r, h, u)
      BY <1>1 DEF OwnersInv
    <2>2. CASE u = t
      BY <1>4, <2>1, <2>2 DEF EntryOK
    <2>3. CASE u # t
      BY <1>0, <1>3, <1>5, <2>1, <2>3 DEF EntryOK
    <2> QED
      BY <2>2, <2>3
  <1>13. ASSUME NEW u \in OwnerThreads PROVE ListenersOK(u)'
    <2>1. CASE u = t
      BY <1>5, <2>1 DEF ListenersOK
    <2>2. CASE u # t
      <3>1. ListenersOK(u) /\ tail'[u] = tail[u]
        BY <1>5, <2>2 DEF OwnersInv
      <3>2. ASSUME NEW p \in Set(tail[u])
            PROVE  InSomeList(p)' /\ \E h \in TablesOf(parent[p])' : entriesOf'[h][u] = p
        <4>1. InSomeList(p) /\ parent[p] \in Queues
          BY <3>1 DEF ListenersOK, InSomeList
        <4>2. PICK h \in TablesOf(parent[p]) : entriesOf[h][u] = p
          BY <3>1 DEF ListenersOK
        <4>3. TablesOf(parent[p])' = TablesOf(parent[p]) /\ h \in Links
          BY <1>0, <1>1, <4>1 DEF TablesOf
        <4> QED
          BY <1>0, <1>3, <2>2, <4>1, <4>2, <4>3 DEF InSomeList
      <3>3. \A w \in OwnerThreads \ {u} : Set(tail'[u]) \cap Set(tail'[w]) = {}
        <4>1. \A w \in OwnerThreads \ {u} : Set(tail[u]) \cap Set(tail[w]) = {}
          BY <3>1 DEF ListenersOK
        <4> QED
          BY <1>5, <3>1, <4>1
      <3> QED
        BY <1>0, <3>1, <3>2, <3>3 DEF ListenersOK
    <2> QED
      BY <2>1, <2>2
  <1> QED
    BY <1>7, <1>8, <1>9, <1>10, <1>11, <1>12, <1>13 DEF OwnersInv

(* A place that is free has the state that a constructor leaves.             *)
LEMMA ConstructKeeps ==
  ASSUME OwnersInv, NEW q \in Queues, Owners!Construct(q)
  PROVE  OwnersInv'
  <1>1. /\ alive' = alive \union {q}
        /\ UNCHANGED <<list, isExplicit, parent, tokenOf, inactiveOf, producerOf, hash, prev,
                       entriesOf, tail>>
    BY DEF Owners!Construct, Owners!tables
  <1>2. \A r \in Queues : TablesOf(r)' = TablesOf(r)
    BY <1>1 DEF TablesOf
  <1>3. OwnersTypeOK' /\ ListsOK' /\ \A k \in Tokens : TokenOfOK(k)'
    BY <1>1 DEF OwnersInv, OwnersTypeOK, ListsOK, TokenOfOK, InSomeList
  <1>4. ChainsOK'
    BY <1>1, <1>2 DEF OwnersInv, ChainsOK
  <1>5. \A p \in Producers : ProducerOK(p)'
    BY <1>1 DEF OwnersInv, ProducerOK, InSomeList, Subscribed
  <1>6. \A r \in Queues : \A h \in TablesOf(r)' : \A t \in OwnerThreads : EntryOK(r, h, t)'
    BY <1>1, <1>2 DEF OwnersInv, EntryOK
  <1>7. \A t \in OwnerThreads : ListenersOK(t)'
    BY <1>1, <1>2 DEF OwnersInv, ListenersOK, InSomeList
  <1> QED
    BY <1>3, <1>4, <1>5, <1>6, <1>7 DEF OwnersInv

-----------------------------------------------------------------------------
(* Queues. *)

(* Two tables, or the tables of two queues, have the same entries.           *)
SameEntries(C, D) ==
  /\ \A g \in C : \E h \in D : entriesOf'[g] = entriesOf[h]
  /\ \A h \in D : \E g \in C : entriesOf'[g] = entriesOf[h]

(* The tables of o become those of q. *)
LEMMA TablesMove ==
  ASSUME OwnersInv, NEW q \in Queues, NEW o \in Queues, prev'[q] = Owners!Null,
         \A g \in TablesOf(o) : prev'[g] = IF prev[g] = o THEN q ELSE prev[g],
         hash'[q] = IF hash[o] = o THEN q ELSE hash[o],
         entriesOf'[q] = entriesOf[o],
         \A g \in TablesOf(o) \ {o} : entriesOf'[g] = entriesOf[g]
  PROVE  /\ IsChain(TablesOf(q)', hash'[q], q, prev')
         /\ TablesOf(q)' = (TablesOf(o) \ {o}) \union {q}
         /\ SameEntries(TablesOf(q)', TablesOf(o))
  <1>1. IsChain(TablesOf(o), hash[o], o, prev) /\ o \in TablesOf(o)
    BY ChainHas DEF OwnersInv, ChainsOK
  <1> PICK C, D : C = TablesOf(o) /\ D = (TablesOf(o) \ {o}) \union {q}
    OBVIOUS
  <1>2. IsChain(D, hash'[q], q, prev')
    <2>1. /\ IsChain(C, hash[o], o, prev) /\ D = (C \ {o}) \union {q}
          /\ \A g \in C \ {o} : prev'[g] = IF prev[g] = o THEN q ELSE prev[g]
      BY <1>1
    <2> QED
      BY <2>1, ChainMoves
  <1>3. Reached(hash'[q], prev') = D
    BY <1>2, ChainReached
  <1>4. TablesOf(q)' = D
    BY <1>3 DEF TablesOf
  <1>5. SameEntries(D, TablesOf(o))
    BY <1>1 DEF SameEntries
  <1> QED
    BY <1>2, <1>4, <1>5

(* Everything of q and of o is exchanged, and the rest stays.                *)
Other(q, o, r) == IF r = q THEN o ELSE IF r = o THEN q ELSE r

LEMMA HashesSwapped ==
  ASSUME OwnersInv, NEW q \in Queues, NEW o \in Queues, q # o, Owners!SwapHashes(q, o)
  PROVE  /\ prev' \in [Links -> Links \union {Owners!Null}] /\ hash' \in [Queues -> Links]
         /\ entriesOf' \in [Links -> [OwnerThreads -> Producers \union {Owners!Null}]]
         /\ \A r \in Queues : /\ IsChain(TablesOf(r)', hash'[r], r, prev')
                              /\ SameEntries(TablesOf(r)', TablesOf(Other(q, o, r)))
         /\ \A r, w \in Queues : r # w => TablesOf(r)' \cap TablesOf(w)' = {}
         /\ \A r \in Queues \ {q, o} : hash'[r] = hash[r] /\ entriesOf'[r] = entriesOf[r]
  <1>0. /\ OwnersTypeOK /\ {q, o} \subseteq Links /\ Owners!Null \notin Links
        /\ TablesOf(q) \cap TablesOf(o) = {}
    BY OwnersConstants DEF OwnersInv, ChainsOK, Links
  <1>1. \A r \in Queues : /\ IsChain(TablesOf(r), hash[r], r, prev) /\ r \in TablesOf(r)
                          /\ TablesOf(r) \subseteq Links /\ TablesOf(r) \subseteq Tables \union {r}
                          /\ prev[r] = Owners!Null
    BY ChainHas DEF OwnersInv, ChainsOK, Links
  <1>2. /\ entriesOf' = [entriesOf EXCEPT ![q] = entriesOf[o], ![o] = entriesOf[q]]
        /\ hash' = [hash EXCEPT ![q] = IF hash[o] = o THEN q ELSE hash[o],
                               ![o] = IF hash[q] = q THEN o ELSE hash[q]]
        /\ prev' = [h \in Links |-> CASE prev[h] = o /\ h \in TablesOf(o) -> q
                                     [] prev[h] = q /\ h \in TablesOf(q) -> o
                                     [] OTHER                            -> prev[h]]
    <2>1. DOMAIN prev = Links
      BY <1>0 DEF OwnersTypeOK
    <2>2. \A r : Owners!Chain(hash[r]) = TablesOf(r)
      BY ChainsAreReached DEF TablesOf
    <2> QED
      BY <2>1, <2>2 DEF Owners!SwapHashes
  <1>3. /\ prev' \in [Links -> Links \union {Owners!Null}]
        /\ \A h \in Links :
             /\ h \in TablesOf(o) => prev'[h] = IF prev[h] = o THEN q ELSE prev[h]
             /\ h \in TablesOf(q) => prev'[h] = IF prev[h] = q THEN o ELSE prev[h]
             /\ h \notin TablesOf(o) \union TablesOf(q) => prev'[h] = prev[h]
    BY <1>0, <1>2 DEF OwnersTypeOK
  <1>4. /\ hash' \in [Queues -> Links]
        /\ hash'[q] = IF hash[o] = o THEN q ELSE hash[o]
        /\ hash'[o] = IF hash[q] = q THEN o ELSE hash[q]
        /\ \A r \in Queues \ {q, o} : hash'[r] = hash[r]
    BY <1>0, <1>2 DEF OwnersTypeOK
  <1>5. /\ entriesOf' \in [Links -> [OwnerThreads -> Producers \union {Owners!Null}]]
        /\ entriesOf'[q] = entriesOf[o] /\ entriesOf'[o] = entriesOf[q]
        /\ \A h \in Links \ {q, o} : entriesOf'[h] = entriesOf[h]
    BY <1>0, <1>2 DEF OwnersTypeOK
  <1>6. prev'[q] = Owners!Null /\ prev'[o] = Owners!Null
    BY <1>0, <1>1, <1>3
  <1>7. q \notin TablesOf(o) /\ o \notin TablesOf(q)
    BY <1>0, <1>1
  <1>8. /\ IsChain(TablesOf(q)', hash'[q], q, prev')
        /\ TablesOf(q)' = (TablesOf(o) \ {o}) \union {q}
        /\ SameEntries(TablesOf(q)', TablesOf(o))
    <2>1. /\ \A g \in TablesOf(o) : prev'[g] = IF prev[g] = o THEN q ELSE prev[g]
          /\ \A g \in TablesOf(o) \ {o} : entriesOf'[g] = entriesOf[g]
      BY <1>1, <1>3, <1>5, <1>7
    <2> HIDE DEF TablesOf, IsChain, SameEntries
    <2> QED
      BY <1>4, <1>5, <1>6, <2>1, TablesMove
  <1>9. /\ IsChain(TablesOf(o)', hash'[o], o, prev')
        /\ TablesOf(o)' = (TablesOf(q) \ {q}) \union {o}
        /\ SameEntries(TablesOf(o)', TablesOf(q))
    <2>1. /\ \A g \in TablesOf(q) : prev'[g] = IF prev[g] = q THEN o ELSE prev[g]
          /\ \A g \in TablesOf(q) \ {q} : entriesOf'[g] = entriesOf[g]
      BY <1>1, <1>3, <1>5, <1>7
    <2> QED
      BY <1>4, <1>5, <1>6, <2>1, TablesMove
  <1>10. ASSUME NEW r \in Queues \ {q, o}
         PROVE  /\ IsChain(TablesOf(r), hash[r], r, prev') /\ TablesOf(r)' = TablesOf(r)
                /\ SameEntries(TablesOf(r), TablesOf(r))
    <2>1. TablesOf(r) \cap TablesOf(q) = {} /\ TablesOf(r) \cap TablesOf(o) = {}
      BY DEF OwnersInv, ChainsOK
    <2>2. \A g \in TablesOf(r) : prev'[g] = prev[g] /\ entriesOf'[g] = entriesOf[g]
      BY <1>1, <1>3, <1>5, <2>1
    <2>3. IsChain(TablesOf(r), hash[r], r, prev')
      BY <1>1, <2>2, ChainKept
    <2>4. Reached(hash[r], prev') = TablesOf(r)
      BY <2>3, ChainReached
    <2> QED
      BY <1>4, <2>2, <2>3, <2>4 DEF TablesOf, SameEntries
  <1>11. ASSUME NEW r \in Queues
         PROVE  /\ IsChain(TablesOf(r)', hash'[r], r, prev')
                /\ SameEntries(TablesOf(r)', TablesOf(Other(q, o, r)))
    BY <1>4, <1>8, <1>9, <1>10 DEF Other
  <1>12. ASSUME NEW r \in Queues, NEW w \in Queues, r # w
         PROVE  TablesOf(r)' \cap TablesOf(w)' = {}
    <2>1. \A u \in Queues : TablesOf(u)' \subseteq TablesOf(Other(q, o, u)) \union {q, o}
      BY <1>8, <1>9, <1>10 DEF Other
    <2>2. Other(q, o, r) # Other(q, o, w) /\ Other(q, o, r) \in Queues /\ Other(q, o, w) \in Queues
      BY <1>12 DEF Other
    <2>3. TablesOf(Other(q, o, r)) \cap TablesOf(Other(q, o, w)) = {}
      BY <2>2 DEF OwnersInv, ChainsOK
    <2>4. \A u \in Queues : /\ q \in TablesOf(u)' => u = q
                            /\ o \in TablesOf(u)' => u = o
      <3>1. \A u \in Queues \ {q, o} : q \notin TablesOf(u) /\ o \notin TablesOf(u)
        BY <1>1 DEF OwnersInv, ChainsOK
      <3> QED
        BY <1>7, <1>8, <1>9, <1>10, <3>1
    <2>5. ASSUME NEW g \in TablesOf(r)', g \in TablesOf(w)' PROVE FALSE
      <3>1. g # q /\ g # o
        BY <1>12, <2>4, <2>5
      <3>2. g \in TablesOf(Other(q, o, r)) /\ g \in TablesOf(Other(q, o, w))
        BY <2>1, <2>5, <3>1
      <3> QED
        BY <2>3, <3>2
    <2> QED
      BY <2>5
  <1>13. \A r \in Queues \ {q, o} : hash'[r] = hash[r] /\ entriesOf'[r] = entriesOf[r]
    BY <1>4, <1>5 DEF Links
  <1> QED
    BY <1>3, <1>4, <1>5, <1>11, <1>12, <1>13

(* A queue that is constructed from another one is as if it had been there,  *)
(* empty, and had been swapped with it.                                      *)
LEMMA SwapKeeps ==
  ASSUME OwnersInv, NEW q \in Queues, NEW o \in Queues, q # o,
         alive' = alive \union {q, o}, Owners!SwapHashes(q, o),
         list' = [list EXCEPT ![q] = list[o], ![o] = list[q]],
         parent' = [p \in Producers |-> IF p \in Set(list[o]) THEN q
                                       ELSE IF p \in Set(list[q]) THEN o ELSE parent[p]],
         UNCHANGED <<isExplicit, tokenOf, inactiveOf, producerOf, tail>>
  PROVE  OwnersInv'
  <1>0. OwnersTypeOK /\ ListsOK
    BY DEF OwnersInv
  <1>1. /\ prev' \in [Links -> Links \union {Owners!Null}] /\ hash' \in [Queues -> Links]
        /\ entriesOf' \in [Links -> [OwnerThreads -> Producers \union {Owners!Null}]]
        /\ \A r \in Queues : /\ IsChain(TablesOf(r)', hash'[r], r, prev')
                             /\ SameEntries(TablesOf(r)', TablesOf(Other(q, o, r)))
        /\ \A r, w \in Queues : r # w => TablesOf(r)' \cap TablesOf(w)' = {}
        /\ \A r \in Queues \ {q, o} : hash'[r] = hash[r] /\ entriesOf'[r] = entriesOf[r]
    BY HashesSwapped
  <1>2. /\ list' \in [Queues -> Seq(Producers)]
        /\ \A r \in Queues : Other(q, o, r) \in Queues /\ list'[r] = list[Other(q, o, r)]
    BY <1>0 DEF OwnersTypeOK, Other
  <1>3. /\ parent' \in [Producers -> Queues \union {Owners!Null}]
        /\ \A p \in Producers : InSomeList(p) => parent'[p] = Other(q, o, parent[p])
        /\ \A p \in Producers : ~InSomeList(p) => parent'[p] = parent[p]
    <2>1. \A p \in Producers : /\ p \in Set(list[o]) => parent[p] = o
                               /\ p \in Set(list[q]) => parent[p] = q
      BY <1>0 DEF ListsOK
    <2> QED
      BY <1>0, <2>1 DEF OwnersTypeOK, InSomeList, Other
  <1>4. \A p \in Producers : InSomeList(p)' <=> InSomeList(p)
    <2>1. \A r \in Queues : Other(q, o, Other(q, o, r)) = r
      BY DEF Other
    <2>2. ASSUME NEW p \in Producers, InSomeList(p) PROVE InSomeList(p)'
      BY <1>2, <1>3, <2>1, <2>2 DEF InSomeList
    <2>3. ASSUME NEW p \in Producers, ~InSomeList(p) PROVE ~InSomeList(p)'
      <3>1. \A r \in Queues : p \notin Set(list[r])
        BY <1>0, <2>3 DEF InSomeList, ListsOK
      <3> QED
        BY <1>2, <3>1 DEF InSomeList
    <2> QED
      BY <2>2, <2>3
  <1>5. OwnersTypeOK'
    <2>1. alive' \subseteq Queues
      BY <1>0 DEF OwnersTypeOK
    <2> QED
      BY <1>0, <1>1, <1>2, <1>3, <2>1 DEF OwnersTypeOK
  <1>6. ChainsOK'
    <2>1. ASSUME NEW r \in Queues \ alive'
          PROVE  list'[r] = <<>> /\ hash'[r] = r /\ entriesOf'[r] = Owners!NoEntries
      <3>1. r \in Queues \ alive /\ r # q /\ r # o /\ Other(q, o, r) = r
        BY DEF Other
      <3>2. list[r] = <<>> /\ hash[r] = r /\ entriesOf[r] = Owners!NoEntries
        BY <3>1 DEF OwnersInv, ChainsOK
      <3> QED
        BY <1>1, <1>2, <3>1, <3>2
    <2> QED
      BY <1>1, <2>1 DEF ChainsOK
  <1>7. ListsOK'
    <2> SUFFICES ASSUME NEW r \in Queues
                 PROVE  Once(list'[r]) /\ \A p \in Set(list'[r]) : parent'[p] = r
      BY DEF ListsOK
    <2> PICK w : w = Other(q, o, r)
      OBVIOUS
    <2>1. w \in Queues /\ list'[r] = list[w] /\ Other(q, o, w) = r
      BY <1>2 DEF Other
    <2>2. Once(list[w]) /\ Set(list[w]) \subseteq Producers /\ \A p \in Set(list[w]) : parent[p] = w
      BY <1>0, <2>1, SetIsOf DEF ListsOK, OwnersTypeOK
    <2>3. \A p \in Set(list[w]) : InSomeList(p)
      BY <2>1, <2>2 DEF InSomeList
    <2>4. \A p \in Set(list[w]) : parent'[p] = r
      <3> HIDE DEF InSomeList, Other
      <3> QED
        BY <1>3, <2>1, <2>2, <2>3
    <2> QED
      BY <2>1, <2>2, <2>4
  <1>8. \A k \in Tokens : TokenOfOK(k)'
    BY <1>4 DEF OwnersInv, TokenOfOK
  <1>9. \A p \in Producers : ProducerOK(p)'
    BY <1>4 DEF OwnersInv, ProducerOK, Subscribed
  <1>10. ASSUME NEW r \in Queues, NEW h \in TablesOf(r)', NEW t \in OwnerThreads
         PROVE  EntryOK(r, h, t)'
    <2> PICK w : w = Other(q, o, r)
      OBVIOUS
    <2>1. w \in Queues /\ list'[r] = list[w]
      BY <1>2
    <2>2. PICK g \in TablesOf(w) : entriesOf'[h] = entriesOf[g]
      BY <1>1 DEF SameEntries
    <2>3. EntryOK(w, g, t)
      BY <2>1 DEF OwnersInv
    <2> QED
      BY <2>1, <2>2, <2>3 DEF EntryOK
  <1>11. ASSUME NEW t \in OwnerThreads PROVE ListenersOK(t)'
    <2>1. ListenersOK(t) /\ Set(tail[t]) \subseteq Producers
      BY <1>0, SetIsOf DEF OwnersInv, OwnersTypeOK
    <2>2. ASSUME NEW p \in Set(tail[t])
          PROVE  /\ InSomeList(p)' /\ ~isExplicit'[p]
                 /\ \E h \in TablesOf(parent[p])' : entriesOf'[h][t] = p
      <3> PICK w, r : w = parent[p] /\ r = Other(q, o, w)
        OBVIOUS
      <3>1. InSomeList(p) /\ ~isExplicit[p] /\ w \in Queues
        BY <2>1 DEF ListenersOK, InSomeList
      <3>2. r \in Queues /\ Other(q, o, r) = w /\ parent'[p] = r
        BY <1>3, <2>1, <3>1 DEF Other
      <3>3. PICK g \in TablesOf(w) : entriesOf[g][t] = p
        BY <2>1 DEF ListenersOK
      <3>4. SameEntries(TablesOf(r)', TablesOf(w))
        BY <1>1, <3>2
      <3>5. PICK h \in TablesOf(r)' : entriesOf'[h] = entriesOf[g]
        BY <3>4 DEF SameEntries
      <3>6. TablesOf(parent[p])' = TablesOf(r)'
        BY <3>2 DEF TablesOf
      <3> QED
        BY <1>4, <2>1, <3>1, <3>3, <3>5, <3>6
    <2>3. ASSUME NEW p \in Set(tail[t]), NEW s \in Set(tail[t]), parent'[p] = parent'[s]
          PROVE  p = s
      <3>1. InSomeList(p) /\ InSomeList(s) /\ (parent[p] = parent[s] => p = s)
        BY <2>1 DEF ListenersOK
      <3>2. Other(q, o, parent[p]) = Other(q, o, parent[s])
        BY <1>3, <2>1, <2>3, <3>1
      <3> QED
        BY <3>1, <3>2 DEF Other
    <2> QED
      BY <2>1, <2>2, <2>3 DEF ListenersOK
  <1> QED
    BY <1>5, <1>6, <1>7, <1>8, <1>9, <1>10, <1>11 DEF OwnersInv

LEMMA SwapQueuesKeeps ==
  ASSUME OwnersInv, NEW q \in Queues, NEW o \in Queues, Owners!SwapQueues(q, o)
  PROVE  OwnersInv'
  <1>0. OwnersTypeOK /\ ListsOK
    BY DEF OwnersInv
  <1>1. /\ q \in alive /\ o \in alive /\ q # o /\ alive' = alive
        /\ list' = [list EXCEPT ![q] = list[o], ![o] = list[q]]
        /\ Owners!SwapHashes(q, o) /\ Owners!Reown([r \in {q, o} |-> list'[r]])
        /\ UNCHANGED <<isExplicit, tokenOf, inactiveOf, producerOf, tail>>
    BY DEF Owners!SwapQueues
  <1>2. list'[q] = list[o] /\ list'[o] = list[q]
    BY <1>0, <1>1 DEF OwnersTypeOK
  <1>3. ASSUME NEW p \in Producers
        PROVE  parent'[p] = IF p \in Set(list[o]) THEN q
                            ELSE IF p \in Set(list[q]) THEN o ELSE parent[p]
    <2> PICK l : l = [r \in {q, o} |-> list'[r]]
      OBVIOUS
    <2>1. /\ DOMAIN l = {q, o}
          /\ \A r \in {q, o} : p \in Owners!InList(l[r]) <=> \/ r = q /\ p \in Set(list[o])
                                                             \/ r = o /\ p \in Set(list[q])
      BY <1>1, <1>2, SetsOfLists
    <2>2. parent'[p] = IF \E r \in {q, o} : p \in Owners!InList(l[r])
                       THEN CHOOSE r \in {q, o} : p \in Owners!InList(l[r]) ELSE parent[p]
      BY <1>1, <2>1 DEF Owners!Reown
    <2>3. p \notin Set(list[q]) \/ p \notin Set(list[o])
      BY <1>0, <1>1 DEF ListsOK
    <2> QED
      BY <2>1, <2>2, <2>3
  <1>4. parent' = [p \in Producers |-> IF p \in Set(list[o]) THEN q
                                      ELSE IF p \in Set(list[q]) THEN o ELSE parent[p]]
    BY <1>1, <1>3 DEF Owners!Reown
  <1>5. alive' = alive \union {q, o}
    BY <1>1
  <1> QED
    BY <1>1, <1>4, <1>5, SwapKeeps

LEMMA MoveConstructKeeps ==
  ASSUME OwnersInv, NEW q \in Queues, NEW o \in Queues, Owners!MoveConstruct(q, o)
  PROVE  OwnersInv'
  <1>0. OwnersTypeOK /\ ListsOK
    BY DEF OwnersInv
  <1>1. /\ q \notin alive /\ o \in alive /\ q # o /\ alive' = alive \union {q}
        /\ list' = [list EXCEPT ![q] = list[o], ![o] = <<>>]
        /\ Owners!SwapHashes(q, o) /\ Owners!Reown([r \in {q} |-> list[o]])
        /\ UNCHANGED <<isExplicit, tokenOf, inactiveOf, producerOf, tail>>
    BY DEF Owners!MoveConstruct
  <1>2. list[q] = <<>> /\ Set(list[q]) = {}
    BY <1>1, SetsOfLists DEF OwnersInv, ChainsOK
  <1>3. ASSUME NEW p \in Producers
        PROVE  parent'[p] = IF p \in Set(list[o]) THEN q ELSE parent[p]
    <2> PICK l : l = [r \in {q} |-> list[o]]
      OBVIOUS
    <2>1. /\ DOMAIN l = {q}
          /\ \A r \in {q} : p \in Owners!InList(l[r]) <=> p \in Set(list[o])
      BY SetsOfLists
    <2>2. parent'[p] = IF \E r \in {q} : p \in Owners!InList(l[r])
                       THEN CHOOSE r \in {q} : p \in Owners!InList(l[r]) ELSE parent[p]
      BY <1>1, <2>1 DEF Owners!Reown
    <2> QED
      BY <2>1, <2>2
  <1>4. parent' = [p \in Producers |-> IF p \in Set(list[o]) THEN q
                                      ELSE IF p \in Set(list[q]) THEN o ELSE parent[p]]
    BY <1>1, <1>2, <1>3 DEF Owners!Reown
  <1>5. alive' = alive \union {q, o} /\ list' = [list EXCEPT ![q] = list[o], ![o] = list[q]]
    BY <1>1, <1>2
  <1> QED
    BY <1>1, <1>4, <1>5, SwapKeeps

(* An element is put after the others. *)
LEMMA OnceLonger ==
  ASSUME NEW S, NEW s \in Seq(S), NEW n \in S
  PROVE  /\ Append(s, n) \in Seq(S) /\ Set(Append(s, n)) = Set(s) \union {n}
         /\ Once(s) /\ n \notin Set(s) => Once(Append(s, n))
  <1> PICK r : r = Append(s, n)
    OBVIOUS
  <1>1. /\ r \in Seq(S) /\ Len(s) \in Nat /\ Len(r) = Len(s) + 1
        /\ \A i \in 1..Len(r) : r[i] = IF i = Len(s) + 1 THEN n ELSE s[i]
    BY AppendProperties
  <1>2. /\ \A x : x \in Set(r) <=> \E i \in 1..Len(r) : x = r[i]
        /\ \A x : x \in Set(s) <=> \E i \in 1..Len(s) : x = s[i]
    BY DEF Set
  <1>3. Set(r) = Set(s) \union {n}
    <2>1. Len(s) + 1 \in 1..Len(r) /\ \A i \in 1..Len(s) : i \in 1..Len(r) /\ i # Len(s) + 1
      BY <1>1
    <2>2. \A i \in 1..Len(r) : i = Len(s) + 1 \/ i \in 1..Len(s)
      BY <1>1
    <2>3. \A x : x \in Set(r) <=> x \in Set(s) \/ x = n
      BY <1>1, <1>2, <2>1, <2>2
    <2> QED
      BY <2>3
  <1>4. ASSUME Once(s), n \notin Set(s), NEW i \in 1..Len(r), NEW j \in 1..Len(r), r[i] = r[j]
        PROVE  i = j
    <2>1. \A k \in 1..Len(r) : k # Len(s) + 1 => k \in 1..Len(s) /\ r[k] = s[k] /\ r[k] # n
      BY <1>1, <1>2, <1>4
    <2>2. r[Len(s) + 1] = n
      BY <1>1
    <2> QED
      BY <1>4, <2>1, <2>2 DEF Once
  <1> QED
    BY <1>1, <1>3, <1>4 DEF Once

(* What is left of a list of listeners. *)
Rest(s, P, k, f) ==
  IF k = 0 THEN <<>> ELSE IF s[k] \in P THEN f[k - 1] ELSE Append(f[k - 1], s[k])

LEMMA RestExists ==
  ASSUME NEW s, NEW P, NEW n \in Nat
  PROVE  \E f : f = [k \in 0..n |-> Rest(s, P, k, f)]
  <1> DEFINE Right(f, m) == f = [k \in 0..m |-> Rest(s, P, k, f)]
             T == {m \in Nat : ~\E f : Right(f, m)}
  <1>1. Right([k \in 0..0 |-> <<>>], 0)
    BY DEF Rest
  <1>2. ASSUME NEW m \in Nat, NEW f, Right(f, m) PROVE \E g : Right(g, m + 1)
    <2> PICK g : g = [k \in 0..(m + 1) |-> IF k = m + 1 THEN Rest(s, P, m + 1, f) ELSE f[k]]
      OBVIOUS
    <2>1. \A k \in 0..(m + 1) : k # 0 => k - 1 \in 0..m /\ k - 1 \in 0..(m + 1) /\ k - 1 # m + 1
      OBVIOUS
    <2>2. \A k \in 0..(m + 1) : k # 0 => g[k - 1] = f[k - 1]
      BY <2>1
    <2>3. \A k \in 0..(m + 1) : Rest(s, P, k, g) = Rest(s, P, k, f)
      BY <2>2 DEF Rest
    <2>4. \A k \in 0..m : f[k] = Rest(s, P, k, f)
      BY <1>2
    <2>5. \A k \in 0..(m + 1) : g[k] = Rest(s, P, k, f)
      <3>1. \A k \in 0..(m + 1) : k # m + 1 => k \in 0..m
        OBVIOUS
      <3> HIDE DEF Right
      <3> QED
        BY <2>4, <3>1
    <2>6. g = [k \in 0..(m + 1) |-> g[k]]
      OBVIOUS
    <2>7. Right(g, m + 1)
      <3> HIDE DEF Rest
      <3> QED
        BY <2>3, <2>5, <2>6
    <2> QED
      BY <2>7
  <1>3. T = {}
    <2> SUFFICES ASSUME T # {} PROVE FALSE
      OBVIOUS
    <2> HIDE DEF Right
    <2>1. PICK m \in T : \A k \in T : m <= k
      BY LeastNumber
    <2>2. m # 0 /\ m \in Nat /\ m - 1 \in Nat /\ m - 1 \notin T /\ (m - 1) + 1 = m
      BY <1>1, <2>1
    <2>3. PICK f : Right(f, m - 1)
      BY <2>2
    <2> QED
      BY <1>2, <2>1, <2>2, <2>3
  <1> QED
    BY <1>3

(* It keeps the others, in their order. *)
LEMMA UnsubscribedIs ==
  ASSUME NEW S, NEW s \in Seq(S), NEW P
  PROVE  /\ Owners!Unsubscribed(s, P) \in Seq(S)
         /\ Set(Owners!Unsubscribed(s, P)) = Set(s) \ P
         /\ Once(s) => Once(Owners!Unsubscribed(s, P))
  <1> DEFINE f == CHOOSE g : g = [k \in 0..Len(s) |-> Rest(s, P, k, g)]
             upTo(k) == {s[i] : i \in 1..k}
             Good(k) == /\ f[k] \in Seq(S) /\ Set(f[k]) = upTo(k) \ P
                        /\ Once(s) => Once(f[k])
             T == {k \in 0..Len(s) : ~Good(k)}
  <1>0. Len(s) \in Nat /\ \A i \in 1..Len(s) : s[i] \in S
    OBVIOUS
  <1>1. Owners!Unsubscribed(s, P) = f[Len(s)]
    BY DEF Owners!Unsubscribed, Rest
  <1>2. f = [k \in 0..Len(s) |-> Rest(s, P, k, f)]
    BY <1>0, RestExists
  <1>3. \A k \in 0..Len(s) : f[k] = Rest(s, P, k, f)
    <2> HIDE DEF f
    <2> QED
      BY <1>2
  <1> HIDE DEF f
  <1>4. Good(0)
    <2>1. f[0] = <<>>
      BY <1>0, <1>3 DEF Rest
    <2> QED
      BY <2>1, SetsOfLists
  <1>5. ASSUME NEW k \in 1..Len(s), Good(k - 1) PROVE Good(k)
    <2>1. k \in 0..Len(s) /\ k # 0 /\ s[k] \in S
      BY <1>0
    <2>2. upTo(k) = upTo(k - 1) \union {s[k]}
      <3>1. \A i \in 1..k : i = k \/ i \in 1..(k - 1)
        OBVIOUS
      <3>2. k \in 1..k /\ \A i \in 1..(k - 1) : i \in 1..k
        OBVIOUS
      <3> QED
        BY <3>1, <3>2
    <2>3. CASE s[k] \in P
      <3>1. f[k] = f[k - 1]
        BY <1>3, <2>1, <2>3 DEF Rest
      <3>2. upTo(k) \ P = upTo(k - 1) \ P
        BY <2>2, <2>3
      <3> QED
        BY <1>5, <3>1, <3>2
    <2>4. CASE s[k] \notin P
      <3>1. f[k] = Append(f[k - 1], s[k])
        BY <1>3, <2>1, <2>4 DEF Rest
      <3>2. Once(s) => s[k] \notin upTo(k - 1)
        BY DEF Once
      <3>3. /\ Append(f[k - 1], s[k]) \in Seq(S)
            /\ Set(Append(f[k - 1], s[k])) = Set(f[k - 1]) \union {s[k]}
            /\ Once(f[k - 1]) /\ s[k] \notin Set(f[k - 1]) => Once(Append(f[k - 1], s[k]))
        BY <1>5, <2>1, OnceLonger
      <3>4. upTo(k) \ P = (upTo(k - 1) \ P) \union {s[k]}
        BY <2>2, <2>4
      <3> QED
        BY <1>5, <3>1, <3>2, <3>3, <3>4
    <2> QED
      BY <2>3, <2>4
  <1>6. T = {}
    <2> SUFFICES ASSUME T # {} PROVE FALSE
      OBVIOUS
    <2> HIDE DEF Good
    <2>0. T \in SUBSET Nat
      BY <1>0
    <2>1. PICK m \in T : \A k \in T : m <= k
      BY <2>0, LeastNumber
    <2>2. m \in 1..Len(s) /\ m - 1 \notin T /\ m - 1 \in 0..Len(s)
      BY <1>0, <1>4, <2>1
    <2> QED
      BY <1>5, <2>1, <2>2
  <1>7. Good(Len(s))
    <2> HIDE DEF Good
    <2>1. Len(s) \in 0..Len(s)
      BY <1>0
    <2> QED
      BY <1>6, <2>1
  <1>8. upTo(Len(s)) = Set(s)
    BY DEF Set
  <1> QED
    BY <1>1, <1>7, <1>8

(* Nothing is left of a queue: its tokens have no producer, its producers    *)
(* have no listeners, and its tables are free.                               *)
LEMMA DestroyKeeps ==
  ASSUME OwnersInv, NEW q \in Queues, Owners!Destroy(q)
  PROVE  OwnersInv'
  <1> PICK gone : gone = Set(list[q])
    OBVIOUS
  <1>0. /\ OwnersTypeOK /\ ListsOK /\ gone \subseteq Producers
        /\ Owners!Null \notin Links /\ Owners!Null \notin Producers /\ Owners!NoToken \notin Producers
    BY SetIsOf, OwnersConstants DEF OwnersInv, OwnersTypeOK
  <1>1. /\ alive' = alive \ {q}
        /\ producerOf' = [k \in Tokens |-> IF \E p \in gone : tokenOf[p] = k THEN Owners!Null
                                         ELSE producerOf[k]]
        /\ tail' = [t \in OwnerThreads |->
                      Owners!Unsubscribed(tail[t], {p \in gone : ~inactiveOf[p]})]
        /\ list' = [list EXCEPT ![q] = <<>>]
        /\ isExplicit' = [p \in Producers |-> isExplicit[p] /\ p \notin gone]
        /\ parent' = [p \in Producers |-> IF p \in gone THEN Owners!Null ELSE parent[p]]
        /\ tokenOf' = [p \in Producers |-> IF p \in gone THEN Owners!Null ELSE tokenOf[p]]
        /\ inactiveOf' = [p \in Producers |-> inactiveOf[p] /\ p \notin gone]
        /\ hash' = [hash EXCEPT ![q] = q]
    BY SetsOfLists DEF Owners!Destroy
  <1>2. /\ prev' = [h \in Links |-> IF h \in TablesOf(q) THEN Owners!Null ELSE prev[h]]
        /\ entriesOf' = [h \in Links |-> IF h \in TablesOf(q) THEN Owners!NoEntries
                                       ELSE entriesOf[h]]
    <2>1. DOMAIN prev = Links /\ DOMAIN entriesOf = Links
      BY <1>0 DEF OwnersTypeOK
    <2>2. Owners!Chain(hash[q]) = TablesOf(q)
      BY ChainsAreReached DEF TablesOf
    <2> QED
      BY <2>1, <2>2 DEF Owners!Destroy
  <1>3. /\ \A r \in Queues : /\ IsChain(TablesOf(r), hash[r], r, prev) /\ r \in TablesOf(r)
                             /\ TablesOf(r) \subseteq Links
        /\ \A r \in Queues \ {q} : TablesOf(r) \cap TablesOf(q) = {}
    BY ChainHas DEF OwnersInv, ChainsOK, Links
  <1>4. \A p \in gone : InSomeList(p) /\ parent[p] = q
    BY <1>0 DEF ListsOK, InSomeList
  <1>5. /\ producerOf' \in [Tokens -> Producers \union {Owners!Null, Owners!NoToken}]
        /\ list' \in [Queues -> Seq(Producers)]
        /\ isExplicit' \in [Producers -> BOOLEAN] /\ inactiveOf' \in [Producers -> BOOLEAN]
        /\ parent' \in [Producers -> Queues \union {Owners!Null}]
        /\ tokenOf' \in [Producers -> Tokens \union {Owners!Null}]
        /\ hash' \in [Queues -> Links]
    <2>1. q \in Links
      BY DEF Links
    <2> QED
      BY <1>0, <1>1, <2>1 DEF OwnersTypeOK
  <1>6. /\ prev' \in [Links -> Links \union {Owners!Null}]
        /\ entriesOf' \in [Links -> [OwnerThreads -> Producers \union {Owners!Null}]]
        /\ \A h \in TablesOf(q) : prev'[h] = Owners!Null /\ entriesOf'[h] = Owners!NoEntries
        /\ \A r \in Queues \ {q} : \A h \in TablesOf(r) :
             prev'[h] = prev[h] /\ entriesOf'[h] = entriesOf[h]
    <2>1. Owners!NoEntries \in [OwnerThreads -> Producers \union {Owners!Null}]
      BY DEF Owners!NoEntries
    <2>2. /\ prev' \in [Links -> Links \union {Owners!Null}]
          /\ entriesOf' \in [Links -> [OwnerThreads -> Producers \union {Owners!Null}]]
      BY <1>0, <1>2, <2>1 DEF OwnersTypeOK
    <2> HIDE DEF TablesOf
    <2> QED
      BY <1>2, <1>3, <2>2
  <1>7. /\ list'[q] = <<>> /\ Set(list'[q]) = {} /\ Once(list'[q]) /\ hash'[q] = q
        /\ \A r \in Queues \ {q} : list'[r] = list[r] /\ hash'[r] = hash[r]
    BY <1>0, <1>1, SetsOfLists DEF OwnersTypeOK
  <1>8. /\ \A p \in gone : parent'[p] = Owners!Null
        /\ \A p \in Producers \ gone :
             /\ parent'[p] = parent[p] /\ tokenOf'[p] = tokenOf[p]
             /\ isExplicit'[p] = isExplicit[p] /\ inactiveOf'[p] = inactiveOf[p]
    BY <1>0, <1>1 DEF OwnersTypeOK
  <1>9. \A p \in Producers : InSomeList(p)' <=> InSomeList(p) /\ p \notin gone
    <2>1. ASSUME NEW p \in gone PROVE ~InSomeList(p)'
      BY <1>0, <1>8 DEF InSomeList, Links
    <2>2. ASSUME NEW p \in Producers \ gone PROVE InSomeList(p)' <=> InSomeList(p)
      BY <1>7, <1>8 DEF InSomeList
    <2> QED
      BY <2>1, <2>2
  <1>10. ASSUME NEW t \in OwnerThreads
         PROVE  /\ tail'[t] \in Seq(Producers) /\ Once(tail'[t])
                /\ Set(tail'[t]) = Set(tail[t]) \ gone
    <2>1. tail[t] \in Seq(Producers) /\ Once(tail[t])
      BY <1>0 DEF OwnersInv, OwnersTypeOK, ListenersOK
    <2> PICK P : P = {p \in gone : ~inactiveOf[p]}
      OBVIOUS
    <2>2. tail'[t] = Owners!Unsubscribed(tail[t], P)
      BY <1>1
    <2>3. \A p \in gone : p \in Set(tail[t]) => p \in P
      <3> SUFFICES ASSUME NEW p \in gone, p \in Set(tail[t]) PROVE ~inactiveOf[p]
        OBVIOUS
      <3>1. Subscribed(p) /\ ~isExplicit[p]
        BY DEF OwnersInv, ListenersOK, Subscribed
      <3>2. ProducerOK(p) /\ InSomeList(p)
        BY <1>0, <1>4 DEF OwnersInv
      <3> QED
        BY <3>1, <3>2 DEF ProducerOK
    <2>4. P \subseteq gone
      OBVIOUS
    <2>5. Set(tail[t]) \ P = Set(tail[t]) \ gone
      BY <2>3, <2>4
    <2> QED
      BY <2>1, <2>2, <2>5, UnsubscribedIs
  <1>11. OwnersTypeOK'
    <2>1. tail' \in [OwnerThreads -> Seq(Producers)]
      BY <1>1, <1>10
    <2>2. alive' \subseteq Queues
      BY <1>0, <1>1 DEF OwnersTypeOK
    <2> QED
      BY <1>5, <1>6, <2>1, <2>2 DEF OwnersTypeOK
  <1>12. IsChain({q}, q, q, prev') /\ TablesOf(q)' = {q}
    <2>1. IsChain({q}, q, q, prev')
      BY <1>3, <1>6, ChainOfOne
    <2>2. Reached(q, prev') = {q}
      BY <2>1, ChainReached
    <2> QED
      BY <1>7, <2>1, <2>2 DEF TablesOf
  <1>13. ASSUME NEW r \in Queues \ {q}
         PROVE  IsChain(TablesOf(r), hash[r], r, prev') /\ TablesOf(r)' = TablesOf(r)
    <2>1. IsChain(TablesOf(r), hash[r], r, prev')
      BY <1>3, <1>6, ChainKept
    <2>2. Reached(hash[r], prev') = TablesOf(r)
      BY <2>1, ChainReached
    <2> QED
      BY <1>7, <2>1, <2>2 DEF TablesOf
  <1>14. ChainsOK'
    <2>1. ASSUME NEW r \in Queues PROVE IsChain(TablesOf(r)', hash'[r], r, prev')
      <3>1. CASE r = q
        BY <1>7, <1>12, <3>1
      <3>2. CASE r # q
        <4>1. IsChain(TablesOf(r), hash[r], r, prev') /\ TablesOf(r)' = TablesOf(r)
          BY <1>13, <3>2
        <4> QED
          BY <1>7, <3>2, <4>1
      <3> QED
        BY <3>1, <3>2
    <2>2. ASSUME NEW r \in Queues, NEW w \in Queues, r # w
          PROVE  TablesOf(r)' \cap TablesOf(w)' = {}
      <3>1. TablesOf(r) \cap TablesOf(w) = {}
        BY <2>2 DEF OwnersInv, ChainsOK
      <3>2. TablesOf(r)' \subseteq TablesOf(r) /\ TablesOf(w)' \subseteq TablesOf(w)
        BY <1>3, <1>12, <1>13
      <3> QED
        BY <3>1, <3>2
    <2>3. ASSUME NEW r \in Queues \ alive'
          PROVE  list'[r] = <<>> /\ hash'[r] = r /\ entriesOf'[r] = Owners!NoEntries
      <3>1. CASE r = q
        BY <1>3, <1>6, <1>7, <3>1
      <3>2. CASE r # q
        <4>1. r \in Queues \ alive /\ r \in TablesOf(r)
          BY <1>1, <1>3, <3>2
        <4> QED
          BY <1>6, <1>7, <3>2, <4>1 DEF OwnersInv, ChainsOK
      <3> QED
        BY <3>1, <3>2
    <2> QED
      BY <2>1, <2>2, <2>3 DEF ChainsOK
  <1>15. ListsOK'
    <2> SUFFICES ASSUME NEW r \in Queues
                 PROVE  Once(list'[r]) /\ \A p \in Set(list'[r]) : parent'[p] = r
      BY DEF ListsOK
    <2>1. CASE r = q
      BY <1>7, <2>1
    <2>2. CASE r # q
      <3>1. Once(list[r]) /\ \A p \in Set(list[r]) : parent[p] = r /\ p \in Producers
        BY <1>0, SetIsOf DEF ListsOK, OwnersTypeOK
      <3>2. \A p \in Set(list[r]) : p \notin gone
        BY <1>4, <2>2, <3>1
      <3> QED
        BY <1>7, <1>8, <2>2, <3>1, <3>2
    <2> QED
      BY <2>1, <2>2
  <1>16. ASSUME NEW k \in Tokens PROVE TokenOfOK(k)'
    <2>1. CASE producerOf'[k] \notin Producers
      BY <2>1 DEF TokenOfOK
    <2>2. CASE producerOf'[k] \in Producers
      <3>1. producerOf'[k] = producerOf[k] /\ \A p \in gone : tokenOf[p] # k
        BY <1>0, <1>1, <2>2
      <3>2. /\ InSomeList(producerOf[k]) /\ isExplicit[producerOf[k]]
            /\ tokenOf[producerOf[k]] = k /\ ~inactiveOf[producerOf[k]]
        BY <2>2, <3>1 DEF OwnersInv, TokenOfOK
      <3> PICK p \in Producers \ gone : p = producerOf'[k]
        BY <2>2, <3>1, <3>2
      <3>3. /\ InSomeList(p)' /\ isExplicit'[p] /\ tokenOf'[p] = k /\ ~inactiveOf'[p]
        BY <1>8, <1>9, <3>1, <3>2
      <3> QED
        BY <3>3 DEF TokenOfOK, InSomeList
    <2> QED
      BY <2>1, <2>2
  <1>17. ASSUME NEW p \in Producers PROVE ProducerOK(p)'
    <2>1. CASE p \in gone
      BY <1>9, <2>1 DEF ProducerOK
    <2>2. CASE p \notin gone
      <3>1. ProducerOK(p) /\ tokenOf[p] \in Tokens \union {Owners!Null}
        BY <1>0 DEF OwnersInv, OwnersTypeOK
      <3>2. Subscribed(p)' <=> Subscribed(p)
        BY <1>10, <2>2 DEF Subscribed
      <3>3. InSomeList(p) /\ tokenOf[p] # Owners!Null => producerOf'[tokenOf[p]] = p
        <4> SUFFICES ASSUME InSomeList(p), tokenOf[p] # Owners!Null PROVE producerOf'[tokenOf[p]] = p
          OBVIOUS
        <4>1. producerOf[tokenOf[p]] = p
          BY <3>1 DEF ProducerOK
        <4>2. ASSUME NEW r \in gone, tokenOf[r] = tokenOf[p] PROVE FALSE
          <5>1. ProducerOK(r) /\ InSomeList(r)
            BY <1>0, <1>4 DEF OwnersInv
          <5> QED
            BY <2>2, <4>1, <4>2, <5>1 DEF ProducerOK
        <4> QED
          BY <1>1, <3>1, <4>1, <4>2
      <3> QED
        BY <1>8, <1>9, <2>2, <3>1, <3>2, <3>3 DEF ProducerOK
    <2> QED
      BY <2>1, <2>2
  <1>18. ASSUME NEW r \in Queues, NEW h \in TablesOf(r)', NEW t \in OwnerThreads
         PROVE  EntryOK(r, h, t)'
    <2>1. CASE r = q
      <3>1. entriesOf'[h] = Owners!NoEntries
        BY <1>3, <1>6, <1>12, <2>1
      <3> QED
        BY <3>1 DEF EntryOK, Owners!NoEntries
    <2>2. CASE r # q
      <3>1. h \in TablesOf(r) /\ entriesOf'[h] = entriesOf[h] /\ EntryOK(r, h, t)
        BY <1>6, <1>13, <2>2 DEF OwnersInv
      <3>2. \A p \in Set(list[r]) : p \notin gone
        BY <1>0, <1>4, <2>2 DEF ListsOK
      <3> QED
        BY <1>7, <1>10, <2>2, <3>1, <3>2 DEF EntryOK
    <2> QED
      BY <2>1, <2>2
  <1>19. ASSUME NEW t \in OwnerThreads PROVE ListenersOK(t)'
    <2>1. ListenersOK(t) /\ Set(tail[t]) \subseteq Producers
      BY <1>0, SetIsOf DEF OwnersInv, OwnersTypeOK
    <2>2. ASSUME NEW p \in Set(tail'[t])
          PROVE  /\ InSomeList(p)' /\ ~isExplicit'[p] /\ parent'[p] = parent[p]
                 /\ \E h \in TablesOf(parent[p])' : entriesOf'[h][t] = p
      <3>1. p \in Set(tail[t]) /\ p \in Producers \ gone
        BY <1>10, <2>1
      <3>2. InSomeList(p) /\ ~isExplicit[p]
        BY <2>1, <3>1 DEF ListenersOK
      <3>3. InSomeList(p)' /\ ~isExplicit'[p] /\ parent'[p] = parent[p]
        BY <1>8, <1>9, <3>1, <3>2
      <3>4. parent[p] \in Queues \ {q}
        BY <3>1, <3>2 DEF InSomeList
      <3>5. PICK h \in TablesOf(parent[p]) : entriesOf[h][t] = p
        BY <2>1, <3>1 DEF ListenersOK
      <3>6. entriesOf'[h][t] = p /\ TablesOf(parent[p])' = Reached(hash'[parent[p]], prev')
        BY <1>6, <3>3, <3>4, <3>5 DEF TablesOf
      <3>7. Reached(hash'[parent[p]], prev') = TablesOf(parent[p])
        <4>1. \A r \in Queues \ {q} : Reached(hash'[r], prev') = TablesOf(r)
          BY <1>13 DEF TablesOf
        <4> QED
          BY <3>4, <4>1
      <3> QED
        BY <3>3, <3>5, <3>6, <3>7
    <2>3. \A p, r \in Set(tail'[t]) : parent'[p] = parent'[r] => p = r
      <3>1. \A p, r \in Set(tail[t]) : parent[p] = parent[r] => p = r
        BY <2>1 DEF ListenersOK
      <3>2. \A p \in Set(tail'[t]) : p \in Set(tail[t]) /\ parent'[p] = parent[p]
        BY <1>10, <2>2
      <3> QED
        BY <3>1, <3>2
    <2>4. \A u \in OwnerThreads \ {t} : Set(tail'[t]) \cap Set(tail'[u]) = {}
      <3>1. \A u \in OwnerThreads \ {t} : Set(tail[t]) \cap Set(tail[u]) = {}
        BY <2>1 DEF ListenersOK
      <3> QED
        BY <1>10, <3>1
    <2>5. Once(tail'[t])
      BY <1>10
    <2> QED
      BY <2>2, <2>3, <2>4, <2>5 DEF ListenersOK
  <1> QED
    BY <1>11, <1>14, <1>15, <1>16, <1>17, <1>18, <1>19 DEF OwnersInv

(* Another component runs. *)
LEMMA OwnersSame == ASSUME OwnersInv, UNCHANGED ownerVars PROVE OwnersInv'
  <1>1. UNCHANGED <<alive, list, isExplicit, parent, tokenOf, inactiveOf, producerOf, hash, prev,
                    entriesOf, tail>>
    BY DEF ownerVars
  <1>2. \A q \in Queues : TablesOf(q)' = TablesOf(q)
    BY <1>1 DEF TablesOf
  <1>3. OwnersTypeOK' /\ ListsOK' /\ \A k \in Tokens : TokenOfOK(k)'
    BY <1>1 DEF OwnersInv, OwnersTypeOK, ListsOK, TokenOfOK, InSomeList
  <1>4. ChainsOK' /\ \A p \in Producers : ProducerOK(p)'
    BY <1>1, <1>2 DEF OwnersInv, ChainsOK, ProducerOK, InSomeList, Subscribed
  <1>5. \A q \in Queues : \A h \in TablesOf(q)' : \A t \in OwnerThreads : EntryOK(q, h, t)'
    BY <1>1, <1>2 DEF OwnersInv, EntryOK
  <1>6. \A t \in OwnerThreads : ListenersOK(t)'
    BY <1>1, <1>2 DEF OwnersInv, ListenersOK, InSomeList
  <1> QED
    BY <1>3, <1>4, <1>5, <1>6 DEF OwnersInv

LEMMA OwnersStep ==
  ASSUME OwnersInv, [Owners!Next]_ownerVars
  PROVE  OwnersInv'
  <1>1. CASE UNCHANGED ownerVars
    BY <1>1, OwnersSame
  <1>2. ASSUME NEW k \in Tokens, NEW q \in Queues, Owners!NewToken(k, q) PROVE OwnersInv'
    BY <1>2, NewTokenKeeps
  <1>3. ASSUME NEW k \in Tokens, NEW other \in Tokens,
               Owners!MoveToken(k, other) \/ Owners!SwapTokens(k, other)
        PROVE  OwnersInv'
    BY <1>3, MoveTokenKeeps, SwapTokensKeeps
  <1>4. ASSUME NEW k \in Tokens, Owners!DestroyToken(k) PROVE OwnersInv'
    BY <1>4, DestroyTokenKeeps
  <1>5. ASSUME NEW t \in OwnerThreads, NEW q \in Queues,
               Owners!Enqueue(t, q) \/ Owners!FirstEnqueue(t, q)
        PROVE  OwnersInv'
    BY <1>5, EnqueueKeeps, FirstEnqueueKeeps
  <1>6. ASSUME NEW t \in OwnerThreads, Owners!ThreadExit(t) PROVE OwnersInv'
    BY <1>6, ThreadExitKeeps
  <1>7. ASSUME NEW q \in Queues, Owners!Construct(q) \/ Owners!Destroy(q) PROVE OwnersInv'
    BY <1>7, ConstructKeeps, DestroyKeeps
  <1>8. ASSUME NEW q \in Queues, NEW other \in Queues,
               Owners!MoveConstruct(q, other) \/ Owners!SwapQueues(q, other)
        PROVE  OwnersInv'
    BY <1>8, MoveConstructKeeps, SwapQueuesKeeps
  <1> QED
    BY <1>1, <1>2, <1>3, <1>4, <1>5, <1>6, <1>7, <1>8 DEF Owners!Next

(* Every member of a list has one place in it.                               *)
LEMMA OnceCounts ==
  ASSUME NEW S, NEW s \in Seq(S), Once(s)
  PROVE  Cardinality(Set(s)) = Len(s)
  <1>1. Len(s) \in Nat
    OBVIOUS
  <1> DEFINE f == [i \in 1..Len(s) |-> s[i]]
  <1>2. f \in Bijection(1..Len(s), Set(s))
    <2>1. f \in [1..Len(s) -> Set(s)] /\ \A x \in Set(s) : \E i \in 1..Len(s) : f[i] = x
      BY DEF Set
    <2>2. \A i, j \in 1..Len(s) : f[i] = f[j] => i = j
      BY DEF Once
    <2> HIDE DEF f
    <2> QED
      BY <2>1, <2>2 DEF Bijection, Injection, Surjection, IsInjective
  <1>3. ExistsBijection(1..Len(s), Set(s))
    BY <1>2 DEF ExistsBijection
  <1> QED
    BY <1>1, <1>3, FS_CountingElements

(* And if no two of them have the same parent, as many parents.              *)
LEMMA ParentsCount ==
  ASSUME NEW S, NEW s \in Seq(S), Once(s),
         \A p, r \in Set(s) : parent[p] = parent[r] => p = r
  PROVE  Cardinality({parent[p] : p \in Set(s)}) = Len(s)
  <1>1. Len(s) \in Nat
    OBVIOUS
  <1> DEFINE f == [i \in 1..Len(s) |-> parent[s[i]]]
             P == {parent[p] : p \in Set(s)}
  <1>2. f \in Bijection(1..Len(s), P)
    <2>1. f \in [1..Len(s) -> P] /\ \A x \in P : \E i \in 1..Len(s) : f[i] = x
      BY DEF Set
    <2>2. \A i, j \in 1..Len(s) : f[i] = f[j] => i = j
      <3>1. \A i \in 1..Len(s) : s[i] \in Set(s)
        BY DEF Set
      <3> QED
        BY <3>1 DEF Once
    <2> HIDE DEF f, P
    <2> QED
      BY <2>1, <2>2 DEF Bijection, Injection, Surjection, IsInjective
  <1>3. ExistsBijection(1..Len(s), P)
    BY <1>2 DEF ExistsBijection
  <1> QED
    BY <1>1, <1>3, FS_CountingElements

(* A producer that is in some list is in the list of a queue that exists.    *)
LEMMA ListedProducers ==
  ASSUME OwnersInv, NEW p, InSomeList(p)
  PROVE  p \in Owners!Listed
  <1>1. parent[p] \in alive /\ p \in Set(list[parent[p]])
    BY SetsOfLists DEF OwnersInv, ChainsOK, InSomeList
  <1> QED
    BY <1>1, SetsOfLists DEF Owners!Listed

LEMMA OwnersInvAgree == OwnersInv => Owners!OwnersAgree
  <1> SUFFICES ASSUME OwnersInv PROVE Owners!OwnersAgree
    OBVIOUS
  <1>0. /\ OwnersTypeOK /\ ListsOK /\ \A s : Owners!InList(s) = Set(s)
        /\ \A r : Owners!Chain(hash[r]) = TablesOf(r)
        /\ \A C : Owners!Cardinality(C) = Cardinality(C)
    BY SetsOfLists, ChainsAreReached, SameCardinality DEF OwnersInv, TablesOf
  <1>1. ASSUME NEW k \in Tokens, producerOf[k] \notin {Owners!Null, Owners!NoToken},
               NEW p, p = producerOf[k]
        PROVE  p \in Owners!Listed /\ isExplicit[p] /\ tokenOf[p] = k /\ ~inactiveOf[p]
    <2>1. p \in Producers /\ TokenOfOK(k)
      BY <1>0, <1>1 DEF OwnersInv, OwnersTypeOK
    <2> QED
      BY <1>1, <2>1, ListedProducers DEF TokenOfOK
  <1>2. ASSUME NEW q \in alive
        PROVE  /\ Owners!Cardinality(Owners!InList(list[q])) = Len(list[q])
               /\ \A p \in Owners!InList(list[q]) :
                    /\ parent[p] = q
                    /\ tokenOf[p] # Owners!Null => producerOf[tokenOf[p]] = p
                    /\ isExplicit[p] => (inactiveOf[p] <=> tokenOf[p] = Owners!Null)
                    /\ ~isExplicit[p] =>
                         (inactiveOf[p] <=> \A t \in OwnerThreads : p \notin Owners!InList(tail[t]))
    <2>1. q \in Queues /\ list[q] \in Seq(Producers) /\ Once(list[q])
      BY <1>0 DEF OwnersTypeOK, ListsOK
    <2>2. Cardinality(Set(list[q])) = Len(list[q])
      BY <2>1, OnceCounts
    <2>3. \A p \in Set(list[q]) : p \in Producers /\ parent[p] = q /\ InSomeList(p) /\ ProducerOK(p)
      BY <1>0, <2>1, SetIsOf DEF OwnersInv, ListsOK, InSomeList
    <2> QED
      BY <1>0, <2>2, <2>3 DEF ProducerOK, Subscribed
  <1>3. ASSUME NEW q \in alive
        PROVE  /\ {h \in Owners!Chain(hash[q]) : prev[h] = Owners!Null} = {q}
               /\ \A r \in alive \ {q} :
                    Owners!Chain(hash[q]) \cap Owners!Chain(hash[r]) = {}
               /\ \A h \in Owners!Chain(hash[q]), t \in OwnerThreads :
                    entriesOf[h][t] # Owners!Null =>
                      entriesOf[h][t] \in Owners!InList(list[q]) \cap Owners!InList(tail[t])
    <2>1. q \in Queues /\ IsChain(TablesOf(q), hash[q], q, prev) /\ alive \subseteq Queues
      BY <1>0 DEF OwnersInv, OwnersTypeOK, ChainsOK
    <2>2. {h \in TablesOf(q) : prev[h] = Owners!Null} = {q}
      BY <2>1, ChainHas
    <2>3. \A r \in alive \ {q} : TablesOf(q) \cap TablesOf(r) = {}
      BY <2>1 DEF OwnersInv, ChainsOK
    <2>4. \A h \in TablesOf(q), t \in OwnerThreads : EntryOK(q, h, t)
      BY <2>1 DEF OwnersInv
    <2> QED
      BY <1>0, <2>2, <2>3, <2>4 DEF EntryOK
  <1>4. ASSUME NEW t \in OwnerThreads
        PROVE  /\ Owners!Cardinality({parent[p] : p \in Owners!InList(tail[t])}) = Len(tail[t])
               /\ \A p \in Owners!InList(tail[t]) :
                    p \in Owners!Listed /\ \E h \in Owners!Chain(hash[parent[p]]) : entriesOf[h][t] = p
    <2>1. ListenersOK(t) /\ tail[t] \in Seq(Producers)
      BY <1>0 DEF OwnersInv, OwnersTypeOK
    <2>2. Cardinality({parent[p] : p \in Set(tail[t])}) = Len(tail[t])
      BY <2>1, ParentsCount DEF ListenersOK
    <2>3. \A p \in Set(tail[t]) :
            p \in Owners!Listed /\ \E h \in TablesOf(parent[p]) : entriesOf[h][t] = p
      BY <2>1, ListedProducers DEF ListenersOK
    <2> QED
      BY <1>0, <2>2, <2>3
  <1>5. \A k \in Tokens : producerOf[k] \notin {Owners!Null, Owners!NoToken} =>
          LET p == producerOf[k]
          IN  p \in Owners!Listed /\ isExplicit[p] /\ tokenOf[p] = k /\ ~inactiveOf[p]
    BY <1>1
  <1> HIDE DEF Owners!InList, Owners!Chain, Owners!Listed, Owners!Cardinality
  <1> QED
    BY <1>2, <1>3, <1>4, <1>5, Zenon DEF Owners!OwnersAgree

(* Whatever is made, moved, swapped and destroyed, tokens, producers,        *)
(* threads and tables of a ConcurrentQueue (util/concurrentqueue.h) point to *)
(* each other as its comments promise ("its tokens are still valid").        *)
THEOREM OwnersAlwaysAgree == MCSpec => []OwnersAgree
  <1>1. MCInit => OwnersInv
    BY OwnersRun, OwnersInit
  <1>2. OwnersInv /\ [MCNext]_<<component, mutexVars, listVars, producerVars, implicitVars,
                                explicitVars, hashVars, severalVars, ownerVars>> => OwnersInv'
    BY OwnersRun, OwnersStep
  <1>3. OwnersInv => OwnersAgree
    BY OwnersInvAgree DEF OwnersAgree
  <1> QED
    BY <1>1, <1>2, <1>3, PTL DEF MCSpec

-----------------------------------------------------------------------------
(* The producers of threads.  A thread that seeks a producer is in no table; *)
(* what it has, and what its slots hold, is one active producer that no      *)
(* other thread has.                                                         *)

(* The tables start as their module says and make its steps only.            *)
LEMMA HashRuns ==
  /\ MCInit => Hash!Init
  /\ [MCNext]_<<component, mutexVars, listVars, producerVars, implicitVars, explicitVars,
                hashVars, severalVars, ownerVars>> => [Hash!Next]_hashVars
  <1>1. MCInit => Hash!Init
    BY DEF MCInit
  <1>2. MCNext => Hash!Next \/ UNCHANGED hashVars
    BY DEF MCNext
  <1> QED
    BY <1>1, <1>2

(* The constants. *)
LEMMA HashConstants ==
  /\ Hash!Empty \notin HashThreads /\ Hash!Reusable \notin HashThreads
  /\ HashOf \in [HashThreads -> Nat] /\ Size \in Nat \ {0}
BY InstanceAssumption DEF Hash!HashAssumption

(* What the tables count with is the number of elements. *)
LEMMA HashCardinality == \A S : Hash!Cardinality(S) = Cardinality(S)
BY DEF Hash!Cardinality, Cardinality

HashKeys  == HashThreads \cup {Hash!Empty, Hash!Reusable}
Sized(n)  == [key : [0..(n - 1) -> HashKeys], value : [0..(n - 1) -> Nat]]
AnyTable  == UNION {Sized(n) : n \in Nat \ {0}}

HashTypeOK ==
  /\ tables \in Seq(AnyTable) /\ Len(tables) > 0
  /\ count \in Int
  /\ inactive \in Seq(BOOLEAN)
  /\ DOMAIN hashCall = HashThreads
  /\ mine \in [HashThreads -> Nat]

Readds     == [step : {"readd"}, main : Nat, index : Nat, producer : Nat]
Inserts  == [step : {"insert"}, main : Nat, index : Nat, producer : Nat]
Uncounts == [step : {"uncount"}, main : Nat, index : Nat, producer : Nat]
Counting == [step : {"count"}, main : Nat]
Resizes  == [step : {"decide", "resize", "clear", "room"}, main : Nat, newCount : Int]
Recycles == [step : {"recycle"}, main : Nat, at : Nat]
Leaves   == [step : {"leave"}, table : Nat]

(* The thread is in no table. *)
Absent(u) == \A h \in 1..Len(tables) : Hash!SlotsOf(u, h) = {}

IdleOK(u) == hashCall[u] = Hash!Idle /\ (mine[u] = 0 <=> Absent(u))
AddOK(u) ==
  /\ hashCall[u] \in Readds /\ hashCall[u].main \in 1..Len(tables)
  /\ mine[u] # 0 /\ hashCall[u].producer = mine[u]
SeekOK(u) ==
  /\ hashCall[u] \in Counting \cup Resizes \cup Recycles
  /\ hashCall[u].main \in 1..Len(tables)
  /\ hashCall[u].step = "recycle" => hashCall[u].at \in 0..Len(inactive)
  /\ mine[u] = 0 /\ Absent(u)
InsertOK(u) ==
  /\ hashCall[u] \in Inserts /\ hashCall[u].main \in 1..Len(tables)
  /\ mine[u] = 0 /\ hashCall[u].producer # 0 /\ Absent(u)
UncountOK(u) ==
  /\ hashCall[u] \in Uncounts
  /\ mine[u] = 0 /\ hashCall[u].producer # 0 /\ ~Absent(u)
LeaveOK(u) ==
  /\ hashCall[u] \in Leaves /\ hashCall[u].table \in 1..Len(tables)
  /\ mine[u] # 0
  /\ \A h \in 1..Len(tables) : h > hashCall[u].table => Hash!SlotsOf(u, h) = {}
RecyclableOK(u) == hashCall[u] = [step |-> "recyclable"] /\ mine[u] # 0 /\ Absent(u)

HashCallOK(u) ==
  \/ IdleOK(u) \/ AddOK(u) \/ SeekOK(u) \/ InsertOK(u) \/ UncountOK(u)
  \/ LeaveOK(u) \/ RecyclableOK(u)

(* The producer of a thread, from when it has taken it. *)
Held(u) ==
  IF mine[u] # 0 THEN mine[u]
  ELSE IF hashCall[u].step \in {"insert", "uncount"} THEN hashCall[u].producer ELSE 0

SlotsHold(u, p) ==
  \A h \in 1..Len(tables) : \A k \in Hash!SlotsOf(u, h) : tables[h].value[k] = p
HeldOK(u) ==
  /\ SlotsHold(u, Held(u))
  /\ Held(u) # 0 => Held(u) \in 1..Len(inactive) /\ ~inactive[Held(u)]

HashInv ==
  /\ HashTypeOK
  /\ \A u \in HashThreads : HashCallOK(u) /\ HeldOK(u)
  /\ \A u, w \in HashThreads : u # w /\ Held(u) # 0 => Held(u) # Held(w)

(* What a thread is about to do tells what its call holds. *)
LEMMA HashCallIs ==
  ASSUME NEW u, HashCallOK(u)
  PROVE  /\ hashCall[u].step = "idle" => IdleOK(u)
         /\ hashCall[u].step = "readd" => AddOK(u)
         /\ hashCall[u].step \in {"count", "decide", "resize", "clear", "room", "recycle"}
              => SeekOK(u)
         /\ hashCall[u].step = "insert" => InsertOK(u)
         /\ hashCall[u].step = "uncount" => UncountOK(u)
         /\ hashCall[u].step = "leave" => LeaveOK(u)
         /\ hashCall[u].step = "recyclable" => RecyclableOK(u)
  <1>1. IdleOK(u) => hashCall[u].step = "idle"
    BY DEF IdleOK, Hash!Idle
  <1>2. AddOK(u) => hashCall[u].step = "readd"
    BY DEF AddOK, Readds
  <1>3. SeekOK(u) => hashCall[u].step
                       \in {"count", "decide", "resize", "clear", "room", "recycle"}
    BY DEF SeekOK, Counting, Resizes, Recycles
  <1>4. InsertOK(u) => hashCall[u].step = "insert"
    BY DEF InsertOK, Inserts
  <1>5. UncountOK(u) => hashCall[u].step = "uncount"
    BY DEF UncountOK, Uncounts
  <1>6. LeaveOK(u) => hashCall[u].step = "leave"
    BY DEF LeaveOK, Leaves
  <1>7. RecyclableOK(u) => hashCall[u].step = "recyclable"
    BY DEF RecyclableOK
  <1> QED
    BY <1>1, <1>2, <1>3, <1>4, <1>5, <1>6, <1>7 DEF HashCallOK

(* A table is a key and a value in each of its slots. *)
LEMMA TableIs ==
  ASSUME HashTypeOK, NEW h \in 1..Len(tables)
  PROVE  \E n \in Nat \ {0} : /\ tables[h] \in Sized(n)
                              /\ DOMAIN tables[h].key = 0..(n - 1)
                              /\ Hash!Capacity(h) = n
  <1>1. tables[h] \in AnyTable
    BY DEF HashTypeOK
  <1>2. PICK n \in Nat \ {0} : tables[h] \in Sized(n)
    BY <1>1 DEF AnyTable
  <1>3. DOMAIN tables[h].key = 0..(n - 1)
    BY <1>2 DEF Sized
  <1>4. Cardinality(0..(n - 1)) = n
    BY FS_Interval
  <1> QED
    BY <1>2, <1>3, <1>4, HashCardinality DEF Hash!Capacity

(* The tables change but not for thread u, or grow by a table without it. *)
SameFor(u) ==
  /\ Len(tables) <= Len(tables')
  /\ \A h \in 1..Len(tables) :
       /\ Hash!SlotsOf(u, h)' = Hash!SlotsOf(u, h)
       /\ \A k \in Hash!SlotsOf(u, h) : tables'[h].value[k] = tables[h].value[k]
  /\ \A h \in 1..Len(tables') : h > Len(tables) => Hash!SlotsOf(u, h)' = {}

(* Then the thread is in the tables as before. *)
LEMMA SameForIs ==
  ASSUME NEW u, SameFor(u), Len(tables) \in Nat, Len(tables') \in Nat
  PROVE  /\ Absent(u)' <=> Absent(u)
         /\ \A p : SlotsHold(u, p) => SlotsHold(u, p)'
         /\ 1..Len(tables) \subseteq 1..Len(tables')
  <1>1. 1..Len(tables) \subseteq 1..Len(tables') 
    BY DEF SameFor
  <1>2. Absent(u)' <=> Absent(u)
    BY <1>1 DEF SameFor, Absent
  <1>3. ASSUME NEW p, SlotsHold(u, p) PROVE SlotsHold(u, p)'
    <2> SUFFICES ASSUME NEW h \in 1..Len(tables'), NEW k \in Hash!SlotsOf(u, h)'
                 PROVE  tables'[h].value[k] = p
      BY DEF SlotsHold
    <2>1. h \in 1..Len(tables)
      BY DEF SameFor
    <2>2. k \in Hash!SlotsOf(u, h) /\ tables'[h].value[k] = tables[h].value[k]
      BY <2>1 DEF SameFor
    <2> QED
      BY <1>3, <2>1, <2>2 DEF SlotsHold
  <1> QED
    BY <1>1, <1>2, <1>3

(* A thread that does not move is as well off as before. *)
LEMMA OtherThread ==
  ASSUME NEW u \in HashThreads, HashTypeOK, HashTypeOK', HashCallOK(u), HeldOK(u), SameFor(u),
         hashCall'[u] = hashCall[u], mine'[u] = mine[u],
         Len(inactive) <= Len(inactive'),
         Held(u) # 0 => inactive'[Held(u)] = inactive[Held(u)]
  PROVE  HashCallOK(u)' /\ HeldOK(u)' /\ Held(u)' = Held(u)
  <1>0. /\ Len(tables) \in Nat /\ Len(tables') \in Nat
        /\ Len(inactive) \in Nat /\ Len(inactive') \in Nat
    BY DEF HashTypeOK
  <1>1. /\ Absent(u)' <=> Absent(u)
        /\ \A p : SlotsHold(u, p) => SlotsHold(u, p)'
        /\ 1..Len(tables) \subseteq 1..Len(tables')
    BY <1>0, SameForIs
  <1>2. 1..Len(inactive) \subseteq 1..Len(inactive') /\ 0..Len(inactive) \subseteq 0..Len(inactive')
    BY <1>0
  <1>3. Held(u)' = Held(u)
    BY DEF Held
  <1>4. HeldOK(u)'
    BY <1>1, <1>2, <1>3 DEF HeldOK
  <1>5. IdleOK(u) => IdleOK(u)'
    BY <1>1 DEF IdleOK
  <1>6. AddOK(u) => AddOK(u)'
    BY <1>1 DEF AddOK
  <1>7. SeekOK(u) => SeekOK(u)'
    BY <1>1, <1>2 DEF SeekOK
  <1>8. InsertOK(u) => InsertOK(u)'
    BY <1>1 DEF InsertOK
  <1>9. UncountOK(u) => UncountOK(u)'
    BY <1>1 DEF UncountOK
  <1>10. LeaveOK(u) => LeaveOK(u)'
    <2> SUFFICES ASSUME LeaveOK(u) PROVE LeaveOK(u)'
      OBVIOUS
    <2>1. ASSUME NEW h \in 1..Len(tables'), h > hashCall[u].table
          PROVE  Hash!SlotsOf(u, h)' = {}
      <3>1. CASE h > Len(tables)
        BY <3>1 DEF SameFor
      <3>2. CASE ~(h > Len(tables))
        <4>1. h \in 1..Len(tables)
          BY <1>0, <3>2
        <4>2. Hash!SlotsOf(u, h) = {}
          BY <2>1, <4>1 DEF LeaveOK
        <4> QED
          BY <4>1, <4>2 DEF SameFor
      <3> QED
        BY <3>1, <3>2
    <2> QED
      BY <1>1, <2>1 DEF LeaveOK
  <1>11. RecyclableOK(u) => RecyclableOK(u)'
    BY <1>1 DEF RecyclableOK
  <1> QED
    BY <1>3, <1>4, <1>5, <1>6, <1>7, <1>8, <1>9, <1>10, <1>11 DEF HashCallOK

(* One thread moves. *)
LEMMA OneThreadMoves ==
  ASSUME HashInv, NEW t \in HashThreads, HashTypeOK', HashCallOK(t)', HeldOK(t)',
         Len(inactive) <= Len(inactive'),
         \A u \in HashThreads \ {t} :
           /\ SameFor(u) /\ hashCall'[u] = hashCall[u] /\ mine'[u] = mine[u]
           /\ Held(u) # 0 => inactive'[Held(u)] = inactive[Held(u)] /\ Held(t)' # Held(u)
  PROVE  HashInv'
  <1>1. ASSUME NEW u \in HashThreads \ {t}
        PROVE  HashCallOK(u)' /\ HeldOK(u)' /\ Held(u)' = Held(u)
    BY OtherThread DEF HashInv
  <1>2. ASSUME NEW u \in HashThreads, NEW w \in HashThreads, u # w, Held(u)' # 0
        PROVE  Held(u)' # Held(w)'
    <2>1. CASE u = t
      BY <1>1, <1>2, <2>1
    <2>2. CASE w = t
      BY <1>1, <1>2, <2>2
    <2>3. CASE u # t /\ w # t
      <3>1. Held(u)' = Held(u) /\ Held(w)' = Held(w)
        BY <1>1, <2>3
      <3> QED
        BY <1>2, <3>1 DEF HashInv
    <2> QED
      BY <2>1, <2>2, <2>3
  <1> QED
    BY <1>1, <1>2 DEF HashInv

(* A step that leaves the tables and the producers as they are. *)
LEMMA TablesStay ==
  ASSUME UNCHANGED tables, NEW u
  PROVE  Absent(u)' = Absent(u) /\ SameFor(u) /\ \A p : SlotsHold(u, p)' = SlotsHold(u, p)
         /\ \A h : Hash!SlotsOf(u, h)' = Hash!SlotsOf(u, h)
  <1>1. \A h : Hash!SlotsOf(u, h)' = Hash!SlotsOf(u, h)
    BY DEF Hash!SlotsOf
  <1>2. Absent(u)' = Absent(u)
    BY <1>1 DEF Absent
  <1>3. SameFor(u)
    <2>1. \A h \in 1..Len(tables') : ~(h > Len(tables))
      OBVIOUS
    <2> QED
      BY <1>1, <2>1 DEF SameFor
  <1>4. \A p : SlotsHold(u, p)' = SlotsHold(u, p)
    BY <1>1 DEF SlotsHold
  <1> QED
    BY <1>1, <1>2, <1>3, <1>4

(* Only the call of a thread moves on. *)
LEMMA OnlyCallMoves ==
  ASSUME HashInv, NEW t \in HashThreads, UNCHANGED <<tables, inactive>>, count' \in Int,
         DOMAIN hashCall' = HashThreads, mine' \in [HashThreads -> Nat],
         \A u \in HashThreads \ {t} : hashCall'[u] = hashCall[u] /\ mine'[u] = mine[u],
         HashCallOK(t)', Held(t)' = Held(t)
  PROVE  HashInv'
  <1>1. HashTypeOK'
    BY DEF HashInv, HashTypeOK
  <1>2. HeldOK(t)'
    <2>1. \A p : SlotsHold(t, p)' = SlotsHold(t, p)
      BY TablesStay
    <2>2. HeldOK(t)
      BY DEF HashInv
    <2> QED
      BY <2>1, <2>2 DEF HeldOK
  <1>3. Len(inactive) <= Len(inactive')
    BY DEF HashInv, HashTypeOK
  <1>4. ASSUME NEW u \in HashThreads \ {t}
        PROVE  /\ SameFor(u) /\ hashCall'[u] = hashCall[u] /\ mine'[u] = mine[u]
               /\ Held(u) # 0 => inactive'[Held(u)] = inactive[Held(u)] /\ Held(t)' # Held(u)
    <2>1. SameFor(u)
      BY TablesStay
    <2> QED
      BY <2>1 DEF HashInv
  <1> QED
    BY <1>1, <1>2, <1>3, <1>4, OneThreadMoves

(* Calls and results. *)
LEMMA HashCalls ==
  ASSUME HashTypeOK, NEW t \in HashThreads, NEW r, Hash!Calls(t, r)
  PROVE  /\ DOMAIN hashCall' = HashThreads
         /\ hashCall'[t] = r
         /\ \A u \in HashThreads \ {t} : hashCall'[u] = hashCall[u]
BY DEF HashTypeOK, Hash!Calls

(* A call returns a producer. *)
LEMMA HashReturns ==
  ASSUME HashTypeOK, NEW t \in HashThreads, NEW p \in Nat, Hash!Returns(t, p)
  PROVE  /\ DOMAIN hashCall' = HashThreads
         /\ hashCall'[t] = Hash!Idle
         /\ mine' \in [HashThreads -> Nat]
         /\ mine'[t] = p
         /\ \A u \in HashThreads \ {t} : hashCall'[u] = hashCall[u] /\ mine'[u] = mine[u]
BY HashCalls DEF HashTypeOK, Hash!Returns

(* At first no thread has a producer. *)
LEMMA HashInit == Hash!Init => HashInv
  <1> SUFFICES ASSUME Hash!Init PROVE HashInv
    OBVIOUS
  <1>1. Size \in Nat \ {0}
    BY HashConstants
  <1>2. Hash!NewTable(Size) \in Sized(Size)
    BY <1>1 DEF Hash!NewTable, Hash!Null, Sized, HashKeys
  <1>3. HashTypeOK
    <2>1. tables \in Seq(AnyTable) /\ Len(tables) = 1
      BY <1>1, <1>2 DEF Hash!Init, AnyTable
    <2> QED
      BY <2>1 DEF HashTypeOK, Hash!Init, Hash!Null
  <1>4. ASSUME NEW u \in HashThreads PROVE Absent(u)
    <2> SUFFICES ASSUME NEW h \in 1..Len(tables) PROVE Hash!SlotsOf(u, h) = {}
      BY DEF Absent
    <2>1. tables[h] = Hash!NewTable(Size)
      BY DEF Hash!Init
    <2>2. \A k \in DOMAIN tables[h].key : tables[h].key[k] = Hash!Empty
      BY <2>1 DEF Hash!NewTable
    <2> QED
      BY <2>2, HashConstants DEF Hash!SlotsOf
  <1>5. ASSUME NEW u \in HashThreads PROVE HashCallOK(u) /\ HeldOK(u) /\ Held(u) = 0
    <2>1. hashCall[u] = Hash!Idle /\ mine[u] = 0
      BY DEF Hash!Init, Hash!Null
    <2>2. Held(u) = 0
      BY <2>1 DEF Held, Hash!Idle
    <2> QED
      BY <1>4, <2>1, <2>2 DEF HashCallOK, IdleOK, HeldOK, SlotsHold, Absent
  <1> QED
    BY <1>3, <1>5 DEF HashInv

(* A set of numbers below a bound has a greatest element. *)
LEMMA GreatestIn ==
  ASSUME NEW n \in Nat, NEW S \in SUBSET (1..n), S # {}
  PROVE  \E m \in S : \A k \in S : k <= m
  <1> DEFINE Bounds == {b \in Nat : \A k \in S : k <= b}
  <1>1. n \in Bounds
    OBVIOUS
  <1>2. PICK m \in Bounds : \A b \in Bounds : m <= b
    <2> HIDE DEF Bounds
    <2>1. Bounds \in SUBSET Nat
      BY DEF Bounds
    <2> QED
      BY <1>1, <2>1, LeastNumber
  <1>3. m \in S
    <2> SUFFICES ASSUME m \notin S PROVE FALSE
      OBVIOUS
    <2>1. PICK k \in S : TRUE
      OBVIOUS
    <2>2. m - 1 \in Bounds
      <3>1. k <= m /\ k \in 1..n
        OBVIOUS
      <3>2. \A j \in S : j <= m /\ j # m /\ j \in 1..n
        OBVIOUS
      <3> QED
        BY <3>1, <3>2
    <2> QED
      BY <1>2, <2>2
  <1> QED
    BY <1>2, <1>3

(* The thread looks itself up. *)
LEMMA GetOrAddKeeps ==
  ASSUME HashInv, NEW t \in HashThreads, Hash!GetOrAdd(t)
  PROVE  HashInv'
  <1> DEFINE found == {h \in 1..Hash!Current : Hash!SlotsOf(t, h) # {}}
             newest == CHOOSE h \in found : \A g \in found : g <= h
             value == tables[newest].value[CHOOSE k \in Hash!SlotsOf(t, newest) : TRUE]
  <1>1. /\ hashCall[t].step = "idle"
        /\ UNCHANGED <<tables, count, resizing, inactive, ends>>
        /\ \/ /\ found = {} /\ UNCHANGED mine
              /\ Hash!Calls(t, [step |-> "count", main |-> Hash!Current])
           \/ found # {} /\ newest = Hash!Current /\ Hash!Returns(t, value)
           \/ /\ found # {} /\ UNCHANGED mine
              /\ Hash!Calls(t, [step |-> "readd", main |-> Hash!Current, index |-> HashOf[t],
                                producer |-> value])
    BY DEF Hash!GetOrAdd
  <1>2. HashTypeOK /\ HashCallOK(t) /\ HeldOK(t) /\ Hash!Current = Len(tables)
    BY DEF HashInv, Hash!Current
  <1>3. IdleOK(t)
    BY <1>1, <1>2, HashCallIs
  <1>4. found = {} <=> Absent(t)
    BY <1>2 DEF Absent
  <1>5. found # {} => value = mine[t] /\ mine[t] # 0
    <2> SUFFICES ASSUME found # {} PROVE value = mine[t] /\ mine[t] # 0
      OBVIOUS
    <2>1. mine[t] # 0 /\ Held(t) = mine[t]
      BY <1>3, <1>4 DEF IdleOK, Held
    <2>2. \E h \in found : \A g \in found : g <= h
      <3>1. Len(tables) \in Nat /\ found \in SUBSET (1..Len(tables))
        BY <1>2 DEF HashTypeOK
      <3> HIDE DEF found
      <3> QED
        BY <3>1, GreatestIn
    <2>3. newest \in found
      <3> HIDE DEF found
      <3> QED
        BY <2>2
    <2>4. newest \in 1..Len(tables) /\ Hash!SlotsOf(t, newest) # {}
      <3> HIDE DEF newest
      <3> QED
        BY <1>2, <2>3
    <2> HIDE DEF newest, found
    <2>5. (CHOOSE k \in Hash!SlotsOf(t, newest) : TRUE) \in Hash!SlotsOf(t, newest)
      BY <2>4
    <2> QED
      BY <1>2, <2>1, <2>4, <2>5 DEF HeldOK, SlotsHold
  <1> HIDE DEF found, newest, value
  <1>6. Len(tables) \in 1..Len(tables)
    BY <1>2 DEF HashTypeOK
  <1>7. UNCHANGED <<tables, inactive>> /\ count' \in Int /\ (Absent(t)' <=> Absent(t))
    BY <1>1, <1>2, TablesStay DEF HashTypeOK
  <1>8. Held(t) = mine[t]
    BY <1>1 DEF Held
  <1>9. HashOf[t] \in Nat /\ mine[t] \in Nat
    BY <1>2, HashConstants DEF HashTypeOK
  <1>10. CASE /\ found = {} /\ UNCHANGED mine
              /\ Hash!Calls(t, [step |-> "count", main |-> Hash!Current])
    <2>1. /\ DOMAIN hashCall' = HashThreads
          /\ hashCall'[t] = [step |-> "count", main |-> Hash!Current]
          /\ \A u \in HashThreads \ {t} : hashCall'[u] = hashCall[u] /\ mine'[u] = mine[u]
      BY <1>2, <1>10, HashCalls
    <2>2. mine[t] = 0 /\ Absent(t)
      BY <1>3, <1>4, <1>10 DEF IdleOK
    <2>3. SeekOK(t)'
      BY <1>2, <1>6, <1>7, <1>10, <2>1, <2>2 DEF SeekOK, Counting
    <2>4. Held(t)' = Held(t)
      BY <1>8, <1>10, <2>1, <2>2 DEF Held
    <2>5. HashCallOK(t)' /\ mine' \in [HashThreads -> Nat]
      BY <1>2, <1>10, <2>3 DEF HashCallOK, HashTypeOK
    <2> QED
      BY <1>7, <2>1, <2>4, <2>5, OnlyCallMoves
  <1>11. CASE found # {} /\ newest = Hash!Current /\ Hash!Returns(t, value)
    <2>1. value \in Nat /\ value = mine[t] /\ mine[t] # 0 /\ ~Absent(t)
      BY <1>4, <1>5, <1>9, <1>11
    <2>2. /\ DOMAIN hashCall' = HashThreads
          /\ hashCall'[t] = Hash!Idle
          /\ mine' \in [HashThreads -> Nat]
          /\ mine'[t] = mine[t]
          /\ \A u \in HashThreads \ {t} : hashCall'[u] = hashCall[u] /\ mine'[u] = mine[u]
      BY <1>2, <1>11, <2>1, HashReturns
    <2>3. IdleOK(t)'
      BY <1>7, <2>1, <2>2 DEF IdleOK
    <2>4. Held(t)' = Held(t)
      BY <1>8, <2>1, <2>2 DEF Held
    <2> QED
      BY <1>7, <2>2, <2>3, <2>4, OnlyCallMoves DEF HashCallOK
  <1>12. CASE /\ found # {} /\ UNCHANGED mine
              /\ Hash!Calls(t, [step |-> "readd", main |-> Hash!Current, index |-> HashOf[t],
                                producer |-> value])
    <2>1. value \in Nat /\ value = mine[t] /\ mine[t] # 0
      BY <1>5, <1>9, <1>12
    <2>2. /\ DOMAIN hashCall' = HashThreads
          /\ hashCall'[t] = [step |-> "readd", main |-> Hash!Current, index |-> HashOf[t],
                             producer |-> value]
          /\ \A u \in HashThreads \ {t} : hashCall'[u] = hashCall[u] /\ mine'[u] = mine[u]
      BY <1>2, <1>12, HashCalls
    <2>3. AddOK(t)'
      <3>a. PICK i \in Nat : i = HashOf[t]
        BY <1>9
      <3>b. PICK q \in Nat : q = mine[t]
        BY <1>9
      <3>c. PICK m \in 1..Len(tables) : m = Len(tables)
        BY <1>6
      <3>0. hashCall'[t] = [step |-> "readd", main |-> m, index |-> i, producer |-> q]
        BY <1>2, <2>1, <2>2, <3>a, <3>b, <3>c
      <3>1. hashCall'[t] \in Readds
        BY <3>0 DEF Readds
      <3>2. hashCall'[t].main = Len(tables) /\ hashCall'[t].producer = mine[t]
        BY <3>0, <3>b, <3>c
      <3>3. UNCHANGED <<tables, mine>>
        BY <1>7, <1>12
      <3> QED
        BY <1>6, <2>1, <3>1, <3>2, <3>3 DEF AddOK
    <2>4. Held(t)' = Held(t)
      BY <1>8, <1>12, <2>1, <2>2 DEF Held
    <2>5. HashCallOK(t)' /\ mine' \in [HashThreads -> Nat]
      BY <1>2, <1>12, <2>3 DEF HashCallOK, HashTypeOK
    <2> QED
      BY <1>7, <2>2, <2>4, <2>5, OnlyCallMoves
  <1> QED
    BY <1>1, <1>10, <1>11, <1>12

(* One table changes. *)
LEMMA OneTable ==
  ASSUME HashTypeOK, NEW m \in 1..Len(tables), NEW new \in AnyTable,
         tables' = [tables EXCEPT ![m] = new]
  PROVE  /\ tables' \in Seq(AnyTable) /\ Len(tables') = Len(tables) /\ tables'[m] = new
         /\ \A h \in 1..Len(tables) : h # m => tables'[h] = tables[h]
BY DEF HashTypeOK

(* A slot that no thread has is filled. *)
LEMMA FillIs ==
  ASSUME HashTypeOK, NEW t \in HashThreads,
         NEW m \in 1..Len(tables), hashCall[t].main = m, hashCall[t].index \in Nat,
         NEW p \in Nat, hashCall[t].producer = p,
         Hash!KeyAt(t) \in {Hash!Empty, Hash!Reusable}, Hash!Fill(t)
  PROVE  /\ tables' \in Seq(AnyTable) /\ Len(tables') = Len(tables)
         /\ \A u \in HashThreads \ {t} : SameFor(u)
         /\ ~Absent(t)'
         /\ SlotsHold(t, p) => SlotsHold(t, p)'
  <1>0. PICK s : s = Hash!Slot(t)
    OBVIOUS
  <1>a. PICK filled : filled = [tables[m] EXCEPT !.key[s] = t, !.value[s] = p]
    OBVIOUS
  <1>1. tables' = [tables EXCEPT ![m] = filled]
    BY <1>0, <1>a DEF Hash!Fill
  <1>2. PICK n \in Nat \ {0} : /\ tables[m] \in Sized(n)
                               /\ DOMAIN tables[m].key = 0..(n - 1)
                               /\ Hash!Capacity(m) = n
    BY TableIs
  <1>3. s \in 0..(n - 1)
    <2>1. s = hashCall[t].index % n
      BY <1>0, <1>2 DEF Hash!Slot
    <2> QED
      BY <2>1
  <1>4. filled \in Sized(n)
    <2>1. t \in HashKeys /\ p \in Nat
      BY DEF HashKeys
    <2> QED
      BY <1>a, <1>2, <1>3, <2>1 DEF Sized
  <1>5. /\ filled.key[s] = t /\ filled.value[s] = p
        /\ DOMAIN filled.key = 0..(n - 1)
        /\ \A k \in 0..(n - 1) : k # s => /\ filled.key[k] = tables[m].key[k]
                                          /\ filled.value[k] = tables[m].value[k]
    BY <1>a, <1>2, <1>3 DEF Sized
  <1>6. tables[m].key[s] \in {Hash!Empty, Hash!Reusable}
    BY <1>0 DEF Hash!KeyAt
  <1>7. /\ tables' \in Seq(AnyTable) /\ Len(tables') = Len(tables) /\ tables'[m] = filled
        /\ \A h \in 1..Len(tables) : h # m => tables'[h] = tables[h]
    <2>1. filled \in AnyTable
      BY <1>4 DEF AnyTable
    <2> QED
      BY <1>1, <2>1, OneTable
  <1>8. ASSUME NEW u \in HashThreads \ {t} PROVE SameFor(u)
    <2>1. u \notin {Hash!Empty, Hash!Reusable, t}
      BY HashConstants
    <2>2. ASSUME NEW h \in 1..Len(tables)
          PROVE  /\ Hash!SlotsOf(u, h)' = Hash!SlotsOf(u, h)
                 /\ \A k \in Hash!SlotsOf(u, h) : tables'[h].value[k] = tables[h].value[k]
      <3>1. CASE h # m
        BY <1>7, <3>1 DEF Hash!SlotsOf
      <3>2. CASE h = m
        <4>1. filled.key[s] # u /\ tables[m].key[s] # u
          BY <1>5, <1>6, <2>1
        <4>2. \A k \in 0..(n - 1) : filled.key[k] = u <=> tables[m].key[k] = u
          BY <1>5, <4>1
        <4>3. Hash!SlotsOf(u, h)' = Hash!SlotsOf(u, h)
          BY <1>2, <1>5, <1>7, <3>2, <4>2 DEF Hash!SlotsOf
        <4>4. ASSUME NEW k \in Hash!SlotsOf(u, h) PROVE tables'[h].value[k] = tables[h].value[k]
          <5>1. k \in 0..(n - 1) /\ tables[m].key[k] = u
            BY <1>2, <3>2, <4>4 DEF Hash!SlotsOf
          <5>2. k # s
            BY <4>1, <5>1
          <5> QED
            BY <1>5, <1>7, <3>2, <5>1, <5>2
        <4> QED
          BY <4>3, <4>4
      <3> QED
        BY <3>1, <3>2
    <2>3. Len(tables) <= Len(tables') /\ \A h \in 1..Len(tables') : ~(h > Len(tables))
      BY <1>7 DEF HashTypeOK
    <2> QED
      BY <2>2, <2>3 DEF SameFor
  <1>9. ~Absent(t)'
    <2>1. m \in 1..Len(tables')
      BY <1>7
    <2>2. s \in Hash!SlotsOf(t, m)'
      BY <1>3, <1>5, <1>7 DEF Hash!SlotsOf
    <2> QED
      BY <2>1, <2>2 DEF Absent
  <1>10. SlotsHold(t, p) => SlotsHold(t, p)'
    <2> SUFFICES ASSUME SlotsHold(t, p), NEW h \in 1..Len(tables), NEW k \in Hash!SlotsOf(t, h)'
                 PROVE  tables'[h].value[k] = p
      BY <1>7 DEF SlotsHold
    <2>1. CASE h # m
      BY <1>7, <2>1 DEF Hash!SlotsOf, SlotsHold
    <2>2. CASE h = m /\ k = s
      BY <1>5, <1>7, <2>2
    <2>3. CASE h = m /\ k # s
      <3>1. k \in 0..(n - 1) /\ filled.key[k] = t
        BY <1>5, <1>7, <2>3 DEF Hash!SlotsOf
      <3>2. k \in Hash!SlotsOf(t, h) /\ filled.value[k] = tables[h].value[k]
        BY <1>2, <1>5, <2>3, <3>1 DEF Hash!SlotsOf
      <3> QED
        BY <1>7, <2>3, <3>2 DEF SlotsHold
    <2> QED
      BY <2>1, <2>2, <2>3
  <1> QED
    BY <1>7, <1>8, <1>9, <1>10

(* The next slot is looked at. *)
LEMMA NextSlotKeeps ==
  ASSUME HashInv, NEW t \in HashThreads, AddOK(t) \/ InsertOK(t), Hash!NextSlot(t),
         UNCHANGED <<tables, count, inactive, mine>>
  PROVE  HashInv'
  <1>1. /\ DOMAIN hashCall' = HashThreads
        /\ hashCall'[t] = [hashCall[t] EXCEPT !.index = @ + 1]
        /\ \A u \in HashThreads \ {t} : hashCall'[u] = hashCall[u] /\ mine'[u] = mine[u]
    BY DEF HashInv, HashTypeOK, Hash!NextSlot
  <1>2. Absent(t)' = Absent(t)
    BY TablesStay
  <1>3. AddOK(t) => AddOK(t)' /\ Held(t)' = Held(t)
    <2> SUFFICES ASSUME AddOK(t) PROVE AddOK(t)' /\ Held(t)' = Held(t)
      OBVIOUS
    <2>1. /\ hashCall'[t] \in Readds /\ hashCall'[t].main = hashCall[t].main
          /\ hashCall'[t].producer = hashCall[t].producer
      BY <1>1 DEF AddOK, Readds
    <2> QED
      BY <2>1 DEF AddOK, Held
  <1>4. InsertOK(t) => InsertOK(t)' /\ Held(t)' = Held(t)
    <2> SUFFICES ASSUME InsertOK(t) PROVE InsertOK(t)' /\ Held(t)' = Held(t)
      OBVIOUS
    <2>1. /\ hashCall'[t] \in Inserts /\ hashCall'[t].main = hashCall[t].main
          /\ hashCall'[t].producer = hashCall[t].producer /\ hashCall'[t].step = hashCall[t].step
      BY <1>1 DEF InsertOK, Inserts
    <2> QED
      BY <1>2, <2>1 DEF InsertOK, Held
  <1>5. HashCallOK(t)' /\ Held(t)' = Held(t)
    BY <1>3, <1>4 DEF HashCallOK
  <1>6. count' \in Int /\ mine' \in [HashThreads -> Nat]
    BY DEF HashInv, HashTypeOK
  <1> QED
    BY <1>1, <1>5, <1>6, OnlyCallMoves

(* A slot is filled, and the thread has its producer still or now. *)
LEMMA FillKeeps ==
  ASSUME HashInv, NEW t \in HashThreads, AddOK(t) \/ InsertOK(t),
         Hash!KeyAt(t) \in {Hash!Empty, Hash!Reusable}, Hash!Fill(t),
         UNCHANGED <<count, inactive>>,
         DOMAIN hashCall' = HashThreads, mine' \in [HashThreads -> Nat],
         \A u \in HashThreads \ {t} : hashCall'[u] = hashCall[u] /\ mine'[u] = mine[u],
         ~Absent(t)' => HashCallOK(t)' /\ Held(t)' = Held(t)
  PROVE  HashInv'
  <1>1. /\ HashTypeOK /\ HeldOK(t)
        /\ \A u \in HashThreads \ {t} : Held(u) # 0 => Held(t) # Held(u)
    BY DEF HashInv
  <1>2. /\ hashCall[t].main \in 1..Len(tables) /\ hashCall[t].index \in Nat
        /\ hashCall[t].producer \in Nat /\ Held(t) = hashCall[t].producer
    <2>1. CASE AddOK(t)
      BY <2>1 DEF AddOK, Readds, Held
    <2>2. CASE InsertOK(t)
      BY <2>2 DEF InsertOK, Inserts, Held
    <2> QED
      BY <2>1, <2>2
  <1>3. PICK p \in Nat : p = hashCall[t].producer
    BY <1>2
  <1>4. PICK m \in 1..Len(tables) : m = hashCall[t].main
    BY <1>2
  <1>5. /\ tables' \in Seq(AnyTable) /\ Len(tables') = Len(tables)
        /\ \A u \in HashThreads \ {t} : SameFor(u)
        /\ ~Absent(t)'
        /\ SlotsHold(t, p) => SlotsHold(t, p)'
    BY <1>1, <1>2, <1>3, <1>4, FillIs
  <1>6. HashTypeOK'
    BY <1>1, <1>5 DEF HashTypeOK
  <1>7. HashCallOK(t)' /\ Held(t)' = Held(t)
    BY <1>5
  <1>8. HeldOK(t)'
    BY <1>1, <1>2, <1>3, <1>5, <1>7 DEF HeldOK
  <1>9. Len(inactive) <= Len(inactive')
    BY <1>1 DEF HashTypeOK
  <1>10. ASSUME NEW u \in HashThreads \ {t}
         PROVE  /\ SameFor(u) /\ hashCall'[u] = hashCall[u] /\ mine'[u] = mine[u]
                /\ Held(u) # 0 => inactive'[Held(u)] = inactive[Held(u)] /\ Held(t)' # Held(u)
    BY <1>1, <1>5, <1>7
  <1> QED
    BY <1>6, <1>7, <1>8, <1>9, <1>10, OneThreadMoves

(* The producer is added to the table that was current. *)
LEMMA AddAgainKeeps ==
  ASSUME HashInv, NEW t \in HashThreads, Hash!AddAgain(t)
  PROVE  HashInv'
  <1>1. /\ hashCall[t].step = "readd"
        /\ UNCHANGED <<count, resizing, inactive, ends>>
        /\ \/ /\ Hash!KeyAt(t) \in {Hash!Empty, Hash!Reusable}
              /\ Hash!Fill(t) /\ Hash!Returns(t, hashCall[t].producer)
           \/ Hash!NextSlot(t) /\ UNCHANGED <<tables, mine>>
    BY DEF Hash!AddAgain
  <1>2. HashTypeOK /\ HashCallOK(t)
    BY DEF HashInv
  <1>3. AddOK(t)
    BY <1>1, <1>2, HashCallIs
  <1>4. CASE /\ Hash!KeyAt(t) \in {Hash!Empty, Hash!Reusable}
             /\ Hash!Fill(t) /\ Hash!Returns(t, hashCall[t].producer)
    <2>1. PICK p \in Nat : p = hashCall[t].producer
      BY <1>3 DEF AddOK, Readds
    <2>2. p = mine[t] /\ p # 0
      BY <1>3, <2>1 DEF AddOK
    <2>3. Hash!Returns(t, p)
      BY <1>4, <2>1
    <2>4. /\ DOMAIN hashCall' = HashThreads
          /\ hashCall'[t] = Hash!Idle
          /\ mine' \in [HashThreads -> Nat]
          /\ mine'[t] = p
          /\ \A u \in HashThreads \ {t} : hashCall'[u] = hashCall[u] /\ mine'[u] = mine[u]
      BY <1>2, <2>3, HashReturns
    <2>5. ~Absent(t)' => HashCallOK(t)'
      BY <2>2, <2>4 DEF HashCallOK, IdleOK
    <2>6. Held(t)' = Held(t)
      BY <2>2, <2>4 DEF Held
    <2> QED
      BY <1>1, <1>3, <1>4, <2>4, <2>5, <2>6, FillKeeps
  <1>5. CASE Hash!NextSlot(t) /\ UNCHANGED <<tables, mine>>
    BY <1>1, <1>3, <1>5, NextSlotKeeps
  <1> QED
    BY <1>1, <1>4, <1>5

(* The thread is inserted into the table that it chose. *)
LEMMA InsertKeeps ==
  ASSUME HashInv, NEW t \in HashThreads, Hash!Insert(t)
  PROVE  HashInv'
  <1>1. /\ hashCall[t].step = "insert"
        /\ UNCHANGED <<count, resizing, inactive, ends>>
        /\ \/ /\ Hash!KeyAt(t) = Hash!Reusable
              /\ Hash!Fill(t) /\ Hash!Goes(t, "uncount") /\ UNCHANGED mine
           \/ /\ Hash!KeyAt(t) = Hash!Empty
              /\ Hash!Fill(t) /\ Hash!Returns(t, hashCall[t].producer)
           \/ Hash!NextSlot(t) /\ UNCHANGED <<tables, mine>>
    BY DEF Hash!Insert
  <1>2. HashTypeOK /\ HashCallOK(t)
    BY DEF HashInv
  <1>3. InsertOK(t)
    BY <1>1, <1>2, HashCallIs
  <1>4. CASE /\ Hash!KeyAt(t) = Hash!Reusable
             /\ Hash!Fill(t) /\ Hash!Goes(t, "uncount") /\ UNCHANGED mine
    <2>1. /\ DOMAIN hashCall' = HashThreads
          /\ hashCall'[t] = [hashCall[t] EXCEPT !.step = "uncount"]
          /\ \A u \in HashThreads \ {t} : hashCall'[u] = hashCall[u] /\ mine'[u] = mine[u]
      BY <1>2, <1>4 DEF HashTypeOK, Hash!Goes
    <2>2. /\ hashCall'[t] \in Uncounts /\ hashCall'[t].producer = hashCall[t].producer
          /\ hashCall'[t].step = "uncount"
      BY <1>3, <2>1 DEF InsertOK, Inserts, Uncounts
    <2>3. ~Absent(t)' => HashCallOK(t)'
      BY <1>3, <1>4, <2>2 DEF HashCallOK, UncountOK, InsertOK
    <2>4. Held(t)' = Held(t)
      BY <1>1, <1>4, <2>2 DEF Held
    <2>5. mine' \in [HashThreads -> Nat]
      BY <1>2, <1>4 DEF HashTypeOK
    <2> QED
      BY <1>1, <1>3, <1>4, <2>1, <2>3, <2>4, <2>5, FillKeeps
  <1>5. CASE /\ Hash!KeyAt(t) = Hash!Empty
             /\ Hash!Fill(t) /\ Hash!Returns(t, hashCall[t].producer)
    <2>1. PICK p \in Nat : p = hashCall[t].producer
      BY <1>3 DEF InsertOK, Inserts
    <2>2. p # 0 /\ mine[t] = 0
      BY <1>3, <2>1 DEF InsertOK
    <2>3. Hash!Returns(t, p)
      BY <1>5, <2>1
    <2>4. /\ DOMAIN hashCall' = HashThreads
          /\ hashCall'[t] = Hash!Idle
          /\ mine' \in [HashThreads -> Nat]
          /\ mine'[t] = p
          /\ \A u \in HashThreads \ {t} : hashCall'[u] = hashCall[u] /\ mine'[u] = mine[u]
      BY <1>2, <2>3, HashReturns
    <2>5. ~Absent(t)' => HashCallOK(t)'
      BY <2>2, <2>4 DEF HashCallOK, IdleOK
    <2>6. Held(t)' = Held(t)
      BY <1>1, <2>1, <2>2, <2>4 DEF Held
    <2> QED
      BY <1>1, <1>3, <1>5, <2>4, <2>5, <2>6, FillKeeps
  <1>6. CASE Hash!NextSlot(t) /\ UNCHANGED <<tables, mine>>
    BY <1>1, <1>3, <1>6, NextSlotKeeps
  <1> QED
    BY <1>1, <1>4, <1>5, <1>6

(* The count is taken back, and the producer returned. *)
LEMMA UncountKeeps ==
  ASSUME HashInv, NEW t \in HashThreads, Hash!Uncount(t)
  PROVE  HashInv'
  <1>1. /\ hashCall[t].step = "uncount" /\ count' = count - 1
        /\ Hash!Returns(t, hashCall[t].producer)
        /\ UNCHANGED <<tables, resizing, inactive, ends>>
    BY DEF Hash!Uncount
  <1>2. HashTypeOK /\ HashCallOK(t)
    BY DEF HashInv
  <1>3. UncountOK(t)
    BY <1>1, <1>2, HashCallIs
  <1>4. PICK p \in Nat : p = hashCall[t].producer
    BY <1>3 DEF UncountOK, Uncounts
  <1>5. p # 0 /\ mine[t] = 0 /\ ~Absent(t)
    BY <1>3, <1>4 DEF UncountOK
  <1>6. Hash!Returns(t, p)
    BY <1>1, <1>4
  <1>7. /\ DOMAIN hashCall' = HashThreads
        /\ hashCall'[t] = Hash!Idle
        /\ mine' \in [HashThreads -> Nat]
        /\ mine'[t] = p
        /\ \A u \in HashThreads \ {t} : hashCall'[u] = hashCall[u] /\ mine'[u] = mine[u]
    BY <1>2, <1>6, HashReturns
  <1>8. Absent(t)' = Absent(t)
    BY <1>1, TablesStay
  <1>9. HashCallOK(t)'
    BY <1>5, <1>7, <1>8 DEF HashCallOK, IdleOK
  <1>10. Held(t)' = Held(t)
    BY <1>1, <1>4, <1>5, <1>7 DEF Held
  <1>11. count' \in Int
    BY <1>1, <1>2 DEF HashTypeOK
  <1> QED
    BY <1>1, <1>7, <1>9, <1>10, <1>11, OnlyCallMoves

(* A thread that seeks a producer goes on seeking. *)
LEMMA SeekMoves ==
  ASSUME HashInv, NEW t \in HashThreads, SeekOK(t),
         UNCHANGED <<tables, inactive, mine>>, count' \in Int,
         DOMAIN hashCall' = HashThreads,
         \A u \in HashThreads \ {t} : hashCall'[u] = hashCall[u],
         hashCall'[t] \in Counting \cup Resizes \cup Recycles,
         hashCall'[t].main \in 1..Len(tables),
         hashCall'[t].step = "recycle" => hashCall'[t].at \in 0..Len(inactive)
  PROVE  HashInv'
  <1>1. Absent(t)' = Absent(t)
    BY TablesStay
  <1>2. SeekOK(t)'
    BY <1>1 DEF SeekOK
  <1>3. \A r \in Counting \cup Resizes \cup Recycles : r.step \notin {"insert", "uncount"}
    BY DEF Counting, Resizes, Recycles
  <1>4. Held(t) = 0 /\ Held(t)' = 0
    BY <1>2, <1>3 DEF SeekOK, Held
  <1>5. mine' \in [HashThreads -> Nat]
    BY DEF HashInv, HashTypeOK
  <1> QED
    BY <1>2, <1>4, <1>5, OnlyCallMoves DEF HashCallOK

(* The thread is counted. *)
LEMMA CountUpKeeps ==
  ASSUME HashInv, NEW t \in HashThreads, Hash!CountUp(t)
  PROVE  HashInv'
  <1>1. /\ hashCall[t].step = "count" /\ count' = count + 1
        /\ Hash!Calls(t, [step |-> "decide", main |-> hashCall[t].main, newCount |-> count + 1])
        /\ UNCHANGED <<tables, inactive, mine>>
    BY DEF Hash!CountUp
  <1>2. HashTypeOK /\ HashCallOK(t) /\ count \in Int
    BY DEF HashInv, HashTypeOK
  <1>3. SeekOK(t)
    BY <1>1, <1>2, HashCallIs
  <1>4. /\ DOMAIN hashCall' = HashThreads
        /\ hashCall'[t] = [step |-> "decide", main |-> hashCall[t].main, newCount |-> count + 1]
        /\ \A u \in HashThreads \ {t} : hashCall'[u] = hashCall[u]
    BY <1>1, <1>2, HashCalls
  <1>5. hashCall'[t] \in Resizes /\ hashCall'[t].main \in 1..Len(tables)
        /\ hashCall'[t].step = "decide"
    BY <1>2, <1>3, <1>4 DEF SeekOK, Resizes
  <1> QED
    BY <1>1, <1>2, <1>3, <1>4, <1>5, SeekMoves

(* The call goes on to another step of the resizing. *)
LEMMA ResizeGoes ==
  ASSUME HashInv, NEW t \in HashThreads, hashCall[t].step \in {"decide", "resize", "clear"},
         NEW s \in {"resize", "room"}, Hash!Goes(t, s), UNCHANGED <<tables, count, inactive, mine>>
  PROVE  HashInv'
  <1>1. HashTypeOK /\ HashCallOK(t)
    BY DEF HashInv
  <1>2. SeekOK(t)
    BY <1>1, HashCallIs
  <1>3. /\ DOMAIN hashCall' = HashThreads
        /\ hashCall'[t] = [hashCall[t] EXCEPT !.step = s]
        /\ \A u \in HashThreads \ {t} : hashCall'[u] = hashCall[u]
    BY <1>1 DEF HashTypeOK, Hash!Goes
  <1>4. hashCall[t] \in Resizes
    BY <1>2 DEF SeekOK, Counting, Recycles
  <1>5. /\ hashCall'[t] \in Resizes /\ hashCall'[t].main = hashCall[t].main
        /\ hashCall'[t].step = s
    BY <1>3, <1>4 DEF Resizes
  <1>6. hashCall'[t].main \in 1..Len(tables) /\ count' \in Int
    BY <1>1, <1>2, <1>5 DEF SeekOK, HashTypeOK
  <1> QED
    BY <1>2, <1>3, <1>5, <1>6, SeekMoves

(* It sets the flag, *)
LEMMA TryResizeKeeps ==
  ASSUME HashInv, NEW t \in HashThreads, Hash!TryResize(t)
  PROVE  HashInv'
BY ResizeGoes DEF Hash!TryResize

(* or clears it. *)
LEMMA ClearFlagKeeps ==
  ASSUME HashInv, NEW t \in HashThreads, Hash!ClearFlag(t)
  PROVE  HashInv'
BY ResizeGoes DEF Hash!ClearFlag

(* The table is used, or the current one loaded. *)
LEMMA UseOrWaitKeeps ==
  ASSUME HashInv, NEW t \in HashThreads, Hash!UseOrWait(t)
  PROVE  HashInv'
  <1>1. HashTypeOK /\ HashCallOK(t) /\ count' = count
    BY DEF HashInv, Hash!UseOrWait
  <1>2. hashCall[t].step \in {"decide", "room"}
    BY DEF Hash!UseOrWait, Hash!NoResize
  <1>3. SeekOK(t)
    BY <1>1, <1>2, HashCallIs
  <1>4. hashCall[t] \in Resizes /\ hashCall[t].main \in 1..Len(tables)
    BY <1>2, <1>3 DEF SeekOK, Counting, Recycles
  <1>5. /\ UNCHANGED <<tables, count, inactive, mine>>
        /\ \/ Hash!Calls(t, [step |-> "recycle", main |-> hashCall[t].main, at |-> Len(inactive)])
           \/ Hash!Calls(t, [hashCall[t] EXCEPT !.step = "decide", !.main = Len(tables)])
    BY DEF Hash!UseOrWait, Hash!Current
  <1>6. Len(tables) \in 1..Len(tables) /\ Len(inactive) \in Nat /\ count' \in Int
    BY <1>1 DEF HashTypeOK
  <1>7. CASE Hash!Calls(t, [step |-> "recycle", main |-> hashCall[t].main, at |-> Len(inactive)])
    <2>1. /\ DOMAIN hashCall' = HashThreads
          /\ hashCall'[t] = [step |-> "recycle", main |-> hashCall[t].main, at |-> Len(inactive)]
          /\ \A u \in HashThreads \ {t} : hashCall'[u] = hashCall[u]
      BY <1>1, <1>7, HashCalls
    <2>2. /\ hashCall'[t] \in Recycles /\ hashCall'[t].main \in 1..Len(tables)
          /\ hashCall'[t].at \in 0..Len(inactive)
      BY <1>4, <1>6, <2>1 DEF Recycles
    <2> QED
      BY <1>3, <1>5, <1>6, <2>1, <2>2, SeekMoves
  <1>8. CASE Hash!Calls(t, [hashCall[t] EXCEPT !.step = "decide", !.main = Len(tables)])
    <2>1. /\ DOMAIN hashCall' = HashThreads
          /\ hashCall'[t] = [hashCall[t] EXCEPT !.step = "decide", !.main = Len(tables)]
          /\ \A u \in HashThreads \ {t} : hashCall'[u] = hashCall[u]
      BY <1>1, <1>8, HashCalls
    <2>2. /\ hashCall'[t] \in Resizes /\ hashCall'[t].main \in 1..Len(tables)
          /\ hashCall'[t].step = "decide"
      <3>1. PICK m \in 1..Len(tables) : m = Len(tables)
        BY <1>6
      <3>2. PICK r \in Resizes : r = hashCall[t]
        BY <1>4
      <3>3. hashCall'[t] = [r EXCEPT !.step = "decide", !.main = m]
        BY <2>1, <3>1, <3>2
      <3>4. PICK q : q = [r EXCEPT !.step = "decide"]
        OBVIOUS
      <3>5. q \in Resizes /\ q.step = "decide"
        BY <3>4 DEF Resizes
      <3>6. hashCall'[t] = [q EXCEPT !.main = m]
        BY <3>3, <3>4 DEF Resizes
      <3> QED
        BY <3>5, <3>6 DEF Resizes
    <2> QED
      BY <1>3, <1>5, <1>6, <2>1, <2>2, SeekMoves
  <1> QED
    BY <1>5, <1>7, <1>8

(* No memory: the thread has nothing. *)
LEMMA NoMemoryKeeps ==
  ASSUME HashInv, NEW t \in HashThreads, Hash!NoMemory(t)
  PROVE  HashInv'
  <1>1. /\ hashCall[t].step \in {"resize", "recycle"} /\ count' = count - 1
        /\ Hash!Calls(t, Hash!Idle) /\ UNCHANGED <<tables, inactive, mine>>
    BY DEF Hash!NoMemory
  <1>2. HashTypeOK /\ HashCallOK(t)
    BY DEF HashInv
  <1>3. SeekOK(t)
    BY <1>1, <1>2, HashCallIs
  <1>4. /\ DOMAIN hashCall' = HashThreads /\ hashCall'[t] = Hash!Idle
        /\ \A u \in HashThreads \ {t} : hashCall'[u] = hashCall[u] /\ mine'[u] = mine[u]
    BY <1>1, <1>2, HashCalls
  <1>5. Absent(t)' = Absent(t)
    BY <1>1, TablesStay
  <1>6. HashCallOK(t)'
    BY <1>1, <1>3, <1>4, <1>5 DEF HashCallOK, IdleOK, SeekOK
  <1>7. Held(t) = 0 /\ Held(t)' = 0
    BY <1>1, <1>3, <1>4 DEF SeekOK, Held, Hash!Idle
  <1>8. count' \in Int /\ mine' \in [HashThreads -> Nat]
    BY <1>1, <1>2 DEF HashTypeOK
  <1> QED
    BY <1>1, <1>4, <1>6, <1>7, <1>8, OnlyCallMoves

(* A producer that nobody has is got. *)
LEMMA GotProducerKeeps ==
  ASSUME HashInv, NEW t \in HashThreads, SeekOK(t), NEW p \in Nat, p # 0, Hash!GotProducer(t, p),
         UNCHANGED <<tables, count, mine>>, inactive' \in Seq(BOOLEAN),
         Len(inactive) <= Len(inactive'), p \in 1..Len(inactive'), ~inactive'[p],
         \A u \in HashThreads \ {t} :
           Held(u) # 0 => inactive'[Held(u)] = inactive[Held(u)] /\ Held(u) # p
  PROVE  HashInv'
  <1>1. HashTypeOK /\ HashOf[t] \in Nat /\ Absent(t)' = Absent(t) /\ mine[t] = 0 /\ Absent(t)
    BY HashConstants, TablesStay DEF HashInv, SeekOK
  <1>2. PICK m \in 1..Len(tables) : m = hashCall[t].main
    BY DEF SeekOK
  <1>3. PICK i \in Nat : i = HashOf[t]
    BY <1>1
  <1>4. Hash!Calls(t, [step |-> "insert", main |-> m, index |-> i, producer |-> p])
    BY <1>2, <1>3 DEF Hash!GotProducer
  <1>5. /\ DOMAIN hashCall' = HashThreads
        /\ hashCall'[t] = [step |-> "insert", main |-> m, index |-> i, producer |-> p]
        /\ \A u \in HashThreads \ {t} : hashCall'[u] = hashCall[u] /\ mine'[u] = mine[u]
    BY <1>1, <1>4, HashCalls
  <1>6. /\ hashCall'[t] \in Inserts /\ hashCall'[t].main = m /\ hashCall'[t].producer = p
        /\ hashCall'[t].step = "insert"
    BY <1>5 DEF Inserts
  <1>7. HashCallOK(t)' /\ Held(t)' = p
    BY <1>1, <1>6 DEF HashCallOK, InsertOK, Held
  <1>8. HeldOK(t)'
    <2>1. SlotsHold(t, p)'
      BY <1>1 DEF SlotsHold, Absent
    <2> QED
      BY <1>7, <2>1 DEF HeldOK
  <1>9. HashTypeOK'
    BY <1>1, <1>5 DEF HashTypeOK
  <1>10. ASSUME NEW u \in HashThreads \ {t}
         PROVE  /\ SameFor(u) /\ hashCall'[u] = hashCall[u] /\ mine'[u] = mine[u]
                /\ Held(u) # 0 => inactive'[Held(u)] = inactive[Held(u)] /\ Held(t)' # Held(u)
    BY <1>5, <1>7, TablesStay
  <1> QED
    BY <1>7, <1>8, <1>9, <1>10, OneThreadMoves

(* The list of producers is gone through. *)
LEMMA RecycleKeeps ==
  ASSUME HashInv, NEW t \in HashThreads, Hash!Recycle(t)
  PROVE  HashInv'
  <1>1. PICK p : p = hashCall[t].at
    OBVIOUS
  <1>2. /\ hashCall[t].step = "recycle" /\ p > 0
        /\ inactive' = [inactive EXCEPT ![p] = FALSE]
        /\ IF inactive[p] THEN Hash!GotProducer(t, p)
           ELSE hashCall' = [hashCall EXCEPT ![t].at = @ - 1]
        /\ UNCHANGED <<tables, count, mine>>
    BY <1>1 DEF Hash!Recycle
  <1>3. HashTypeOK /\ HashCallOK(t)
    BY DEF HashInv
  <1>4. SeekOK(t)
    BY <1>2, <1>3, HashCallIs
  <1>5. p \in 1..Len(inactive)
    BY <1>1, <1>2, <1>4 DEF SeekOK
  <1>6. /\ inactive' \in Seq(BOOLEAN) /\ Len(inactive') = Len(inactive) /\ ~inactive'[p]
        /\ \A q \in 1..Len(inactive) : q # p => inactive'[q] = inactive[q]
    BY <1>2, <1>3, <1>5 DEF HashTypeOK
  <1>7. CASE inactive[p]
    <2>1. ASSUME NEW u \in HashThreads \ {t}, Held(u) # 0
          PROVE  inactive'[Held(u)] = inactive[Held(u)] /\ Held(u) # p
      <3>1. Held(u) \in 1..Len(inactive) /\ ~inactive[Held(u)]
        BY <2>1 DEF HashInv, HeldOK
      <3> QED
        BY <1>6, <1>7, <3>1
    <2>2. p \in Nat /\ p # 0 /\ p \in 1..Len(inactive') /\ Len(inactive) <= Len(inactive')
      BY <1>3, <1>5, <1>6 DEF HashTypeOK
    <2> QED
      BY <1>2, <1>4, <1>6, <1>7, <2>1, <2>2, GotProducerKeeps
  <1>8. CASE ~inactive[p]
    <2>1. inactive' = inactive
      BY <1>2, <1>3, <1>5, <1>8 DEF HashTypeOK
    <2>2. /\ DOMAIN hashCall' = HashThreads
          /\ hashCall'[t] = [hashCall[t] EXCEPT !.at = @ - 1]
          /\ \A u \in HashThreads \ {t} : hashCall'[u] = hashCall[u]
      BY <1>2, <1>3, <1>8 DEF HashTypeOK
    <2>3. hashCall[t] \in Recycles
      BY <1>2, <1>4 DEF SeekOK, Counting, Resizes
    <2>4. /\ hashCall'[t] \in Recycles /\ hashCall'[t].main = hashCall[t].main
          /\ hashCall'[t].at = p - 1
      BY <1>1, <1>5, <2>2, <2>3 DEF Recycles
    <2>5. hashCall'[t].main \in 1..Len(tables) /\ hashCall'[t].at \in 0..Len(inactive)
      BY <1>4, <1>5, <2>4 DEF SeekOK
    <2>6. count' \in Int
      BY <1>2, <1>3 DEF HashTypeOK
    <2> QED
      BY <1>2, <1>4, <2>1, <2>2, <2>4, <2>5, <2>6, SeekMoves
  <1> QED
    BY <1>7, <1>8

(* Or a producer is added to the list. *)
LEMMA AddProducerKeeps ==
  ASSUME HashInv, NEW t \in HashThreads, Hash!AddProducer(t)
  PROVE  HashInv'
  <1>1. /\ hashCall[t].step = "recycle" /\ inactive' = Append(inactive, FALSE)
        /\ Hash!GotProducer(t, Len(inactive'))
        /\ UNCHANGED <<tables, count, mine>>
    BY DEF Hash!AddProducer
  <1>2. HashTypeOK /\ HashCallOK(t)
    BY DEF HashInv
  <1>3. SeekOK(t)
    BY <1>1, <1>2, HashCallIs
  <1>4. PICK n \in Nat : n = Len(inactive)
    BY <1>2 DEF HashTypeOK
  <1>5. /\ inactive' \in Seq(BOOLEAN) /\ Len(inactive') = n + 1 /\ ~inactive'[n + 1]
        /\ \A q \in 1..n : inactive'[q] = inactive[q]
    BY <1>1, <1>2, <1>4 DEF HashTypeOK
  <1>6. PICK p \in Nat : p = n + 1
    OBVIOUS
  <1>7. ASSUME NEW u \in HashThreads \ {t}, Held(u) # 0
        PROVE  inactive'[Held(u)] = inactive[Held(u)] /\ Held(u) # p
    <2>1. Held(u) \in 1..n
      BY <1>4, <1>7 DEF HashInv, HeldOK
    <2> QED
      BY <1>5, <1>6, <2>1
  <1>8. /\ Hash!GotProducer(t, p) /\ p # 0 /\ p \in 1..Len(inactive') /\ ~inactive'[p]
        /\ Len(inactive) <= Len(inactive')
    BY <1>1, <1>4, <1>5, <1>6
  <1> QED
    BY <1>1, <1>3, <1>5, <1>7, <1>8, GotProducerKeeps

(* Numbers doubled again and again are numbers. *)
Doubles(f, n, c) == f = [k \in 0..n |-> IF k = 0 THEN 2 * c ELSE 2 * f[k - 1]]

(* There is such a function. *)
LEMMA Doubling ==
  ASSUME NEW n \in Nat, NEW c \in Nat \ {0}
  PROVE  \E f : Doubles(f, n, c)
  <1> DEFINE Good(f, m) == /\ f = [k \in 0..m |-> IF k = 0 THEN 2 * c ELSE 2 * f[k - 1]]
                           /\ \A k \in 0..m : f[k] \in Nat \ {0}
             Bad == {m \in Nat : ~\E f : Good(f, m)}
  <1>1. ASSUME Bad # {} PROVE FALSE
    <2>1. PICK m \in Bad : \A b \in Bad : m <= b
      <3>1. Bad \in SUBSET Nat
        OBVIOUS
      <3> HIDE DEF Bad
      <3> QED
        BY <1>1, <3>1, LeastNumber
    <2>2. CASE m = 0
      <3>1. PICK f : f = [k \in 0..0 |-> 2 * c]
        OBVIOUS
      <3>2. Good(f, 0)
        BY <3>1
      <3> QED
        BY <2>2, <3>2
    <2>3. CASE m # 0
      <3>0. m \in Nat
        OBVIOUS
      <3>1. m - 1 \in Nat /\ m - 1 \notin Bad /\ m \in Nat
        <4> HIDE DEF Bad
        <4> QED
          BY <2>1, <2>3, <3>0
      <3>2. PICK f : Good(f, m - 1)
        BY <3>1
      <3>3. PICK g : g = [k \in 0..m |-> IF k = m THEN 2 * f[m - 1] ELSE f[k]]
        OBVIOUS
      <3>4. f[m - 1] \in Nat \ {0} /\ \A k \in 0..(m - 1) : f[k] \in Nat \ {0} /\ g[k] = f[k]
        <4>1. \A k \in 0..(m - 1) : f[k] \in Nat \ {0}
          BY <3>2
        <4> HIDE DEF Good, Bad
        <4>2. m - 1 \in 0..(m - 1) /\ \A k \in 0..(m - 1) : k \in 0..m /\ k # m
          BY <3>1
        <4>3. \A k \in 0..(m - 1) : g[k] = f[k]
          BY <3>3, <4>2
        <4> QED
          BY <4>1, <4>2, <4>3
      <3>5. g[m] = 2 * f[m - 1] /\ g[m] \in Nat \ {0}
        BY <3>1, <3>3, <3>4
      <3>6. \A k \in 0..m : g[k] \in Nat \ {0}
        BY <3>1, <3>4, <3>5
      <3>7. ASSUME NEW k \in 0..m PROVE g[k] = IF k = 0 THEN 2 * c ELSE 2 * g[k - 1]
        <4>1. CASE k = m
          BY <2>3, <3>1, <3>4, <3>5, <4>1
        <4>2. CASE k # m /\ k = 0
          <5>1. f[k] = 2 * c /\ k \in 0..(m - 1)
            BY <3>1, <3>2, <4>2
          <5> QED
            BY <3>4, <4>2, <5>1
        <4>3. CASE k # m /\ k # 0
          <5>1. k \in 0..(m - 1) /\ k - 1 \in 0..(m - 1)
            BY <3>1, <4>3
          <5>2. f[k] = 2 * f[k - 1]
            BY <3>2, <4>3, <5>1
          <5> QED
            BY <3>4, <4>3, <5>1, <5>2
        <4> QED
          BY <4>1, <4>2, <4>3
      <3>8. g = [k \in 0..m |-> IF k = 0 THEN 2 * c ELSE 2 * g[k - 1]]
        BY <3>3, <3>7
      <3>9. Good(g, m)
        BY <3>6, <3>8
      <3> QED
        BY <2>1, <3>9
    <2> QED
      BY <2>2, <2>3
  <1>2. \E f : Good(f, n)
    BY <1>1
  <1> QED
    BY <1>2 DEF Doubles

(* And so is whatever doubles them. *)
LEMMA Doubled ==
  ASSUME NEW n \in Nat, NEW c \in Nat \ {0}, NEW f, Doubles(f, n, c)
  PROVE  \A k \in 0..n : f[k] \in Nat \ {0}
  <1> DEFINE Bad == {k \in 0..n : f[k] \notin Nat \ {0}}
  <1>1. ASSUME Bad # {} PROVE FALSE
    <2>1. PICK m \in Bad : \A b \in Bad : m <= b
      <3>1. Bad \in SUBSET Nat
        OBVIOUS
      <3> HIDE DEF Bad
      <3> QED
        BY <1>1, <3>1, LeastNumber
    <2>2. m \in 0..n /\ f[m] \notin Nat \ {0}
      OBVIOUS
    <2>3. f[m] = IF m = 0 THEN 2 * c ELSE 2 * f[m - 1]
      BY <2>2 DEF Doubles
    <2>4. m # 0
      BY <2>2, <2>3
    <2>5. m - 1 \in 0..n /\ m - 1 \notin Bad
      <3> HIDE DEF Bad
      <3> QED
        BY <2>1, <2>2, <2>4
    <2>6. f[m - 1] \in Nat \ {0}
      BY <2>5
    <2> QED
      BY <2>2, <2>3, <2>4, <2>6
  <1> QED
    BY <1>1

(* A table more has no thread. *)
LEMMA TableIsAdded ==
  ASSUME HashTypeOK, NEW n \in Nat \ {0}, tables' = Append(tables, Hash!NewTable(n)),
         NEW u \in HashThreads
  PROVE  /\ tables' \in Seq(AnyTable) /\ Len(tables') = Len(tables) + 1
         /\ SameFor(u)
  <1>1. Hash!NewTable(n) \in Sized(n)
    BY DEF Hash!NewTable, Hash!Null, Sized, HashKeys
  <1>2. PICK new \in AnyTable : new = Hash!NewTable(n)
    BY <1>1 DEF AnyTable
  <1>3. PICK l \in Nat : l = Len(tables)
    BY DEF HashTypeOK
  <1>4. /\ tables' \in Seq(AnyTable) /\ Len(tables') = l + 1
        /\ \A h \in 1..l : tables'[h] = tables[h]
        /\ tables'[l + 1] = new
    BY <1>2, <1>3 DEF HashTypeOK
  <1>5. \A h \in 1..l : Hash!SlotsOf(u, h)' = Hash!SlotsOf(u, h)
    BY <1>4 DEF Hash!SlotsOf
  <1>6. Hash!SlotsOf(u, l + 1)' = {}
    <2>1. \A k \in DOMAIN new.key : new.key[k] = Hash!Empty
      BY <1>2 DEF Hash!NewTable
    <2> QED
      BY <1>4, <2>1, HashConstants DEF Hash!SlotsOf
  <1>7. SameFor(u)
    <2>1. \A h \in 1..Len(tables') : h > l => h = l + 1
      BY <1>4
    <2> QED
      BY <1>3, <1>4, <1>5, <1>6, <2>1 DEF SameFor
  <1> QED
    BY <1>3, <1>4, <1>7

(* The table is replaced by a larger one, or has become large enough. *)
LEMMA ResizeKeeps ==
  ASSUME HashInv, NEW t \in HashThreads, Hash!Resize(t)
  PROVE  HashInv'
  <1>1. PICK n : n = hashCall[t].newCount
    OBVIOUS
  <1>2. HashTypeOK /\ HashCallOK(t) /\ hashCall[t].step = "resize"
    BY DEF HashInv, Hash!Resize
  <1>3. SeekOK(t)
    BY <1>2, HashCallIs
  <1>4. n \in Int
    BY <1>1, <1>2, <1>3 DEF SeekOK, Counting, Recycles, Resizes
  <1>5. PICK c \in Nat \ {0} : c = Hash!Capacity(Len(tables))
    <2>1. Len(tables) \in 1..Len(tables)
      BY <1>2 DEF HashTypeOK
    <2> QED
      BY <1>2, <2>1, TableIs
  <1>6. /\ UNCHANGED <<count, inactive, mine>>
        /\ Hash!Calls(t, [step |-> "clear", main |-> Len(tables'), newCount |-> n])
        /\ UNCHANGED tables \/ \E k \in Nat \ {0} : tables' = Append(tables, Hash!NewTable(k))
    <2> DEFINE doubled[k \in 0..n] == IF k = 0 THEN 2 * c ELSE 2 * doubled[k - 1]
    <2>1. /\ UNCHANGED <<count, inactive, mine>>
          /\ Hash!Calls(t, [step |-> "clear", main |-> Len(tables'), newCount |-> n])
          /\ \/ UNCHANGED tables
             \/ \E k \in 0..n : tables' = Append(tables, Hash!NewTable(doubled[k]))
      BY <1>1, <1>5 DEF Hash!Resize, Hash!Current
    <2>2. ASSUME NEW k \in 0..n PROVE doubled[k] \in Nat \ {0}
      <3>1. n \in Nat
        BY <1>4
      <3>2. \E f : Doubles(f, n, c)
        BY <3>1, Doubling
      <3>3. Doubles(doubled, n, c)
        BY <3>2 DEF Doubles
      <3> HIDE DEF doubled
      <3> QED
        BY <3>1, <3>3, Doubled
    <2> HIDE DEF doubled
    <2> QED
      BY <2>1, <2>2
  <1>7. CASE UNCHANGED tables
    <2>1. PICK m \in 1..Len(tables) : m = Len(tables')
      BY <1>2, <1>7 DEF HashTypeOK
    <2>2. Hash!Calls(t, [step |-> "clear", main |-> m, newCount |-> n])
      BY <1>6, <2>1
    <2>3. /\ DOMAIN hashCall' = HashThreads
          /\ hashCall'[t] = [step |-> "clear", main |-> m, newCount |-> n]
          /\ \A u \in HashThreads \ {t} : hashCall'[u] = hashCall[u]
      BY <1>2, <2>2, HashCalls
    <2>4. hashCall'[t] \in Resizes /\ hashCall'[t].main = m /\ hashCall'[t].step = "clear"
      BY <1>2, <1>4, <2>3 DEF Resizes, HashTypeOK
    <2>5. count' \in Int
      BY <1>2, <1>6 DEF HashTypeOK
    <2> QED
      BY <1>3, <1>6, <1>7, <2>3, <2>4, <2>5, SeekMoves
  <1>8. ASSUME NEW k \in Nat \ {0}, tables' = Append(tables, Hash!NewTable(k)) PROVE HashInv'
    <2>1. /\ tables' \in Seq(AnyTable) /\ Len(tables') = Len(tables) + 1
          /\ \A u \in HashThreads : SameFor(u)
      BY <1>2, <1>8, TableIsAdded
    <2>2. PICK l \in Nat : l = Len(tables)
      BY <1>2 DEF HashTypeOK
    <2>3. PICK m \in Nat : m = l + 1
      OBVIOUS
    <2>4. Hash!Calls(t, [step |-> "clear", main |-> m, newCount |-> n]) /\ Len(tables') = m
      BY <1>6, <2>1, <2>2, <2>3
    <2>5. /\ DOMAIN hashCall' = HashThreads
          /\ hashCall'[t] = [step |-> "clear", main |-> m, newCount |-> n]
          /\ \A u \in HashThreads \ {t} : hashCall'[u] = hashCall[u] /\ mine'[u] = mine[u]
      BY <1>2, <1>6, <2>4, HashCalls
    <2>6. hashCall'[t] \in Resizes /\ hashCall'[t].main = m /\ hashCall'[t].step = "clear"
      BY <1>4, <2>5 DEF Resizes
    <2>7. HashTypeOK'
      BY <1>2, <1>6, <2>1, <2>3, <2>2, <2>5 DEF HashTypeOK
    <2>8. (Absent(t)' <=> Absent(t)) /\ \A p : SlotsHold(t, p) => SlotsHold(t, p)'
      BY <1>2, <2>1, <2>7, SameForIs DEF HashTypeOK
    <2>9. mine[t] = 0 /\ Absent(t) /\ HeldOK(t) /\ Held(t) = 0
      BY <1>2, <1>3 DEF SeekOK, HashInv, Held
    <2>10. m \in 1..Len(tables')
      BY <2>3, <2>4
    <2>11. HashCallOK(t)'
      BY <1>6, <2>6, <2>8, <2>9, <2>10 DEF HashCallOK, SeekOK
    <2>12. Held(t)' = 0
      BY <1>6, <2>6, <2>9 DEF Held
    <2>13. HeldOK(t)'
      BY <2>8, <2>9, <2>12 DEF HeldOK
    <2>14. ASSUME NEW u \in HashThreads \ {t}
           PROVE  /\ SameFor(u) /\ hashCall'[u] = hashCall[u] /\ mine'[u] = mine[u]
                  /\ Held(u) # 0 => inactive'[Held(u)] = inactive[Held(u)] /\ Held(t)' # Held(u)
      BY <1>6, <2>1, <2>5, <2>12
    <2>15. Len(inactive) <= Len(inactive')
      BY <1>2, <1>6 DEF HashTypeOK
    <2> QED
      BY <2>7, <2>11, <2>13, <2>14, <2>15, OneThreadMoves
  <1> QED
    BY <1>6, <1>7, <1>8

(* A thread that exits leaves the tables one by one. *)
LEMMA ExitKeeps ==
  ASSUME HashInv, NEW t \in HashThreads, Hash!Exit(t)
  PROVE  HashInv'
  <1>1. /\ hashCall[t].step = "idle" /\ mine[t] # 0
        /\ Hash!Calls(t, [step |-> "leave", table |-> Len(tables)])
        /\ UNCHANGED <<tables, count, inactive, mine>>
    BY DEF Hash!Exit, Hash!Null, Hash!Current
  <1>2. HashTypeOK
    BY DEF HashInv
  <1>3. PICK n \in 1..Len(tables) : n = Len(tables)
    BY <1>2 DEF HashTypeOK
  <1>4. /\ DOMAIN hashCall' = HashThreads
        /\ hashCall'[t] = [step |-> "leave", table |-> n]
        /\ \A u \in HashThreads \ {t} : hashCall'[u] = hashCall[u] /\ mine'[u] = mine[u]
    BY <1>1, <1>2, <1>3, HashCalls
  <1>5. hashCall'[t] \in Leaves /\ hashCall'[t].table = n
    BY <1>2, <1>4 DEF Leaves, HashTypeOK
  <1>6. LeaveOK(t)'
    <2>1. \A h \in 1..Len(tables') : ~(h > n)
      BY <1>1, <1>3
    <2> QED
      BY <1>1, <1>5, <2>1 DEF LeaveOK
  <1>7. Held(t)' = Held(t)
    BY <1>1 DEF Held
  <1>8. count' \in Int /\ mine' \in [HashThreads -> Nat]
    BY <1>1, <1>2 DEF HashTypeOK
  <1> QED
    BY <1>1, <1>4, <1>6, <1>7, <1>8, OnlyCallMoves DEF HashCallOK

(* A table is left. *)
LEMMA LeaveIs ==
  ASSUME HashTypeOK, NEW t \in HashThreads, NEW m \in 1..Len(tables),
         tables' = [tables EXCEPT ![m].key =
                      [k \in DOMAIN @ |-> IF @[k] = t THEN Hash!Reusable ELSE @[k]]]
  PROVE  /\ tables' \in Seq(AnyTable) /\ Len(tables') = Len(tables)
         /\ \A u \in HashThreads \ {t} : SameFor(u)
         /\ Hash!SlotsOf(t, m)' = {}
         /\ \A h \in 1..Len(tables) : h # m => tables'[h] = tables[h]
  <1>1. PICK key : key = [k \in DOMAIN tables[m].key |->
                            IF tables[m].key[k] = t THEN Hash!Reusable ELSE tables[m].key[k]]
    OBVIOUS
  <1>2. PICK left : left = [tables[m] EXCEPT !.key = key]
    OBVIOUS
  <1>3. tables' = [tables EXCEPT ![m] = left]
    BY <1>1, <1>2
  <1>4. PICK n \in Nat \ {0} : tables[m] \in Sized(n) /\ DOMAIN tables[m].key = 0..(n - 1)
    BY TableIs
  <1>5. left \in Sized(n)
    <2>1. key \in [0..(n - 1) -> HashKeys]
      BY <1>1, <1>4 DEF HashKeys, Sized
    <2> QED
      BY <1>2, <1>4, <2>1 DEF Sized
  <1>6. left.key = key /\ left.value = tables[m].value
    BY <1>2, <1>4 DEF Sized
  <1>7. /\ tables' \in Seq(AnyTable) /\ Len(tables') = Len(tables) /\ tables'[m] = left
        /\ \A h \in 1..Len(tables) : h # m => tables'[h] = tables[h]
    <2>1. left \in AnyTable
      BY <1>5 DEF AnyTable
    <2> QED
      BY <1>3, <2>1, OneTable
  <1>8. Hash!Reusable \notin HashThreads
    BY HashConstants
  <1>9. Hash!SlotsOf(t, m)' = {}
    BY <1>1, <1>6, <1>7, <1>8 DEF Hash!SlotsOf
  <1>10. ASSUME NEW u \in HashThreads \ {t} PROVE SameFor(u)
    <2>1. ASSUME NEW h \in 1..Len(tables)
          PROVE  /\ Hash!SlotsOf(u, h)' = Hash!SlotsOf(u, h)
                 /\ \A k \in Hash!SlotsOf(u, h) : tables'[h].value[k] = tables[h].value[k]
      <3>1. CASE h # m
        BY <1>7, <3>1 DEF Hash!SlotsOf
      <3>2. CASE h = m
        <4>1. \A k \in DOMAIN tables[m].key : key[k] = u <=> tables[m].key[k] = u
          BY <1>1, <1>8
        <4>2. DOMAIN key = DOMAIN tables[m].key
          BY <1>1
        <4> QED
          BY <1>6, <1>7, <3>2, <4>1, <4>2 DEF Hash!SlotsOf
      <3> QED
        BY <3>1, <3>2
    <2>2. Len(tables) <= Len(tables') /\ \A h \in 1..Len(tables') : ~(h > Len(tables))
      BY <1>7 DEF HashTypeOK
    <2> QED
      BY <2>1, <2>2 DEF SameFor
  <1> QED
    BY <1>7, <1>9, <1>10

(* The thread goes on to the table before, or is in none. *)
LEMMA LeaveKeeps ==
  ASSUME HashInv, NEW t \in HashThreads, Hash!Leave(t)
  PROVE  HashInv'
  <1>1. HashTypeOK /\ HashCallOK(t) /\ HeldOK(t) /\ hashCall[t].step = "leave"
    BY DEF HashInv, Hash!Leave
  <1>2. LeaveOK(t)
    BY <1>1, HashCallIs
  <1>3. PICK m \in 1..Len(tables) : m = hashCall[t].table
    BY <1>2 DEF LeaveOK
  <1>4. /\ tables' = [tables EXCEPT ![m].key =
                         [k \in DOMAIN @ |-> IF @[k] = t THEN Hash!Reusable ELSE @[k]]]
        /\ Hash!Calls(t, IF m = 1 THEN [step |-> "recyclable"]
                         ELSE [step |-> "leave", table |-> m - 1])
        /\ UNCHANGED <<count, inactive, mine>>
    BY <1>3 DEF Hash!Leave
  <1>5. /\ tables' \in Seq(AnyTable) /\ Len(tables') = Len(tables)
        /\ \A u \in HashThreads \ {t} : SameFor(u)
        /\ Hash!SlotsOf(t, m)' = {}
        /\ \A h \in 1..Len(tables) : h # m => tables'[h] = tables[h]
    BY <1>1, <1>4, LeaveIs
  <1>6. \A h \in 1..Len(tables) : h # m => Hash!SlotsOf(t, h)' = Hash!SlotsOf(t, h)
    BY <1>5 DEF Hash!SlotsOf
  <1>7. \A h \in 1..Len(tables') : h >= m => Hash!SlotsOf(t, h)' = {}
    <2> SUFFICES ASSUME NEW h \in 1..Len(tables'), h >= m PROVE Hash!SlotsOf(t, h)' = {}
      OBVIOUS
    <2>1. CASE h = m
      BY <1>5, <2>1
    <2>2. CASE h # m
      <3>1. h \in 1..Len(tables) /\ h > m
        BY <1>5, <2>2
      <3>2. Hash!SlotsOf(t, h) = {}
        BY <1>2, <1>3, <3>1 DEF LeaveOK
      <3> QED
        BY <1>6, <2>2, <3>1, <3>2
    <2> QED
      BY <2>1, <2>2
  <1>8. PICK r : r = IF m = 1 THEN [step |-> "recyclable"] ELSE [step |-> "leave", table |-> m - 1]
    OBVIOUS
  <1>9. /\ DOMAIN hashCall' = HashThreads /\ hashCall'[t] = r
        /\ \A u \in HashThreads \ {t} : hashCall'[u] = hashCall[u] /\ mine'[u] = mine[u]
    BY <1>1, <1>4, <1>8, HashCalls
  <1>10. mine'[t] = mine[t] /\ mine[t] # 0
    BY <1>2, <1>4 DEF LeaveOK
  <1>11. HashCallOK(t)'
    <2>1. CASE m = 1
      <3>1. Absent(t)'
        BY <1>7, <2>1 DEF Absent
      <3> QED
        BY <1>8, <1>9, <1>10, <2>1, <3>1 DEF HashCallOK, RecyclableOK
    <2>2. CASE m # 1
      <3>1. PICK q \in 1..Len(tables) : q = m - 1
        BY <1>1, <2>2 DEF HashTypeOK
      <3>2. hashCall'[t] = [step |-> "leave", table |-> q]
        BY <1>8, <1>9, <2>2, <3>1
      <3>3. hashCall'[t] \in Leaves /\ hashCall'[t].table = q
        BY <1>1, <3>2 DEF Leaves, HashTypeOK
      <3>4. \A h \in 1..Len(tables') : h > q => Hash!SlotsOf(t, h)' = {}
        BY <1>1, <1>7, <3>1 DEF HashTypeOK
      <3> QED
        BY <1>5, <1>10, <3>3, <3>4 DEF HashCallOK, LeaveOK
    <2> QED
      BY <2>1, <2>2
  <1>12. HashTypeOK'
    BY <1>1, <1>4, <1>5, <1>9 DEF HashTypeOK
  <1>13. Held(t)' = Held(t) /\ Held(t) = mine[t]
    BY <1>10 DEF Held
  <1>14. HeldOK(t)'
    <2>1. SlotsHold(t, Held(t))'
      <3> SUFFICES ASSUME NEW h \in 1..Len(tables'), NEW k \in Hash!SlotsOf(t, h)'
                   PROVE  tables'[h].value[k] = Held(t)
        BY <1>13 DEF SlotsHold
      <3>1. h \in 1..Len(tables) /\ h # m
        BY <1>5
      <3>2. k \in Hash!SlotsOf(t, h) /\ tables'[h] = tables[h]
        BY <1>5, <1>6, <3>1
      <3> QED
        BY <1>1, <3>1, <3>2 DEF HeldOK, SlotsHold
    <2> QED
      BY <1>1, <1>4, <1>13, <2>1 DEF HeldOK
  <1>15. ASSUME NEW u \in HashThreads \ {t}
         PROVE  /\ SameFor(u) /\ hashCall'[u] = hashCall[u] /\ mine'[u] = mine[u]
                /\ Held(u) # 0 => inactive'[Held(u)] = inactive[Held(u)] /\ Held(t)' # Held(u)
    BY <1>4, <1>5, <1>9, <1>10, <1>13 DEF HashInv
  <1>16. Len(inactive) <= Len(inactive')
    BY <1>1, <1>4 DEF HashTypeOK
  <1> QED
    BY <1>11, <1>12, <1>14, <1>15, <1>16, OneThreadMoves

(* Its producer may be taken by another thread. *)
LEMMA MakeRecyclableKeeps ==
  ASSUME HashInv, NEW t \in HashThreads, Hash!MakeRecyclable(t)
  PROVE  HashInv'
  <1>1. /\ hashCall[t].step = "recyclable"
        /\ inactive' = [inactive EXCEPT ![mine[t]] = TRUE]
        /\ Hash!Returns(t, 0) /\ UNCHANGED <<tables, count>>
    BY DEF Hash!MakeRecyclable, Hash!Null
  <1>2. HashTypeOK /\ HashCallOK(t) /\ HeldOK(t)
    BY DEF HashInv
  <1>3. RecyclableOK(t)
    BY <1>1, <1>2, HashCallIs
  <1>4. PICK p : p = mine[t]
    OBVIOUS
  <1>5. p # 0 /\ Held(t) = p /\ p \in 1..Len(inactive)
    BY <1>2, <1>3, <1>4 DEF RecyclableOK, Held, HeldOK
  <1>6. /\ inactive' \in Seq(BOOLEAN) /\ Len(inactive') = Len(inactive)
        /\ \A q \in 1..Len(inactive) : q # p => inactive'[q] = inactive[q]
    BY <1>1, <1>2, <1>4, <1>5 DEF HashTypeOK
  <1>7. /\ DOMAIN hashCall' = HashThreads /\ hashCall'[t] = Hash!Idle
        /\ mine' \in [HashThreads -> Nat] /\ mine'[t] = 0
        /\ \A u \in HashThreads \ {t} : hashCall'[u] = hashCall[u] /\ mine'[u] = mine[u]
    BY <1>1, <1>2, HashReturns
  <1>8. Absent(t)'
    BY <1>1, <1>3, TablesStay DEF RecyclableOK
  <1>9. HashCallOK(t)' /\ Held(t)' = 0
    BY <1>7, <1>8 DEF HashCallOK, IdleOK, Held, Hash!Idle
  <1>10. HeldOK(t)'
    BY <1>8, <1>9 DEF HeldOK, SlotsHold, Absent
  <1>11. HashTypeOK'
    BY <1>1, <1>2, <1>6, <1>7 DEF HashTypeOK
  <1>12. ASSUME NEW u \in HashThreads \ {t}
         PROVE  /\ SameFor(u) /\ hashCall'[u] = hashCall[u] /\ mine'[u] = mine[u]
                /\ Held(u) # 0 => inactive'[Held(u)] = inactive[Held(u)] /\ Held(t)' # Held(u)
    <2>1. SameFor(u)
      BY <1>1, TablesStay
    <2>2. Held(u) # 0 => Held(u) \in 1..Len(inactive) /\ Held(u) # p
      BY <1>5 DEF HashInv, HeldOK
    <2> QED
      BY <1>6, <1>7, <1>9, <2>1, <2>2
  <1>13. Len(inactive) <= Len(inactive')
    BY <1>2, <1>6 DEF HashTypeOK
  <1> QED
    BY <1>9, <1>10, <1>11, <1>12, <1>13, OneThreadMoves

(* Every step keeps the invariant. *)
LEMMA HashStep == HashInv /\ [Hash!Next]_hashVars => HashInv'
  <1> SUFFICES ASSUME HashInv, [Hash!Next]_hashVars PROVE HashInv'
    OBVIOUS
  <1>1. ASSUME NEW t \in HashThreads,
               \/ Hash!GetOrAdd(t) \/ Hash!AddAgain(t) \/ Hash!CountUp(t) \/ Hash!TryResize(t)
               \/ Hash!Resize(t) \/ Hash!ClearFlag(t) \/ Hash!UseOrWait(t) \/ Hash!Recycle(t)
               \/ Hash!AddProducer(t) \/ Hash!NoMemory(t) \/ Hash!Insert(t) \/ Hash!Uncount(t)
               \/ Hash!Exit(t) \/ Hash!Leave(t) \/ Hash!MakeRecyclable(t)
        PROVE  HashInv'
    BY <1>1, GetOrAddKeeps, AddAgainKeeps, CountUpKeeps, TryResizeKeeps, ResizeKeeps,
       ClearFlagKeeps, UseOrWaitKeeps, RecycleKeeps, AddProducerKeeps, NoMemoryKeeps,
       InsertKeeps, UncountKeeps, ExitKeeps, LeaveKeeps, MakeRecyclableKeeps
  <1>2. CASE UNCHANGED hashVars
    <2>1. UNCHANGED <<tables, count, inactive, hashCall, mine>>
      BY <1>2 DEF hashVars
    <2>2. HashTypeOK'
      BY <2>1 DEF HashInv, HashTypeOK
    <2>3. ASSUME NEW u \in HashThreads PROVE HashCallOK(u)' /\ HeldOK(u)' /\ Held(u)' = Held(u)
      <3>1. HashTypeOK /\ HashCallOK(u) /\ HeldOK(u) /\ SameFor(u)
        BY <2>1, TablesStay DEF HashInv
      <3>2. Len(inactive) <= Len(inactive')
        BY <2>1, <3>1 DEF HashTypeOK
      <3> QED
        BY <2>1, <2>2, <3>1, <3>2, OtherThread
    <2> QED
      BY <2>2, <2>3 DEF HashInv
  <1> QED
    BY <1>1, <1>2 DEF Hash!Next

(* A thread between its calls has one producer of its own, and is in a table *)
(* if it has one.                                                            *)
LEMMA HashInvImplies == HashInv => Hash!ProducerOfItsThread
  <1> SUFFICES ASSUME HashInv PROVE Hash!ProducerOfItsThread
    OBVIOUS
  <1>1. ASSUME NEW t \in HashThreads, hashCall[t].step = "idle"
        PROVE  \A h \in 1..Len(tables) : \A k \in Hash!SlotsOf(t, h) :
                 tables[h].value[k] = mine[t]
    <2>1. Held(t) = mine[t]
      BY <1>1 DEF Held
    <2> QED
      BY <2>1 DEF HashInv, HeldOK, SlotsHold
  <1>2. ASSUME NEW t \in HashThreads, mine[t] # 0
        PROVE  /\ ~inactive[mine[t]]
               /\ hashCall[t].step = "idle" => \E h \in 1..Len(tables) : Hash!SlotsOf(t, h) # {}
               /\ \A u \in HashThreads \ {t} : mine[u] # mine[t]
    <2>1. Held(t) = mine[t]
      BY <1>2 DEF Held
    <2>2. ~inactive[mine[t]]
      BY <1>2, <2>1 DEF HashInv, HeldOK
    <2>3. ASSUME hashCall[t].step = "idle"
          PROVE  \E h \in 1..Len(tables) : Hash!SlotsOf(t, h) # {}
      <3>1. IdleOK(t)
        BY <2>3, HashCallIs DEF HashInv
      <3> QED
        BY <1>2, <3>1 DEF IdleOK, Absent
    <2>4. ASSUME NEW u \in HashThreads \ {t} PROVE mine[u] # mine[t]
      <3>1. mine[u] # 0 => Held(u) = mine[u]
        BY DEF Held
      <3> QED
        BY <1>2, <2>1, <3>1 DEF HashInv
    <2> QED
      BY <2>2, <2>3, <2>4
  <1> QED
    BY <1>1, <1>2 DEF Hash!ProducerOfItsThread, Hash!Null, Hash!Current

(* A thread keeps its own producer as long as it lives, whatever the other   *)
(* threads and the larger tables do, and another thread gets it only when    *)
(* the tables hold nothing of the one that has exited.                       *)
THEOREM ProducersStayWithThreads == MCSpec => []ProducerOfItsThread
  <1>1. MCInit => HashInv
    BY HashRuns, HashInit
  <1>2. HashInv /\ [MCNext]_<<component, mutexVars, listVars, producerVars, implicitVars,
                              explicitVars, hashVars, severalVars, ownerVars>> => HashInv'
    BY HashRuns, HashStep
  <1>3. HashInv => ProducerOfItsThread
    BY HashInvImplies DEF ProducerOfItsThread
  <1> QED
    BY <1>1, <1>2, <1>3, PTL DEF MCSpec
=============================================================================
